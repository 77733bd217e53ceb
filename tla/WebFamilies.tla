------------------------------ MODULE WebFamilies ------------------------------
(***************************************************************************)
(* The families page of a platform administrator (FamiliesPage.tsx): the   *)
(* list, and one family's row with its members.  The row is on the page    *)
(* only while the list is shown: every refetch of the list shows the       *)
(* skeleton, and the row comes back closed, as a new instance.             *)
(*                                                                         *)
(* What the server stores of the list and of the family's members is a     *)
(* revision each.  Others change them too.  The row's list of invites is   *)
(* fetched like its members, and left out.                                 *)
(***************************************************************************)
EXTENDS WebAsync, Integers, FiniteSets

CONSTANTS
    MaxRev,         \* bound: changes of the list
    MaxEdits        \* bound: the user's edits under way at once

VARIABLES
    famDb,          \* the server: revisions, and whether the row's family is there
    fam,            \* the page: the list and the row
    famEdits,       \* the user's edits under way
    famDone         \* history: what the user's answered edits have made of famDb

famVars == <<famDb, fam, famEdits, famDone>>

FamDb0 == [list |-> 0, members |-> 0, there |-> TRUE]
NoFamRow == [open |-> FALSE, busy |-> FALSE, members |-> NoAsync]
NoFamPage == [mounted |-> FALSE, list |-> NoAsync, row |-> NoFamRow]

FamInit == famDb = FamDb0 /\ fam = NoFamPage /\ famEdits = {} /\ famDone = FamDb0

FamList == [rev |-> famDb.list, has |-> famDb.there]
RowIsThere == SettledAsync(fam.list) /\ \E l \in fam.list.data : l.has

-----------------------------------------------------------------------------
(* The page is opened once the answers to the last one have come in.       *)

MountFamilies ==
    /\ ~fam.mounted /\ famEdits = {}
    /\ fam' = [NoFamPage EXCEPT !.mounted = TRUE, !.list = NewAsync]
    /\ famDb' = FamDb0 /\ famDone' = FamDb0
    /\ UNCHANGED famEdits

UnmountFamilies ==
    /\ fam.mounted
    /\ fam' = NoFamPage /\ famEdits' = {} /\ famDb' = FamDb0 /\ famDone' = FamDb0

(* Every change of the list takes the row off the page or puts it back: it *)
(* is a new instance, and no edit is its own.                              *)
Disowned(edits) == {[e EXCEPT !.own = FALSE] : e \in edits}

(* families.refetch.                                                       *)
WithListRefetched(p) ==
    [p EXCEPT !.list = Refetched(@, FamList), !.row = NoFamRow]

FamilyListStep ==
    /\ \E a \in AsyncSteps(fam.list, FamList) :
          fam' = [fam EXCEPT !.list = a]
    /\ UNCHANGED <<famDb, famEdits, famDone>>

RefreshFamilies ==
    /\ fam.mounted /\ ~fam.list.loading
    /\ fam' = WithListRefetched(fam)
    /\ famEdits' = Disowned(famEdits)
    /\ UNCHANGED <<famDb, famDone>>

-----------------------------------------------------------------------------
(* The row: opened, closed, its members.                                   *)

(* The query of a closed row is answered at once, with nothing.            *)
ClosedAsync(a, now) == [NoAsync EXCEPT !.old = Cancelled(a, now).old]

ToggleRow ==
    /\ RowIsThere
    /\ fam' = [fam EXCEPT !.row =
          [open |-> ~@.open, busy |-> @.busy,
           members |-> IF @.open THEN ClosedAsync(@.members, famDb.members)
                       ELSE Refetched(@.members, famDb.members)]]
    /\ UNCHANGED <<famDb, famEdits, famDone>>

RowStep ==
    /\ \/ \E a \in AsyncSteps(fam.row.members, famDb.members) :
             fam' = [fam EXCEPT !.row.members = a]
       \/ /\ fam.row.members.failed                                  \* onRetry
          /\ fam' = [fam EXCEPT !.row.members = Refetched(@, famDb.members)]
    /\ UNCHANGED <<famDb, famEdits, famDone>>

-----------------------------------------------------------------------------
(* The edits: what starts one, what it does, what its answer does.  The    *)
(* button of an invite looks at `busy`; Delete does not, and Enter does    *)
(* what Create and Save do without it.  The forms, the code and the errors *)
(* that are shown are left out.                                            *)

Begins(kind) ==
    /\ Cardinality(famEdits) < MaxEdits
    /\ famEdits' = famEdits \cup {[kind |-> kind, own |-> TRUE, stage |-> "sent"]}
    /\ UNCHANGED <<famDb, famDone>>

SubmitNew ==                                                          \* submitNew
    /\ fam.mounted /\ SettledAsync(fam.list)
    /\ Begins("create")
    /\ UNCHANGED fam

DoInRow ==                                        \* doRename, doDelete, doInvite
    /\ fam.row.open
    /\ \/ Begins("rename")
       \/ Begins("delete")
       \/ ~fam.row.busy /\ Begins("invite")
    /\ fam' = [fam EXCEPT !.row.busy = TRUE]

DoMove ==                                                             \* doMove
    /\ fam.row.open /\ SettledAsync(fam.row.members)
    /\ Begins("move")
    /\ UNCHANGED fam

(* The server: an edit of a family that is gone is refused.                *)
Effect(db, kind) ==
    CASE kind = "create" -> [db EXCEPT !.list = @ + 1]
      [] kind = "rename" -> [db EXCEPT !.list = @ + 1]
      [] kind = "delete" -> [db EXCEPT !.list = @ + 1, !.members = @ + 1, !.there = FALSE]
      [] kind = "invite" -> db
      [] kind = "move" -> [db EXCEPT !.list = @ + 1, !.members = @ + 1]
Takes(db, kind) == (db.there \/ kind = "create") /\ (kind = "invite" \/ db.list < MaxRev)

EditApplied(e) ==
    /\ e.stage = "sent" /\ Takes(famDb, e.kind)
    /\ famDb' = Effect(famDb, e.kind)
    /\ famEdits' = (famEdits \ {e}) \cup {[e EXCEPT !.stage = "applied"]}
    /\ UNCHANGED <<fam, famDone>>

(* Someone else's edit, or someone joins or leaves the family.             *)
OthersEdit ==
    /\ fam.mounted
    /\ \E kind \in {"create", "delete", "move"} :
          Takes(famDb, kind) /\ famDb' = Effect(famDb, kind)
    /\ UNCHANGED <<fam, famEdits, famDone>>

(* Mutant: the members are fetched again, the list with its counts is not. *)
AfterMoveOfMembers(p, own) ==
    IF own THEN [p EXCEPT !.row.members = Refetched(@, famDb.members)] ELSE p

(* onMoved: the list's refetch takes the row off the page.                 *)
AfterMove(p, own) == WithListRefetched(p)

(* What the instance that asked shows, if it is still on the page, and what*)
(* the page does.                                                          *)
Answered(p, edit) ==
    CASE edit.kind \in {"create", "rename", "delete"} -> WithListRefetched(p)
      [] edit.kind = "move" -> AfterMove(p, edit.own)
      [] edit.kind = "invite" ->
            IF edit.own THEN [p EXCEPT !.row.busy = FALSE] ELSE p

(* History: of what is done, the lists read from now on show at least this.*)
Told(edit) == IF edit.kind = "invite" THEN famDone ELSE famDb

EditAnswered(e) ==
    /\ e.stage = "applied"
    /\ fam' = Answered(fam, e)
    /\ famEdits' = IF fam'.list.loading THEN Disowned(famEdits \ {e}) ELSE famEdits \ {e}
    /\ famDone' = Told(e)
    /\ UNCHANGED famDb

(* catch: refused, or the request or its answer is lost.                   *)
EditFails(e) ==
    /\ fam' = IF e.own /\ e.kind \in {"rename", "delete", "invite"}
              THEN [fam EXCEPT !.row.busy = FALSE] ELSE fam
    /\ famEdits' = famEdits \ {e}
    /\ UNCHANGED <<famDb, famDone>>

FamiliesNext ==
    \/ FamilyListStep \/ RefreshFamilies \/ ToggleRow \/ RowStep
    \/ SubmitNew \/ DoInRow \/ DoMove \/ OthersEdit
    \/ \E e \in famEdits : EditApplied(e) \/ EditAnswered(e) \/ EditFails(e)

(* The page opens and is left.                                             *)
FamiliesSpec == FamInit /\ [][FamiliesNext \/ MountFamilies \/ UnmountFamilies]_famVars

-----------------------------------------------------------------------------
(* Whatever overtakes what, a list that is shown and not loading is no     *)
(* older than the user's last edit that was answered, and so are the       *)
(* members of the open row: the user never sees an edit undone             *)
(* (FamiliesPage.tsx:207, 385, 399, 569-572).                              *)
EditsAreShown ==
    /\ SettledAsync(fam.list) => \A l \in fam.list.data : l.rev >= famDone.list
    /\ fam.row.open /\ SettledAsync(fam.row.members)
       => \A r \in fam.row.members.data : r >= famDone.members
=============================================================================
