------------------------------- MODULE WebCircle -------------------------------
(***************************************************************************)
(* The families page of everybody else (FamiliesPage.tsx, MyCirclePage):   *)
(* the user's own circle, its roster, and the card that creates or joins   *)
(* one.  After a change of the user's membership refreshMe puts the App's  *)
(* spinner in the page's place, and the page is mounted anew.              *)
(*                                                                         *)
(* The circle has one other member, and its name is told by the change that*)
(* gave it.  The members' names and invite codes are left out.             *)
(***************************************************************************)
EXTENDS WebAsync, WebApi, Integers, FiniteSets

CONSTANTS
    MaxCircleRev,   \* bound: changes of the circle
    MaxCircleEdits  \* bound: the user's edits under way at once

VARIABLES
    circleDb,       \* the server: the role of each, me = "none" outside the circle,
                    \* and the change that named the circle
    circle,         \* the page
    circleEdits,    \* the user's edits under way
    circleDone      \* history: the revision and the name that the answered edits of
                    \* the page have come to, and those of the user's membership

circleVars == <<circleDb, circle, circleEdits, circleDone>>

NoCircle == [mounted |-> FALSE, spinner |-> FALSE, busy |-> FALSE,
             family |-> NoAsync, roster |-> NoAsync]
CircleDb0 == [me |-> "member", other |-> "admin", name |-> 0, rev |-> 0]
NothingDone == [edit |-> 0, membership |-> 0, name |-> 0]

CircleInit ==
    circleDb = CircleDb0 /\ circle = NoCircle /\ circleEdits = {} /\ circleDone = NothingDone

(* getMyFamily answers 404 to who is in none.                              *)
Unattached == SettledAsync(circle.family) /\ \E f \in circle.family.data : f.me = "none"
Attached == SettledAsync(circle.family) /\ \E f \in circle.family.data : f.me # "none"
CanManage == Attached /\ \E f \in circle.family.data : f.me = "admin"

Admins(db) == {who \in {"me", "other"} : db[who] = "admin"}
IsLastAdmin == CanManage /\ \A r \in circle.roster.data : Cardinality(Admins(r)) <= 1

-----------------------------------------------------------------------------
Entered(family) ==
    [NoCircle EXCEPT !.mounted = TRUE, !.family = family]

MountCircle ==
    /\ ~circle.mounted
    /\ circleDb' \in [me : {"none", "member", "admin"}, other : {"admin"}, name : {0}, rev : {0}]
    /\ circle' = Entered(NewAsync)
    /\ UNCHANGED <<circleEdits, circleDone>>

UnmountCircle ==
    /\ circle.mounted
    /\ circleDb' = CircleDb0 /\ circle' = NoCircle
    /\ circleEdits' = {} /\ circleDone' = NothingDone

(* useMe's answer, or its failure: the page is back.                       *)
SpinnerEnds ==
    /\ circle.spinner
    /\ circle' = Entered(NewAsync)
    /\ UNCHANGED <<circleDb, circleEdits, circleDone>>

(* The roster is mounted when the family is first shown.                   *)
CircleQueries ==
    /\ \/ \E a \in AsyncSteps(circle.family, circleDb) :
             circle' = [circle EXCEPT
                !.family = a,
                !.roster = IF a.loading \/ ~SettledAsync(a) \/ @ # NoAsync THEN @
                           ELSE IF \E f \in a.data : f.me # "none" THEN NewAsync ELSE @]
       \/ \E a \in AsyncSteps(circle.roster, circleDb) :
             circle' = [circle EXCEPT !.roster = a]
       \/ circle.family.failed /\ circle' = Entered(Refetched(circle.family, circleDb))
       \/ circle.roster.failed
          /\ circle' = [circle EXCEPT !.roster = Refetched(@, circleDb)]
    /\ UNCHANGED <<circleDb, circleEdits, circleDone>>

-----------------------------------------------------------------------------
(* The user's edits, and the role that they are to give to whom.           *)

Asks(kind, who, role) ==
    /\ Cardinality(circleEdits) < MaxCircleEdits
    /\ circleEdits' = circleEdits \cup
          {[kind |-> kind, who |-> who, role |-> role, own |-> TRUE, stage |-> "sent"]}
    /\ UNCHANGED <<circleDb, circleDone>>

DoCreateOrJoin ==                                     \* doCreate, doJoin
    /\ Unattached
    /\ Asks("create", "me", "admin") \/ Asks("join", "me", "member")
    /\ UNCHANGED circle

DoLeave ==
    /\ Attached /\ SettledAsync(circle.roster) /\ ~circle.busy /\ ~IsLastAdmin
    /\ Asks("leave", "me", "none")
    /\ circle' = [circle EXCEPT !.busy = TRUE]

DoRenameCircle ==                                     \* doRename
    /\ CanManage /\ SettledAsync(circle.roster)
    /\ Asks("rename", "me", "admin")
    /\ circle' = [circle EXCEPT !.busy = TRUE]

ChangeRole ==
    /\ CanManage /\ SettledAsync(circle.roster)
    /\ \E who \in {"me", "other"}, role \in {"admin", "member"} :
          Asks("role", who, role)
    /\ UNCHANGED circle

(* The server: what the edit makes of the circle, if it takes it.          *)
Made(edit) ==
    CASE edit.kind = "create" ->
            [circleDb EXCEPT !.me = "admin", !.other = "none", !.name = circleDb.rev + 1]
      [] edit.kind = "rename" -> [circleDb EXCEPT !.name = circleDb.rev + 1]
      [] edit.kind \in {"join", "leave", "role"} -> [circleDb EXCEPT ![edit.who] = edit.role]
Accepts(edit) ==
    CASE edit.kind = "create" -> Reached(CreateMyFamily) /\ circleDb.me = "none"
      [] edit.kind = "join" -> circleDb.me = "none"
      [] edit.kind = "leave" -> circleDb.me # "none" /\ Admins(Made(edit)) # {}
      [] edit.kind = "rename" -> circleDb.me = "admin"
      [] edit.kind = "role" ->
            circleDb.me = "admin" /\ circleDb[edit.who] # "none" /\ Admins(Made(edit)) # {}

CircleServes(e) ==
    /\ e.stage = "sent"
    /\ Accepts(e) => circleDb.rev < MaxCircleRev
    /\ circleDb' = IF Accepts(e) THEN [Made(e) EXCEPT !.rev = @ + 1] ELSE circleDb
    /\ circleEdits' = (circleEdits \ {e})
                      \cup {[e EXCEPT !.stage = IF Accepts(e) THEN "applied" ELSE "refused"]}
    /\ UNCHANGED <<circle, circleDone>>

(* The other admin, or the user's own phone.                               *)
OthersAct ==
    /\ circle.mounted /\ circleDb.rev < MaxCircleRev
    /\ \/ /\ circleDb.me # "none" /\ circleDb.other = "admin"
          /\ \E role \in {"admin", "member", "none"} \ {circleDb.me} :
                circleDb' = [circleDb EXCEPT !.me = role, !.rev = @ + 1]
       \/ circleDb.me = "none" /\ circleDb' = [circleDb EXCEPT !.me = "member", !.rev = @ + 1]
       \/ /\ "admin" \in {circleDb.me, circleDb.other}
          /\ circleDb' = [circleDb EXCEPT !.name = circleDb.rev + 1, !.rev = @ + 1]
    /\ UNCHANGED <<circle, circleEdits, circleDone>>

(* Mutant: the roster is not read again.                                   *)
RosterKept(p) == p

(* members.refetch, after a change of a role or of the name.               *)
RosterRefetched(p) == [p EXCEPT !.roster = Refetched(@, circleDb)]

(* onChanged, onDone: refetch and refreshMe.                               *)
Memberships == {"create", "join", "leave"}
Renewed == [NoCircle EXCEPT !.mounted = TRUE, !.spinner = TRUE]

CircleAnswered(e) ==
    /\ e.stage = "applied"
    /\ circle' = CASE e.kind \in Memberships -> Renewed
                   [] e.own /\ e.kind = "rename" ->
                         RosterRefetched([circle EXCEPT !.busy = FALSE])
                   [] e.own /\ e.kind = "role" -> RosterRefetched(circle)
                   [] OTHER -> circle
    /\ circleEdits' = IF circle'.spinner
                      THEN {[o EXCEPT !.own = FALSE] : o \in circleEdits \ {e}}
                      ELSE circleEdits \ {e}
    /\ circleDone' =
          [edit |-> IF e.own \/ e.kind \in Memberships THEN circleDb.rev ELSE circleDone.edit,
           membership |-> IF e.kind \in Memberships THEN circleDb.rev ELSE circleDone.membership,
           name |-> IF e.own /\ e.kind = "rename" THEN circleDb.name ELSE circleDone.name]
    /\ UNCHANGED circleDb

CircleEditFails(e) ==
    /\ circle' = IF e.own /\ e.kind \in {"leave", "rename"}
                 THEN [circle EXCEPT !.busy = FALSE] ELSE circle
    /\ circleEdits' = circleEdits \ {e}
    /\ UNCHANGED <<circleDb, circleDone>>

CircleNext ==
    \/ SpinnerEnds \/ CircleQueries \/ OthersAct
    \/ DoCreateOrJoin \/ DoLeave \/ DoRenameCircle \/ ChangeRole
    \/ \E e \in circleEdits : CircleServes(e) \/ CircleAnswered(e) \/ CircleEditFails(e)

(* The page opens and is left.                                             *)
CircleSpec == CircleInit /\ [][CircleNext \/ MountCircle \/ UnmountCircle]_circleVars

-----------------------------------------------------------------------------
(* Whatever overtakes what, a roster that is shown is no older than the    *)
(* last edit of the page that was answered, and the circle above it, or    *)
(* that there is none, no older than the last change of the user's         *)
(* membership that was (FamiliesPage.tsx:706-709, 769-773, 842, 868).      *)
(* Excepted are the answers that come when the page has been replaced, and *)
(* the circle's name.                                                      *)
RosterFollowsEdits ==
    /\ Attached /\ SettledAsync(circle.roster) =>
          \A r \in circle.roster.data : r.rev >= circleDone.edit
    /\ SettledAsync(circle.family) =>
          \A f \in circle.family.data : f.rev >= circleDone.membership

(* Violated: "Called after a change that affects the caller's membership or*)
(* the family" (FamiliesPage.tsx:789): a rename has the roster read again, *)
(* and the page goes on to show the circle's old name.                     *)
NameFollowsRename == Attached => \A f \in circle.family.data : f.name >= circleDone.name

(* Violated: "Creates a family and makes the caller its admin"             *)
(* (api.ts:295): the call is sent to a path that no route answers.         *)
CreateIsServed ==
    \A e \in circleEdits : e.kind = "create" /\ circleDb.me = "none" => e.stage # "refused"

(* Violated: "role changes for family admins, view-only membership         *)
(* otherwise" (FamiliesPage.tsx:691-692): who has given up being an admin  *)
(* is still offered what admins do.                                        *)
MembersOnlyView ==
    CanManage /\ SettledAsync(circle.roster) => \A r \in circle.roster.data : r.me = "admin"
=============================================================================
