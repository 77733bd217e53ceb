------------------------------ MODULE WebHistory ------------------------------
(***************************************************************************)
(* The history page (HistoryPage.tsx): a member and a day are selected by  *)
(* the toolbar or by the location's hash, which follow each other, and the *)
(* day's trail is loaded.  The platform administrator's page is modelled,  *)
(* which also selects a family.                                            *)
(*                                                                         *)
(* The effects of a change are run in the step that makes it.              *)
(***************************************************************************)
EXTENDS Integers, FiniteSets

CONSTANTS
    Walkers,        \* members
    CircleOf,       \* the family of each
    Days

Unset == "none"
ASSUME HistoryAssumption == Unset \notin Walkers

VARIABLES hist

NoHistory == [mounted |-> FALSE, roster |-> FALSE, family |-> Unset, member |-> Unset,
              day |-> CHOOSE d \in Days : TRUE, hash |-> <<>>, event |-> FALSE,
              load |-> FALSE, old |-> {}, shown |-> {}, failed |-> FALSE]

(* hash is <<member, day>>; load tells whether the history of the selection*)
(* is being loaded, old what the loads that were superseded are still to   *)
(* answer, shown the history that is held.                                 *)
HistoryInit == hist = NoHistory

Chosen(h) == <<h.member, h.day>>

-----------------------------------------------------------------------------
(* The effects.                                                            *)

(* The family of the selected member, once the members are known.          *)
FamilyFollows(h) ==
    IF h.roster /\ h.member # Unset THEN [h EXCEPT !.family = CircleOf[h.member]] ELSE h

(* writeHistoryHash: the browser tells of a new hash later.                *)
HashFollows(h) ==
    IF h.hash = Chosen(h) THEN h ELSE [h EXCEPT !.hash = Chosen(h), !.event = TRUE]

(* The cleanup of the last load and the next load.                         *)
Reloaded(h, before) ==
    LET g == [h EXCEPT !.old = IF before.load THEN {Chosen(before)} ELSE @]
    IN  IF h.member = Unset
        THEN [g EXCEPT !.shown = {}, !.load = FALSE, !.failed = FALSE]
        ELSE [g EXCEPT !.load = TRUE, !.failed = FALSE]

Select(h) ==
    LET g == FamilyFollows(h)
    IN  hist' = IF Chosen(h) = Chosen(hist) THEN g ELSE Reloaded(HashFollows(g), hist)

-----------------------------------------------------------------------------
(* The page is opened at some hash, its member perhaps from an old link.   *)
MountHistory ==
    /\ ~hist.mounted
    /\ \E member \in Walkers \cup {Unset}, day \in Days :
          LET h == [NoHistory EXCEPT !.mounted = TRUE, !.member = member, !.day = day]
          IN  hist' = Reloaded(HashFollows(h), NoHistory)

UnmountHistory == hist.mounted /\ hist' = NoHistory

(* The lists arrive; a failure of theirs hides the page, not its state.    *)
RosterArrives ==
    /\ hist.mounted /\ ~hist.roster
    /\ Select([hist EXCEPT !.roster = TRUE])

ChooseFamily ==
    /\ hist.roster
    /\ \E f \in {CircleOf[m] : m \in Walkers} \cup {Unset} :
          Select([hist EXCEPT !.family = f, !.member = Unset])

(* The picker offers the members of the family.                            *)
ChooseMember ==
    /\ hist.roster
    /\ \E m \in Walkers \cup {Unset} :
          /\ m # Unset /\ hist.family # Unset => CircleOf[m] = hist.family
          /\ Select([hist EXCEPT !.member = m])

ChooseDay ==
    /\ hist.roster
    /\ \E d \in Days : Select([hist EXCEPT !.day = d])

(* Back, Forward, or a link.                                               *)
HashIsSet ==
    /\ hist.mounted
    /\ \E m \in Walkers \cup {Unset}, d \in Days :
          hist' = [hist EXCEPT !.hash = <<m, d>>, !.event = TRUE]

(* onHash reads the hash as it is when it is told.                         *)
OnHash ==
    /\ hist.event
    /\ LET h == [hist EXCEPT !.event = FALSE, !.member = hist.hash[1], !.day = hist.hash[2]]
       IN  Select(h)

Retrying ==
    /\ hist.failed
    /\ hist' = Reloaded(hist, hist)

HistoryLoaded ==
    /\ hist.load
    /\ \/ hist' = [hist EXCEPT !.load = FALSE, !.shown = {Chosen(hist)}]
       \/ hist' = [hist EXCEPT !.load = FALSE, !.shown = {}, !.failed = TRUE]

(* Mutant: whatever answers last is shown.                                 *)
StaleShown(h, answer) == [h EXCEPT !.old = {}, !.load = FALSE, !.shown = {answer}]

(* `if (cancelled) return`.                                                *)
StaleDropped(h, answer) == [h EXCEPT !.old = {}]

StaleHistory == \E answer \in hist.old : hist' = StaleDropped(hist, answer)

HistoryNext ==
    \/ RosterArrives \/ ChooseFamily \/ ChooseMember \/ ChooseDay \/ HashIsSet \/ OnHash
    \/ Retrying \/ HistoryLoaded \/ StaleHistory

(* The page opens and is left.                                             *)
HistorySpec == HistoryInit /\ [][HistoryNext \/ MountHistory \/ UnmountHistory]_hist

-----------------------------------------------------------------------------
(* Whatever was selected while what was loading, and whoever moved the     *)
(* hash: a trail that is shown is that of the member and the day that are  *)
(* selected, the family shown is the member's, so that the picker offers   *)
(* the selected member, and once the browser has told all of its changes   *)
(* the hash is the selection (HistoryPage.tsx:107-169).                    *)
HistoryIsOfSelection ==
    /\ hist.mounted /\ ~hist.load /\ ~hist.failed
       => hist.shown = IF hist.member = Unset THEN {} ELSE {Chosen(hist)}
    /\ hist.roster /\ hist.member # Unset => hist.family = CircleOf[hist.member]
    /\ hist.mounted /\ ~hist.event => hist.hash = Chosen(hist)
=============================================================================
