------------------------------ MODULE WebUpdates ------------------------------
(***************************************************************************)
(* The server update card (ServerUpdateCard.tsx): it asks for the status   *)
(* of the update when it is opened, on demand, after starting one, and     *)
(* every three seconds while what it shows is a running update.  Answers   *)
(* may overtake each other; requests in the same state count as one.  The  *)
(* update replaces the API, which is out for a while, and its sidecar may  *)
(* be out of the API's reach.  The text of the log is left out.            *)
(***************************************************************************)
EXTENDS Integers, FiniteSets

CONSTANTS
    MaxJobs, MaxOutages,    \* bounds: updates, and outages of the API or the sidecar
    MaxAsks                 \* bound: requests under way when the interval adds one

VARIABLES
    updateDb,       \* the sidecar's job, what can be reached, and the two bounds' counters
    update          \* the card

updateVars == <<updateDb, update>>

UpdateDb0 == [job |-> "idle", api |-> TRUE, sidecar |-> TRUE, newer |-> TRUE,
              jobs |-> 0, outages |-> 0]

(* asks are the requests of refresh, [by, got] with at most one answer in  *)
(* got; start is the call of startUpdate.                                  *)
NoUpdate == [mounted |-> FALSE, shown |-> {}, asks |-> {}, loading |-> FALSE,
             checking |-> FALSE, confirming |-> FALSE, start |-> "none", failed |-> FALSE]

UpdatesInit == updateDb = UpdateDb0 /\ update = NoUpdate

(* What AdminUpdateStatus answers: no job when the sidecar is out.         *)
StatusOf(db) ==
    [running |-> db.sidecar /\ db.job = "running", job |-> IF db.sidecar THEN db.job ELSE "none",
     can |-> db.sidecar, available |-> db.newer]

ShowsRunning(u) == \E s \in u.shown : s.running

Requested(u, by) == [u EXCEPT !.asks = @ \cup {[by |-> by, got |-> {}]}]

(* `finally`: loading, checking or starting ends with its own request.     *)
Over(u, by) ==
    [u EXCEPT !.loading = @ /\ by # "mount", !.checking = @ /\ by # "check",
              !.start = IF by = "start" THEN "none" ELSE @]

-----------------------------------------------------------------------------
MountUpdates ==
    /\ ~update.mounted
    /\ update' = Requested([NoUpdate EXCEPT !.mounted = TRUE, !.loading = TRUE], "mount")
    /\ updateDb' \in {UpdateDb0, [UpdateDb0 EXCEPT !.job = "running", !.jobs = 1]}

(* What is under way is heard by no page; the interval is cleared.         *)
UnmountUpdates == update.mounted /\ update' = NoUpdate /\ updateDb' = UpdateDb0

StatusRead ==
    /\ updateDb.api
    /\ \E a \in update.asks :
          /\ a.got = {}
          /\ update' = [update EXCEPT !.asks =
                           (@ \ {a}) \cup {[a EXCEPT !.got = {StatusOf(updateDb)}]}]
    /\ UNCHANGED updateDb

(* setStatus, setMessage(null).  failed says that the message is an error. *)
StatusShown ==
    /\ \E a \in update.asks :
          /\ a.got # {}
          /\ update' = Over([update EXCEPT !.asks = @ \ {a}, !.shown = a.got,
                                           !.failed = FALSE], a.by)
    /\ UNCHANGED updateDb

(* The API is out, and the request fails: the status shown is kept.        *)
StatusFails ==
    /\ ~updateDb.api
    /\ \E a \in update.asks :
          update' = Over([update EXCEPT !.asks = @ \ {a}, !.failed = TRUE], a.by)
    /\ UNCHANGED updateDb

(* Mutant: an error ends the polling.                                      *)
PollsUnlessFailed == ShowsRunning(update) /\ ~update.failed

(* The effect's interval.                                                  *)
Polls == ShowsRunning(update)

Poll ==
    /\ Polls /\ Cardinality(update.asks) < MaxAsks
    /\ update' = Requested(update, "poll")
    /\ UNCHANGED updateDb

CheckNow ==
    /\ update.mounted /\ ~update.checking
    /\ update' = Requested([update EXCEPT !.checking = TRUE], "check")
    /\ UNCHANGED updateDb

-----------------------------------------------------------------------------
(* "Update now", then "Confirm update" or "Cancel".                        *)
AskToConfirm ==
    /\ ~update.confirming /\ ~ShowsRunning(update)
    /\ \E s \in update.shown : s.can /\ s.available
    /\ update' = [update EXCEPT !.confirming = TRUE]
    /\ UNCHANGED updateDb

CancelUpdate ==
    /\ update.confirming /\ update.start = "none"
    /\ update' = [update EXCEPT !.confirming = FALSE]
    /\ UNCHANGED updateDb

(* The two are shown while the status says that updates can be installed.  *)
StartUpdate ==
    /\ update.confirming /\ update.start = "none" /\ \E s \in update.shown : s.can
    /\ update' = [update EXCEPT !.start = "sent"]
    /\ UNCHANGED updateDb

(* handleApply starts a job unless one is running.                         *)
ApplyServed ==
    /\ update.start = "sent" /\ updateDb.api /\ updateDb.sidecar
    /\ updateDb.job # "running" /\ updateDb.jobs < MaxJobs
    /\ updateDb' = [updateDb EXCEPT !.job = "running", !.jobs = @ + 1]
    /\ update' = [update EXCEPT !.start = "applied"]

ApplyAnswered ==
    /\ update.start = "applied"
    /\ update' = Requested([update EXCEPT !.start = "refreshing", !.failed = FALSE,
                                      !.confirming = FALSE], "start")
    /\ UNCHANGED updateDb

(* catch: 409, 502 or no answer.                                           *)
ApplyFails ==
    /\ update.start \in {"sent", "applied"}
    /\ update' = [update EXCEPT !.start = "none", !.failed = TRUE]
    /\ UNCHANGED updateDb

-----------------------------------------------------------------------------
(* The server: run's end, with the new version or with the old one.        *)
JobEnds ==
    /\ updateDb.job = "running"
    /\ \/ updateDb' = [updateDb EXCEPT !.job = "success", !.newer = FALSE]
       \/ updateDb' = [updateDb EXCEPT !.job = "failed"]
    /\ UNCHANGED update

Outage ==
    /\ update.mounted /\ updateDb.outages < MaxOutages
    /\ \/ updateDb.api /\ updateDb' = [updateDb EXCEPT !.api = FALSE, !.outages = @ + 1]
       \/ updateDb.sidecar /\ updateDb' = [updateDb EXCEPT !.sidecar = FALSE, !.outages = @ + 1]
    /\ UNCHANGED update

Recovery ==
    /\ ~(updateDb.api /\ updateDb.sidecar)
    /\ updateDb' = [updateDb EXCEPT !.api = TRUE, !.sidecar = TRUE]
    /\ UNCHANGED update

UpdatesNext ==
    \/ StatusRead \/ StatusShown \/ StatusFails \/ Poll \/ CheckNow
    \/ AskToConfirm \/ CancelUpdate \/ StartUpdate \/ ApplyServed \/ ApplyAnswered \/ ApplyFails
    \/ JobEnds \/ Outage \/ Recovery

(* The interval fires, requests end, and so do an update and an outage.    *)
UpdatesFairness ==
    /\ WF_updateVars(Poll) /\ WF_updateVars(StatusRead) /\ WF_updateVars(StatusShown)
    /\ WF_updateVars(StatusFails) /\ WF_updateVars(JobEnds) /\ WF_updateVars(Recovery)

-----------------------------------------------------------------------------
(* "This page reconnects automatically" (ServerUpdateCard.tsx:60-67, 210): *)
(* a card that shows a running update does not do so for ever, though the  *)
(* API is replaced under it.                                               *)
UpdateEndIsSeen == ShowsRunning(update) ~> ~ShowsRunning(update)

(* What the same words say of an update that the card has shown, and what  *)
(* does not hold: when it has ended, the card shows its outcome.  A status *)
(* answered while the sidecar is out, or read before the update started,   *)
(* ends the polling.                                                       *)
OutcomeIsShown ==
    ShowsRunning(update)
    ~> ~update.mounted \/ \E s \in update.shown : s.job \in {"success", "failed"}
=============================================================================
