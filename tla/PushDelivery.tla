---------------------------- MODULE PushDelivery ----------------------------
(***************************************************************************)
(* Delivery of the pushes of geofence events (geofence_eval.go:632-897).   *)
(* The transaction that records an event writes a row per recipient device *)
(* (createEventDeviceRows); a goroutine per event sends to the devices one *)
(* after the other; the reconcile worker sends again what was not marked   *)
(* sent, once the event is old enough.                                     *)
(*                                                                         *)
(* A tick is the budget of one device (pushDispatchTimeout, and the five   *)
(* seconds of its mark): what the goroutine of an event does for one       *)
(* device takes at most one tick.  The worker has no such budget.          *)
(***************************************************************************)
EXTENDS Integers, FiniteSets

CONSTANTS
    Events,         \* ids of the geofence_events rows of one fence
    Devices,        \* push-capable devices of the other members
    Invalid,        \* devices whose target the push service refuses for good
    Worker,         \* the reconcile worker
    MaxAttempts,    \* maxPushAttempts
    Retries,        \* pushRetryAttempts
    MinAge,         \* pushRedispatchMinAge, in ticks
    MaxFaults,      \* bound: failed sends, failed updates, restarts
    MaxChanges      \* bound: configuration requests

Senders == Events \cup {Worker}       \* an event's goroutine is named by it

ASSUME PushAssumption ==
    /\ Worker \notin Events
    /\ Invalid \subseteq Devices
    /\ MaxAttempts \in Nat \ {0, 1} /\ Retries \in Nat \ {0} /\ MinAge \in Nat \ {0}
    /\ MaxFaults \in Nat /\ MaxChanges \in Nat

(* The minimum age is "set comfortably above" the worst case of a          *)
(* goroutine, the number of devices times the time of one                  *)
(* (geofence_eval.go:46-53); the model counts a tick for its query, too.   *)
ASSUME BudgetAssumption ==
    /\ IsFiniteSet(Devices)
    /\ MinAge > Cardinality(Devices) + 1

VARIABLES
    fence,      \* the fence: enabled, disabled, deleted
    target,     \* devices with a push token or endpoint
    member,     \* devices whose user is in the family
    age,        \* ticks since an event's created_at; NotYet before
    row,        \* geofence_event_devices; attempts = 0 stands for no row
    job,        \* what each sender is doing
    taken,      \* how often the push service took a push (history)
    faults, changes

config == <<fence, target, member, changes>>
vars == <<fence, target, member, age, row, job, taken, faults, changes>>

NotYet == -1
Pair == Events \X Devices
Row == [sent: BOOLEAN, attempts: 0 .. MaxAttempts]
NoRow == [sent |-> FALSE, attempts |-> 0]
Idle == [pc |-> "idle", todo |-> {}, blank |-> {}, at |-> <<>>, try |-> 0, spent |-> 0]
Job == [pc: {"idle", "query", "next", "send", "mark", "bury"},
        todo: SUBSET Pair, blank: SUBSET Pair, at: Pair \cup {<<>>},
        try: 0 .. Retries, spent: 0 .. 1]

TypeOK ==
    /\ fence \in {"enabled", "disabled", "deleted"}
    /\ target \subseteq Devices /\ member \subseteq Devices
    /\ age \in [Events -> NotYet .. MinAge]
    /\ row \in [Events -> [Devices -> Row]]
    /\ job \in [Senders -> Job]
    /\ taken \in [Events -> [Devices -> Nat]]
    /\ faults \in 0 .. MaxFaults /\ changes \in 0 .. MaxChanges

Init ==
    /\ fence = "enabled" /\ target = Devices /\ member = Devices
    /\ age = [e \in Events |-> NotYet]
    /\ row = [e \in Events |-> [d \in Devices |-> NoRow]]
    /\ job = [s \in Senders |-> Idle]
    /\ taken = [e \in Events |-> [d \in Devices |-> 0]]
    /\ faults = 0 /\ changes = 0

Become(s, j) == job' = [job EXCEPT ![s] = j]
Working(s, pc) == [job[s] EXCEPT !.pc = pc]

(* Only an UPDATE: a row deleted with its fence stays deleted.             *)
Update(e, d, r) == row' = IF row[e][d].attempts = 0 THEN row ELSE [row EXCEPT ![e][d] = r]

-----------------------------------------------------------------------------
(* The event, its rows, and the goroutine, in one commit.                  *)
RecordEvent(e) ==
    /\ fence = "enabled" /\ age[e] = NotYet
    /\ age' = [age EXCEPT ![e] = 0]
    /\ row' = [row EXCEPT ![e] = [d \in Devices |->
                  IF d \in member \cap target THEN [sent |-> FALSE, attempts |-> 1] ELSE NoRow]]
    /\ Become(e, [Idle EXCEPT !.pc = "query"])
    /\ UNCHANGED <<config, taken, faults>>

Unsent(e, d) == row[e][d].attempts > 0 /\ ~row[e][d].sent

(* A device that has lost its target is passed over.                       *)
LoadDevices(e) ==
    /\ job[e].pc = "query"
    /\ LET todo == {p \in {e} \X (Devices \cap target) : Unsent(p[1], p[2])}
       IN  Become(e, IF todo = {} THEN Idle ELSE [Idle EXCEPT !.pc = "next", !.todo = todo])
    /\ UNCHANGED <<config, age, row, taken, faults>>

(* Mutants: without the event's age; with the cap off by one.              *)
SelectableAnyAge(e, d) == /\ fence = "enabled" /\ d \in member /\ age[e] # NotYet
                          /\ Unsent(e, d) /\ row[e][d].attempts < MaxAttempts
SelectableFewer(e, d) == /\ fence = "enabled" /\ d \in member /\ age[e] = MinAge
                         /\ Unsent(e, d) /\ row[e][d].attempts < MaxAttempts - 1

Selectable(e, d) == /\ fence = "enabled" /\ d \in member /\ age[e] = MinAge
                    /\ Unsent(e, d) /\ row[e][d].attempts < MaxAttempts

(* A pass of the worker: `blank` are the rows whose device had no target   *)
(* when the pass read it.  A pass that selects nothing changes nothing.    *)
RedispatchFailedPushes ==
    /\ job[Worker].pc = "idle"
    /\ LET found == {p \in Pair : Selectable(p[1], p[2])}
       IN  /\ found # {}
           /\ Become(Worker, [Idle EXCEPT !.pc = "next", !.todo = found,
                                          !.blank = {p \in found : p[2] \notin target}])
    /\ UNCHANGED <<config, age, row, taken, faults>>

(* On to another device, or the end of the goroutine or pass.              *)
Next_(s) == IF job[s].todo = {} THEN Idle
            ELSE [job[s] EXCEPT !.pc = "next", !.at = <<>>, !.try = 0, !.spent = 0]

(* The goroutine takes up the next device; the worker counts the attempt   *)
(* first, and passes over a device without a target.                       *)
Begin(s, p) ==
    /\ job[s].pc = "next" /\ p \in job[s].todo
    /\ LET rest == job[s].todo \ {p}
       IN  Become(s, IF p \notin job[s].blank
                     THEN [job[s] EXCEPT !.pc = "send", !.todo = rest, !.at = p, !.try = 1]
                     ELSE IF rest = {} THEN Idle ELSE [job[s] EXCEPT !.todo = rest])
    /\ IF s = Worker THEN LET r == row[p[1]][p[2]]
                          IN  Update(p[1], p[2], [r EXCEPT !.attempts = @ + 1])
                     ELSE UNCHANGED row
    /\ UNCHANGED <<config, age, taken, faults>>

-----------------------------------------------------------------------------
(* dispatchToDevice, dispatchWithRetry.                                    *)

Takes(p) == taken' = [taken EXCEPT ![p[1]][p[2]] = @ + 1]

Accepted(s) ==
    /\ job[s].pc = "send" /\ job[s].at[2] \notin Invalid
    /\ Takes(job[s].at)
    /\ Become(s, Working(s, "mark"))
    /\ UNCHANGED <<config, age, row, faults>>

Refused(s) ==
    /\ job[s].pc = "send" /\ job[s].at[2] \in Invalid
    /\ Become(s, Working(s, "bury"))
    /\ UNCHANGED <<config, age, row, taken, faults>>

(* Mutant: marked as sent although every attempt failed.                   *)
AfterFailureMark(s) == IF job[s].try < Retries THEN [job[s] EXCEPT !.try = @ + 1]
                                               ELSE Working(s, "mark")

(* A transient failure: again, up to the number of retries.                *)
AfterFailure(s) == IF job[s].try < Retries THEN [job[s] EXCEPT !.try = @ + 1] ELSE Next_(s)

MarkDevicePushSent(s) ==
    /\ job[s].pc = "mark"
    /\ LET e == job[s].at[1] d == job[s].at[2]
       IN  Update(e, d, [row[e][d] EXCEPT !.sent = TRUE])
    /\ Become(s, Next_(s))
    /\ UNCHANGED <<config, age, taken, faults>>

DeadLetterDevice(s) ==
    /\ job[s].pc = "bury"
    /\ LET e == job[s].at[1] d == job[s].at[2]
       IN  Update(e, d, [row[e][d] EXCEPT !.attempts = MaxAttempts])
    /\ Become(s, Next_(s))
    /\ UNCHANGED <<config, age, taken, faults>>

-----------------------------------------------------------------------------
(* Failures.  The answer of a push service that took the push may be lost; *)
(* a goroutine that has used up the device's budget does not retry.        *)

SendFails(s) ==
    /\ job[s].pc = "send"
    /\ \/ UNCHANGED taken
       \/ job[s].at[2] \notin Invalid /\ Takes(job[s].at)
    /\ \/ Become(s, AfterFailure(s))
       \/ job[s].spent = 1 /\ Become(s, Next_(s))
    /\ UNCHANGED row

(* The query, or the UPDATE that counts, marks or buries.                  *)
UpdateFails(s) ==
    /\ \/ job[s].pc = "query" /\ Become(s, Idle)
       \/ job[s].pc \in {"mark", "bury"} /\ Become(s, Next_(s))
       \/ /\ s = Worker /\ job[s].pc = "next"
          /\ \E p \in job[s].todo :
                LET rest == job[s].todo \ {p}
                IN  Become(s, IF rest = {} THEN Idle ELSE [job[s] EXCEPT !.todo = rest])
    /\ UNCHANGED <<row, taken>>

Restart == /\ job' = [s \in Senders |-> Idle]
           /\ UNCHANGED <<row, taken>>

Fault ==
    /\ faults < MaxFaults /\ faults' = faults + 1
    /\ (\E s \in Senders : SendFails(s) \/ UpdateFails(s)) \/ Restart
    /\ UNCHANGED <<config, age>>

(* Time passes, unless a goroutine has used up its device's budget.        *)
Tick ==
    /\ \A e \in Events : job[e].pc # "idle" => job[e].spent = 0
    /\ age' = [e \in Events |-> IF age[e] \in 0 .. MinAge - 1 THEN age[e] + 1 ELSE age[e]]
    /\ job' = [s \in Senders |-> IF s = Worker \/ job[s].pc = "idle" THEN job[s]
                                 ELSE [job[s] EXCEPT !.spent = 1]]
    /\ UNCHANGED <<config, row, taken, faults>>

-----------------------------------------------------------------------------
(* UpdateGeofence, DeleteGeofence (the events and rows go with the fence), *)
(* UpdateDevice, LeaveFamily, JoinFamily.                                  *)
ChangeConfig ==
    /\ changes < MaxChanges /\ changes' = changes + 1
    /\ \/ /\ \/ fence = "enabled" /\ fence' = "disabled"
             \/ fence = "disabled" /\ fence' = "enabled"
          /\ UNCHANGED <<target, member, row>>
       \/ /\ fence # "deleted" /\ fence' = "deleted"
          /\ row' = [e \in Events |-> [d \in Devices |-> NoRow]]
          /\ UNCHANGED <<target, member>>
       \/ \E d \in Devices :
             /\ target' = IF d \in target THEN target \ {d} ELSE target \cup {d}
             /\ UNCHANGED <<fence, member, row>>
       \/ \E d \in Devices :
             /\ member' = IF d \in member THEN member \ {d} ELSE member \cup {d}
             /\ UNCHANGED <<fence, target, row>>
    /\ UNCHANGED <<age, job, taken, faults>>

Send(s) == \/ s \in Events /\ LoadDevices(s)
           \/ s = Worker /\ RedispatchFailedPushes
           \/ \E p \in job[s].todo : Begin(s, p)
           \/ Accepted(s) \/ Refused(s)
           \/ MarkDevicePushSent(s) \/ DeadLetterDevice(s)

Next == \/ \E e \in Events : RecordEvent(e)
        \/ \E s \in Senders : Send(s)
        \/ Tick
        \/ Fault
        \/ ChangeConfig

(* A started goroutine, the worker and the clock go on.                    *)
Spec == /\ Init /\ [][Next]_vars
        /\ \A s \in Senders : WF_vars(Send(s))
        /\ WF_vars(Tick)

-----------------------------------------------------------------------------
(* Properties.                                                             *)

Holds(s, e, d) == <<e, d>> \in job[s].todo \cup {job[s].at}

(* "a just-created event is never double-dispatched" (geofence_eval.go:637):*)
(* the goroutine and the worker never have the same delivery in hand,      *)
(* because the goroutine is through with its devices before the event is   *)
(* old enough for the worker.                                              *)
NoDoubleDispatch ==
    \A e \in Events, d \in Devices : ~(Holds(e, e, d) /\ Holds(Worker, e, d))

(* A device gets an alert twice only after a lost answer, a failed update  *)
(* or a restart, and at most once more for each of them.                   *)
DuplicatesNeedFaults == \A e \in Events, d \in Devices : taken[e][d] <= 1 + faults

(* The rows implement AlertDelivery.  A delivery is open while a sender    *)
(* has it in hand, although its last attempt is counted beforehand.        *)
InHand(e, d) == \E s \in Senders : Holds(s, e, d)
StatusOf(e, d) ==
    LET r == row[e][d]
    IN  IF age[e] = NotYet THEN "none"
        ELSE IF r.sent THEN "done"
        ELSE IF InHand(e, d) \/ r.attempts \in 1 .. MaxAttempts - 1 THEN "open"
        ELSE IF r.attempts = MaxAttempts THEN "dead" ELSE "gone"
Statuses == [e \in Events |-> [d \in Devices |-> StatusOf(e, d)]]
Delivery == INSTANCE AlertDelivery WITH status <- Statuses
ImplementsDelivery == Delivery!Spec

(* Liveness.  "a network failure or crash does not permanently lose the    *)
(* alert" (geofence_eval.go:633): an alert whose first attempt is ahead of *)
(* it reaches the device if from then on the fence stays enabled and the   *)
(* device in the family with a target.                                     *)
Deliverable(d) == fence = "enabled" /\ d \in member /\ d \in target
First(e, d) == row[e][d].attempts = 1 /\ (job[e].pc = "query" \/ Holds(e, e, d))
AlertArrives ==
    \A e \in Events, d \in Devices \ Invalid :
        First(e, d) /\ []Deliverable(d) ~> taken[e][d] > 0

(* No delivery stays open, also after the fence was disabled for a time,   *)
(* the device had no target for a time, or where the target is refused.    *)
Resolved ==
    \A e \in Events, d \in Devices :
        row[e][d].attempts > 0 /\ []Deliverable(d) ~> [](StatusOf(e, d) \in {"done", "dead"})
=============================================================================
