--------------------------- MODULE LocationOutbox ---------------------------
(***************************************************************************)
(* The device's side: location_reporter.dart and                           *)
(* background_location_service.dart report fixes as they are taken; a fix  *)
(* whose report fails is put into the queue of location_outbox.dart, which *)
(* is one list in shared preferences; drains send the newest fixes of the  *)
(* queue in a batch, and remove them when the server has accepted it.      *)
(*                                                                         *)
(* Between the read of the queue that opens a drain and the write that     *)
(* closes it lies the whole batch request; anything else may run then.     *)
(***************************************************************************)
EXTENDS LocationStore

CONSTANTS
    Reporters,      \* the foreground stream, the background callback
    Drainers,       \* drains that may be under way at once
    MaxPoints,      \* LocationOutbox.maxPoints
    MaxPerCall,     \* LocationOutbox.defaultMaxPerCall
    MaxFaults,      \* bound: requests that fail or are given up
    MaxSessions     \* bound: sessions, each with an account of its own

ASSUME OutboxAssumption ==
    /\ Clients = Reporters \cup Drainers
    /\ Reporters \cap Drainers = {} /\ Nobody \notin Clients
    /\ Accounts = 1 .. MaxSessions /\ MaxSessions \in Nat \ {0}
    /\ MaxPoints \in Nat \ {0} /\ MaxPerCall \in Nat \ {0} /\ MaxFaults \in Nat
    /\ MaxTs \in Nat

VARIABLES
    queue,          \* location_outbox_v1
    clock,          \* fixes taken so far
    report,         \* what each reporter waits for; ts = 0: nothing
    drain,          \* what each drain has read and sent
    session,        \* the current session's account
    past,           \* history: fixes ever queued, those queued while a drain
                    \* was under way, those dropped at the cap
    faults

dvars == <<queue, clock, report, drain, session, past, faults>>
vars == <<svars, dvars>>

Quiet == [pc |-> "idle", read |-> {}, batch |-> {}]

TypeOK ==
    /\ StoreTypeOK
    /\ queue \subseteq Point /\ Cardinality(queue) <= MaxPoints
    /\ Cardinality({p.ts : p \in queue}) = Cardinality(queue)
    /\ clock \in 0 .. MaxTs
    /\ report \in [Reporters -> [ts: 0 .. MaxTs, owner: Accounts]]
    /\ drain \in [Drainers -> [pc: {"idle", "sent"}, read: SUBSET Point, batch: SUBSET Point]]
    /\ session \in Accounts
    /\ past \in [queued: SUBSET Times, exposed: SUBSET Times, evicted: SUBSET Times]
    /\ faults \in 0 .. MaxFaults

Init ==
    /\ StoreInit
    /\ queue = {} /\ clock = 0
    /\ report = [c \in Reporters |-> [ts |-> 0, owner |-> 1]]
    /\ drain = [d \in Drainers |-> Quiet]
    /\ session = 1 /\ faults = 0
    /\ past = [queued |-> {}, exposed |-> {}, evicted |-> {}]

-----------------------------------------------------------------------------
(* A reporter has one report in flight at a time.                          *)
TakeFix(c, r) ==
    /\ clock < MaxTs /\ report[c].ts = 0
    /\ clock' = clock + 1
    /\ report' = [report EXCEPT ![c] = [ts |-> clock + 1, owner |-> session]]
    /\ Post(r, c, "live", session, {[ts |-> clock + 1, owner |-> session]})
    /\ UNCHANGED <<stored, position, queue, drain, session, past, faults>>

NewestPoints(points, n) ==
    {p \in points : Cardinality({q \in points : q.ts > p.ts}) < n}

Pruned(points) == NewestPoints(points, MaxPoints)

(* A fix that is queued again replaces its earlier entry.                  *)
Enqueue(point) ==
    LET all == {p \in queue : p.ts # point.ts} \cup {point}
    IN  /\ queue' = Pruned(all)
        /\ past' = [past EXCEPT
                       !.queued = @ \cup {point.ts},
                       !.exposed = @ \cup {ts \in {point.ts} : \E d \in Drainers : drain[d].pc = "sent"},
                       !.evicted = @ \cup {p.ts : p \in all \ Pruned(all)}]

(* The answer to a report, or the news that there will be none.            *)
Reported(c, ok) ==
    /\ report' = [report EXCEPT ![c].ts = 0]
    /\ IF ok THEN UNCHANGED <<queue, past>>
             ELSE Enqueue([ts |-> report[c].ts, owner |-> report[c].owner])
    /\ UNCHANGED drain

(* drain, up to its request: after a successful report, or when the        *)
(* network is back.                                                        *)
DrainBegin(d, r) ==
    /\ drain[d].pc = "idle" /\ queue # {}
    /\ LET batch == NewestPoints(queue, MaxPerCall)
       IN  /\ drain' = [drain EXCEPT ![d] = [pc |-> "sent", read |-> queue, batch |-> batch]]
           /\ Post(r, d, "batch", session, batch)
    /\ UNCHANGED <<stored, position, queue, clock, report, session, past, faults>>

(* Mutants: nothing is left in the queue; the batch is left in the queue.  *)
RemainingNothing(d, ok) == IF ok THEN {} ELSE queue
RemainingAll(d, ok) == IF ok THEN drain[d].read ELSE queue

Remaining(d, ok) == IF ok THEN drain[d].read \ drain[d].batch ELSE queue

Drained(d, ok) ==
    /\ queue' = Remaining(d, ok)
    /\ drain' = [drain EXCEPT ![d] = Quiet]
    /\ UNCHANGED <<report, past>>

Told(client, ok) == \/ client \in Reporters /\ Reported(client, ok)
                    \/ client \in Drainers /\ Drained(client, ok)

Answer(r) ==
    /\ req[r].pc = "done"
    /\ Told(req[r].from, req[r].ok)
    /\ req' = [req EXCEPT ![r] = Free]
    /\ UNCHANGED <<stored, position, clock, session, faults>>

(* No network: the request or its answer is lost.                          *)
Lost(r) ==
    /\ req[r].pc \in {"sent", "done"} /\ req[r].from # Nobody
    /\ Told(req[r].from, FALSE)
    /\ req' = [req EXCEPT ![r] = Free]
    /\ UNCHANGED <<stored, position>>

(* A timeout: the server goes on with the request.                         *)
GivenUp(r) ==
    /\ req[r].pc \in {"sent", "checked"} /\ req[r].from # Nobody
    /\ Told(req[r].from, FALSE)
    /\ req' = [req EXCEPT ![r].from = Nobody]
    /\ UNCHANGED <<stored, position>>

Fault ==
    /\ faults < MaxFaults /\ faults' = faults + 1
    /\ \E r \in Requests :
          \/ Lost(r)
          \/ GivenUp(r)
          \/ ServeFails(r) /\ UNCHANGED <<queue, report, drain, past>>
    /\ UNCHANGED <<clock, session>>

(* TokenStorage.clear, and a login under another account.                  *)
Logout ==
    /\ session < MaxSessions
    /\ session' = session + 1
    /\ queue' = {}
    /\ UNCHANGED <<svars, clock, report, drain, past, faults>>

Server == \E r \in Requests : Serve(r) /\ UNCHANGED dvars

Next ==
    \/ \E r \in Requests, c \in Reporters : TakeFix(c, r)
    \/ \E r \in Requests, d \in Drainers : DrainBegin(d, r)
    \/ \E r \in Requests : Answer(r)
    \/ Server
    \/ Fault
    \/ Logout

(* Requests are served and answered; a queue that is not empty is drained  *)
(* again.  Nothing makes the device take a fix.                            *)
Spec == /\ Init /\ [][Next]_vars
        /\ WF_vars(Server)
        /\ WF_vars(\E r \in Requests : Answer(r))
        /\ WF_vars(\E r \in Requests, d \in Drainers : DrainBegin(d, r))

-----------------------------------------------------------------------------
(* Of the fixes a drain has read, its end removes only what the server     *)
(* has: "Drained points are removed from the queue only on `true`"         *)
(* (location_outbox.dart:27), although several drains and timed-out        *)
(* requests may overlap.  It says nothing of a fix queued while the drain  *)
(* was under way, which the write-back (line 176) removes unsent.          *)
DrainedIsStored ==
    [][\A d \in Drainers : drain[d].pc = "sent" /\ drain'[d].pc = "idle" =>
          \A p \in drain[d].read : p \in queue /\ p \notin queue' => stored[p.ts] > 0]_vars

(* A fix whose report failed is kept until the server has it, but for the  *)
(* cap, the end of the session, and a drain under way when it was queued.  *)
FixIsKept ==
    session = 1 =>
        \A ts \in past.queued \ (past.exposed \cup past.evicted) :
            stored[ts] > 0 \/ \E p \in queue : p.ts = ts

(* The queue ends only with what was reported in the current session:      *)
(* "Wiping the queue here keeps the cache lifecycle tied to the session it *)
(* was created in" (location_outbox.dart:210).                             *)
QueueIsOfSession == \A p \in queue : p.owner = session

(* Liveness: with the network back, the queue of a session that does not   *)
(* end is emptied, although overlapping drains write back what others have *)
(* removed.                                                                *)
QueueIsDrained == [](session = 1) => <>[](queue = {})
=============================================================================
