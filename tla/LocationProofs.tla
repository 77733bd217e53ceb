---------------------------- MODULE LocationProofs ----------------------------
(***************************************************************************)
(* Theorems about reports of locations, for any number of requests,        *)
(* reporters, drains, sessions, fixes and faults, and any caps of the      *)
(* queue and of a batch.                                                   *)
(***************************************************************************)
EXTENDS LocationOutbox, WellFoundedInduction, TLAPS

-----------------------------------------------------------------------------
(* The invariant.                                                          *)

Types ==
    /\ stored \in [Times -> Nat]
    /\ req \in [Requests -> Request]
    /\ queue \subseteq Point
    /\ clock \in 0 .. MaxTs
    /\ report \in [Reporters -> [ts : 0 .. MaxTs, owner : Accounts]]
    /\ drain \in [Drainers -> [pc : {"idle", "sent"}, read : SUBSET Point, batch : SUBSET Point]]
    /\ session \in Accounts
    /\ past \in [queued : SUBSET Times, exposed : SUBSET Times, evicted : SUBSET Times]

(* A request is the only one of its sender, who still waits for it.        *)
Senders ==
    /\ \A r, s \in Requests : req[r].from = req[s].from /\ req[r].from # Nobody => r = s
    /\ \A r \in Requests :
          /\ req[r].from \in Reporters => report[req[r].from].ts # 0
          /\ req[r].from \in Drainers =>
                /\ req[r].kind = "batch"
                /\ drain[req[r].from].pc = "sent"
                /\ req[r].points = drain[req[r].from].batch

(* A batch that has been accepted is stored, and so is what it had found.  *)
Accepted ==
    \A r \in Requests :
       /\ req[r].known \subseteq Stored
       /\ req[r].kind = "batch" /\ req[r].pc = "done" /\ req[r].ok => PointTimes(r) \subseteq Stored

(* What is to be kept is in the list every drain will write back, too.     *)
ToKeep == past.queued \ (past.exposed \cup past.evicted)
KeptByDrains ==
    session = 1 =>
       \A d \in Drainers : drain[d].pc = "sent" =>
          \A ts \in ToKeep : stored[ts] > 0 \/ \E p \in drain[d].read : p.ts = ts

OutboxInv == Types /\ PositionIsNewest /\ Senders /\ Accepted /\ FixIsKept /\ KeptByDrains

(* What the server leaves alone.                                           *)
Device == <<queue, clock, report, drain, session, past>>

-----------------------------------------------------------------------------
(* The newest of some times.                                               *)

LEMMA NewestOf ==
  ASSUME NEW S \in SUBSET (0 .. MaxTs), S # {}
  PROVE  Newest(S) \in S /\ \A t \in S : t <= Newest(S)
  <1> DEFINE T == {MaxTs - t : t \in S}
  <1>0. MaxTs \in Nat
    BY OutboxAssumption
  <1>1. T \subseteq Nat /\ T # {}
    <2>1. \A t \in S : MaxTs - t \in Nat
      BY <1>0
    <2> QED
      BY <2>1
  <1>2. PICK n \in T : \A k \in T : ~(<<k, n>> \in OpToRel(<, Nat))
    BY <1>1, NatLessThanWellFounded, WFMin
  <1>3. \A k \in T : ~(k < n)
    BY <1>1, <1>2 DEF OpToRel
  <1>4. PICK m \in S : n = MaxTs - m
    OBVIOUS
  <1>5. \A t \in S : m >= t
    <2> SUFFICES ASSUME NEW t \in S PROVE m >= t
      OBVIOUS
    <2>1. ~(MaxTs - t < MaxTs - m)
      BY <1>3, <1>4
    <2> QED
      BY <1>0, <2>1
  <1>6. Max(S) \in S /\ \A t \in S : Max(S) >= t
    BY <1>5, Zenon DEF Max
  <1> QED
    BY <1>0, <1>6 DEF Newest

LEMMA NewestOfBoth ==
  ASSUME NEW S \in SUBSET Times, NEW N \in SUBSET Times
  PROVE  Newest({Newest(S)} \cup N) = Newest(S \cup N) /\ Newest(S) \in 0 .. MaxTs
  <1>0. MaxTs \in Nat /\ Times \subseteq 0 .. MaxTs /\ \A t \in Times : t >= 1
    BY OutboxAssumption DEF Times
  <1> DEFINE p == Newest(S)
             a == Newest({p} \cup N)
             b == Newest(S \cup N)
  <1>1. /\ S = {} => p = 0
        /\ S # {} => p \in S /\ \A t \in S : t <= p
    BY <1>0, NewestOf DEF Newest
  <1>2. p \in 0 .. MaxTs
    <2> HIDE DEF p
    <2>1. CASE S = {}
      BY <1>0, <1>1, <2>1
    <2>2. CASE S # {}
      BY <1>0, <1>1, <2>2
    <2> QED
      BY <2>1, <2>2
  <1>3. a \in {p} \cup N /\ \A t \in {p} \cup N : t <= a
    BY <1>0, <1>2, NewestOf
  <1>4. /\ S \cup N = {} => b = 0
        /\ S \cup N # {} => b \in S \cup N /\ \A t \in S \cup N : t <= b
    BY <1>0, NewestOf DEF Newest
  <1> HIDE DEF p, a, b
  <1>5. a = b
    <2>1. CASE S \cup N = {}
      BY <1>1, <1>3, <1>4, <2>1
    <2>2. CASE S \cup N # {}
      <3>1. a \in 0 .. MaxTs /\ b \in 0 .. MaxTs
        BY <1>0, <1>2, <1>3, <1>4, <2>2
      <3>2. b <= a
        BY <1>0, <1>1, <1>2, <1>3, <1>4, <2>2, <3>1
      <3>3. a <= b
        BY <1>0, <1>1, <1>2, <1>3, <1>4, <2>2, <3>1
      <3> QED
        BY <3>1, <3>2, <3>3
    <2> QED
      BY <2>1, <2>2
  <1> QED
    BY <1>2, <1>5 DEF p, a, b

-----------------------------------------------------------------------------
(* The server.                                                             *)

LEMMA FreeType == Free \in Request /\ Free.from = Nobody /\ Free.known = {} /\ ~Free.ok
                  /\ Free.kind = "live"
  <1> DEFINE a == CHOOSE x \in Accounts : TRUE
  <1>1. 1 \in Accounts
    BY OutboxAssumption
  <1>2. a \in Accounts
    BY <1>1
  <1>3. Free = [pc |-> "free", from |-> Nobody, kind |-> "live", account |-> a, points |-> {},
                known |-> {}, ok |-> FALSE]
    BY DEF Free
  <1> HIDE DEF a
  <1> QED
    BY <1>2, <1>3 DEF Request

LEMMA Inserted ==
  ASSUME stored \in [Times -> Nat], PositionIsNewest, NEW N \in SUBSET Times, Insert(N), Upsert(N)
  PROVE  stored' \in [Times -> Nat] /\ Stored' = Stored \cup N /\ PositionIsNewest'
  <1>1. stored' \in [Times -> Nat] /\ Stored' = Stored \cup N
    BY DEF Insert, Stored
  <1>2. position' = Newest({Newest(Stored)} \cup N)
    BY DEF Upsert, PositionIsNewest
  <1>3. Stored \in SUBSET Times
    BY DEF Stored
  <1>4. position' = Newest(Stored \cup N)
    BY <1>2, <1>3, NewestOfBoth
  <1> QED
    BY <1>1, <1>4 DEF PositionIsNewest

LEMMA StoreUnchanged ==
  ASSUME OutboxInv, UNCHANGED <<stored, position>>
  PROVE  stored' \in [Times -> Nat] /\ Stored' = Stored /\ PositionIsNewest'
  <1>1. Stored' = Stored
    BY DEF Stored
  <1> QED
    BY <1>1 DEF OutboxInv, Types, PositionIsNewest

(* A step that changes one request, and leaves its sender and, while a     *)
(* drain waits for it, its points.                                         *)
LEMMA OneRequest ==
  ASSUME OutboxInv, UNCHANGED Device, NEW r \in Requests, NEW q \in Request,
         req' = [req EXCEPT ![r] = q],
         q.from = req[r].from,
         q.from \in Drainers => q.kind = req[r].kind /\ q.points = req[r].points,
         stored' \in [Times -> Nat], Stored \subseteq Stored', PositionIsNewest',
         q.known \subseteq Stored',
         q.kind = "batch" /\ q.pc = "done" /\ q.ok => {p.ts : p \in q.points} \subseteq Stored'
  PROVE  OutboxInv'
  <1>1. UNCHANGED <<queue, clock, report, drain, session, past>>
    BY DEF Device
  <1>2. req' \in [Requests -> Request] /\ req'[r] = q
        /\ \A s \in Requests : s # r => req'[s] = req[s]
    BY DEF OutboxInv, Types
  <1>3. Types'
    BY <1>1, <1>2 DEF OutboxInv, Types
  <1>4. Senders'
    <2>1. \A s \in Requests : req'[s].from = req[s].from
      BY <1>2
    <2>2. \A s \in Requests : req'[s].from \in Drainers =>
             req'[s].kind = req[s].kind /\ req'[s].points = req[s].points
      BY <1>2
    <2> QED
      BY <1>1, <2>1, <2>2 DEF OutboxInv, Senders
  <1>5. Accepted'
    <2> SUFFICES ASSUME NEW s \in Requests
                 PROVE  /\ req'[s].known \subseteq Stored'
                        /\ req'[s].kind = "batch" /\ req'[s].pc = "done" /\ req'[s].ok
                           => {p.ts : p \in req'[s].points} \subseteq Stored'
      BY DEF Accepted, PointTimes
    <2>1. CASE s = r
      BY <1>2, <2>1
    <2>2. CASE s # r
      BY <1>2, <2>2 DEF OutboxInv, Accepted, PointTimes
    <2> QED
      BY <2>1, <2>2
  <1>6. \A ts \in Times : stored[ts] > 0 => stored'[ts] > 0
    BY DEF Stored
  <1>7. ToKeep' = ToKeep /\ ToKeep \subseteq Times
    BY <1>1 DEF ToKeep, OutboxInv, Types
  <1>8. FixIsKept' /\ KeptByDrains'
    BY <1>1, <1>6, <1>7 DEF OutboxInv, FixIsKept, KeptByDrains, ToKeep
  <1> QED
    BY <1>3, <1>4, <1>5, <1>8 DEF OutboxInv

(* What a request becomes that is done, or forgotten.                      *)
LEMMA DoneRequest ==
  ASSUME OutboxInv, UNCHANGED Device, NEW r \in Requests, NEW ok \in BOOLEAN, Done(r, ok),
         stored' \in [Times -> Nat], Stored \subseteq Stored', PositionIsNewest',
         req[r].kind = "batch" /\ ok => PointTimes(r) \subseteq Stored'
  PROVE  OutboxInv'
  <1> DEFINE q == IF req[r].from = Nobody THEN Free ELSE [req[r] EXCEPT !.pc = "done", !.ok = ok]
  <1>1. req' = [req EXCEPT ![r] = q]
    BY DEF Done
  <1>2. req[r] \in Request /\ req[r].known \subseteq Stored
    BY DEF OutboxInv, Types, Accepted
  <1>3. Nobody \notin Drainers
    BY OutboxAssumption
  <1>4. CASE req[r].from = Nobody
    <2>1. q = Free
      BY <1>4
    <2> HIDE DEF q
    <2>2. q \in Request /\ q.from = Nobody /\ q.known = {} /\ q.kind # "batch"
      BY <2>1, FreeType
    <2> QED
      BY <1>1, <1>3, <1>4, <2>2, OneRequest
  <1>5. CASE req[r].from # Nobody
    <2>1. q = [req[r] EXCEPT !.pc = "done", !.ok = ok]
      BY <1>5
    <2> HIDE DEF q
    <2>2. /\ q \in Request /\ q.from = req[r].from /\ q.known = req[r].known
          /\ q.kind = req[r].kind /\ q.points = req[r].points /\ q.ok = ok
      BY <1>2, <2>1 DEF Request
    <2>3. q.kind = "batch" /\ q.ok => {p.ts : p \in q.points} \subseteq Stored'
      BY <2>2 DEF PointTimes
    <2> QED
      BY <1>1, <1>2, <2>2, <2>3, OneRequest
  <1> QED
    BY <1>4, <1>5

(* A request that has been checked, with what it has found.                *)
LEMMA CheckedRequest ==
  ASSUME OutboxInv, UNCHANGED <<stored, position, Device>>, NEW r \in Requests,
         NEW known \in SUBSET Times, known \subseteq Stored,
         req' = [req EXCEPT ![r] = [req[r] EXCEPT !.pc = "checked", !.known = known]]
  PROVE  OutboxInv'
  <1> DEFINE q == [req[r] EXCEPT !.pc = "checked", !.known = known]
  <1>1. req[r] \in Request
    BY DEF OutboxInv, Types
  <1>2. /\ q \in Request /\ q.from = req[r].from /\ q.known = known /\ q.pc = "checked"
        /\ q.kind = req[r].kind /\ q.points = req[r].points
    BY <1>1 DEF Request
  <1> HIDE DEF q
  <1>3. req' = [req EXCEPT ![r] = q]
    BY DEF q
  <1> QED
    BY <1>2, <1>3, StoreUnchanged, OneRequest

LEMMA PointTypes ==
  ASSUME OutboxInv, NEW r \in Requests
  PROVE  PointTimes(r) \in SUBSET Times /\ req[r].known \in SUBSET Times
         /\ req[r].known \subseteq Stored /\ req[r] \in Request
  BY DEF OutboxInv, Types, Accepted, Request, Point, PointTimes

LEMMA ServeStep == ASSUME OutboxInv, NEW r \in Requests, Serve(r), UNCHANGED Device
                   PROVE  OutboxInv'
  <1>1. CASE LiveCheck(r)
    <2>1. UNCHANGED <<stored, position>> /\ req[r].kind = "live"
      BY <1>1 DEF LiveCheck
    <2>2. ASSUME NEW ok \in BOOLEAN, Done(r, ok) PROVE OutboxInv'
      BY <2>1, <2>2, StoreUnchanged, DoneRequest
    <2>3. CASE req' = [req EXCEPT ![r].pc = "checked"]
      <3>1. req' = [req EXCEPT ![r] = [req[r] EXCEPT !.pc = "checked", !.known = req[r].known]]
        BY <2>3, PointTypes DEF Request
      <3> QED
        BY <2>1, <3>1, PointTypes, CheckedRequest
    <2> QED
      BY <1>1, <2>2, <2>3 DEF LiveCheck
  <1>2. CASE LiveInsert(r)
    <2>1. Insert(PointTimes(r)) /\ Upsert(PointTimes(r)) /\ Done(r, TRUE)
          /\ req[r].kind = "live"
      BY <1>2 DEF LiveInsert
    <2>2. stored' \in [Times -> Nat] /\ Stored \subseteq Stored' /\ PositionIsNewest'
      BY <2>1, PointTypes, Inserted DEF OutboxInv, Types
    <2> QED
      BY <2>1, <2>2, DoneRequest
  <1>3. CASE BatchCheck(r)
    <2>1. UNCHANGED <<stored, position>>
      BY <1>3 DEF BatchCheck
    <2>2. CASE Done(r, FALSE)
      BY <2>1, <2>2, StoreUnchanged, DoneRequest
    <2>3. CASE req' = [req EXCEPT ![r].pc = "checked", ![r].known = PointTimes(r) \cap Stored]
      <3> DEFINE known == PointTimes(r) \cap Stored
      <3>1. known \in SUBSET Times /\ known \subseteq Stored
        BY PointTypes
      <3> HIDE DEF known
      <3>2. req' = [req EXCEPT ![r].pc = "checked", ![r].known = known]
        BY <2>3 DEF known
      <3>3. req \in [Requests -> Request]
        BY DEF OutboxInv, Types
      <3>4. req' = [req EXCEPT ![r] = [req[r] EXCEPT !.pc = "checked", !.known = known]]
        BY <3>2, <3>3 DEF Request
      <3> QED
        BY <2>1, <3>1, <3>4, CheckedRequest
    <2> QED
      BY <1>3, <2>2, <2>3 DEF BatchCheck
  <1>4. CASE BatchInsert(r)
    <2> DEFINE new == PointTimes(r) \ req[r].known
    <2>1. Insert(new) /\ Upsert(new) /\ Done(r, TRUE)
      BY <1>4 DEF BatchInsert
    <2>2. new \in SUBSET Times
      BY PointTypes
    <2> HIDE DEF new
    <2>3. stored' \in [Times -> Nat] /\ Stored' = Stored \cup new /\ PositionIsNewest'
      BY <2>1, <2>2, Inserted DEF OutboxInv, Types
    <2>4. PointTimes(r) \subseteq Stored'
      BY <2>3, PointTypes DEF new
    <2> QED
      BY <2>1, <2>3, <2>4, DoneRequest
  <1> QED
    BY <1>1, <1>2, <1>3, <1>4 DEF Serve

LEMMA ServeFailsStep == ASSUME OutboxInv, NEW r \in Requests, ServeFails(r), UNCHANGED Device
                        PROVE  OutboxInv'
  BY StoreUnchanged, DoneRequest DEF ServeFails

-----------------------------------------------------------------------------
(* The device.                                                             *)

(* A fix that is queued, or queued again, is kept unless it is the oldest  *)
(* of too many or a drain is under way.                                    *)
LEMMA Enqueued ==
  ASSUME OutboxInv, NEW point \in Point, Enqueue(point), UNCHANGED <<stored, drain, session>>
  PROVE  /\ queue' \subseteq Point
         /\ past' \in [queued : SUBSET Times, exposed : SUBSET Times, evicted : SUBSET Times]
         /\ FixIsKept' /\ KeptByDrains'
  <1> DEFINE all == {p \in queue : p.ts # point.ts} \cup {point}
             exposed == {ts \in {point.ts} : \E d \in Drainers : drain[d].pc = "sent"}
             evicted == {p.ts : p \in all \ Pruned(all)}
  <1>1. queue' = Pruned(all) /\ Pruned(all) \subseteq all /\ all \subseteq Point
    BY DEF Enqueue, Pruned, NewestPoints, OutboxInv, Types
  <1>2. past' = [past EXCEPT !.queued = @ \cup {point.ts}, !.exposed = @ \cup exposed,
                             !.evicted = @ \cup evicted]
    BY DEF Enqueue
  <1>3. point.ts \in Times /\ exposed \subseteq Times /\ evicted \subseteq Times
    BY <1>1 DEF Point
  <1>4. /\ exposed \subseteq {point.ts}
        /\ \A d \in Drainers : drain[d].pc = "sent" => point.ts \in exposed
        /\ \A p \in all : p.ts \notin evicted => p \in Pruned(all)
    OBVIOUS
  <1>5. point \in all /\ \A p \in queue : p.ts # point.ts => p \in all
    OBVIOUS
  <1> HIDE DEF all, exposed, evicted
  <1>6. past \in [queued : SUBSET Times, exposed : SUBSET Times, evicted : SUBSET Times]
    BY DEF OutboxInv, Types
  <1>7. past' = [queued |-> past.queued \cup {point.ts}, exposed |-> past.exposed \cup exposed,
                 evicted |-> past.evicted \cup evicted]
    BY <1>2, <1>6
  <1>8. past' \in [queued : SUBSET Times, exposed : SUBSET Times, evicted : SUBSET Times]
    BY <1>3, <1>6, <1>7
  <1>9. \A ts \in ToKeep' : /\ ts \notin evicted /\ ts \notin exposed
                            /\ ts = point.ts \/ ts \in ToKeep
    BY <1>7 DEF ToKeep
  <1>10. FixIsKept'
    <2> SUFFICES ASSUME session = 1, NEW ts \in ToKeep'
                 PROVE  stored[ts] > 0 \/ \E p \in Pruned(all) : p.ts = ts
      BY <1>1 DEF FixIsKept, ToKeep
    <2>1. CASE ts = point.ts
      BY <1>4, <1>5, <1>9, <2>1
    <2>2. CASE ts # point.ts
      <3>1. stored[ts] > 0 \/ \E p \in queue : p.ts = ts
        BY <1>9, <2>2 DEF OutboxInv, FixIsKept, ToKeep
      <3> QED
        BY <1>4, <1>5, <1>9, <2>2, <3>1
    <2> QED
      BY <2>1, <2>2
  <1>11. KeptByDrains'
    <2> SUFFICES ASSUME session = 1, NEW d \in Drainers, drain[d].pc = "sent", NEW ts \in ToKeep'
                 PROVE  stored[ts] > 0 \/ \E p \in drain[d].read : p.ts = ts
      BY DEF KeptByDrains
    <2>1. ts \in ToKeep
      BY <1>4, <1>9
    <2> QED
      BY <2>1 DEF OutboxInv, KeptByDrains
  <1> QED
    BY <1>1, <1>8, <1>10, <1>11

(* The sender of a request learns its end: nobody waits for it any more.   *)
LEMMA RequestLeft ==
  ASSUME OutboxInv, NEW r \in Requests, NEW q \in Request, req' = [req EXCEPT ![r] = q],
         UNCHANGED <<stored, position>>, q.from = Nobody, q.known \subseteq Stored,
         q.kind = "batch" /\ q.pc = "done" /\ q.ok => {p.ts : p \in q.points} \subseteq Stored
  PROVE  /\ req' \in [Requests -> Request] /\ Accepted' /\ PositionIsNewest'
         /\ stored' \in [Times -> Nat]
         /\ req'[r].from = Nobody
         /\ \A s \in Requests : s # r => /\ req'[s] = req[s]
                                         /\ req[s].from # Nobody => req[s].from # req[r].from
  <1>1. Stored' = Stored /\ PositionIsNewest' /\ stored' \in [Times -> Nat]
    BY StoreUnchanged
  <1>2. req' \in [Requests -> Request] /\ req'[r] = q
        /\ \A s \in Requests : s # r => req'[s] = req[s]
    BY DEF OutboxInv, Types
  <1>3. Accepted'
    <2> SUFFICES ASSUME NEW s \in Requests
                 PROVE  /\ req'[s].known \subseteq Stored'
                        /\ req'[s].kind = "batch" /\ req'[s].pc = "done" /\ req'[s].ok
                           => {p.ts : p \in req'[s].points} \subseteq Stored'
      BY DEF Accepted, PointTimes
    <2>1. CASE s = r
      BY <1>1, <1>2, <2>1
    <2>2. CASE s # r
      BY <1>1, <1>2, <2>2 DEF OutboxInv, Accepted, PointTimes
    <2> QED
      BY <2>1, <2>2
  <1>4. \A s \in Requests : s # r /\ req[s].from # Nobody => req[s].from # req[r].from
    BY DEF OutboxInv, Senders
  <1> QED
    BY <1>1, <1>2, <1>3, <1>4

LEMMA ReporterTold ==
  ASSUME OutboxInv, NEW r \in Requests, NEW q \in Request, req' = [req EXCEPT ![r] = q],
         UNCHANGED <<stored, position, clock, session>>, q.from = Nobody, q.known \subseteq Stored,
         q.kind = "batch" /\ q.pc = "done" /\ q.ok => {p.ts : p \in q.points} \subseteq Stored,
         req[r].from \in Reporters, NEW ok \in BOOLEAN, Reported(req[r].from, ok)
  PROVE  OutboxInv'
  <1> DEFINE c == req[r].from
             left == [report[c] EXCEPT !.ts = 0]
  <1>1. /\ report \in [Reporters -> [ts : 0 .. MaxTs, owner : Accounts]]
        /\ c \in Reporters /\ report[c].ts # 0
    BY DEF OutboxInv, Types, Senders
  <1>2. report' = [report EXCEPT ![c] = left] /\ UNCHANGED drain
    BY DEF Reported
  <1>3. MaxTs \in Nat
    BY OutboxAssumption
  <1>4. left \in [ts : 0 .. MaxTs, owner : Accounts]
    BY <1>1, <1>3
  <1>5. report' \in [Reporters -> [ts : 0 .. MaxTs, owner : Accounts]]
        /\ \A x \in Reporters : x # c => report'[x] = report[x]
    <2> HIDE DEF left
    <2> QED
      BY <1>1, <1>2, <1>4
  <1>6. /\ queue' \subseteq Point
        /\ past' \in [queued : SUBSET Times, exposed : SUBSET Times, evicted : SUBSET Times]
        /\ FixIsKept' /\ KeptByDrains'
    <2>1. CASE ok
      <3>1. UNCHANGED <<queue, past, drain, stored, session>>
        BY <2>1 DEF Reported
      <3> QED
        BY <3>1 DEF OutboxInv, Types, FixIsKept, KeptByDrains, ToKeep
    <2>2. CASE ~ok
      <3> DEFINE point == [ts |-> report[c].ts, owner |-> report[c].owner]
      <3>1. point \in Point
        BY <1>1, <1>3 DEF Point, Times
      <3>2. Enqueue(point)
        BY <2>2 DEF Reported
      <3> HIDE DEF point
      <3> QED
        BY <1>2, <3>1, <3>2, Enqueued
    <2> QED
      BY <2>1, <2>2
  <1> HIDE DEF c, left
  <1>7. Types'
    BY <1>2, <1>5, <1>6, RequestLeft DEF OutboxInv, Types
  <1>8. Senders'
    <2>1. Nobody \notin Reporters /\ Nobody \notin Drainers
      BY OutboxAssumption
    <2>2. \A s \in Requests : s # r => req'[s] = req[s] /\ (req[s].from # Nobody => req[s].from # c)
      BY RequestLeft DEF c
    <2>3. req'[r].from = Nobody
      BY RequestLeft
    <2> QED
      BY <1>2, <1>5, <2>1, <2>2, <2>3 DEF OutboxInv, Senders
  <1> QED
    BY <1>6, <1>7, <1>8, RequestLeft DEF OutboxInv

LEMMA DrainTold ==
  ASSUME OutboxInv, NEW r \in Requests, NEW q \in Request, req' = [req EXCEPT ![r] = q],
         UNCHANGED <<stored, position, clock, session>>, q.from = Nobody, q.known \subseteq Stored,
         q.kind = "batch" /\ q.pc = "done" /\ q.ok => {p.ts : p \in q.points} \subseteq Stored,
         req[r].from \in Drainers, NEW ok \in BOOLEAN, Drained(req[r].from, ok),
         ok => req[r].pc = "done" /\ req[r].ok
  PROVE  OutboxInv'
  <1> DEFINE d == req[r].from
  <1>1. /\ drain \in [Drainers -> [pc : {"idle", "sent"}, read : SUBSET Point, batch : SUBSET Point]]
        /\ d \in Drainers /\ drain[d].pc = "sent" /\ req[r].kind = "batch"
        /\ req[r].points = drain[d].batch /\ queue \subseteq Point
    BY DEF OutboxInv, Types, Senders
  <1>2. /\ drain' = [drain EXCEPT ![d] = Quiet] /\ UNCHANGED <<report, past>>
        /\ queue' = IF ok THEN drain[d].read \ drain[d].batch ELSE queue
    BY DEF Drained, Remaining
  <1>3. Quiet \in [pc : {"idle", "sent"}, read : SUBSET Point, batch : SUBSET Point]
        /\ Quiet.pc = "idle"
    BY DEF Quiet
  <1>4. /\ drain' \in [Drainers -> [pc : {"idle", "sent"}, read : SUBSET Point, batch : SUBSET Point]]
        /\ drain'[d].pc = "idle" /\ \A x \in Drainers : x # d => drain'[x] = drain[x]
    BY <1>1, <1>2, <1>3
  <1>5. queue' \subseteq Point
    BY <1>1, <1>2
  <1>6. ok => \A p \in drain[d].batch : stored[p.ts] > 0
    BY <1>1 DEF OutboxInv, Accepted, PointTimes, Stored
  <1> HIDE DEF d
  <1>7. Types'
    BY <1>2, <1>4, <1>5, RequestLeft DEF OutboxInv, Types
  <1>8. Senders'
    <2>1. Nobody \notin Reporters /\ Nobody \notin Drainers
      BY OutboxAssumption
    <2>2. \A s \in Requests : s # r => req'[s] = req[s] /\ (req[s].from # Nobody => req[s].from # d)
      BY RequestLeft DEF d
    <2>3. req'[r].from = Nobody
      BY RequestLeft
    <2> QED
      BY <1>2, <1>4, <2>1, <2>2, <2>3 DEF OutboxInv, Senders
  <1>9. FixIsKept'
    <2> SUFFICES ASSUME session = 1, NEW ts \in ToKeep
                 PROVE  stored[ts] > 0 \/ \E p \in queue' : p.ts = ts
      BY <1>2 DEF FixIsKept, ToKeep
    <2>1. CASE ok
      <3>1. stored[ts] > 0 \/ \E p \in drain[d].read : p.ts = ts
        BY <1>1 DEF OutboxInv, KeptByDrains
      <3> QED
        BY <1>2, <1>6, <2>1, <3>1
    <2>2. CASE ~ok
      BY <1>2, <2>2 DEF OutboxInv, FixIsKept, ToKeep
    <2> QED
      BY <2>1, <2>2
  <1>10. KeptByDrains'
    <2> SUFFICES ASSUME session = 1, NEW x \in Drainers, drain'[x].pc = "sent", NEW ts \in ToKeep
                 PROVE  stored[ts] > 0 \/ \E p \in drain'[x].read : p.ts = ts
      BY <1>2 DEF KeptByDrains, ToKeep
    <2>1. drain'[x] = drain[x]
      BY <1>4
    <2> QED
      BY <2>1 DEF OutboxInv, KeptByDrains
  <1> QED
    BY <1>7, <1>8, <1>9, <1>10, RequestLeft DEF OutboxInv

(* A request begins for a client that waits for none.                      *)
LEMMA Posted ==
  ASSUME OutboxInv, NEW r \in Requests, NEW client \in Clients, NEW kind \in {"live", "batch"},
         NEW points \in SUBSET Point, Post(r, client, kind, session, points),
         UNCHANGED <<stored, position>>
  PROVE  /\ req' \in [Requests -> Request] /\ Accepted' /\ PositionIsNewest'
         /\ stored' \in [Times -> Nat]
         /\ req'[r].from = client /\ req'[r].kind = kind /\ req'[r].points = points
         /\ \A s \in Requests : s # r => req'[s] = req[s]
  <1> DEFINE q == [pc |-> "sent", from |-> client, kind |-> kind, account |-> session,
                   points |-> points, known |-> {}, ok |-> FALSE]
  <1>1. req' = [req EXCEPT ![r] = q]
    BY DEF Post
  <1>2. session \in Accounts
    BY DEF OutboxInv, Types
  <1>3. /\ q \in Request /\ q.from = client /\ q.kind = kind /\ q.points = points
        /\ q.known = {} /\ q.pc # "done"
    BY <1>2 DEF Request
  <1> HIDE DEF q
  <1>4. req' \in [Requests -> Request] /\ req'[r] = q
        /\ \A s \in Requests : s # r => req'[s] = req[s]
    BY <1>1, <1>3 DEF OutboxInv, Types
  <1>5. Stored' = Stored /\ PositionIsNewest' /\ stored' \in [Times -> Nat]
    BY StoreUnchanged
  <1>6. Accepted'
    <2> SUFFICES ASSUME NEW s \in Requests
                 PROVE  /\ req'[s].known \subseteq Stored'
                        /\ req'[s].kind = "batch" /\ req'[s].pc = "done" /\ req'[s].ok
                           => {p.ts : p \in req'[s].points} \subseteq Stored'
      BY DEF Accepted, PointTimes
    <2>1. CASE s = r
      BY <1>3, <1>4, <2>1
    <2>2. CASE s # r
      BY <1>4, <1>5, <2>2 DEF OutboxInv, Accepted, PointTimes
    <2> QED
      BY <2>1, <2>2
  <1> QED
    BY <1>3, <1>4, <1>5, <1>6

LEMMA TakeFixStep ==
  ASSUME OutboxInv, NEW r \in Requests, NEW c \in Reporters, TakeFix(c, r) PROVE OutboxInv'
  <1> DEFINE point == [ts |-> clock + 1, owner |-> session]
  <1>1. /\ MaxTs \in Nat /\ c \in Clients /\ c \notin Drainers /\ c # Nobody
    BY OutboxAssumption
  <1>2. /\ clock < MaxTs /\ report[c].ts = 0 /\ clock' = clock + 1
        /\ report' = [report EXCEPT ![c] = point]
        /\ Post(r, c, "live", session, {point})
        /\ UNCHANGED <<stored, position, queue, drain, session, past>>
    BY DEF TakeFix
  <1>3. /\ point \in Point /\ point \in [ts : 0 .. MaxTs, owner : Accounts] /\ point.ts # 0
        /\ clock' \in 0 .. MaxTs
    BY <1>1, <1>2 DEF OutboxInv, Types, Point, Times
  <1> HIDE DEF point
  <1>4. /\ req' \in [Requests -> Request] /\ Accepted' /\ PositionIsNewest'
        /\ stored' \in [Times -> Nat] /\ req'[r].from = c
        /\ \A s \in Requests : s # r => req'[s] = req[s]
    BY <1>1, <1>2, <1>3, Posted
  <1>5. /\ report' \in [Reporters -> [ts : 0 .. MaxTs, owner : Accounts]] /\ report'[c].ts # 0
        /\ \A x \in Reporters : x # c => report'[x] = report[x]
    BY <1>2, <1>3 DEF OutboxInv, Types
  <1>6. Types'
    BY <1>2, <1>3, <1>4, <1>5 DEF OutboxInv, Types
  <1>7. \A s \in Requests : req[s].from # c
    BY <1>2 DEF OutboxInv, Senders
  <1>8. Senders'
    BY <1>1, <1>2, <1>4, <1>5, <1>7 DEF OutboxInv, Senders
  <1>9. FixIsKept' /\ KeptByDrains'
    BY <1>2 DEF OutboxInv, FixIsKept, KeptByDrains, ToKeep
  <1> QED
    BY <1>4, <1>6, <1>8, <1>9 DEF OutboxInv

LEMMA DrainBeginStep ==
  ASSUME OutboxInv, NEW r \in Requests, NEW d \in Drainers, DrainBegin(d, r) PROVE OutboxInv'
  <1> DEFINE batch == NewestPoints(queue, MaxPerCall)
             begun == [pc |-> "sent", read |-> queue, batch |-> batch]
  <1>1. d \in Clients /\ d \notin Reporters /\ d # Nobody
    BY OutboxAssumption
  <1>2. /\ drain[d].pc = "idle" /\ drain' = [drain EXCEPT ![d] = begun]
        /\ Post(r, d, "batch", session, batch)
        /\ UNCHANGED <<stored, position, queue, clock, report, session, past>>
    BY DEF DrainBegin
  <1>3. batch \subseteq queue /\ queue \subseteq Point
    BY DEF NewestPoints, OutboxInv, Types
  <1> HIDE DEF batch
  <1>4. /\ begun \in [pc : {"idle", "sent"}, read : SUBSET Point, batch : SUBSET Point]
        /\ begun.pc = "sent" /\ begun.read = queue /\ begun.batch = batch
    BY <1>3
  <1> HIDE DEF begun
  <1>5. /\ req' \in [Requests -> Request] /\ Accepted' /\ PositionIsNewest'
        /\ stored' \in [Times -> Nat] /\ req'[r].from = d /\ req'[r].kind = "batch"
        /\ req'[r].points = batch
        /\ \A s \in Requests : s # r => req'[s] = req[s]
    BY <1>1, <1>2, <1>3, Posted
  <1>6. /\ drain' \in [Drainers -> [pc : {"idle", "sent"}, read : SUBSET Point, batch : SUBSET Point]]
        /\ drain'[d] = begun /\ \A x \in Drainers : x # d => drain'[x] = drain[x]
    BY <1>2, <1>4 DEF OutboxInv, Types
  <1>7. Types'
    BY <1>2, <1>5, <1>6 DEF OutboxInv, Types
  <1>8. \A s \in Requests : req[s].from # d
    BY <1>2 DEF OutboxInv, Senders
  <1>9. Senders'
    BY <1>1, <1>2, <1>4, <1>5, <1>6, <1>8 DEF OutboxInv, Senders
  <1>10. FixIsKept'
    BY <1>2 DEF OutboxInv, FixIsKept
  <1>11. KeptByDrains'
    <2> SUFFICES ASSUME session = 1, NEW x \in Drainers, drain'[x].pc = "sent", NEW ts \in ToKeep
                 PROVE  stored[ts] > 0 \/ \E p \in drain'[x].read : p.ts = ts
      BY <1>2 DEF KeptByDrains, ToKeep
    <2>1. CASE x = d
      BY <1>4, <1>6, <2>1 DEF OutboxInv, FixIsKept, ToKeep
    <2>2. CASE x # d
      BY <1>6, <2>2 DEF OutboxInv, KeptByDrains
    <2> QED
      BY <2>1, <2>2
  <1> QED
    BY <1>5, <1>7, <1>9, <1>10, <1>11 DEF OutboxInv

(* How a client learns the end of its request.                             *)
LEMMA ClientTold ==
  ASSUME OutboxInv, NEW r \in Requests, NEW q \in Request, req' = [req EXCEPT ![r] = q],
         UNCHANGED <<stored, position, clock, session>>, q.from = Nobody, q.known \subseteq Stored,
         q.kind = "batch" /\ q.pc = "done" /\ q.ok => {p.ts : p \in q.points} \subseteq Stored,
         NEW ok \in BOOLEAN, Told(req[r].from, ok), ok => req[r].pc = "done" /\ req[r].ok
  PROVE  OutboxInv'
  BY ReporterTold, DrainTold DEF Told

LEMMA AnswerStep == ASSUME OutboxInv, NEW r \in Requests, Answer(r) PROVE OutboxInv'
  <1>1. req[r].ok \in BOOLEAN
    BY DEF OutboxInv, Types, Request
  <1> QED
    BY <1>1, FreeType, ClientTold DEF Answer

LEMMA LostStep ==
  ASSUME OutboxInv, NEW r \in Requests, Lost(r), UNCHANGED <<clock, session>> PROVE OutboxInv'
  BY FreeType, ClientTold DEF Lost

LEMMA GivenUpStep ==
  ASSUME OutboxInv, NEW r \in Requests, GivenUp(r), UNCHANGED <<clock, session>> PROVE OutboxInv'
  <1> DEFINE q == [req[r] EXCEPT !.from = Nobody]
  <1>1. req[r] \in Request /\ req[r].pc # "done" /\ req[r].known \subseteq Stored
    BY DEF GivenUp, OutboxInv, Types, Accepted
  <1>2. q \in Request /\ q.from = Nobody /\ q.known = req[r].known /\ q.pc = req[r].pc
    BY <1>1 DEF Request
  <1>3. req' = [req EXCEPT ![r] = q] /\ UNCHANGED <<stored, position>> /\ Told(req[r].from, FALSE)
    BY DEF GivenUp
  <1> HIDE DEF q
  <1> QED
    BY <1>1, <1>2, <1>3, ClientTold

LEMMA LogoutStep == ASSUME OutboxInv, Logout PROVE OutboxInv'
  <1>1. /\ session < MaxSessions /\ session' = session + 1 /\ queue' = {}
        /\ UNCHANGED <<stored, position, req, clock, report, drain, past>>
    BY DEF Logout, svars
  <1>2. session' \in Accounts /\ session' # 1
    BY <1>1, OutboxAssumption DEF OutboxInv, Types
  <1>3. Types'
    BY <1>1, <1>2 DEF OutboxInv, Types
  <1>4. Senders'
    BY <1>1 DEF OutboxInv, Senders
  <1>5. Accepted'
    BY <1>1 DEF OutboxInv, Accepted, PointTimes, Stored
  <1>6. PositionIsNewest' /\ FixIsKept' /\ KeptByDrains'
    BY <1>1, <1>2, StoreUnchanged DEF FixIsKept, KeptByDrains
  <1> QED
    BY <1>3, <1>4, <1>5, <1>6 DEF OutboxInv

-----------------------------------------------------------------------------
LEMMA OutboxInvInit == Init => OutboxInv
  <1> SUFFICES ASSUME Init PROVE OutboxInv
    OBVIOUS
  <1>1. stored = [t \in Times |-> 0] /\ position = 0 /\ req = [r \in Requests |-> Free]
        /\ queue = {} /\ clock = 0 /\ report = [c \in Reporters |-> [ts |-> 0, owner |-> 1]]
        /\ drain = [d \in Drainers |-> Quiet] /\ session = 1
        /\ past = [queued |-> {}, exposed |-> {}, evicted |-> {}]
    BY DEF Init, StoreInit
  <1>2. 1 \in Accounts /\ MaxTs \in Nat /\ Nobody \notin Reporters /\ Nobody \notin Drainers
    BY OutboxAssumption
  <1>3. Types
    <2>1. Quiet \in [pc : {"idle", "sent"}, read : SUBSET Point, batch : SUBSET Point]
      BY DEF Quiet
    <2> QED
      BY <1>1, <1>2, <2>1, FreeType DEF Types
  <1>4. Stored = {}
    BY <1>1 DEF Stored
  <1>5. PositionIsNewest
    BY <1>1, <1>4 DEF PositionIsNewest, Newest
  <1>6. Senders /\ Accepted
    BY <1>1, <1>2, FreeType DEF Senders, Accepted
  <1>7. FixIsKept /\ KeptByDrains
    BY <1>1 DEF FixIsKept, KeptByDrains, ToKeep
  <1> QED
    BY <1>3, <1>5, <1>6, <1>7 DEF OutboxInv

LEMMA OutboxInvStep == OutboxInv /\ [Next]_vars => OutboxInv'
  <1> SUFFICES ASSUME OutboxInv, [Next]_vars PROVE OutboxInv'
    OBVIOUS
  <1>1. ASSUME NEW r \in Requests, NEW c \in Reporters, TakeFix(c, r) PROVE OutboxInv'
    BY <1>1, TakeFixStep
  <1>2. ASSUME NEW r \in Requests, NEW d \in Drainers, DrainBegin(d, r) PROVE OutboxInv'
    BY <1>2, DrainBeginStep
  <1>3. ASSUME NEW r \in Requests, Answer(r) PROVE OutboxInv'
    BY <1>3, AnswerStep
  <1>4. CASE Server
    BY <1>4, ServeStep DEF Server, dvars, Device
  <1>5. CASE Fault
    <2>1. PICK r \in Requests : \/ Lost(r)
                                \/ GivenUp(r)
                                \/ ServeFails(r) /\ UNCHANGED <<queue, report, drain, past>>
      BY <1>5 DEF Fault
    <2>2. UNCHANGED <<clock, session>>
      BY <1>5 DEF Fault
    <2>3. CASE Lost(r) \/ GivenUp(r)
      BY <2>2, <2>3, LostStep, GivenUpStep
    <2>4. CASE ServeFails(r) /\ UNCHANGED <<queue, report, drain, past>>
      BY <2>2, <2>4, ServeFailsStep DEF Device
    <2> QED
      BY <2>1, <2>3, <2>4
  <1>6. CASE Logout
    BY <1>6, LogoutStep
  <1>7. CASE UNCHANGED vars
    <2>1. UNCHANGED <<stored, position, req, queue, clock, report, drain, session, past>>
      BY <1>7 DEF vars, svars, dvars
    <2>2. Types' /\ Senders'
      BY <2>1 DEF OutboxInv, Types, Senders
    <2>3. Accepted' /\ PositionIsNewest'
      BY <2>1, StoreUnchanged DEF OutboxInv, Accepted, PointTimes
    <2>4. FixIsKept' /\ KeptByDrains'
      BY <2>1 DEF OutboxInv, FixIsKept, KeptByDrains, ToKeep
    <2> QED
      BY <2>2, <2>3, <2>4 DEF OutboxInv
  <1> QED
    BY <1>1, <1>2, <1>3, <1>4, <1>5, <1>6, <1>7 DEF Next

LEMMA OutboxInvHolds == Spec => []OutboxInv
  BY OutboxInvInit, OutboxInvStep, PTL DEF Spec

(* Only the end of its request ends a drain.                               *)
LEMMA DrainEnds ==
  ASSUME OutboxInv, [Next]_vars, NEW d \in Drainers, drain[d].pc = "sent", drain'[d].pc = "idle"
  PROVE  \E r \in Requests, ok \in BOOLEAN :
            /\ req[r].from = d /\ Drained(d, ok)
            /\ ok => req[r].pc = "done" /\ req[r].ok
  <1>0. /\ drain \in [Drainers -> [pc : {"idle", "sent"}, read : SUBSET Point, batch : SUBSET Point]]
        /\ Reporters \cap Drainers = {}
    BY OutboxAssumption DEF OutboxInv, Types
  <1>1. ASSUME NEW r \in Requests, NEW ok \in BOOLEAN, Told(req[r].from, ok)
        PROVE  req[r].from = d /\ Drained(d, ok)
    <2>1. CASE Reported(req[r].from, ok)
      <3>1. drain' = drain
        BY <2>1 DEF Reported
      <3> QED
        BY <3>1
    <2>2. CASE req[r].from \in Drainers /\ Drained(req[r].from, ok)
      <3>1. drain' = [drain EXCEPT ![req[r].from] = Quiet]
        BY <2>2 DEF Drained
      <3>2. req[r].from # d => drain'[d] = drain[d]
        BY <1>0, <2>2, <3>1
      <3> QED
        BY <2>2, <3>2
    <2> QED
      BY <1>1, <2>1, <2>2 DEF Told
  <1>2. ASSUME NEW r \in Requests, Answer(r)
        PROVE  Told(req[r].from, req[r].ok) /\ req[r].ok \in BOOLEAN /\ req[r].pc = "done"
    BY <1>2 DEF Answer, OutboxInv, Types, Request
  <1>3. ASSUME NEW r \in Requests, Lost(r) \/ GivenUp(r) PROVE Told(req[r].from, FALSE)
    BY <1>3 DEF Lost, GivenUp
  <1>4. ASSUME NEW r \in Requests, NEW x \in Drainers, DrainBegin(x, r) PROVE FALSE
    <2>1. drain[x].pc = "idle" /\ \E v : drain' = [drain EXCEPT ![x] = v]
      BY <1>4 DEF DrainBegin
    <2>2. x # d => drain'[d] = drain[d]
      BY <1>0, <2>1
    <2> QED
      BY <2>1, <2>2
  <1>5. ASSUME NEW r \in Requests, NEW c \in Reporters, TakeFix(c, r) PROVE FALSE
    BY <1>5 DEF TakeFix
  <1>6. CASE Server \/ Logout \/ UNCHANGED vars
    BY <1>6 DEF Server, Logout, vars, dvars
  <1>7. CASE Fault
    <2>1. PICK r \in Requests : \/ Lost(r)
                                \/ GivenUp(r)
                                \/ UNCHANGED drain
      BY <1>7 DEF Fault
    <2>2. CASE Lost(r) \/ GivenUp(r)
      <3>1. req[r].from = d /\ Drained(d, FALSE)
        BY <1>1, <1>3, <2>2
      <3> QED
        BY <3>1
    <2> QED
      BY <2>1, <2>2
  <1> QED
    BY <1>1, <1>2, <1>4, <1>5, <1>6, <1>7 DEF Next

-----------------------------------------------------------------------------
(* The theorems.                                                           *)

(* The last-known position is that of the newest fix stored, in whatever   *)
(* order live reports and batches are checked, stored and repeated         *)
(* (location.go:189-283, location_batch.go:33).                            *)
THEOREM PositionFollowsHistory == Spec => []PositionIsNewest
  BY OutboxInvHolds, PTL DEF OutboxInv

(* A fix whose report has failed is in the queue until the server has it,  *)
(* but for the cap, the end of the session and a drain that was under way  *)
(* when it was queued, however many drains overlap                         *)
(* (location_outbox.dart:134-190).                                         *)
THEOREM QueuedFixesAreKept == Spec => []FixIsKept
  BY OutboxInvHolds, PTL DEF OutboxInv

(* Of the fixes a drain has read, its end takes out of the queue only what *)
(* the server has: "Drained points are removed from the queue only on      *)
(* `true`" (location_outbox.dart:27).  A fix queued while the drain was    *)
(* under way is not one of them: the write-back removes it unsent.         *)
THEOREM DrainsLoseNothing == Spec => DrainedIsStored
  <1>1. OutboxInv /\ [Next]_vars
        => [\A d \in Drainers : drain[d].pc = "sent" /\ drain'[d].pc = "idle" =>
              \A p \in drain[d].read : p \in queue /\ p \notin queue' => stored[p.ts] > 0]_vars
    <2> SUFFICES ASSUME OutboxInv, [Next]_vars, NEW d \in Drainers,
                        drain[d].pc = "sent", drain'[d].pc = "idle",
                        NEW p \in drain[d].read, p \in queue, p \notin queue'
                 PROVE  stored[p.ts] > 0
      OBVIOUS
    <2>1. PICK r \in Requests, ok \in BOOLEAN :
             /\ req[r].from = d /\ Drained(d, ok)
             /\ ok => req[r].pc = "done" /\ req[r].ok
      BY DrainEnds
    <2>2. ok /\ p \in drain[d].batch
      BY <2>1 DEF Drained, Remaining
    <2>3. req[r].kind = "batch" /\ req[r].points = drain[d].batch
      BY <2>1 DEF OutboxInv, Senders
    <2> QED
      BY <2>1, <2>2, <2>3 DEF OutboxInv, Accepted, PointTimes, Stored
  <1> QED
    BY <1>1, OutboxInvHolds, PTL DEF Spec, DrainedIsStored
=============================================================================
