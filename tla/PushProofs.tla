----------------------------- MODULE PushProofs -----------------------------
(***************************************************************************)
(* Proofs about PushDelivery.                                              *)
(***************************************************************************)
EXTENDS PushDelivery, FiniteSetTheorems, TLAPS

N == Cardinality(Devices)
Sending == {"send", "mark", "bury"}

(* What a sender has in hand in each phase.                                *)
Shaped(j) ==
    /\ j.pc \in {"idle", "query"} => j.todo = {}
    /\ j.pc = "next" => j.todo # {}
    /\ IF j.pc \in Sending THEN j.at \in Pair /\ j.at \notin j.todo ELSE j.at = <<>>

(* The goroutine of e, whose event is `a` ticks old, keeps to its budget.  *)
InTime(e, j, a) ==
    /\ j.todo \subseteq {e} \X Devices /\ j.blank = {}
    /\ j.pc \in Sending => j.at \in {e} \X Devices
    /\ j.pc # "idle" => a # NotYet
    /\ j.pc = "query" => a <= j.spent
    /\ j.pc = "next" => a + Cardinality(j.todo) <= N + 1 + j.spent
    /\ j.pc \in Sending => a + Cardinality(j.todo) <= N + j.spent

(* The worker has only events in hand that are old enough.                 *)
Seasoned(j) ==
    /\ j.pc # "query"
    /\ \A p \in j.todo : age[p[1]] = MinAge
    /\ j.pc \in Sending => age[j.at[1]] = MinAge

(* What sender s may be doing.                                             *)
Good(s, j) ==
    /\ j \in Job /\ Shaped(j)
    /\ s \in Events => InTime(s, j, age[s])
    /\ s = Worker => Seasoned(j)

Paced ==
    /\ age \in [Events -> NotYet .. MinAge]
    /\ job \in [Senders -> Job]
    /\ \A s \in Senders : Good(s, job[s])

-----------------------------------------------------------------------------
LEMMA NoPairIsEmpty == \A e, d : <<e, d>> # <<>>
  OBVIOUS

LEMMA AtIsTyped ==
  /\ <<>> \in Pair \cup {<<>>} /\ Pair \subseteq Pair \cup {<<>>}
  /\ 0 \in 0 .. Retries /\ 1 \in 0 .. Retries /\ 0 \in 0 .. 1
  BY PushAssumption

LEMMA Constants ==
  /\ N \in Nat /\ MinAge \in Nat /\ MinAge > N + 1 /\ Retries \in Nat \ {0}
  /\ Worker \in Senders /\ Worker \notin Events /\ Events \subseteq Senders
  /\ \A s \in Senders : s \in Events \/ s = Worker
  BY PushAssumption, BudgetAssumption, FS_CardinalityType DEF N, Senders

(* A fence's devices bound what one goroutine has ahead of it.             *)
LEMMA Ahead ==
  ASSUME NEW e, NEW T \in SUBSET ({e} \X Devices)
  PROVE  /\ IsFiniteSet(T) /\ Cardinality(T) \in 0 .. N
         /\ \A p \in T : Cardinality(T \ {p}) = Cardinality(T) - 1
  <1>1. IsFiniteSet({e}) /\ Cardinality({e}) = 1
    BY FS_Singleton
  <1>2. IsFiniteSet({e} \X Devices) /\ Cardinality({e} \X Devices) = N
    <2>1. /\ IsFiniteSet({e} \X Devices)
          /\ Cardinality({e} \X Devices) = Cardinality({e}) * Cardinality(Devices)
      BY <1>1, BudgetAssumption, FS_Product
    <2>2. QED
      BY <1>1, <2>1, Constants DEF N
  <1>3. IsFiniteSet(T) /\ Cardinality(T) <= N
    BY <1>2, FS_Subset
  <1>4. Cardinality(T) \in Nat
    BY <1>3, FS_CardinalityType
  <1>5. \A p \in T : Cardinality(T \ {p}) = Cardinality(T) - 1
    BY <1>3, FS_RemoveElement
  <1>6. QED
    BY <1>3, <1>4, <1>5, Constants


-----------------------------------------------------------------------------
(* Every job a sender turns to is one it may have.                         *)

LEMMA IdleIsGood == \A s \in Senders : Idle \in Job /\ Good(s, Idle)
  <1>1. Idle \in Job
    BY Constants DEF Idle, Job
  <1>2. Shaped(Idle)
    BY DEF Shaped, Idle, Sending
  <1>3. \A e \in Events : InTime(e, Idle, age[e])
    BY DEF InTime, Idle, Sending
  <1>4. Seasoned(Idle)
    BY DEF Seasoned, Idle, Sending
  <1>5. QED
    BY <1>1, <1>2, <1>3, <1>4 DEF Good

(* Query, send and mark: the same delivery in another phase.               *)
LEMMA PhaseIsGood ==
  ASSUME Paced, NEW s \in Senders, job[s].pc \in Sending, NEW pc \in Sending
  PROVE  Good(s, Working(s, pc))
  <1> PICK j : j = job[s]
    OBVIOUS
  <1> PICK k : k = [j EXCEPT !.pc = pc]
    OBVIOUS
  <1>1. j \in Job /\ j.pc \in Sending /\ Good(s, j)
    BY DEF Paced
  <1>2. /\ k \in Job /\ k.pc = pc /\ k.todo = j.todo /\ k.blank = j.blank
        /\ k.at = j.at /\ k.spent = j.spent
    BY <1>1 DEF Job, Sending
  <1>3. Shaped(k)
    BY <1>1, <1>2 DEF Good, Shaped, Sending
  <1>4. s \in Events => InTime(s, k, age[s])
    BY <1>1, <1>2 DEF Good, InTime, Sending
  <1>5. s = Worker => Seasoned(k)
    BY <1>1, <1>2 DEF Good, Seasoned, Sending
  <1>6. QED
    BY <1>2, <1>3, <1>4, <1>5 DEF Good, Working

LEMMA RetryIsGood ==
  ASSUME Paced, NEW s \in Senders, job[s].pc = "send", job[s].try < Retries
  PROVE  Good(s, [job[s] EXCEPT !.try = @ + 1])
  <1> PICK j : j = job[s]
    OBVIOUS
  <1> PICK k : k = [j EXCEPT !.try = @ + 1]
    OBVIOUS
  <1>1. j \in Job /\ j.pc = "send" /\ Good(s, j) /\ j.try < Retries
    BY DEF Paced
  <1>2. /\ k \in Job /\ k.pc = j.pc /\ k.todo = j.todo /\ k.blank = j.blank
        /\ k.at = j.at /\ k.spent = j.spent
    BY <1>1, Constants DEF Job
  <1>3. Shaped(k)
    BY <1>1, <1>2 DEF Good, Shaped, Sending
  <1>4. s \in Events => InTime(s, k, age[s])
    BY <1>1, <1>2 DEF Good, InTime, Sending
  <1>5. s = Worker => Seasoned(k)
    BY <1>1, <1>2 DEF Good, Seasoned, Sending
  <1>6. QED
    BY <1>2, <1>3, <1>4, <1>5 DEF Good

(* On to another device, with the whole budget of that device ahead.       *)
LEMMA NextIsGood ==
  ASSUME Paced, NEW s \in Senders, job[s].pc \in Sending
  PROVE  Good(s, Next_(s))
  <1> PICK j : j = job[s]
    OBVIOUS
  <1> PICK k : k = [j EXCEPT !.pc = "next", !.at = <<>>, !.try = 0, !.spent = 0]
    OBVIOUS
  <1>1. j \in Job /\ j.pc \in Sending /\ Good(s, j)
    BY DEF Paced
  <1>2. CASE j.todo = {}
    BY <1>2, IdleIsGood DEF Next_
  <1>3. CASE j.todo # {}
    <2>1. /\ k.pc = "next" /\ k.todo = j.todo /\ k.blank = j.blank
          /\ k.at = <<>> /\ k.spent = 0
      BY <1>1 DEF Job
    <2>6. k \in Job
      BY <1>1, AtIsTyped DEF Job
    <2>2. Shaped(k)
      BY <1>3, <2>1 DEF Shaped, Sending
    <2>3. s \in Events => InTime(s, k, age[s])
      <3> SUFFICES ASSUME s \in Events PROVE InTime(s, k, age[s])
        OBVIOUS
      <3>1. InTime(s, j, age[s]) /\ j.spent \in 0 .. 1 /\ age[s] \in NotYet .. MinAge
        BY <1>1 DEF Good, Job, Paced
      <3>2. Cardinality(j.todo) \in 0 .. N
        BY <3>1, Ahead DEF InTime
      <3>3. age[s] + Cardinality(k.todo) <= N + 1 + k.spent
        BY <1>1, <2>1, <3>1, <3>2, Constants DEF InTime, NotYet
      <3>4. QED
        BY <1>1, <2>1, <3>1, <3>3 DEF InTime, Sending
    <2>4. s = Worker => Seasoned(k)
      BY <1>1, <2>1 DEF Good, Seasoned, Sending
    <2>5. QED
      BY <1>3, <2>2, <2>3, <2>4, <2>6 DEF Good, Next_
  <1>4. QED
    BY <1>2, <1>3

(* The pass of the worker over a delivery it does not send.                *)
LEMMA SkipIsGood ==
  ASSUME Paced, job[Worker].pc = "next", NEW p \in job[Worker].todo,
         job[Worker].todo \ {p} # {}
  PROVE  Good(Worker, [job[Worker] EXCEPT !.todo = job[Worker].todo \ {p}])
  <1> PICK j : j = job[Worker]
    OBVIOUS
  <1> PICK k : k = [j EXCEPT !.todo = j.todo \ {p}]
    OBVIOUS
  <1>1. j \in Job /\ Good(Worker, j) /\ j.pc = "next" /\ j.todo \ {p} # {}
    BY Constants DEF Paced
  <1>2. /\ k \in Job /\ k.pc = "next" /\ k.todo = j.todo \ {p} /\ k.at = j.at
    BY <1>1 DEF Job
  <1>3. Shaped(k)
    BY <1>1, <1>2 DEF Good, Shaped, Sending
  <1>4. Seasoned(k)
    BY <1>1, <1>2 DEF Good, Seasoned, Sending
  <1>5. QED
    BY <1>2, <1>3, <1>4, Constants DEF Good

(* Taking up the next device.                                              *)
LEMMA BeginIsGood ==
  ASSUME Paced, NEW s \in Senders, job[s].pc = "next", NEW p \in job[s].todo
  PROVE  Good(s, [job[s] EXCEPT !.pc = "send", !.todo = job[s].todo \ {p},
                                !.at = p, !.try = 1])
  <1> PICK j : j = job[s]
    OBVIOUS
  <1> PICK k : k = [j EXCEPT !.pc = "send", !.todo = j.todo \ {p}, !.at = p, !.try = 1]
    OBVIOUS
  <1>1. j \in Job /\ Good(s, j) /\ j.pc = "next" /\ p \in j.todo
    BY DEF Paced
  <1>2. p \in Pair
    BY <1>1 DEF Job
  <1>3. /\ k.pc = "send" /\ k.todo = j.todo \ {p} /\ k.at = p
        /\ k.blank = j.blank /\ k.spent = j.spent
    BY <1>1 DEF Job
  <1>8. k \in Job
    BY <1>1, <1>2, AtIsTyped DEF Job
  <1>4. Shaped(k)
    BY <1>2, <1>3 DEF Shaped, Sending
  <1>5. s \in Events => InTime(s, k, age[s])
    <2> SUFFICES ASSUME s \in Events PROVE InTime(s, k, age[s])
      OBVIOUS
    <2>1. InTime(s, j, age[s]) /\ j.spent \in 0 .. 1 /\ age[s] \in NotYet .. MinAge
      BY <1>1 DEF Good, Job, Paced
    <2>2. Cardinality(j.todo) \in 0 .. N /\ Cardinality(k.todo) = Cardinality(j.todo) - 1
      <3>1. j.todo \in SUBSET ({s} \X Devices)
        BY <2>1 DEF InTime
      <3>2. Cardinality(j.todo) \in 0 .. N /\ Cardinality(j.todo \ {p}) = Cardinality(j.todo) - 1
        BY <1>1, <3>1, Ahead
      <3>3. QED
        BY <1>3, <3>2
    <2>3. age[s] + Cardinality(k.todo) <= N + k.spent
      BY <1>1, <1>3, <2>1, <2>2, Constants DEF InTime, NotYet
    <2>4. QED
      BY <1>1, <1>3, <2>1, <2>3 DEF InTime, Sending
  <1>6. s = Worker => Seasoned(k)
    BY <1>1, <1>3 DEF Good, Seasoned, Sending
  <1>7. QED
    BY <1>4, <1>5, <1>6, <1>8 DEF Good

(* What the queries of the goroutine and of the worker find.               *)
LEMMA LoadIsGood ==
  ASSUME Paced, NEW e \in Events, job[e].pc = "query",
         NEW T \in SUBSET ({e} \X Devices), T # {}
  PROVE  Good(e, [Idle EXCEPT !.pc = "next", !.todo = T])
  <1> PICK k : k = [Idle EXCEPT !.pc = "next", !.todo = T]
    OBVIOUS
  <1>1. /\ k.pc = "next" /\ k.todo = T /\ k.at = <<>>
        /\ k.blank = {} /\ k.spent = 0
    BY DEF Idle
  <1>5. k \in Job
    <2>1. T \in SUBSET Pair
      BY DEF Pair
    <2>2. QED
      BY <2>1, AtIsTyped DEF Job, Idle
  <1>2. Shaped(k)
    BY <1>1 DEF Shaped, Sending
  <1>3. InTime(e, k, age[e])
    <2>1. InTime(e, job[e], age[e]) /\ job[e] \in Job /\ age[e] \in NotYet .. MinAge
      BY Constants DEF Paced, Good
    <2>2. age[e] \in 0 .. 1
      BY <2>1, Constants DEF InTime, Job, NotYet
    <2>3. Cardinality(T) \in 0 .. N
      BY Ahead
    <2>4. age[e] + Cardinality(k.todo) <= N + 1 + k.spent
      BY <1>1, <2>2, <2>3, Constants
    <2>5. QED
      BY <1>1, <2>2, <2>4 DEF InTime, Sending, NotYet
  <1>4. QED
    BY <1>2, <1>3, <1>5, Constants DEF Good

LEMMA PassIsGood ==
  ASSUME NEW T \in SUBSET Pair, T # {}, \A p \in T : age[p[1]] = MinAge, NEW B \in SUBSET T
  PROVE  Good(Worker, [Idle EXCEPT !.pc = "next", !.todo = T, !.blank = B])
  <1> PICK k : k = [Idle EXCEPT !.pc = "next", !.todo = T, !.blank = B]
    OBVIOUS
  <1>1. k.pc = "next" /\ k.todo = T /\ k.at = <<>>
    BY DEF Idle
  <1>5. k \in Job
    BY AtIsTyped DEF Job, Idle
  <1>2. Shaped(k)
    BY <1>1 DEF Shaped, Sending
  <1>3. Seasoned(k)
    BY <1>1 DEF Seasoned, Sending
  <1>4. QED
    BY <1>2, <1>3, <1>5, Constants DEF Good


-----------------------------------------------------------------------------
(* The steps.                                                              *)

LEMMA SameAge ==
  ASSUME age' = age, NEW s, NEW j, Good(s, j)
  PROVE  Good(s, j)'
  BY DEF Good, Shaped, InTime, Seasoned

LEMMA Becomes ==
  ASSUME Paced, NEW s \in Senders, NEW j, Good(s, j), Become(s, j), age' = age
  PROVE  Paced'
  <1>1. job' \in [Senders -> Job]
    BY DEF Paced, Become, Good
  <1>2. ASSUME NEW t \in Senders PROVE Good(t, job[t])'
    <2>1. CASE t = s
      <3>1. job'[t] = j
        BY <2>1 DEF Paced, Become
      <3>2. Good(t, j)'
        BY <2>1, SameAge
      <3>3. QED
        BY <3>1, <3>2 DEF Good, Shaped, InTime, Seasoned
    <2>2. CASE t # s
      <3>1. job'[t] = job[t]
        BY <2>2 DEF Paced, Become
      <3>2. Good(t, job[t])
        BY DEF Paced
      <3>3. QED
        BY <3>1, <3>2 DEF Good, Shaped, InTime, Seasoned
    <2>3. QED
      BY <2>1, <2>2
  <1>3. QED
    BY <1>1, <1>2 DEF Paced

LEMMA RecordEventPaces ==
  ASSUME Paced, NEW e \in Events, RecordEvent(e)
  PROVE  Paced'
  <1> PICK k : k = [Idle EXCEPT !.pc = "query"]
    OBVIOUS
  <1>1. /\ k.pc = "query" /\ k.todo = {} /\ k.at = <<>> /\ k.blank = {} /\ k.spent = 0
    BY DEF Idle
  <1>2. k \in Job
    BY AtIsTyped DEF Job, Idle
  <1>3. age' \in [Events -> NotYet .. MinAge] /\ age'[e] = 0
        /\ \A f \in Events : f # e => age'[f] = age[f]
    BY Constants DEF Paced, RecordEvent, NotYet
  <1>4. /\ job' \in [Senders -> Job] /\ job'[e] = k
        /\ \A t \in Senders : t # e => job'[t] = job[t]
    BY <1>2, Constants DEF Paced, RecordEvent, Become
  <1>5. Good(e, job[e])'
    <2>1. Shaped(k)
      BY <1>1 DEF Shaped, Sending
    <2>2. InTime(e, k, 0)
      BY <1>1 DEF InTime, Sending, NotYet
    <2>3. QED
      BY <1>2, <1>3, <1>4, <2>1, <2>2, Constants DEF Good, Shaped, InTime, Seasoned
  <1>6. ASSUME NEW f \in Events, f # e PROVE Good(f, job[f])'
    <2>1. Good(f, job[f]) /\ age'[f] = age[f] /\ job'[f] = job[f]
      BY <1>3, <1>4, <1>6, Constants DEF Paced
    <2>2. QED
      BY <2>1, Constants DEF Good, Shaped, InTime, Seasoned
  <1>7. Good(Worker, job[Worker])'
    <2>1. Good(Worker, job[Worker]) /\ job'[Worker] = job[Worker] /\ job[Worker] \in Job
      BY <1>4, Constants DEF Paced
    <2>2. \A p \in Pair : age[p[1]] = MinAge => age'[p[1]] = MinAge
      BY <1>3, Constants DEF RecordEvent, Pair, NotYet, Paced
    <2>3. Seasoned(job[Worker])'
      BY <2>1, <2>2, Constants DEF Good, Seasoned, Job, Shaped, Sending
    <2>4. QED
      BY <2>1, <2>3, Constants DEF Good, Shaped
  <1>8. QED
    BY <1>3, <1>4, <1>5, <1>6, <1>7, Constants DEF Paced

LEMMA TickPaces ==
  ASSUME Paced, Tick
  PROVE  Paced'
  <1>1. age' \in [Events -> NotYet .. MinAge]
        /\ \A e \in Events : age'[e] = IF age[e] \in 0 .. MinAge - 1 THEN age[e] + 1 ELSE age[e]
    BY Constants DEF Paced, Tick, NotYet
  <1>2. ASSUME NEW e \in Events PROVE job'[e] \in Job /\ Good(e, job[e])'
    <2> PICK j : j = job[e]
      OBVIOUS
    <2> PICK k : k = [j EXCEPT !.spent = 1]
      OBVIOUS
    <2>1. j \in Job /\ Good(e, j) /\ age[e] \in NotYet .. MinAge
      BY Constants DEF Paced
    <2>2. CASE j.pc = "idle"
      <3>1. job'[e] = j
        BY <2>2, Constants DEF Tick
      <3>2. QED
        BY <2>1, <2>2, <3>1, Constants DEF Good, Shaped, InTime, Sending
    <2>3. CASE j.pc # "idle"
      <3>1. job'[e] = k
        BY <2>3, Constants DEF Tick
      <3>2. j.spent = 0
        BY <2>3 DEF Tick
      <3>3. /\ k \in Job /\ k.pc = j.pc /\ k.todo = j.todo /\ k.blank = j.blank
            /\ k.at = j.at /\ k.spent = 1
        BY <2>1 DEF Job
      <3>4. Shaped(k)
        BY <2>1, <3>3 DEF Good, Shaped
      <3>5. InTime(e, j, age[e])
        BY <2>1 DEF Good
      <3>6. Cardinality(j.todo) \in 0 .. N
        BY <3>5, Ahead DEF InTime
      <3>7. age'[e] \in Int /\ age'[e] <= age[e] + 1 /\ age'[e] # NotYet
        BY <1>1, <2>1, <2>3, <3>5, Constants DEF InTime, NotYet
      <3>8. InTime(e, k, age'[e])
        BY <2>1, <3>2, <3>3, <3>5, <3>6, <3>7, Constants DEF InTime, NotYet
      <3>9. QED
        BY <3>1, <3>3, <3>4, <3>8, Constants DEF Good, Shaped, InTime
    <2>4. QED
      BY <2>2, <2>3
  <1>3. job'[Worker] \in Job /\ Good(Worker, job[Worker])'
    <2>1. Good(Worker, job[Worker]) /\ job'[Worker] = job[Worker] /\ job[Worker] \in Job
      BY Constants DEF Paced, Tick
    <2>2. \A p \in Pair : age[p[1]] = MinAge => age'[p[1]] = MinAge
      BY <1>1, Constants DEF Pair
    <2>3. Seasoned(job[Worker])'
      BY <2>1, <2>2, Constants DEF Good, Seasoned, Job, Shaped, Sending
    <2>4. QED
      BY <2>1, <2>3, Constants DEF Good, Shaped
  <1>4. job' \in [Senders -> Job]
    <2>1. job' = [s \in Senders |-> job'[s]]
      BY DEF Tick
    <2>2. \A s \in Senders : job'[s] \in Job
      BY <1>2, <1>3, Constants
    <2>3. QED
      BY <2>1, <2>2
  <1>5. QED
    BY <1>1, <1>2, <1>3, <1>4, Constants DEF Paced

LEMMA SendPaces ==
  ASSUME Paced, NEW s \in Senders, Send(s)
  PROVE  Paced'
  <1> USE Constants
  <1>1. ASSUME s \in Events, LoadDevices(s) PROVE Paced'
    <2> DEFINE T == {p \in {s} \X (Devices \cap target) : Unsent(p[1], p[2])}
    <2>1. T \in SUBSET ({s} \X Devices)
      OBVIOUS
    <2>2. CASE T = {}
      BY <1>1, <2>2, IdleIsGood, Becomes DEF LoadDevices
    <2>3. CASE T # {}
      <3>1. Good(s, [Idle EXCEPT !.pc = "next", !.todo = T])
        BY <1>1, <2>1, <2>3, LoadIsGood DEF LoadDevices
      <3>2. Become(s, [Idle EXCEPT !.pc = "next", !.todo = T]) /\ age' = age
        BY <1>1, <2>3 DEF LoadDevices
      <3>3. QED
        BY <3>1, <3>2, Becomes
    <2>4. QED
      BY <2>2, <2>3
  <1>2. ASSUME s = Worker, RedispatchFailedPushes PROVE Paced'
    <2> DEFINE T == {p \in Pair : Selectable(p[1], p[2])}
               B == {p \in T : p[2] \notin target}
    <2>1. T \in SUBSET Pair /\ B \in SUBSET T /\ \A p \in T : age[p[1]] = MinAge
      BY DEF Selectable
    <2>2. /\ T # {} /\ age' = age
          /\ Become(Worker, [Idle EXCEPT !.pc = "next", !.todo = T, !.blank = B])
      BY <1>2 DEF RedispatchFailedPushes
    <2>3. Good(Worker, [Idle EXCEPT !.pc = "next", !.todo = T, !.blank = B])
      BY <2>1, <2>2, PassIsGood
    <2>4. QED
      BY <2>2, <2>3, Becomes
  <1>3. ASSUME NEW p \in job[s].todo, Begin(s, p) PROVE Paced'
    <2> DEFINE rest == job[s].todo \ {p}
    <2>1. job[s].pc = "next" /\ age' = age
      BY <1>3 DEF Begin
    <2>2. CASE p \notin job[s].blank
      <3>1. Become(s, [job[s] EXCEPT !.pc = "send", !.todo = rest, !.at = p, !.try = 1])
        BY <1>3, <2>2 DEF Begin
      <3>2. Good(s, [job[s] EXCEPT !.pc = "send", !.todo = rest, !.at = p, !.try = 1])
        BY <2>1, BeginIsGood
      <3>3. QED
        BY <2>1, <3>1, <3>2, Becomes
    <2>3. CASE p \in job[s].blank /\ rest = {}
      BY <1>3, <2>1, <2>3, IdleIsGood, Becomes DEF Begin
    <2>4. CASE p \in job[s].blank /\ rest # {}
      <3>1. Become(s, [job[s] EXCEPT !.todo = rest])
        BY <1>3, <2>4 DEF Begin
      <3>2. s = Worker
        BY <2>4 DEF Paced, Good, InTime
      <3>3. Good(s, [job[s] EXCEPT !.todo = rest])
        BY <2>1, <2>4, <3>2, SkipIsGood
      <3>4. QED
        BY <2>1, <3>1, <3>3, Becomes
    <2>5. QED
      BY <2>2, <2>3, <2>4
  <1>4. ASSUME Accepted(s) PROVE Paced'
    BY <1>4, PhaseIsGood, Becomes DEF Accepted, Sending
  <1>5. ASSUME Refused(s) PROVE Paced'
    BY <1>5, PhaseIsGood, Becomes DEF Refused, Sending
  <1>6. ASSUME MarkDevicePushSent(s) PROVE Paced'
    BY <1>6, NextIsGood, Becomes DEF MarkDevicePushSent, Sending
  <1>7. ASSUME DeadLetterDevice(s) PROVE Paced'
    BY <1>7, NextIsGood, Becomes DEF DeadLetterDevice, Sending
  <1>8. QED
    BY <1>1, <1>2, <1>3, <1>4, <1>5, <1>6, <1>7 DEF Send

LEMMA FaultPaces ==
  ASSUME Paced, Fault
  PROVE  Paced'
  <1> USE Constants
  <1>1. age' = age
    BY DEF Fault
  <1>2. ASSUME NEW s \in Senders, SendFails(s) PROVE Paced'
    <2>1. job[s].pc = "send" /\ job[s].pc \in Sending
      BY <1>2 DEF SendFails, Sending
    <2>2. Good(s, AfterFailure(s))
      BY <2>1, RetryIsGood, NextIsGood DEF AfterFailure
    <2>3. Good(s, Next_(s))
      BY <2>1, NextIsGood
    <2>4. Become(s, AfterFailure(s)) \/ Become(s, Next_(s))
      BY <1>2 DEF SendFails
    <2>5. QED
      BY <1>1, <2>2, <2>3, <2>4, Becomes
  <1>3. ASSUME NEW s \in Senders, UpdateFails(s) PROVE Paced'
    <2>1. ASSUME job[s].pc = "query", Become(s, Idle) PROVE Paced'
      BY <1>1, <2>1, IdleIsGood, Becomes
    <2>2. ASSUME job[s].pc \in {"mark", "bury"}, Become(s, Next_(s)) PROVE Paced'
      BY <1>1, <2>2, NextIsGood, Becomes DEF Sending
    <2>3. ASSUME s = Worker, job[s].pc = "next", NEW p \in job[s].todo,
                 LET rest == job[s].todo \ {p}
                 IN  Become(s, IF rest = {} THEN Idle ELSE [job[s] EXCEPT !.todo = rest])
          PROVE  Paced'
      <3> DEFINE rest == job[s].todo \ {p}
      <3>1. CASE rest = {}
        BY <1>1, <2>3, <3>1, IdleIsGood, Becomes
      <3>2. CASE rest # {}
        <4>1. Good(s, [job[s] EXCEPT !.todo = rest])
          BY <2>3, <3>2, SkipIsGood
        <4>2. Become(s, [job[s] EXCEPT !.todo = rest])
          BY <2>3, <3>2
        <4>3. QED
          BY <1>1, <4>1, <4>2, Becomes
      <3>3. QED
        BY <3>1, <3>2
    <2>4. QED
      BY <1>3, <2>1, <2>2, <2>3 DEF UpdateFails
  <1>4. ASSUME Restart PROVE Paced'
    <2>1. job' \in [Senders -> Job] /\ \A s \in Senders : job'[s] = Idle
      BY <1>4, IdleIsGood DEF Restart
    <2>2. \A s \in Senders : Good(s, Idle)'
      BY <1>1, IdleIsGood, SameAge
    <2>3. QED
      BY <1>1, <2>1, <2>2 DEF Paced, Good, Shaped, InTime, Seasoned
  <1>5. QED
    BY <1>2, <1>3, <1>4 DEF Fault

LEMMA PacedInvariant == Spec => []Paced
  <1>1. Init => Paced
    BY IdleIsGood, Constants DEF Init, Paced, NotYet
  <1>2. Paced /\ [Next]_vars => Paced'
    <2> SUFFICES ASSUME Paced, [Next]_vars PROVE Paced'
      OBVIOUS
    <2>1. ASSUME NEW e \in Events, RecordEvent(e) PROVE Paced'
      BY <2>1, RecordEventPaces
    <2>2. ASSUME NEW s \in Senders, Send(s) PROVE Paced'
      BY <2>2, SendPaces
    <2>3. CASE Tick
      BY <2>3, TickPaces
    <2>4. CASE Fault
      BY <2>4, FaultPaces
    <2>5. CASE ChangeConfig
      BY <2>5 DEF ChangeConfig, Paced, Good, Shaped, InTime, Seasoned
    <2>6. CASE UNCHANGED vars
      BY <2>6 DEF vars, Paced, Good, Shaped, InTime, Seasoned
    <2>7. QED
      BY <2>1, <2>2, <2>3, <2>4, <2>5, <2>6 DEF Next
  <1>3. QED
    BY <1>1, <1>2, PTL DEF Spec

LEMMA PacedIsApart == Paced => NoDoubleDispatch
  <1> SUFFICES ASSUME Paced, NEW e \in Events, NEW d \in Devices,
                      Holds(e, e, d), Holds(Worker, e, d)
               PROVE  FALSE
    BY DEF NoDoubleDispatch
  <1>1. Good(Worker, job[Worker]) /\ Good(e, job[e]) /\ age[e] \in NotYet .. MinAge
        /\ job[e] \in Job
    BY Constants DEF Paced
  <1>2. age[e] = MinAge
    BY <1>1, NoPairIsEmpty, Constants DEF Holds, Good, Seasoned, Shaped
  <1>3. Cardinality(job[e].todo) \in 0 .. N
    BY <1>1, Ahead DEF Good, InTime
  <1>4. CASE job[e].pc = "next"
    <2>1. <<e, d>> \in job[e].todo
      BY <1>1, <1>4, NoPairIsEmpty DEF Holds, Good, Shaped, Sending
    <2>2. Cardinality(job[e].todo \ {<<e, d>>}) = Cardinality(job[e].todo) - 1
      BY <1>1, <2>1, Ahead DEF Good, InTime
    <2>3. Cardinality(job[e].todo \ {<<e, d>>}) \in 0 .. N
      BY <1>1, Ahead DEF Good, InTime
    <2>4. QED
      BY <1>1, <1>2, <1>3, <1>4, <2>2, <2>3, Constants DEF Good, InTime, Job
  <1>5. CASE job[e].pc \in Sending
    BY <1>1, <1>2, <1>3, <1>5, Constants DEF Good, InTime, Job
  <1>6. CASE job[e].pc \in {"idle", "query"}
    BY <1>1, <1>6, NoPairIsEmpty, Constants DEF Holds, Good, Shaped, Sending
  <1>7. QED
    BY <1>1, <1>4, <1>5, <1>6 DEF Job, Sending

(* The goroutine of an event and the worker never have the same delivery   *)
(* in hand: the goroutine gives every device at most one tick, the minimum *)
(* age of the worker (pushRedispatchMinAge) is longer than all of them.    *)
THEOREM NeverDispatchedTwiceAtOnce == Spec => []NoDoubleDispatch
  BY PacedInvariant, PacedIsApart, PTL

-----------------------------------------------------------------------------
(* What is true of one delivery: the row, how often it was taken, and who  *)
(* has it in hand.                                                         *)

Marking(s, e, d) == job[s].pc = "mark" /\ job[s].at = <<e, d>>

Cell(e, d) ==
    /\ row[e][d] \in Row /\ taken[e][d] \in Nat
    /\ age[e] = NotYet => taken[e][d] = 0
    /\ \A s \in Senders : Holds(s, e, d) => ~row[e][d].sent
    /\ <<e, d>> \in job[Worker].todo => row[e][d].attempts < MaxAttempts
    /\ job[e].pc = "query" => row[e][d].attempts <= 1 /\ ~row[e][d].sent
    /\ \A s \in Senders : Marking(s, e, d) => taken[e][d] > 0
    /\ taken[e][d] <= 1 + faults
    /\ \/ taken[e][d] <= faults
       \/ \E s \in Senders : Marking(s, e, d)
       \/ ~Unsent(e, d) /\ \A s \in Senders : ~Holds(s, e, d)

Counted ==
    /\ Paced
    /\ row \in [Events -> [Devices -> Row]]
    /\ taken \in [Events -> [Devices -> Nat]]
    /\ faults \in 0 .. MaxFaults
    /\ \A e \in Events, d \in Devices : Cell(e, d)

(* A delivery is in hand of one sender at a time.                          *)
LEMMA Hands ==
  ASSUME Paced, NEW e \in Events, NEW d \in Devices
  PROVE  /\ \A s, t \in Senders : Holds(s, e, d) /\ Holds(t, e, d) => s = t
         /\ \A s \in Senders : Holds(s, e, d) => age[e] # NotYet
         /\ \A s \in Senders : Holds(s, e, d) => job[s].pc \in {"next"} \cup Sending
         /\ \A s \in Senders : Holds(s, e, d) => job[e].pc # "query"
         /\ \A s \in Senders : job[s].at = <<e, d>> =>
                job[s].pc \in Sending /\ <<e, d>> \notin job[s].todo
  <1>1. ASSUME NEW s \in Senders, Holds(s, e, d)
        PROVE  job[s].pc \in {"next"} \cup Sending
    BY <1>1, NoPairIsEmpty DEF Paced, Good, Shaped, Job, Holds, Sending
  <1>2. ASSUME NEW s \in Events, Holds(s, e, d) PROVE s = e /\ age[e] # NotYet
    BY <1>1, <1>2, NoPairIsEmpty, Constants DEF Paced, Good, Shaped, InTime, Holds, Sending
  <1>3. ASSUME Holds(Worker, e, d) PROVE age[e] = MinAge
    BY <1>3, NoPairIsEmpty, Constants DEF Paced, Good, Shaped, Seasoned, Holds
  <1>4. ~(Holds(e, e, d) /\ Holds(Worker, e, d))
    BY PacedIsApart DEF NoDoubleDispatch
  <1>5. ASSUME Holds(Worker, e, d) PROVE age[e] # NotYet /\ job[e].pc # "query"
    BY <1>3, <1>5, Constants DEF Paced, Good, InTime, Job, NotYet
  <1>6. ASSUME NEW s \in Senders, job[s].at = <<e, d>>
        PROVE  job[s].pc \in Sending /\ <<e, d>> \notin job[s].todo
    BY <1>6, NoPairIsEmpty DEF Paced, Good, Shaped
  <1>7. \A s, t \in Senders : Holds(s, e, d) /\ Holds(t, e, d) => s = t
    BY <1>2, <1>4, Constants
  <1>8. \A s \in Senders : Holds(s, e, d) => age[e] # NotYet /\ job[e].pc # "query"
    BY <1>1, <1>2, <1>5, Constants DEF Sending
  <1>9. QED
    BY <1>1, <1>6, <1>7, <1>8

LEMMA AttemptsAreTyped ==
  /\ MaxAttempts \in Nat /\ MaxAttempts > 1
  /\ NoRow \in Row /\ [sent |-> FALSE, attempts |-> 1] \in Row
  /\ \A r \in Row : r.attempts \in 0 .. MaxAttempts /\ r.sent \in BOOLEAN
  <1>1. MaxAttempts \in Nat /\ MaxAttempts > 1
    BY PushAssumption
  <1>2. QED
    BY <1>1 DEF Row, NoRow

(* A sender that lets go of deliveries, or keeps what it has: nothing      *)
(* becomes wrong about a delivery whose row and count stay.                *)
LEMMA QuietMove ==
  ASSUME Paced, NEW e \in Events, NEW d \in Devices, Cell(e, d), faults \in Nat,
         NEW s \in Senders, NEW k, Become(s, k), age' = age,
         row'[e][d] = row[e][d], taken'[e][d] = taken[e][d],
         k.pc # "query",
         <<e, d>> \in k.todo \cup {k.at} => Holds(s, e, d),
         <<e, d>> \in k.todo => <<e, d>> \in job[s].todo,
         k.pc = "mark" => k.at # <<e, d>>,
         \/ faults' = faults + 1
         \/ faults' = faults /\ ~Marking(s, e, d)
  PROVE  Cell(e, d)'
  <1>1. job'[s] = k /\ \A t \in Senders : t # s => job'[t] = job[t]
    BY DEF Become, Paced
  <1>2. \A t \in Senders : Holds(t, e, d)' => Holds(t, e, d)
    BY <1>1 DEF Holds
  <1>3. <<e, d>> \in job'[Worker].todo => <<e, d>> \in job[Worker].todo
    BY <1>1, Constants
  <1>4. job'[e].pc = "query" => job[e].pc = "query"
    BY <1>1, Constants
  <1>5. \A t \in Senders : Marking(t, e, d)' <=> Marking(t, e, d) /\ t # s
    BY <1>1 DEF Marking
  <1>6. Unsent(e, d)' <=> Unsent(e, d)
    BY DEF Unsent
  <1>7. \/ taken[e][d] <= faults'
        \/ \E t \in Senders : Marking(t, e, d)'
        \/ ~Unsent(e, d)' /\ \A t \in Senders : ~Holds(t, e, d)'
    <2>1. CASE faults' = faults + 1
      BY <2>1 DEF Cell
    <2>2. CASE faults' = faults /\ ~Marking(s, e, d)
      BY <1>2, <1>5, <1>6, <2>2 DEF Cell
    <2>3. QED
      BY <2>1, <2>2
  <1>8. taken[e][d] <= 1 + faults'
    BY DEF Cell
  <1>9. QED
    BY <1>2, <1>3, <1>4, <1>5, <1>7, <1>8 DEF Cell


LEMMA RowUpdates ==
  ASSUME row \in [Events -> [Devices -> Row]], NEW e \in Events, NEW d \in Devices,
         NEW r \in Row, Update(e, d, r)
  PROVE  /\ row' \in [Events -> [Devices -> Row]]
         /\ row'[e][d] = IF row[e][d].attempts = 0 THEN row[e][d] ELSE r
         /\ \A f \in Events, b \in Devices : <<f, b>> # <<e, d>> => row'[f][b] = row[f][b]
  <1>1. CASE row[e][d].attempts = 0
    BY <1>1 DEF Update
  <1>2. CASE row[e][d].attempts # 0
    BY <1>2 DEF Update
  <1>3. QED
    BY <1>1, <1>2

LEMMA Taking ==
  ASSUME taken \in [Events -> [Devices -> Nat]], NEW e \in Events, NEW d \in Devices,
         Takes(<<e, d>>)
  PROVE  /\ taken' \in [Events -> [Devices -> Nat]]
         /\ taken'[e][d] = taken[e][d] + 1
         /\ \A f \in Events, b \in Devices : <<f, b>> # <<e, d>> => taken'[f][b] = taken[f][b]
  BY DEF Takes

(* A sender with the delivery in hand is not marking another one.          *)
LEMMA InHandCount ==
  ASSUME Paced, NEW e \in Events, NEW d \in Devices, Cell(e, d),
         NEW s \in Senders, Holds(s, e, d), ~Marking(s, e, d)
  PROVE  taken[e][d] <= faults
  <1>1. \A t \in Senders : Marking(t, e, d) => Holds(t, e, d)
    BY DEF Marking, Holds
  <1>2. \A t \in Senders : ~Marking(t, e, d)
    BY <1>1, Hands
  <1>3. QED
    BY <1>2 DEF Cell

LEMMA NextMove ==
  ASSUME Paced, NEW s \in Senders
  PROVE  /\ Next_(s).pc \in {"idle", "next"} /\ Next_(s).todo = job[s].todo
         /\ Next_(s).at = <<>>
  <1> PICK j : j = job[s]
    OBVIOUS
  <1>1. j \in Job
    BY DEF Paced
  <1>2. QED
    BY <1>1 DEF Next_, Idle, Job

(* The row of the delivery a sender has at hand changes, and the sender    *)
(* turns to the next one: it marks, or buries.                             *)
LEMMA DroppedAt ==
  ASSUME Paced, NEW e \in Events, NEW d \in Devices, Cell(e, d), faults \in Nat,
         NEW s \in Senders, job[s].pc \in Sending, job[s].at = <<e, d>>,
         Become(s, Next_(s)), age' = age, faults' = faults,
         row'[e][d] \in Row, taken'[e][d] = taken[e][d],
         ~Unsent(e, d)' \/ ~Marking(s, e, d)
  PROVE  Cell(e, d)'
  <1>1. job'[s] = Next_(s) /\ \A t \in Senders : t # s => job'[t] = job[t]
    BY DEF Become, Paced
  <1>2. Holds(s, e, d)
    BY DEF Holds
  <1>3. \A t \in Senders : ~Holds(t, e, d)'
    <2>1. ASSUME NEW t \in Senders, t # s PROVE ~Holds(t, e, d)'
      <3>1. ~Holds(t, e, d)
        BY <1>2, <2>1, Hands
      <3>2. QED
        BY <1>1, <2>1, <3>1 DEF Holds
    <2>2. ~Holds(s, e, d)'
      <3>1. <<e, d>> \notin job[s].todo
        BY Hands
      <3>2. QED
        BY <1>1, <3>1, NextMove, NoPairIsEmpty DEF Holds
    <2>3. QED
      BY <2>1, <2>2
  <1>4. <<e, d>> \notin job'[Worker].todo
    BY <1>3, Constants DEF Holds
  <1>5. job'[e].pc # "query"
    BY <1>1, <1>2, Hands, NextMove, Constants
  <1>6. \A t \in Senders : ~Marking(t, e, d)'
    BY <1>3 DEF Marking, Holds
  <1>7. taken[e][d] <= faults \/ ~Unsent(e, d)'
    BY <1>2, InHandCount
  <1>8. QED
    BY <1>3, <1>4, <1>5, <1>6, <1>7 DEF Cell

LEMMA MarkCounts ==
  ASSUME Counted, NEW s \in Senders, MarkDevicePushSent(s)
  PROVE  Counted'
  <1> PICK p \in Pair : p = job[s].at
    BY DEF MarkDevicePushSent, Counted, Paced, Good, Shaped, Sending
  <1> PICK e \in Events, d \in Devices : p = <<e, d>>
    BY DEF Pair
  <1> PICK r : r = [row[e][d] EXCEPT !.sent = TRUE]
    OBVIOUS
  <1>1. /\ Become(s, Next_(s)) /\ Update(e, d, r) /\ job[s].pc \in Sending
        /\ job[s].at = <<e, d>> /\ UNCHANGED <<age, taken, faults>> /\ job[s].pc = "mark"
    BY DEF MarkDevicePushSent, Sending
  <1>2. r \in Row /\ r.sent = TRUE
    <2>1. row[e][d] \in Row
      BY DEF Counted
    <2>2. QED
      BY <2>1 DEF Row
  <1>3. /\ row' \in [Events -> [Devices -> Row]]
        /\ row'[e][d] = IF row[e][d].attempts = 0 THEN row[e][d] ELSE r
        /\ \A f \in Events, b \in Devices : <<f, b>> # <<e, d>> => row'[f][b] = row[f][b]
    BY <1>1, <1>2, RowUpdates DEF Counted
  <1>4. Paced'
    BY SendPaces DEF Counted, Send
  <1>5. Cell(e, d)'
    <2>1. ~Unsent(e, d)'
      BY <1>2, <1>3 DEF Unsent
    <2>2. QED
      BY <1>1, <1>3, <2>1, DroppedAt DEF Counted
  <1>6. ASSUME NEW f \in Events, NEW b \in Devices, <<f, b>> # <<e, d>>
        PROVE  Cell(f, b)'
    <2>1. Paced /\ Cell(f, b) /\ faults \in Nat
      BY DEF Counted
    <2>2. ~Marking(s, f, b)
      BY <1>1, <1>6 DEF Marking
    <2>3. <<f, b>> \in Next_(s).todo \cup {Next_(s).at} => Holds(s, f, b)
      BY <2>1, NextMove, NoPairIsEmpty DEF Holds
    <2>4. QED
      BY <1>1, <1>3, <1>6, <2>1, <2>2, <2>3, NextMove, QuietMove
  <1>7. QED
    BY <1>1, <1>3, <1>4, <1>5, <1>6 DEF Counted

LEMMA BuryCounts ==
  ASSUME Counted, NEW s \in Senders, DeadLetterDevice(s)
  PROVE  Counted'
  <1> PICK p \in Pair : p = job[s].at
    BY DEF DeadLetterDevice, Counted, Paced, Good, Shaped, Sending
  <1> PICK e \in Events, d \in Devices : p = <<e, d>>
    BY DEF Pair
  <1> PICK r : r = [row[e][d] EXCEPT !.attempts = MaxAttempts]
    OBVIOUS
  <1>1. /\ Become(s, Next_(s)) /\ Update(e, d, r) /\ job[s].pc \in Sending
        /\ job[s].at = <<e, d>> /\ UNCHANGED <<age, taken, faults>> /\ job[s].pc = "bury"
    BY DEF DeadLetterDevice, Sending
  <1>2. r \in Row
    <2>1. row[e][d] \in Row
      BY DEF Counted
    <2>2. QED
      BY <2>1, AttemptsAreTyped DEF Row
  <1>3. /\ row' \in [Events -> [Devices -> Row]]
        /\ row'[e][d] = IF row[e][d].attempts = 0 THEN row[e][d] ELSE r
        /\ \A f \in Events, b \in Devices : <<f, b>> # <<e, d>> => row'[f][b] = row[f][b]
    BY <1>1, <1>2, RowUpdates DEF Counted
  <1>4. Paced'
    BY SendPaces DEF Counted, Send
  <1>5. Cell(e, d)'
    BY <1>1, <1>3, DroppedAt DEF Counted, Marking
  <1>6. ASSUME NEW f \in Events, NEW b \in Devices, <<f, b>> # <<e, d>>
        PROVE  Cell(f, b)'
    <2>1. Paced /\ Cell(f, b) /\ faults \in Nat
      BY DEF Counted
    <2>2. ~Marking(s, f, b)
      BY <1>1 DEF Marking
    <2>3. <<f, b>> \in Next_(s).todo \cup {Next_(s).at} => Holds(s, f, b)
      BY <2>1, NextMove, NoPairIsEmpty DEF Holds
    <2>4. QED
      BY <1>1, <1>3, <1>6, <2>1, <2>2, <2>3, NextMove, QuietMove
  <1>7. QED
    BY <1>1, <1>3, <1>4, <1>5, <1>6 DEF Counted


LEMMA AcceptedCounts ==
  ASSUME Counted, NEW s \in Senders, Accepted(s)
  PROVE  Counted'
  <1> PICK p \in Pair : p = job[s].at
    BY DEF Accepted, Counted, Paced, Good, Shaped, Sending
  <1> PICK e \in Events, d \in Devices : p = <<e, d>>
    BY DEF Pair
  <1> PICK k : k = Working(s, "mark")
    OBVIOUS
  <1>1. /\ Become(s, k) /\ job[s].pc = "send" /\ job[s].at = <<e, d>>
        /\ Takes(<<e, d>>) /\ UNCHANGED <<age, row, faults>>
    BY DEF Accepted
  <1>2. k.pc = "mark" /\ k.todo = job[s].todo /\ k.at = job[s].at
    <2>1. job[s] \in Job
      BY DEF Counted, Paced
    <2>2. QED
      BY <2>1 DEF Working, Job
  <1>3. /\ taken' \in [Events -> [Devices -> Nat]]
        /\ taken'[e][d] = taken[e][d] + 1
        /\ \A f \in Events, b \in Devices : <<f, b>> # <<e, d>> => taken'[f][b] = taken[f][b]
    BY <1>1, Taking DEF Counted
  <1>4. Paced'
    BY SendPaces DEF Counted, Send
  <1>5. Cell(e, d)'
    <2>1. job'[s] = k /\ \A t \in Senders : t # s => job'[t] = job[t]
      BY <1>1 DEF Become, Counted, Paced
    <2>2. Cell(e, d) /\ Holds(s, e, d) /\ taken[e][d] <= faults /\ faults \in Nat
      BY <1>1, InHandCount DEF Counted, Holds, Marking
    <2>3. \A t \in Senders : Holds(t, e, d)' => Holds(t, e, d)
      BY <1>2, <2>1 DEF Holds
    <2>4. <<e, d>> \in job'[Worker].todo => <<e, d>> \in job[Worker].todo
      BY <1>2, <2>1, Constants
    <2>5. age[e] # NotYet /\ job'[e].pc # "query"
      BY <1>2, <2>1, <2>2, Hands, Constants DEF Counted
    <2>6. Marking(s, e, d)'
      BY <1>1, <1>2, <2>1 DEF Marking
    <2>7. taken[e][d] \in Nat /\ row[e][d] \in Row
      BY <2>2 DEF Cell
    <2>8. QED
      BY <1>1, <1>3, <2>2, <2>3, <2>4, <2>5, <2>6, <2>7 DEF Cell
  <1>6. ASSUME NEW f \in Events, NEW b \in Devices, <<f, b>> # <<e, d>>
        PROVE  Cell(f, b)'
    <2>1. Paced /\ Cell(f, b) /\ faults \in Nat
      BY DEF Counted
    <2>2. ~Marking(s, f, b)
      BY <1>1 DEF Marking
    <2>3. <<f, b>> \in k.todo \cup {k.at} => Holds(s, f, b)
      BY <1>2 DEF Holds
    <2>4. QED
      BY <1>1, <1>2, <1>3, <1>6, <2>1, <2>2, <2>3, QuietMove
  <1>7. QED
    BY <1>1, <1>3, <1>4, <1>5, <1>6 DEF Counted

(* What an unsuccessful send leaves the sender with.                       *)
LEMMA FailureMove ==
  ASSUME Paced, NEW s \in Senders, job[s].pc = "send"
  PROVE  /\ AfterFailure(s).pc \in {"idle", "next", "send"}
         /\ AfterFailure(s).todo = job[s].todo
         /\ AfterFailure(s).at \in {<<>>, job[s].at}
  <1> PICK j : j = job[s]
    OBVIOUS
  <1>1. j \in Job
    BY DEF Paced
  <1>2. CASE j.try < Retries
    BY <1>1, <1>2 DEF AfterFailure, Job
  <1>3. CASE ~(j.try < Retries)
    BY <1>3, NextMove DEF AfterFailure
  <1>4. QED
    BY <1>2, <1>3

(* A fault pays for the push that may have been taken unnoticed.           *)
LEMMA SendFailsCounts ==
  ASSUME Counted, NEW s \in Senders, SendFails(s), Fault
  PROVE  Counted'
  <1> PICK p \in Pair : p = job[s].at
    BY DEF SendFails, Counted, Paced, Good, Shaped, Sending
  <1> PICK e \in Events, d \in Devices : p = <<e, d>>
    BY DEF Pair
  <1> PICK k : k \in {AfterFailure(s), Next_(s)} /\ Become(s, k)
    BY DEF SendFails
  <1>1. /\ job[s].pc = "send" /\ job[s].at = <<e, d>>
        /\ Takes(<<e, d>>) \/ taken' = taken
        /\ UNCHANGED <<age, row>> /\ faults' = faults + 1 /\ faults < MaxFaults
    BY DEF SendFails, Fault
  <1>2. /\ k.pc \in {"idle", "next", "send"} /\ k.todo = job[s].todo
        /\ k.at \in {<<>>, job[s].at}
    BY <1>1, FailureMove, NextMove DEF Counted
  <1>3. /\ taken' \in [Events -> [Devices -> Nat]]
        /\ taken'[e][d] \in {taken[e][d], taken[e][d] + 1}
        /\ \A f \in Events, b \in Devices : <<f, b>> # <<e, d>> => taken'[f][b] = taken[f][b]
    BY <1>1, Taking DEF Counted
  <1>4. Paced'
    BY FaultPaces DEF Counted
  <1>5. Cell(e, d)'
    <2>1. job'[s] = k /\ \A t \in Senders : t # s => job'[t] = job[t]
      BY DEF Become, Counted, Paced
    <2>2. Cell(e, d) /\ Holds(s, e, d) /\ taken[e][d] <= faults /\ faults \in Nat
      BY <1>1, InHandCount DEF Counted, Holds, Marking
    <2>3. \A t \in Senders : Holds(t, e, d)' => Holds(t, e, d)
      BY <1>2, <2>1, NoPairIsEmpty DEF Holds
    <2>4. <<e, d>> \in job'[Worker].todo => <<e, d>> \in job[Worker].todo
      BY <1>2, <2>1, Constants
    <2>5. age[e] # NotYet /\ job'[e].pc # "query"
      BY <1>2, <2>1, <2>2, Hands, Constants DEF Counted
    <2>6. taken[e][d] \in Nat /\ row[e][d] \in Row
      BY <2>2 DEF Cell
    <2>7. \A t \in Senders : ~Marking(t, e, d)'
      <3>1. \A t \in Senders : t # s => ~Holds(t, e, d)
        BY <2>2, Hands DEF Counted
      <3>2. \A t \in Senders : t # s => ~Marking(t, e, d)'
        BY <2>1, <3>1 DEF Marking, Holds
      <3>3. ~Marking(s, e, d)'
        BY <1>2, <2>1 DEF Marking
      <3>4. QED
        BY <3>2, <3>3
    <2>8. QED
      BY <1>1, <1>3, <2>2, <2>3, <2>4, <2>5, <2>6, <2>7 DEF Cell
  <1>6. ASSUME NEW f \in Events, NEW b \in Devices, <<f, b>> # <<e, d>>
        PROVE  Cell(f, b)'
    <2>1. Paced /\ Cell(f, b) /\ faults \in Nat
      BY DEF Counted
    <2>2. <<f, b>> \in k.todo \cup {k.at} => Holds(s, f, b)
      BY <1>2, NoPairIsEmpty DEF Holds
    <2>3. QED
      BY <1>1, <1>2, <1>3, <1>6, <2>1, <2>2, QuietMove
  <1>7. faults' \in 0 .. MaxFaults
    BY <1>1, PushAssumption DEF Counted
  <1>8. QED
    BY <1>1, <1>3, <1>4, <1>5, <1>6, <1>7 DEF Counted

(* A sender that only lets go, or turns to sending.                        *)
LEMMA QuietCounts ==
  ASSUME Counted, NEW s \in Senders, NEW k, Become(s, k), Paced', UNCHANGED <<age, row, taken>>,
         k.pc \notin {"query", "mark"}, k.todo \subseteq job[s].todo,
         k.at \in {<<>>, job[s].at} \cup job[s].todo,
         \/ faults' = faults + 1 /\ faults < MaxFaults
         \/ faults' = faults /\ job[s].pc # "mark"
  PROVE  Counted'
  <1>1. ASSUME NEW e \in Events, NEW d \in Devices PROVE Cell(e, d)'
    <2>1. Paced /\ Cell(e, d) /\ faults \in Nat
      BY DEF Counted
    <2>2. <<e, d>> \in k.todo \cup {k.at} => Holds(s, e, d)
      BY NoPairIsEmpty DEF Holds
    <2>3. QED
      BY <2>1, <2>2, QuietMove DEF Marking
  <1>2. faults' \in 0 .. MaxFaults
    BY PushAssumption DEF Counted
  <1>3. QED
    BY <1>1, <1>2 DEF Counted


(* A query hands out only what is not sent, and nobody is marking that     *)
(* without a fault, or a send still to be counted.                         *)
LEMMA GainCounts ==
  ASSUME Counted, NEW s \in Senders, NEW k, Become(s, k), Paced',
         UNCHANGED <<age, row, taken, faults>>,
         job[s].pc \in {"idle", "query"}, k.pc = "next", k.at = <<>>,
         \A e \in Events, d \in Devices : <<e, d>> \in k.todo =>
            Unsent(e, d) /\ (s = Worker => row[e][d].attempts < MaxAttempts)
  PROVE  Counted'
  <1>1. job'[s] = k /\ \A t \in Senders : t # s => job'[t] = job[t]
    BY DEF Become, Counted, Paced
  <1>2. ASSUME NEW e \in Events, NEW d \in Devices PROVE Cell(e, d)'
    <2>1. Cell(e, d)
      BY DEF Counted
    <2>2. \A t \in Senders : Holds(t, e, d)' => Holds(t, e, d) \/ Unsent(e, d)
      BY <1>1, NoPairIsEmpty DEF Holds
    <2>3. <<e, d>> \in job'[Worker].todo => row[e][d].attempts < MaxAttempts
      BY <1>1, <2>1, Constants DEF Cell
    <2>4. job'[e].pc = "query" => job[e].pc = "query"
      BY <1>1, Constants
    <2>5. \A t \in Senders : Marking(t, e, d)' <=> Marking(t, e, d)
      BY <1>1 DEF Marking
    <2>6. Unsent(e, d)' <=> Unsent(e, d)
      BY DEF Unsent
    <2>7. age[e] = NotYet => taken[e][d] = 0
      BY <2>1 DEF Cell
    <2>8. QED
      BY <2>1, <2>2, <2>3, <2>4, <2>5, <2>6, <2>7 DEF Cell, Unsent
  <1>3. QED
    BY <1>2 DEF Counted

LEMMA LoadCounts ==
  ASSUME Counted, NEW e \in Events, LoadDevices(e)
  PROVE  Counted'
  <1> DEFINE T == {p \in {e} \X (Devices \cap target) : Unsent(p[1], p[2])}
             k == [Idle EXCEPT !.pc = "next", !.todo = T]
  <1>1. e \in Senders /\ e # Worker
    BY Constants
  <1>2. Paced'
    BY <1>1, SendPaces DEF Counted, Send
  <1>3. job[e].pc = "query" /\ UNCHANGED <<age, row, taken, faults>>
    BY DEF LoadDevices
  <1>4. CASE T = {}
    <2>1. Become(e, Idle)
      BY <1>4 DEF LoadDevices
    <2>2. Idle.pc = "idle" /\ Idle.todo = {} /\ Idle.at = <<>>
      BY DEF Idle
    <2>3. QED
      BY <1>1, <1>2, <1>3, <2>1, <2>2, QuietCounts
  <1>5. CASE T # {}
    <2>1. Become(e, k)
      BY <1>5 DEF LoadDevices
    <2>2. k.pc = "next" /\ k.todo = T /\ k.at = <<>>
      BY DEF Idle
    <2>3. \A f \in Events, d \in Devices : <<f, d>> \in T => Unsent(f, d)
      OBVIOUS
    <2> HIDE DEF k, T
    <2>4. QED
      BY <1>1, <1>2, <1>3, <2>1, <2>2, <2>3, GainCounts
  <1>6. QED
    BY <1>4, <1>5

LEMMA PassCounts ==
  ASSUME Counted, RedispatchFailedPushes
  PROVE  Counted'
  <1> DEFINE T == {p \in Pair : Selectable(p[1], p[2])}
             k == [Idle EXCEPT !.pc = "next", !.todo = T,
                               !.blank = {p \in T : p[2] \notin target}]
  <1>1. Paced'
    BY SendPaces, Constants DEF Counted, Send
  <1>2. /\ job[Worker].pc = "idle" /\ UNCHANGED <<age, row, taken, faults>>
        /\ Become(Worker, k)
    BY DEF RedispatchFailedPushes
  <1>3. k.pc = "next" /\ k.todo = T /\ k.at = <<>>
    BY DEF Idle
  <1>4. \A f \in Events, d \in Devices :
           <<f, d>> \in T => Unsent(f, d) /\ row[f][d].attempts < MaxAttempts
    BY DEF Selectable
  <1> HIDE DEF k, T
  <1>5. QED
    BY <1>1, <1>2, <1>3, <1>4, GainCounts, Constants

(* Taking up a device leaves the others, and nothing the sender had not.   *)
LEMMA BeginMove ==
  ASSUME Paced, NEW s \in Senders, NEW p \in job[s].todo, Begin(s, p)
  PROVE  \E k : /\ Become(s, k) /\ k.pc \in {"idle", "next", "send"}
                /\ k.todo \subseteq job[s].todo \ {p} /\ k.at \in {<<>>, p}
  <1> PICK j : j = job[s]
    OBVIOUS
  <1> DEFINE rest == j.todo \ {p}
  <1>1. j \in Job /\ j.pc = "next" /\ j.at = <<>>
    BY DEF Paced, Begin, Good, Shaped, Sending
  <1>2. CASE p \notin j.blank
    <2> PICK k : k = [j EXCEPT !.pc = "send", !.todo = rest, !.at = p, !.try = 1]
      OBVIOUS
    <2>1. k.pc = "send" /\ k.todo = rest /\ k.at = p
      BY <1>1 DEF Job
    <2>2. Become(s, k)
      BY <1>2 DEF Begin
    <2>3. QED
      BY <2>1, <2>2
  <1>3. CASE p \in j.blank /\ rest = {}
    BY <1>3 DEF Begin, Idle
  <1>4. CASE p \in j.blank /\ rest # {}
    <2> PICK k : k = [j EXCEPT !.todo = rest]
      OBVIOUS
    <2>1. k.pc = "next" /\ k.todo = rest /\ k.at = <<>>
      BY <1>1 DEF Job
    <2>2. Become(s, k)
      BY <1>4 DEF Begin
    <2>3. QED
      BY <2>1, <2>2
  <1>5. QED
    BY <1>2, <1>3, <1>4

LEMMA BeginCounts ==
  ASSUME Counted, NEW s \in Senders, NEW p \in job[s].todo, Begin(s, p)
  PROVE  Counted'
  <1> PICK k : /\ Become(s, k) /\ k.pc \in {"idle", "next", "send"}
               /\ k.todo \subseteq job[s].todo \ {p} /\ k.at \in {<<>>, p}
    BY BeginMove DEF Counted
  <1>1. Paced' /\ UNCHANGED <<age, taken, faults>> /\ job[s].pc = "next"
    BY SendPaces DEF Counted, Send, Begin
  <1>2. CASE s # Worker
    BY <1>1, <1>2, QuietCounts DEF Begin
  <1>3. CASE s = Worker
    <2>1. p \in Pair
      BY DEF Counted, Paced, Job
    <2> PICK e \in Events, d \in Devices : p = <<e, d>>
      BY <2>1 DEF Pair
    <2> PICK r : r = [row[e][d] EXCEPT !.attempts = @ + 1]
      OBVIOUS
    <2>2. Cell(e, d) /\ row[e][d] \in Row /\ row[e][d].attempts < MaxAttempts /\ Holds(s, e, d)
      BY <1>3 DEF Counted, Cell, Holds
    <2>3. r \in Row /\ r.sent = row[e][d].sent /\ r.attempts = row[e][d].attempts + 1
      BY <2>2, AttemptsAreTyped DEF Row
    <2>4. Update(e, d, r)
      BY <1>3 DEF Begin
    <2>5. /\ row' \in [Events -> [Devices -> Row]]
          /\ row'[e][d] = IF row[e][d].attempts = 0 THEN row[e][d] ELSE r
          /\ \A f \in Events, b \in Devices : <<f, b>> # <<e, d>> => row'[f][b] = row[f][b]
      BY <2>3, <2>4, RowUpdates DEF Counted
    <2>6. Cell(e, d)'
      <3>1. job'[s] = k /\ \A t \in Senders : t # s => job'[t] = job[t]
        BY DEF Become, Counted, Paced
      <3>2. \A t \in Senders : Holds(t, e, d)' => Holds(t, e, d)
        BY <2>2, <3>1 DEF Holds
      <3>3. <<e, d>> \notin job'[Worker].todo
        BY <1>3, <3>1
      <3>4. job'[e].pc # "query" /\ age[e] # NotYet
        BY <1>3, <2>2, <3>1, Hands, Constants DEF Counted
      <3>5. \A t \in Senders : ~Marking(t, e, d)'
        <4>1. \A t \in Senders : t # s => ~Holds(t, e, d)
          BY <2>2, Hands DEF Counted
        <4>2. QED
          BY <3>1, <4>1 DEF Marking, Holds
      <3>6. taken[e][d] <= faults /\ taken[e][d] \in Nat /\ taken[e][d] <= 1 + faults
        BY <1>1, <2>2, InHandCount DEF Counted, Marking, Cell
      <3>7. ~row[e][d].sent
        BY <2>2 DEF Cell
      <3>8. QED
        BY <1>1, <2>3, <2>5, <3>2, <3>3, <3>4, <3>5, <3>6, <3>7 DEF Cell
    <2>7. ASSUME NEW f \in Events, NEW b \in Devices, <<f, b>> # <<e, d>>
          PROVE  Cell(f, b)'
      <3>1. Paced /\ Cell(f, b) /\ faults \in Nat
        BY DEF Counted
      <3>2. <<f, b>> \in k.todo \cup {k.at} => Holds(s, f, b)
        BY <2>7, NoPairIsEmpty DEF Holds
      <3>3. QED
        BY <1>1, <2>5, <2>7, <3>1, <3>2, QuietMove DEF Marking
    <2>8. QED
      BY <1>1, <2>5, <2>6, <2>7 DEF Counted
  <1>4. QED
    BY <1>2, <1>3

LEMMA RecordCounts ==
  ASSUME Counted, NEW e \in Events, RecordEvent(e)
  PROVE  Counted'
  <1> PICK k : k = [Idle EXCEPT !.pc = "query"]
    OBVIOUS
  <1>1. k.pc = "query" /\ k.todo = {} /\ k.at = <<>>
    BY DEF Idle
  <1>2. /\ age[e] = NotYet /\ age'[e] = 0 /\ UNCHANGED <<taken, faults>>
        /\ \A f \in Events : f # e => age'[f] = age[f]
    BY DEF RecordEvent, Counted, Paced
  <1>3. job'[e] = k /\ \A t \in Senders : t # e => job'[t] = job[t]
    BY Constants DEF RecordEvent, Become, Counted, Paced
  <1>4. /\ row' \in [Events -> [Devices -> Row]]
        /\ \A d \in Devices : row'[e][d] \in {NoRow, [sent |-> FALSE, attempts |-> 1]}
        /\ \A f \in Events : f # e => row'[f] = row[f]
    BY AttemptsAreTyped DEF RecordEvent, Counted
  <1>5. job[e].pc = "idle"
    BY <1>2, Constants DEF Counted, Paced, Good, InTime
  <1>6. Paced'
    BY RecordEventPaces DEF Counted
  <1>7. \A t \in Senders : \A f \in Events, d \in Devices : Holds(t, f, d)' => Holds(t, f, d)
    <2>1. ASSUME NEW f \in Events, NEW d \in Devices PROVE ~Holds(e, f, d)'
      BY <1>1, <1>3, NoPairIsEmpty DEF Holds
    <2>2. ASSUME NEW t \in Senders, t # e, NEW f \in Events, NEW d \in Devices
          PROVE  Holds(t, f, d)' => Holds(t, f, d)
      BY <1>3, <2>2 DEF Holds
    <2>3. QED
      BY <2>1, <2>2
  <1>8. ASSUME NEW d \in Devices PROVE Cell(e, d)'
    <2>1. Cell(e, d) /\ taken[e][d] = 0 /\ faults \in Nat
      BY <1>2 DEF Counted, Cell
    <2>2. \A t \in Senders : ~Holds(t, e, d)'
      BY <1>2, <1>7, Hands DEF Counted
    <2>3. \A t \in Senders : ~Marking(t, e, d)' /\ <<e, d>> \notin job'[t].todo
      BY <2>2 DEF Marking, Holds
    <2>4. row'[e][d] \in Row /\ ~row'[e][d].sent /\ row'[e][d].attempts <= 1
      BY <1>4, AttemptsAreTyped DEF NoRow
    <2>5. QED
      BY <1>2, <2>1, <2>2, <2>3, <2>4, Constants DEF Cell, NotYet
  <1>9. ASSUME NEW f \in Events, NEW d \in Devices, f # e PROVE Cell(f, d)'
    <2>1. Cell(f, d) /\ age'[f] = age[f] /\ row'[f] = row[f]
      BY <1>2, <1>4, <1>9 DEF Counted
    <2>2. <<f, d>> \in job'[Worker].todo => <<f, d>> \in job[Worker].todo
      BY <1>3, Constants
    <2>3. job'[f].pc = "query" => job[f].pc = "query"
      BY <1>3, <1>9, Constants
    <2>4. \A t \in Senders : Marking(t, f, d)' <=> Marking(t, f, d)
      BY <1>1, <1>3, <1>5 DEF Marking
    <2>5. Unsent(f, d)' <=> Unsent(f, d)
      BY <2>1 DEF Unsent
    <2>6. QED
      BY <1>2, <1>7, <2>1, <2>2, <2>3, <2>4, <2>5 DEF Cell
  <1>10. QED
    BY <1>2, <1>4, <1>6, <1>8, <1>9 DEF Counted

LEMMA TickCounts ==
  ASSUME Counted, Tick
  PROVE  Counted'
  <1>1. Paced' /\ UNCHANGED <<row, taken, faults>>
    BY TickPaces DEF Counted, Tick
  <1>2. ASSUME NEW t \in Senders
        PROVE  job'[t].pc = job[t].pc /\ job'[t].todo = job[t].todo /\ job'[t].at = job[t].at
    <2>1. job[t] \in Job
      BY DEF Counted, Paced
    <2>2. QED
      BY <2>1 DEF Tick, Job
  <1>3. \A e \in Events : age'[e] = NotYet => age[e] = NotYet
    BY Constants DEF Tick, NotYet, Counted, Paced
  <1>4. ASSUME NEW e \in Events, NEW d \in Devices PROVE Cell(e, d)'
    <2>1. Cell(e, d)
      BY DEF Counted
    <2>2. \A t \in Senders : Holds(t, e, d)' <=> Holds(t, e, d)
      BY <1>2 DEF Holds
    <2>3. \A t \in Senders : Marking(t, e, d)' <=> Marking(t, e, d)
      BY <1>2 DEF Marking
    <2>4. QED
      BY <1>1, <1>2, <1>3, <2>1, <2>2, <2>3, Constants DEF Cell, Unsent
  <1>5. QED
    BY <1>1, <1>4 DEF Counted

LEMMA ConfigCounts ==
  ASSUME Counted, ChangeConfig
  PROVE  Counted'
  <1>1. UNCHANGED <<age, job, taken, faults>>
    BY DEF ChangeConfig
  <1>2. Paced'
    BY <1>1 DEF Counted, Paced, Good, Shaped, InTime, Seasoned
  <1>3. row' = row \/ row' = [e \in Events |-> [d \in Devices |-> NoRow]]
    BY DEF ChangeConfig
  <1>4. ASSUME NEW e \in Events, NEW d \in Devices PROVE Cell(e, d)'
    <2>1. Cell(e, d)
      BY DEF Counted
    <2>2. CASE row' = row
      BY <1>1, <2>1, <2>2 DEF Cell, Holds, Marking, Unsent
    <2>3. CASE row'[e][d] = NoRow
      <3>1. NoRow \in Row /\ ~NoRow.sent /\ NoRow.attempts = 0
        BY AttemptsAreTyped DEF NoRow
      <3>2. QED
        BY <1>1, <2>1, <2>3, <3>1, AttemptsAreTyped DEF Cell, Holds, Marking, Unsent
    <2>4. QED
      BY <1>3, <2>2, <2>3
  <1>5. row' \in [Events -> [Devices -> Row]]
    BY <1>3, AttemptsAreTyped DEF Counted
  <1>6. QED
    BY <1>1, <1>2, <1>4, <1>5 DEF Counted

LEMMA FaultCounts ==
  ASSUME Counted, Fault
  PROVE  Counted'
  <1>1. /\ Paced' /\ age' = age /\ faults' = faults + 1 /\ faults < MaxFaults
    BY FaultPaces DEF Counted, Fault
  <1>2. ASSUME NEW s \in Senders, SendFails(s) PROVE Counted'
    BY <1>2, SendFailsCounts
  <1>3. ASSUME NEW s \in Senders, UpdateFails(s) PROVE Counted'
    <2>1. UNCHANGED <<row, taken>>
      BY <1>3 DEF UpdateFails
    <2>2. Idle.pc = "idle" /\ Idle.todo = {} /\ Idle.at = <<>>
      BY DEF Idle
    <2>3. ASSUME Become(s, Idle) PROVE Counted'
      BY <1>1, <2>1, <2>2, <2>3, QuietCounts
    <2>4. ASSUME Become(s, Next_(s)) PROVE Counted'
      <3>1. /\ Next_(s).pc \in {"idle", "next"} /\ Next_(s).todo = job[s].todo
            /\ Next_(s).at = <<>>
        BY NextMove DEF Counted
      <3>2. QED
        BY <1>1, <2>1, <2>4, <3>1, QuietCounts
    <2>5. ASSUME job[s].pc = "next", NEW p \in job[s].todo,
                 Become(s, [job[s] EXCEPT !.todo = job[s].todo \ {p}])
          PROVE  Counted'
      <3> PICK k : k = [job[s] EXCEPT !.todo = job[s].todo \ {p}]
        OBVIOUS
      <3>1. job[s] \in Job
        BY DEF Counted, Paced
      <3>2. k.pc = "next" /\ k.todo = job[s].todo \ {p} /\ k.at = job[s].at
        BY <2>5, <3>1 DEF Job
      <3>3. QED
        BY <1>1, <2>1, <2>5, <3>2, QuietCounts
    <2>6. QED
      BY <1>3, <2>3, <2>4, <2>5 DEF UpdateFails
  <1>4. ASSUME Restart PROVE Counted'
    <2>1. UNCHANGED <<row, taken>> /\ \A t \in Senders : job'[t] = Idle
      BY <1>4 DEF Restart
    <2>2. ASSUME NEW e \in Events, NEW d \in Devices PROVE Cell(e, d)'
      <3>1. Cell(e, d) /\ faults \in Nat
        BY DEF Counted
      <3>2. \A t \in Senders : /\ job'[t].pc = "idle" /\ job'[t].todo = {}
                               /\ job'[t].at = <<>>
        BY <2>1 DEF Idle
      <3>3. \A t \in Senders : ~Holds(t, e, d)' /\ ~Marking(t, e, d)'
        BY <3>2, NoPairIsEmpty DEF Holds, Marking
      <3>4. QED
        BY <1>1, <2>1, <3>1, <3>2, <3>3, Constants DEF Cell
    <2>3. faults' \in 0 .. MaxFaults
      BY <1>1, PushAssumption DEF Counted
    <2>4. QED
      BY <1>1, <2>1, <2>2, <2>3 DEF Counted
  <1>5. QED
    BY <1>2, <1>3, <1>4 DEF Fault

LEMMA CountedInvariant == Spec => []Counted
  <1>1. Init => Counted
    <2> SUFFICES ASSUME Init PROVE Counted
      OBVIOUS
    <2>1. Paced
      BY IdleIsGood, Constants DEF Init, Paced, NotYet
    <2>2. \A s \in Senders : job[s].todo = {} /\ job[s].at = <<>> /\ job[s].pc = "idle"
      BY DEF Init, Idle
    <2>3. ASSUME NEW e \in Events, NEW d \in Devices PROVE Cell(e, d)
      <3>1. row[e][d] = NoRow /\ taken[e][d] = 0 /\ faults = 0
        BY DEF Init
      <3>2. \A s \in Senders : ~Holds(s, e, d) /\ ~Marking(s, e, d)
        BY <2>2, NoPairIsEmpty DEF Holds, Marking
      <3>3. QED
        BY <2>2, <3>1, <3>2, AttemptsAreTyped, Constants DEF Cell, NoRow
    <2>4. QED
      BY <2>1, <2>3, AttemptsAreTyped, PushAssumption DEF Init, Counted
  <1>2. Counted /\ [Next]_vars => Counted'
    <2> SUFFICES ASSUME Counted, [Next]_vars PROVE Counted'
      OBVIOUS
    <2>1. ASSUME NEW s \in Senders, Send(s) PROVE Counted'
      <3>1. ASSUME Refused(s) PROVE Counted'
        <4>1. job[s] \in Job /\ Paced'
          BY <2>1, SendPaces DEF Counted, Paced
        <4>2. /\ Working(s, "bury").pc = "bury" /\ Working(s, "bury").todo = job[s].todo
              /\ Working(s, "bury").at = job[s].at
          BY <4>1 DEF Working, Job
        <4>3. QED
          BY <3>1, <4>1, <4>2, QuietCounts DEF Refused
      <3>2. QED
        BY <2>1, <3>1, LoadCounts, PassCounts, BeginCounts, AcceptedCounts, MarkCounts,
           BuryCounts DEF Send
    <2>2. CASE UNCHANGED vars
      <3>1. UNCHANGED <<age, row, job, taken, faults>>
        BY <2>2 DEF vars
      <3>2. Paced'
        BY <3>1 DEF Counted, Paced, Good, Shaped, InTime, Seasoned
      <3>3. ASSUME NEW e \in Events, NEW d \in Devices PROVE Cell(e, d)'
        <4>1. Cell(e, d)
          BY DEF Counted
        <4>2. \A s \in Senders : (Holds(s, e, d)' <=> Holds(s, e, d)) /\ (Marking(s, e, d)' <=> Marking(s, e, d))
          BY <3>1 DEF Holds, Marking
        <4>3. Unsent(e, d)' <=> Unsent(e, d)
          BY <3>1 DEF Unsent
        <4>4. QED
          BY <3>1, <4>1, <4>2, <4>3 DEF Cell
      <3>4. QED
        BY <3>1, <3>2, <3>3 DEF Counted
    <2>3. QED
      BY <2>1, <2>2, RecordCounts, TickCounts, FaultCounts, ConfigCounts DEF Next
  <1>3. QED
    BY <1>1, <1>2, PTL DEF Spec

(* The types of the rows, jobs and ages; above all, the cap on attempts is *)
(* never exceeded, although the worker counts on what an earlier query     *)
(* told it.                                                                *)
THEOREM TypeCorrect == Spec => []TypeOK
  <1>1. Init => TypeOK
    BY IdleIsGood, AttemptsAreTyped, PushAssumption, Constants DEF Init, TypeOK, NotYet
  <1>2. TypeOK /\ Counted' /\ [Next]_vars => TypeOK'
    <2> SUFFICES ASSUME TypeOK, Counted', [Next]_vars PROVE TypeOK'
      OBVIOUS
    <2>1. CASE ChangeConfig
      <3>1. changes' \in 0 .. MaxChanges
        BY <2>1, PushAssumption DEF TypeOK, ChangeConfig
      <3>2. /\ fence' \in {"enabled", "disabled", "deleted"}
            /\ target' \subseteq Devices /\ member' \subseteq Devices
        BY <2>1 DEF TypeOK, ChangeConfig
      <3>3. QED
        BY <3>1, <3>2 DEF TypeOK, Counted, Paced
    <2>2. CASE UNCHANGED config
      BY <2>2 DEF TypeOK, Counted, Paced, config
    <2>3. QED
      BY <2>1, <2>2 DEF Next, vars, config, RecordEvent, Send, LoadDevices,
         RedispatchFailedPushes, Begin, Accepted, Refused, MarkDevicePushSent,
         DeadLetterDevice, Tick, Fault
  <1>3. QED
    BY <1>1, <1>2, CountedInvariant, PTL DEF Spec

(* A device gets an alert twice only after a lost answer, a failed update  *)
(* or a restart, and at most once more for each of them.                   *)
THEOREM DuplicatesNeedAFault == Spec => []DuplicatesNeedFaults
  <1>1. Counted => DuplicatesNeedFaults
    BY DEF Counted, Cell, DuplicatesNeedFaults
  <1>2. QED
    BY <1>1, CountedInvariant, PTL


-----------------------------------------------------------------------------
(* The rows implement AlertDelivery.                                       *)

LEMMA Ending ==
  ASSUME taken' = taken,
         \A e \in Events, d \in Devices : Delivery!Ends(StatusOf(e, d), StatusOf(e, d)')
  PROVE  Delivery!End
  <1>1. \A e \in Events, d \in Devices : StatusOf(e, d)' \in Delivery!Status
    BY DEF StatusOf, Delivery!Status
  <1>2. QED
    BY <1>1 DEF Delivery!End, Statuses

LEMMA OneStatus ==
  ASSUME NEW e \in Events, NEW d \in Devices,
         \A f \in Events, b \in Devices : <<f, b>> # <<e, d>> => StatusOf(f, b)' = StatusOf(f, b)
  PROVE  Statuses' = [Statuses EXCEPT ![e][d] = StatusOf(e, d)']
  BY DEF Statuses

(* What is no more in hand is as good as its row; what is newly in hand    *)
(* was open by its row.                                                    *)
LEMMA PairEnds ==
  ASSUME NEW e \in Events, NEW d \in Devices, row[e][d] \in Row,
         row'[e][d] = row[e][d], age'[e] = NotYet <=> age[e] = NotYet,
         InHand(e, d)' => InHand(e, d) \/ row[e][d].attempts \in 1 .. MaxAttempts - 1
  PROVE  Delivery!Ends(StatusOf(e, d), StatusOf(e, d)')
  <1> PICK r : r = row[e][d]
    OBVIOUS
  <1>1. r.attempts \in 0 .. MaxAttempts /\ MaxAttempts \in Nat /\ MaxAttempts > 1
    BY AttemptsAreTyped
  <1>2. r.attempts \in {0, MaxAttempts} \/ r.attempts \in 1 .. MaxAttempts - 1
    BY <1>1
  <1>3. QED
    BY <1>1, <1>2 DEF StatusOf, Delivery!Ends

LEMMA SameStatus ==
  ASSUME NEW e \in Events, NEW d \in Devices,
         row'[e][d] = row[e][d], age'[e] = age[e], InHand(e, d)' <=> InHand(e, d)
  PROVE  StatusOf(e, d)' = StatusOf(e, d)
  BY DEF StatusOf

LEMMA InHandIsOpen ==
  ASSUME Counted, NEW e \in Events, NEW d \in Devices, InHand(e, d)
  PROVE  StatusOf(e, d) = "open"
  BY Hands DEF Counted, Cell, InHand, StatusOf

(* A sender turned to k: who has the delivery in hand now.                 *)
LEMMA HandsAfter ==
  ASSUME Paced, NEW s \in Senders, NEW k, Become(s, k), NEW e \in Events, NEW d \in Devices
  PROVE  InHand(e, d)' <=> \/ <<e, d>> \in k.todo \cup {k.at}
                           \/ \E t \in Senders : t # s /\ Holds(t, e, d)
  <1>1. job'[s] = k /\ \A t \in Senders : t # s => job'[t] = job[t]
    BY DEF Become, Paced
  <1>2. QED
    BY <1>1 DEF InHand, Holds

LEMMA SameHands ==
  ASSUME Paced, NEW s \in Senders, NEW k, Become(s, k), NEW e \in Events, NEW d \in Devices,
         <<e, d>> \in k.todo \cup {k.at} <=> Holds(s, e, d)
  PROVE  InHand(e, d)' <=> InHand(e, d)
  BY HandsAfter DEF InHand

LEMMA QuietEnds ==
  ASSUME Counted, NEW s \in Senders, NEW k, Become(s, k), UNCHANGED <<age, row, taken>>,
         \A e \in Events, d \in Devices : <<e, d>> \in k.todo \cup {k.at} =>
            Holds(s, e, d) \/ row[e][d].attempts \in 1 .. MaxAttempts - 1
  PROVE  Delivery!End
  <1>1. ASSUME NEW e \in Events, NEW d \in Devices
        PROVE  Delivery!Ends(StatusOf(e, d), StatusOf(e, d)')
    <2>1. InHand(e, d)' => InHand(e, d) \/ row[e][d].attempts \in 1 .. MaxAttempts - 1
      BY HandsAfter DEF Counted, InHand
    <2>2. QED
      BY <2>1, PairEnds DEF Counted
  <1>2. QED
    BY <1>1, Ending

LEMMA RecordOpens ==
  ASSUME Counted, Counted', NEW e \in Events, RecordEvent(e)
  PROVE  Delivery!Next
  <1> DEFINE ds == member \cap target \cap Devices
             after(d) == IF d \in ds THEN "open" ELSE "gone"
  <1>1. /\ age[e] = NotYet /\ age'[e] = 0 /\ taken' = taken
        /\ \A f \in Events : f # e => age'[f] = age[f] /\ row'[f] = row[f]
        /\ \A d \in Devices : row'[e][d] = IF d \in ds THEN [sent |-> FALSE, attempts |-> 1]
                                                       ELSE NoRow
    BY DEF RecordEvent, Counted, Paced
  <1> PICK k : k = [Idle EXCEPT !.pc = "query"]
    OBVIOUS
  <1>2. /\ k.todo = {} /\ k.at = <<>> /\ k.pc = "query"
        /\ job[e].todo = {} /\ job[e].at = <<>> /\ Become(e, k)
    <2>1. job[e].pc = "idle"
      BY <1>1, Constants DEF Counted, Paced, Good, InTime
    <2>2. QED
      BY <2>1, Constants DEF RecordEvent, Idle, Counted, Paced, Good, Shaped, Sending
  <1>3. ASSUME NEW f \in Events, NEW d \in Devices PROVE InHand(f, d)' <=> InHand(f, d)
    <2>1. <<f, d>> \in k.todo \cup {k.at} <=> Holds(e, f, d)
      BY <1>2 DEF Holds
    <2>2. QED
      BY <1>2, <2>1, SameHands, Constants DEF Counted
  <1>4. \A d \in Devices : ~InHand(e, d)
    BY <1>1, Hands DEF Counted, InHand
  <1>5. \A d \in Devices : StatusOf(e, d) = "none"
    BY <1>1 DEF StatusOf
  <1>6. \A d \in Devices : StatusOf(e, d)' = after(d)
    BY <1>1, <1>3, <1>4, AttemptsAreTyped DEF StatusOf, NoRow, NotYet
  <1>7. \A f \in Events, d \in Devices : f # e => StatusOf(f, d)' = StatusOf(f, d)
    BY <1>1, <1>3, SameStatus
  <1>8. Statuses' = [Statuses EXCEPT ![e] = [d \in Devices |-> after(d)]]
    BY <1>6, <1>7 DEF Statuses
  <1>9. \A d \in Devices : Statuses[e][d] = "none"
    BY <1>5 DEF Statuses
  <1>10. Delivery!Open(e)
    BY <1>1, <1>8, <1>9 DEF Delivery!Open
  <1>11. QED
    BY <1>10 DEF Delivery!Next

(* The push of the delivery at hand is taken; the others stay as they are. *)
LEMMA TakenAt ==
  ASSUME Counted, NEW e \in Events, NEW d \in Devices, NEW s \in Senders, NEW k, Become(s, k),
         UNCHANGED <<age, row>>, Takes(<<e, d>>), job[s].at = <<e, d>>,
         k.todo = job[s].todo, k.at \in {<<>>, job[s].at}
  PROVE  Delivery!Next
  <1>1. StatusOf(e, d) = "open" /\ row[e][d] \in Row /\ age[e] # NotYet /\ ~row[e][d].sent
    BY InHandIsOpen, Hands DEF InHand, Holds, Counted, Cell
  <1>2. StatusOf(e, d)' \in {"open", "dead", "gone"}
    BY <1>1 DEF StatusOf
  <1>3. ASSUME NEW f \in Events, NEW b \in Devices, <<f, b>> # <<e, d>>
        PROVE  StatusOf(f, b)' = StatusOf(f, b)
    <2>1. <<f, b>> \in k.todo \cup {k.at} <=> Holds(s, f, b)
      BY <1>3, NoPairIsEmpty DEF Holds
    <2>2. InHand(f, b)' <=> InHand(f, b)
      BY <2>1, SameHands DEF Counted
    <2>3. QED
      BY <2>2, SameStatus
  <1>4. Statuses' = [Statuses EXCEPT ![e][d] = StatusOf(e, d)']
    BY <1>3, OneStatus
  <1>5. Statuses[e][d] = "open" /\ taken' = [taken EXCEPT ![e][d] = @ + 1]
    BY <1>1 DEF Statuses, Takes
  <1>6. Delivery!Take(e, d)
    BY <1>2, <1>4, <1>5 DEF Delivery!Take
  <1>7. QED
    BY <1>6 DEF Delivery!Next

LEMMA MarkDelivers ==
  ASSUME Counted, NEW s \in Senders, MarkDevicePushSent(s)
  PROVE  Delivery!Next
  <1> PICK p \in Pair : p = job[s].at
    BY DEF MarkDevicePushSent, Counted, Paced, Good, Shaped, Sending
  <1> PICK e \in Events, d \in Devices : p = <<e, d>>
    BY DEF Pair
  <1> PICK r : r = [row[e][d] EXCEPT !.sent = TRUE]
    OBVIOUS
  <1> PICK k : k = Next_(s)
    OBVIOUS
  <1>1. /\ Become(s, k) /\ Update(e, d, r) /\ job[s].pc = "mark" /\ job[s].at = <<e, d>>
        /\ UNCHANGED <<age, taken>>
    BY DEF MarkDevicePushSent
  <1>2. row[e][d] \in Row
    BY DEF Counted
  <1>3. r \in Row /\ r.sent = TRUE
    BY <1>2 DEF Row
  <1>4. /\ row'[e][d] = IF row[e][d].attempts = 0 THEN row[e][d] ELSE r
        /\ \A f \in Events, b \in Devices : <<f, b>> # <<e, d>> => row'[f][b] = row[f][b]
    BY <1>1, <1>3, RowUpdates DEF Counted
  <1>5. k.todo = job[s].todo /\ k.at = <<>>
    BY NextMove DEF Counted
  <1>6. CASE row[e][d].attempts = 0
    <2>1. row' = row
      BY <1>1, <1>6 DEF Update
    <2>2. Delivery!End
      BY <1>1, <1>5, <2>1, QuietEnds, NoPairIsEmpty DEF Holds
    <2>3. QED
      BY <2>2 DEF Delivery!Next
  <1>7. CASE row[e][d].attempts # 0
    <2>1. StatusOf(e, d) = "open" /\ age[e] # NotYet
      BY <1>1, InHandIsOpen, Hands DEF InHand, Holds, Counted
    <2>2. StatusOf(e, d)' = "done"
      BY <1>1, <1>3, <1>4, <1>7, <2>1 DEF StatusOf
    <2>3. ASSUME NEW f \in Events, NEW b \in Devices, <<f, b>> # <<e, d>>
          PROVE  StatusOf(f, b)' = StatusOf(f, b)
      <3>1. <<f, b>> \in k.todo \cup {k.at} <=> Holds(s, f, b)
        BY <1>1, <1>5, <2>3, NoPairIsEmpty DEF Holds
      <3>2. InHand(f, b)' <=> InHand(f, b)
        BY <1>1, <3>1, SameHands DEF Counted
      <3>3. QED
        BY <1>1, <1>4, <2>3, <3>2, SameStatus
    <2>4. Statuses' = [Statuses EXCEPT ![e][d] = "done"]
      BY <2>2, <2>3, OneStatus
    <2>5. taken[e][d] > 0
      BY <1>1 DEF Counted, Cell, Marking
    <2>6. Delivery!Done(e, d)
      BY <1>1, <2>1, <2>4, <2>5 DEF Delivery!Done, Statuses
    <2>7. QED
      BY <2>6 DEF Delivery!Next
  <1>8. QED
    BY <1>6, <1>7

(* A sender's row changes, and it lets go of the delivery or keeps it.     *)
LEMMA RowEnds ==
  ASSUME Counted, NEW s \in Senders, NEW k, Become(s, k), UNCHANGED <<age, taken>>,
         NEW e \in Events, NEW d \in Devices, Holds(s, e, d),
         row'[e][d] \in Row, ~row'[e][d].sent,
         \A f \in Events, b \in Devices : <<f, b>> # <<e, d>> => row'[f][b] = row[f][b],
         \A f \in Events, b \in Devices : <<f, b>> \in k.todo \cup {k.at} => Holds(s, f, b)
  PROVE  Delivery!End
  <1>1. StatusOf(e, d) = "open" /\ age[e] # NotYet
    BY InHandIsOpen, Hands DEF InHand, Counted
  <1>2. StatusOf(e, d)' \in {"open", "dead", "gone"}
    BY <1>1 DEF StatusOf
  <1>3. Delivery!Ends(StatusOf(e, d), StatusOf(e, d)')
    BY <1>1, <1>2 DEF Delivery!Ends
  <1>4. ASSUME NEW f \in Events, NEW b \in Devices, <<f, b>> # <<e, d>>
        PROVE  Delivery!Ends(StatusOf(f, b), StatusOf(f, b)')
    <2>1. InHand(f, b)' => InHand(f, b)
      BY HandsAfter DEF Counted, InHand
    <2>2. QED
      BY <1>4, <2>1, PairEnds DEF Counted
  <1>5. QED
    BY <1>3, <1>4, Ending

LEMMA BuryEnds ==
  ASSUME Counted, NEW s \in Senders, DeadLetterDevice(s)
  PROVE  Delivery!End
  <1> PICK p \in Pair : p = job[s].at
    BY DEF DeadLetterDevice, Counted, Paced, Good, Shaped, Sending
  <1> PICK e \in Events, d \in Devices : p = <<e, d>>
    BY DEF Pair
  <1> PICK r : r = [row[e][d] EXCEPT !.attempts = MaxAttempts]
    OBVIOUS
  <1> PICK k : k = Next_(s)
    OBVIOUS
  <1>1. /\ Become(s, k) /\ Update(e, d, r) /\ job[s].at = <<e, d>>
        /\ UNCHANGED <<age, taken>> /\ Holds(s, e, d)
    BY DEF DeadLetterDevice, Holds
  <1>2. row[e][d] \in Row /\ ~row[e][d].sent
    BY <1>1 DEF Counted, Cell
  <1>3. r \in Row /\ ~r.sent
    BY <1>2, AttemptsAreTyped DEF Row
  <1>4. row'[e][d] = IF row[e][d].attempts = 0 THEN row[e][d] ELSE r
    BY <1>1, <1>3, RowUpdates DEF Counted
  <1>9. \A f \in Events, b \in Devices : <<f, b>> # <<e, d>> => row'[f][b] = row[f][b]
    BY <1>1, <1>3, RowUpdates DEF Counted
  <1>5. k.todo = job[s].todo /\ k.at = <<>>
    BY NextMove DEF Counted
  <1>6. \A f \in Events, b \in Devices : <<f, b>> \in k.todo \cup {k.at} => Holds(s, f, b)
    BY <1>5, NoPairIsEmpty DEF Holds
  <1>7. row'[e][d] \in Row /\ ~row'[e][d].sent
    BY <1>2, <1>3, <1>4
  <1>8. QED
    BY <1>1, <1>6, <1>7, <1>9, RowEnds

LEMMA BeginEnds ==
  ASSUME Counted, NEW s \in Senders, NEW p \in job[s].todo, Begin(s, p)
  PROVE  Delivery!End
  <1> PICK k : /\ Become(s, k) /\ k.pc \in {"idle", "next", "send"}
               /\ k.todo \subseteq job[s].todo \ {p} /\ k.at \in {<<>>, p}
    BY BeginMove DEF Counted
  <1>1. \A f \in Events, b \in Devices : <<f, b>> \in k.todo \cup {k.at} => Holds(s, f, b)
    BY NoPairIsEmpty DEF Holds
  <1>2. UNCHANGED <<age, taken>>
    BY DEF Begin
  <1>3. CASE s # Worker
    BY <1>1, <1>2, <1>3, QuietEnds DEF Begin
  <1>4. CASE s = Worker
    <2>1. p \in Pair
      BY DEF Counted, Paced, Job
    <2> PICK e \in Events, d \in Devices : p = <<e, d>>
      BY <2>1 DEF Pair
    <2> PICK r : r = [row[e][d] EXCEPT !.attempts = @ + 1]
      OBVIOUS
    <2>2. Holds(s, e, d)
      BY DEF Holds
    <2>3. row[e][d] \in Row /\ row[e][d].attempts < MaxAttempts /\ ~row[e][d].sent
      BY <1>4, <2>2 DEF Counted, Cell
    <2>4. r \in Row /\ ~r.sent
      BY <2>3, AttemptsAreTyped DEF Row
    <2>5. Update(e, d, r)
      BY <1>4 DEF Begin
    <2>6. row'[e][d] = IF row[e][d].attempts = 0 THEN row[e][d] ELSE r
      BY <2>4, <2>5, RowUpdates DEF Counted
    <2>9. \A f \in Events, b \in Devices : <<f, b>> # <<e, d>> => row'[f][b] = row[f][b]
      BY <2>4, <2>5, RowUpdates DEF Counted
    <2>7. row'[e][d] \in Row /\ ~row'[e][d].sent
      BY <2>3, <2>4, <2>6
    <2>8. QED
      BY <1>1, <1>2, <2>2, <2>7, <2>9, RowEnds
  <1>5. QED
    BY <1>3, <1>4

LEMMA LoadEnds ==
  ASSUME Counted, NEW e \in Events, LoadDevices(e)
  PROVE  Delivery!End
  <1> DEFINE T == {p \in {e} \X (Devices \cap target) : Unsent(p[1], p[2])}
             k == IF T = {} THEN Idle ELSE [Idle EXCEPT !.pc = "next", !.todo = T]
  <1>1. Become(e, k) /\ UNCHANGED <<age, row, taken>> /\ job[e].pc = "query"
    BY DEF LoadDevices
  <1>2. k.todo = T /\ k.at = <<>>
    BY DEF Idle
  <1>3. ASSUME NEW f \in Events, NEW d \in Devices, <<f, d>> \in T
        PROVE  row[f][d].attempts \in 1 .. MaxAttempts - 1
    <2>1. f = e /\ Unsent(e, d)
      BY <1>3
    <2>2. row[e][d].attempts \in 0 .. MaxAttempts /\ row[e][d].attempts <= 1
      BY <1>1, AttemptsAreTyped DEF Counted, Cell
    <2>3. QED
      BY <2>1, <2>2, AttemptsAreTyped DEF Unsent
  <1> HIDE DEF k, T
  <1>4. QED
    BY <1>1, <1>2, <1>3, QuietEnds, NoPairIsEmpty, Constants

LEMMA PassEnds ==
  ASSUME Counted, RedispatchFailedPushes
  PROVE  Delivery!End
  <1> DEFINE T == {p \in Pair : Selectable(p[1], p[2])}
             k == [Idle EXCEPT !.pc = "next", !.todo = T,
                               !.blank = {p \in T : p[2] \notin target}]
  <1>1. Become(Worker, k) /\ UNCHANGED <<age, row, taken>>
    BY DEF RedispatchFailedPushes
  <1>2. k.todo = T /\ k.at = <<>>
    BY DEF Idle
  <1>3. ASSUME NEW f \in Events, NEW d \in Devices, <<f, d>> \in T
        PROVE  row[f][d].attempts \in 1 .. MaxAttempts - 1
    <2>1. Selectable(f, d)
      BY <1>3
    <2>2. row[f][d].attempts \in 0 .. MaxAttempts
      BY AttemptsAreTyped DEF Counted
    <2>3. QED
      BY <2>1, <2>2, AttemptsAreTyped DEF Selectable, Unsent
  <1> HIDE DEF k, T
  <1>4. QED
    BY <1>1, <1>2, <1>3, QuietEnds, NoPairIsEmpty, Constants

(* The fence is deleted with its rows: what a sender has in hand is open   *)
(* until it lets go.                                                       *)
LEMMA ConfigEnds ==
  ASSUME Counted, ChangeConfig
  PROVE  Delivery!End
  <1>1. UNCHANGED <<age, job, taken>>
    BY DEF ChangeConfig
  <1>2. row' = row \/ row' = [e \in Events |-> [d \in Devices |-> NoRow]]
    BY DEF ChangeConfig
  <1>3. ASSUME NEW e \in Events, NEW d \in Devices
        PROVE  Delivery!Ends(StatusOf(e, d), StatusOf(e, d)')
    <2>1. InHand(e, d)' <=> InHand(e, d)
      BY <1>1 DEF InHand, Holds
    <2>2. CASE row' = row
      BY <1>1, <2>1, <2>2, PairEnds DEF Counted
    <2>3. CASE row'[e][d] = NoRow
      <3>1. CASE InHand(e, d)
        BY <1>1, <2>1, <2>3, <3>1, InHandIsOpen DEF StatusOf, NoRow, Delivery!Ends
      <3>2. CASE ~InHand(e, d)
        BY <1>1, <2>1, <2>3, <3>2, AttemptsAreTyped DEF StatusOf, NoRow, Delivery!Ends
      <3>3. QED
        BY <3>1, <3>2
    <2>4. QED
      BY <1>2, <2>2, <2>3
  <1>4. QED
    BY <1>1, <1>3, Ending

LEMMA TickEnds ==
  ASSUME Counted, Tick
  PROVE  Delivery!End
  <1>1. \A e \in Events : age'[e] = NotYet <=> age[e] = NotYet
    BY Constants DEF Tick, NotYet, Counted, Paced
  <1>2. ASSUME NEW t \in Senders PROVE job'[t].todo = job[t].todo /\ job'[t].at = job[t].at
    <2>1. job[t] \in Job
      BY DEF Counted, Paced
    <2>2. QED
      BY <2>1 DEF Tick, Job
  <1>3. \A e \in Events, d \in Devices : InHand(e, d)' <=> InHand(e, d)
    BY <1>2 DEF InHand, Holds
  <1>4. row' = row /\ taken' = taken
    BY DEF Tick
  <1>5. QED
    BY <1>1, <1>3, <1>4, PairEnds, Ending DEF Counted

LEMMA FaultDelivers ==
  ASSUME Counted, Fault
  PROVE  Delivery!Next
  <1>1. age' = age
    BY DEF Fault
  <1>2. ASSUME NEW s \in Senders, SendFails(s) PROVE Delivery!Next
    <2> PICK p \in Pair : p = job[s].at
      BY <1>2 DEF SendFails, Counted, Paced, Good, Shaped, Sending
    <2> PICK e \in Events, d \in Devices : p = <<e, d>>
      BY DEF Pair
    <2> PICK k : k \in {AfterFailure(s), Next_(s)} /\ Become(s, k)
      BY <1>2 DEF SendFails
    <2>1. job[s].pc = "send" /\ row' = row /\ (Takes(<<e, d>>) \/ taken' = taken)
      BY <1>2 DEF SendFails
    <2>2. k.todo = job[s].todo /\ k.at \in {<<>>, job[s].at}
      BY <2>1, FailureMove, NextMove DEF Counted
    <2>3. CASE Takes(<<e, d>>)
      BY <1>1, <2>1, <2>2, <2>3, TakenAt
    <2>4. CASE taken' = taken
      <3>1. \A f \in Events, b \in Devices :
               <<f, b>> \in k.todo \cup {k.at} => Holds(s, f, b)
        BY <2>2, NoPairIsEmpty DEF Holds
      <3>2. Delivery!End
        BY <1>1, <2>1, <2>4, <3>1, QuietEnds
      <3>3. QED
        BY <3>2 DEF Delivery!Next
    <2>5. QED
      BY <2>1, <2>3, <2>4
  <1>3. ASSUME NEW s \in Senders, UpdateFails(s) PROVE Delivery!End
    <2>1. UNCHANGED <<row, taken>>
      BY <1>3 DEF UpdateFails
    <2>2. Idle.todo = {} /\ Idle.at = <<>>
      BY DEF Idle
    <2>3. ASSUME Become(s, Idle) PROVE Delivery!End
      BY <1>1, <2>1, <2>2, <2>3, QuietEnds, NoPairIsEmpty
    <2>4. ASSUME Become(s, Next_(s)) PROVE Delivery!End
      <3>1. Next_(s).todo = job[s].todo /\ Next_(s).at = <<>>
        BY NextMove DEF Counted
      <3>2. QED
        BY <1>1, <2>1, <2>4, <3>1, QuietEnds, NoPairIsEmpty DEF Holds
    <2>5. ASSUME NEW p \in job[s].todo, Become(s, [job[s] EXCEPT !.todo = job[s].todo \ {p}])
          PROVE  Delivery!End
      <3> PICK k : k = [job[s] EXCEPT !.todo = job[s].todo \ {p}]
        OBVIOUS
      <3>1. job[s] \in Job
        BY DEF Counted, Paced
      <3>2. k.todo = job[s].todo \ {p} /\ k.at = job[s].at
        BY <3>1 DEF Job
      <3>3. QED
        BY <1>1, <2>1, <2>5, <3>2, QuietEnds DEF Holds
    <2>6. QED
      BY <1>3, <2>3, <2>4, <2>5 DEF UpdateFails
  <1>4. ASSUME Restart PROVE Delivery!End
    <2>1. UNCHANGED <<row, taken>>
      BY <1>4 DEF Restart
    <2>2. \A t \in Senders : job'[t].todo = {} /\ job'[t].at = <<>>
      BY <1>4 DEF Restart, Idle
    <2>3. \A e \in Events, d \in Devices : ~InHand(e, d)'
      BY <2>2, NoPairIsEmpty DEF InHand, Holds
    <2>4. QED
      BY <1>1, <2>1, <2>3, PairEnds, Ending DEF Counted
  <1>5. QED
    BY <1>2, <1>3, <1>4 DEF Fault, Delivery!Next

(* Every delivery is opened once, with its event; it is done only if the   *)
(* push service took it, and what is done, given up or withdrawn is never  *)
(* taken up again: geofence_event_devices and its two kinds of sender      *)
(* implement AlertDelivery.                                                *)
THEOREM DeliveryIsImplemented == Spec => ImplementsDelivery
  <1>1. Init => Delivery!Init
    <2> SUFFICES ASSUME Init PROVE Delivery!Init
      OBVIOUS
    <2>1. \A e \in Events, d \in Devices : StatusOf(e, d) = "none"
      BY DEF Init, StatusOf
    <2>2. QED
      BY <2>1 DEF Init, Delivery!Init, Statuses
  <1>2. Counted /\ Counted' /\ [Next]_vars => [Delivery!Next]_<<Statuses, taken>>
    <2> SUFFICES ASSUME Counted, Counted', [Next]_vars
                 PROVE  [Delivery!Next]_<<Statuses, taken>>
      OBVIOUS
    <2>1. ASSUME NEW s \in Senders, Send(s) PROVE Delivery!Next
      <3>1. ASSUME Accepted(s) PROVE Delivery!Next
        <4> PICK p \in Pair : p = job[s].at
          BY <3>1 DEF Accepted, Counted, Paced, Good, Shaped, Sending
        <4> PICK e \in Events, d \in Devices : p = <<e, d>>
          BY DEF Pair
        <4>1. job[s] \in Job
          BY DEF Counted, Paced
        <4>2. Working(s, "mark").todo = job[s].todo /\ Working(s, "mark").at = job[s].at
          BY <4>1 DEF Working, Job
        <4>3. QED
          BY <3>1, <4>2, TakenAt DEF Accepted
      <3>2. ASSUME Refused(s) PROVE Delivery!End
        <4>1. job[s] \in Job
          BY DEF Counted, Paced
        <4>2. Working(s, "bury").todo = job[s].todo /\ Working(s, "bury").at = job[s].at
          BY <4>1 DEF Working, Job
        <4>3. QED
          BY <3>2, <4>2, QuietEnds DEF Refused, Holds
      <3>3. QED
        BY <2>1, <3>1, <3>2, LoadEnds, PassEnds, BeginEnds, MarkDelivers, BuryEnds
           DEF Send, Delivery!Next
    <2>2. CASE Next
      BY <2>1, <2>2, RecordOpens, TickEnds, FaultDelivers, ConfigEnds DEF Next, Delivery!Next
    <2>3. CASE UNCHANGED vars
      BY <2>3 DEF vars, Statuses, StatusOf, InHand, Holds
    <2>4. QED
      BY <2>2, <2>3
  <1>3. QED
    BY <1>1, <1>2, CountedInvariant, PTL DEF Spec, ImplementsDelivery, Delivery!Spec

=============================================================================
