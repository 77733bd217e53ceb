--------------------------- MODULE GeofenceEngine ---------------------------
(***************************************************************************)
(* Geofence evaluation (backend/internal/handlers/geofence_eval.go): every *)
(* accepted fix starts a goroutine that queries the candidate fences and   *)
(* then processes each in a transaction of its own; a reconcile worker     *)
(* re-evaluates the latest stored fix of every user and fires the pending  *)
(* transitions whose debounce window has passed.                           *)
(*                                                                         *)
(* Between the candidate query and a fence's transaction anything may      *)
(* happen: other evaluations, the worker, and every handler of             *)
(* GeofenceConfig.                                                         *)
(***************************************************************************)
EXTENDS GeofenceConfig

CONSTANTS
    Goroutines,     \* evaluations of ingested fixes that may run at once
    Worker,         \* the reconcile worker, which evaluates too
    Near,           \* Near[s]: the spots within stationaryDedupMeters of s
    MaxFaults       \* bound: failed queries, failed transactions, restarts

Evaluators == Goroutines \cup {Worker}

Fix == [spot: Spots, ts: 1 .. MaxTs]
NoFix == [spot |-> CHOOSE s \in Spots : TRUE, ts |-> 0]
Candidate == [fence: Fences, enter: BOOLEAN, exit: BOOLEAN]
Evaluation == [pc: {"idle", "query", "process"}, user: Users,
               spot: Spots, ts: 0 .. MaxTs, todo: SUBSET Candidate]
Idle == [pc |-> "idle", user |-> CHOOSE u \in Users : TRUE,
         spot |-> CHOOSE s \in Spots : TRUE, ts |-> 0, todo |-> {}]

ASSUME EngineAssumption ==
    /\ Users # {} /\ Spots # {}
    /\ Worker \notin Goroutines
    /\ Near \in [Spots -> SUBSET Spots]
    /\ MaxFaults \in Nat

VARIABLES
    latest,     \* the stored fix with the greatest ts, by user
    unsent,     \* fixes each user's devices have yet to deliver, by ts
    eval,       \* the running evaluations
    recon,      \* the reconcile worker's position in its pass
    faults      \* faults so far

evars == <<latest, unsent, eval, recon, faults>>
vars == <<cvars, evars>>

EngineTypeOK ==
    /\ latest \in [Users -> Fix \cup {NoFix}]
    /\ unsent \in [Users -> SUBSET (1 .. MaxTs)]
    /\ eval \in [Evaluators -> Evaluation]
    /\ recon \in [pc: {"wait", "points", "pending"},
                  points: SUBSET [user: Users, spot: Spots, ts: 1 .. MaxTs],
                  pending: SUBSET (Fences \X Users)]
    /\ faults \in 0 .. MaxFaults

Waiting == [pc |-> "wait", points |-> {}, pending |-> {}]

EngineInit ==
    /\ latest = [u \in Users |-> NoFix]
    /\ unsent = [u \in Users |-> 1 .. MaxTs]
    /\ eval = [e \in Evaluators |-> Idle]
    /\ recon = Waiting
    /\ faults = 0

-----------------------------------------------------------------------------
(* Ingest.  A fix reaches the server at any time after it was taken, so    *)
(* out of order; a live fix not newer than the latest stored one is        *)
(* rejected and changes nothing.                                           *)

Start(e, u, spot, ts) ==
    /\ eval[e].pc = "idle"
    /\ eval' = [eval EXCEPT ![e] = [pc |-> "query", user |-> u, spot |-> spot,
                                    ts |-> ts, todo |-> {}]]

Deliver(u, ts) ==
    /\ ts \in unsent[u]
    /\ unsent' = [unsent EXCEPT ![u] = @ \ {ts}]

Stationary(u, spot) == latest[u].ts # 0 /\ spot \in Near[latest[u].spot]

IngestLocation(u, spot, ts, e) ==
    /\ Deliver(u, ts)
    /\ ts > latest[u].ts
    /\ ~Stationary(u, spot)
    /\ latest' = [latest EXCEPT ![u] = [spot |-> spot, ts |-> ts]]
    /\ Start(e, u, spot, ts)
    /\ UNCHANGED <<cvars, recon, faults>>

(* Deduplicated: not stored, evaluated all the same.                       *)
IngestStationary(u, spot, ts, e) ==
    /\ Deliver(u, ts)
    /\ ts > latest[u].ts
    /\ Stationary(u, spot)
    /\ Start(e, u, spot, ts)
    /\ UNCHANGED <<cvars, latest, recon, faults>>

(* A backfilled fix is stored and not evaluated.                           *)
IngestBackfill(u, spot, ts) ==
    /\ Deliver(u, ts)
    /\ latest' = IF ts > latest[u].ts
                 THEN [latest EXCEPT ![u] = [spot |-> spot, ts |-> ts]]
                 ELSE latest
    /\ UNCHANGED <<cvars, eval, recon, faults>>

-----------------------------------------------------------------------------
(* evaluateGeofences: the candidate query, outside any lock.               *)

Side(spot, p) == IF spot \in place[p].area THEN "in" ELSE "out"

Armed(f) == Live(f) /\ fence[f].enabled

Watches(f, u) ==
    /\ Armed(f)
    /\ \/ fence[f].user = u
       \/ /\ fence[f].user = Everyone
          /\ ~\E g \in Fences : Armed(g) /\ fence[g].place = fence[f].place /\ fence[g].user = u

(* Mutant: only the fences the fix is inside of are looked at.             *)
CandidatesInside(u, spot) ==
    {[fence |-> f, enter |-> fence[f].enter, exit |-> fence[f].exit] :
        f \in {f \in Fences : /\ Watches(f, u) /\ Alertable(fence[f].place)
                              /\ Side(spot, fence[f].place) = "in"}}

Candidates(u, spot) ==
    {[fence |-> f, enter |-> fence[f].enter, exit |-> fence[f].exit] :
        f \in {f \in Fences : /\ Watches(f, u)
                              /\ Alertable(fence[f].place)
                              /\ \/ Side(spot, fence[f].place) = "in"
                                 \/ row[f][u].inside \in {"in", "none"}}}

Rest(e, todo) == IF todo = {} THEN Idle ELSE [eval[e] EXCEPT !.pc = "process", !.todo = todo]

EvaluateGeofences(e) ==
    /\ eval[e].pc = "query"
    /\ LET u == eval[e].user
       IN  eval' = [eval EXCEPT ![e] =
                      Rest(e, IF u \in member THEN Candidates(u, eval[e].spot) ELSE {})]
    /\ UNCHANGED <<cvars, latest, unsent, recon, faults>>

-----------------------------------------------------------------------------
(* processGeofence: one transaction under the fence's row lock, for the    *)
(* fix (u, spot, ts) and a candidate c with the flags read by the query.   *)

KindOf(side) == IF side = "in" THEN "enter" ELSE "exit"
Flag(rec, side) == IF side = "in" THEN rec.enter ELSE rec.exit

Pending(r) == r.notified # "unknown" /\ r.notified # r.inside
Elapsed(r) == r.since \in {Never, Debounce}

(* Mutant: what the query found enabled is taken to be enabled still.      *)
ConcernsUnchecked(f, u) == fence[f].user \in {Everyone, u} /\ Alertable(fence[f].place)

(* Re-read under the lock.                                                 *)
Concerns(f, u) == /\ Armed(f)
                  /\ fence[f].user \in {Everyone, u}
                  /\ Alertable(fence[f].place)

SetRow(f, u, r) == row' = [row EXCEPT ![f][u] = r]

Record(f, u, kind, ts) ==
    told' = [told EXCEPT ![f][u] = [kind |-> kind, ts |-> ts, age |-> 0, count |-> @.count + 1]]

(* Mutant: a fix may be applied after a newer one.                         *)
StaleNever(f, u, ts) == FALSE

Stale(f, u, ts) == row[f][u].inside # "none" /\ ts < row[f][u].lastSeen

Ignore(f, u, ts) ==
    /\ ~Concerns(f, u) \/ Stale(f, u, ts)
    /\ UNCHANGED <<row, told>>

(* First observation: the baseline.                                        *)
Baseline(f, u, side, ts) ==
    /\ row[f][u].inside = "none"
    /\ SetRow(f, u, [inside |-> side, notified |-> IF side = "in" THEN "unknown" ELSE "out",
                     since |-> Never, pendingTs |-> 0, lastSeen |-> ts,
                     basis |-> place[fence[f].place].area, escaped |-> FALSE])
    /\ UNCHANGED told

(* `inside` and `last_seen_ts` move on; what else changes is the choice.   *)
Moved(f, u, side, ts) ==
    [row[f][u] EXCEPT !.inside = side, !.lastSeen = ts, !.basis = place[fence[f].place].area,
                      !.escaped = FALSE]

Stay(f, u, side, ts) ==
    /\ row[f][u].inside = side
    /\ SetRow(f, u, Moved(f, u, side, ts))
    /\ UNCHANGED told

Fire(f, u, c, side, ts) ==
    /\ Flag(c, side) /\ Elapsed(row[f][u]) /\ row[f][u].notified # side
    /\ SetRow(f, u, [Moved(f, u, side, ts) EXCEPT !.notified = side, !.since = 0, !.pendingTs = 0])
    /\ Record(f, u, KindOf(side), ts)

(* Mutant: the time of the crossing is not kept.                           *)
PostponeTimeless(f, u, c, side, ts) ==
    /\ Flag(c, side) /\ ~Elapsed(row[f][u]) /\ row[f][u].notified # side
    /\ SetRow(f, u, Moved(f, u, side, ts))
    /\ UNCHANGED told

Postpone(f, u, c, side, ts) ==
    /\ Flag(c, side) /\ ~Elapsed(row[f][u]) /\ row[f][u].notified # side
    /\ SetRow(f, u, [Moved(f, u, side, ts) EXCEPT !.pendingTs = ts])
    /\ UNCHANGED told

(* Mutant: the row says the return was told, not the crossing before it.   *)
FireOlderSwapped(f, u, c, side, ts) ==
    LET old == row[f][u].inside
    IN  /\ Flag(c, side) /\ Elapsed(row[f][u]) /\ row[f][u].notified = side
        /\ SetRow(f, u, [Moved(f, u, side, ts) EXCEPT !.notified = side, !.since = 0, !.pendingTs = ts])
        /\ Record(f, u, KindOf(old), row[f][u].pendingTs)

(* Back where the family believes the user is, with a pending transition   *)
(* in between: that one is told now, and the return becomes pending.       *)
FireOlder(f, u, c, side, ts) ==
    LET old == row[f][u].inside
    IN  /\ Flag(c, side) /\ Elapsed(row[f][u]) /\ row[f][u].notified = side
        /\ SetRow(f, u, [Moved(f, u, side, ts) EXCEPT !.notified = old, !.since = 0, !.pendingTs = ts])
        /\ Record(f, u, KindOf(old), row[f][u].pendingTs)

Sync(f, u, c, side, ts) ==
    /\ \/ ~Flag(c, side)
       \/ row[f][u].notified = side /\ ~Elapsed(row[f][u])
    /\ SetRow(f, u, [Moved(f, u, side, ts) EXCEPT !.notified = side, !.pendingTs = 0])
    /\ UNCHANGED told

Cross(f, u, c, side, ts) ==
    /\ row[f][u].inside \notin {"none", side}
    /\ \/ Fire(f, u, c, side, ts)
       \/ Postpone(f, u, c, side, ts)
       \/ FireOlder(f, u, c, side, ts)
       \/ Sync(f, u, c, side, ts)

Observe(f, u, c, side, ts) ==
    /\ Concerns(f, u)
    /\ ~Stale(f, u, ts)
    /\ \/ Baseline(f, u, side, ts)
       \/ Stay(f, u, side, ts)
       \/ Cross(f, u, c, side, ts)

(* A write to a state that a place update has deleted waits for the end of *)
(* that update, with the fence's lock held; what it decided stands.        *)
WriteOf(f, u) ==
    placing' = IF <<f, u>> \in placing.doomed THEN [placing EXCEPT !.held = @ \cup {f}]
                                              ELSE placing

ProcessGeofence(e, c) ==
    /\ eval[e].pc = "process"
    /\ c \in eval[e].todo
    /\ FenceFree(c.fence)
    /\ LET u == eval[e].user
           ts == eval[e].ts
       IN  \/ Ignore(c.fence, u, ts) /\ UNCHANGED placing
           \/ /\ Observe(c.fence, u, c, Side(eval[e].spot, fence[c.fence].place), ts)
              /\ WriteOf(c.fence, u)
    /\ eval' = [eval EXCEPT ![e] = Rest(e, @.todo \ {c})]
    /\ UNCHANGED <<fence, place, member, edit, changes, latest, unsent, recon, faults>>

-----------------------------------------------------------------------------
(* The reconcile worker: reconcileLatestPoints, firePendingNotifications.  *)

ReconcileLatestPoints ==
    /\ recon.pc = "wait"
    /\ eval[Worker].pc = "idle"
    /\ recon' = [pc |-> "points", pending |-> {},
                 points |-> {[user |-> u, spot |-> latest[u].spot, ts |-> latest[u].ts] :
                                u \in {u \in Users : latest[u].ts # 0}}]
    /\ UNCHANGED <<cvars, latest, unsent, eval, faults>>

ReconcilePoint(pt) ==
    /\ recon.pc = "points"
    /\ pt \in recon.points
    /\ Start(Worker, pt.user, pt.spot, pt.ts)
    /\ recon' = [recon EXCEPT !.points = @ \ {pt}]
    /\ UNCHANGED <<cvars, latest, unsent, faults>>

(* Mutant: the comparison with the end of the window is turned round.      *)
DueEarly(f, u) == /\ Armed(f) /\ row[f][u].inside # "none" /\ Pending(row[f][u])
                  /\ Flag(fence[f], row[f][u].inside)
                  /\ row[f][u].since \in 0 .. Debounce - 1

(* The rows the query of firePendingNotifications selects.                 *)
Due(f, u) == /\ Armed(f)
             /\ row[f][u].inside # "none"
             /\ Pending(row[f][u])
             /\ Flag(fence[f], row[f][u].inside)
             /\ row[f][u].since = Debounce

FirePendingNotifications ==
    /\ recon.pc = "points" /\ recon.points = {}
    /\ eval[Worker].pc = "idle"
    /\ LET due == {fu \in Fences \X Users : Due(fu[1], fu[2])}
       IN  recon' = IF due = {} THEN Waiting ELSE [pc |-> "pending", points |-> {}, pending |-> due]
    /\ UNCHANGED <<cvars, latest, unsent, eval, faults>>

(* Mutant: what the query selected is taken to be pending still.           *)
StillDueUnchecked(f, u) == Armed(f) /\ row[f][u].inside # "none"

(* Re-read under the lock.                                                 *)
StillDue(f, u) ==
    LET r == row[f][u]
    IN  /\ Armed(f) /\ fence[f].user \in {Everyone, u}
        /\ r.inside # "none" /\ Pending(r) /\ Elapsed(r) /\ Flag(fence[f], r.inside)

FirePendingNotification(f, u) ==
    /\ recon.pc = "pending"
    /\ <<f, u>> \in recon.pending
    /\ FenceFree(f)
    /\ LET r == row[f][u]
       IN  \/ /\ StillDue(f, u)
              /\ WriteOf(f, u)
              /\ SetRow(f, u, [r EXCEPT !.notified = r.inside, !.since = 0, !.pendingTs = 0])
              /\ Record(f, u, KindOf(r.inside), r.pendingTs)
           \/ ~StillDue(f, u) /\ UNCHANGED <<row, told, placing>>
    /\ LET rest == recon.pending \ {<<f, u>>}
       IN  recon' = IF rest = {} THEN Waiting ELSE [recon EXCEPT !.pending = rest]
    /\ UNCHANGED <<fence, place, member, edit, changes, latest, unsent, eval, faults>>

-----------------------------------------------------------------------------
(* Time, and what goes wrong: a query or a transaction fails and is only   *)
(* logged; the server stops, and its goroutines with it (UpdateFails and   *)
(* PlaceRollback are what that does to the requests it was serving).       *)

Older(age) == IF age \in 0 .. Debounce - 1 THEN age + 1 ELSE age

Tick ==
    /\ row' = [f \in Fences |-> [u \in Users |-> [row[f][u] EXCEPT !.since = Older(@)]]]
    /\ told' = [f \in Fences |-> [u \in Users |-> [told[f][u] EXCEPT !.age = Older(@)]]]
    /\ UNCHANGED <<fence, place, member, edit, placing, changes, evars>>

QueryFails(e) ==
    /\ eval[e].pc = "query"
    /\ eval' = [eval EXCEPT ![e] = Idle]
    /\ UNCHANGED recon

TransactionFails(e, c) ==
    /\ c \in eval[e].todo
    /\ eval' = [eval EXCEPT ![e] = Rest(e, @.todo \ {c})]
    /\ UNCHANGED recon

FirePendingFails(fu) ==
    /\ recon' = IF recon.pending = {fu} THEN Waiting ELSE [recon EXCEPT !.pending = @ \ {fu}]
    /\ UNCHANGED eval

Restart ==
    /\ eval' = [e \in Evaluators |-> Idle]
    /\ recon' = Waiting

Fault ==
    /\ faults < MaxFaults
    /\ faults' = faults + 1
    /\ \/ \E e \in Evaluators : QueryFails(e) \/ \E c \in eval[e].todo : TransactionFails(e, c)
       \/ \E fu \in recon.pending : FirePendingFails(fu)
       \/ Restart
    /\ UNCHANGED <<cvars, latest, unsent>>

Evaluate(e) == EvaluateGeofences(e) \/ \E c \in eval[e].todo : ProcessGeofence(e, c)

Reconcile ==
    \/ ReconcileLatestPoints
    \/ \E pt \in recon.points : ReconcilePoint(pt)
    \/ FirePendingNotifications
    \/ \E fu \in recon.pending : FirePendingNotification(fu[1], fu[2])

Ingest ==
    \E u \in Users, spot \in Spots, ts \in 1 .. MaxTs :
        \/ \E e \in Goroutines : IngestLocation(u, spot, ts, e) \/ IngestStationary(u, spot, ts, e)
        \/ IngestBackfill(u, spot, ts)

EngineNext ==
    \/ Ingest
    \/ \E e \in Evaluators : Evaluate(e)
    \/ Reconcile
    \/ Tick
    \/ Fault

Init == ConfigInit /\ EngineInit
ConfigStep == ConfigNext /\ UNCHANGED evars
Next == EngineNext \/ ConfigStep

(* The family's configuration changes while evaluations run.               *)
Spec == Init /\ [][Next]_vars

(* The configuration is left alone.  A started goroutine and the worker    *)
(* keep running, and time passes; nothing makes a device send.             *)
SteadySpec == /\ Init /\ [][EngineNext]_vars
              /\ \A e \in Evaluators : WF_vars(Evaluate(e))
              /\ WF_vars(Reconcile)
              /\ WF_vars(Tick)

TypeOK == ConfigTypeOK /\ EngineTypeOK

-----------------------------------------------------------------------------
(* Properties of any behaviour, with configuration changes at any moment.  *)

(* A fence that is deleted or disabled keeps no state, although an         *)
(* evaluation that selected it while it was enabled may still be running.  *)
UnarmedHasNoRows ==
    \A f \in Fences : ~Armed(f) => \A u \in Users : row[f][u] = NoRow

(* Every state belongs to a user the fence watches, and says where that    *)
(* user is in the area the fence has now: a reassignment and a changed     *)
(* geometry leave no state behind (geofence.go:525, place.go:462), but for *)
(* the states of fences moved onto the place after its update had locked   *)
(* the fences it had (place.go:467).                                       *)
OfTheArea(f, u) ==
    Alertable(fence[f].place) /\ row[f][u].basis = place[fence[f].place].area

RowsFitFence ==
    \A f \in Fences, u \in Users :
        row[f][u].inside # "none" =>
            /\ fence[f].user \in {Everyone, u}
            /\ row[f][u].escaped \/ OfTheArea(f, u)

(* The same of every state, as the comment at place.go:462-465 says it     *)
(* ("preventing a stale inside value from being written against the old    *)
(* geometry").                                                             *)
NoStateOfOldArea ==
    \A f \in Fences, u \in Users : row[f][u].inside # "none" => OfTheArea(f, u)

(* No place has both a family-wide and a per-user fence (geofence.go:270,  *)
(* 467), however creates, updates and deletes follow one another.          *)
OneKindOfFencePerPlace ==
    \A f, g \in Fences :
        Live(f) /\ Live(g) /\ fence[f].place = fence[g].place =>
            ((fence[f].user = Everyone) <=> (fence[g].user = Everyone))

-----------------------------------------------------------------------------
(* Properties while the configuration is left alone.                       *)

TwoWay(f) == fence[f].enter /\ fence[f].exit

(* What the events say implements AlertStream: only directions the fence   *)
(* asks for, alternating, a debounce window apart, whichever of the two    *)
(* code paths (processGeofence, firePendingNotification) records them.     *)
Asked == [f \in Fences |-> [u \in Users |->
             IF Armed(f) /\ fence[f].user \in {Everyone, u}
             THEN {k \in Kinds : \/ k = "enter" /\ fence[f].enter
                                 \/ k = "exit" /\ fence[f].exit}
             ELSE {}]]
Stream == INSTANCE AlertStream WITH asked <- Asked, Times <- 1 .. MaxTs
ImplementsStream == Stream!Spec

(* A crossing held back by the debounce window is one the worker's query   *)
(* selects as soon as the window has passed, with the time it happened:    *)
(* last_notified_at is set (the query compares it without a NULL case),    *)
(* pending_ts is set, the direction's flag is on.                          *)
PendingIsSelectable ==
    \A f \in Fences, u \in Users :
        LET r == row[f][u]
        IN  r.inside # "none" /\ Pending(r) =>
                /\ r.since # Never /\ r.pendingTs # 0
                /\ Armed(f) /\ Flag(fence[f], r.inside)

(* What the row says the family believes is what it was told last.         *)
BeliefIsTold ==
    \A f \in Fences, u \in Users :
        TwoWay(f) /\ told[f][u].count > 0 =>
            KindOf(row[f][u].notified) = told[f][u].kind /\ row[f][u].notified # "unknown"

(* The debounce window is measured from the last report, if there was one. *)
WindowSinceReport ==
    \A f \in Fences, u \in Users :
        /\ row[f][u].inside = "none" => told[f][u].count = 0
        /\ row[f][u].since = IF told[f][u].count = 0 THEN Never ELSE told[f][u].age

(* The strengthening of the above that a step preserves: a report has a    *)
(* kind and an age, and evaluations hold the flags the fences still have.  *)
SteadyInv ==
    /\ TypeOK /\ PendingIsSelectable /\ BeliefIsTold /\ WindowSinceReport
    /\ \A f \in Fences, u \in Users :
          IF told[f][u].count = 0 THEN told[f][u].kind = "none" ELSE told[f][u].age # Never
    /\ \A e \in Evaluators :
          /\ eval[e].pc # "idle" => eval[e].ts # 0
          /\ \A c \in eval[e].todo :
                /\ eval[e].pc = "process"
                /\ c.enter = fence[c.fence].enter /\ c.exit = fence[c.fence].exit

(* A pending crossing whose window has passed is never dropped unannounced *)
(* (geofence_eval.go:296) - for the fences that report both directions.    *)
DropsPending(f, u) ==
    /\ row[f][u].inside # "none" /\ Pending(row[f][u]) /\ row[f][u].since = Debounce
    /\ ~Pending(row'[f][u])
    /\ told'[f][u].count = told[f][u].count

NoPendingLostTwoWay == [][\A f \in Fences, u \in Users : TwoWay(f) => ~DropsPending(f, u)]_vars

(* The same for every fence, as the comment there says it.                 *)
NoPendingLost == [][\A f \in Fences, u \in Users : ~DropsPending(f, u)]_vars

(* Events of one fence and user are recorded in the order of the crossings *)
(* they report, though fixes are evaluated out of order and reports are    *)
(* held back.                                                              *)
EventsInOrder ==
    [][\A f \in Fences, u \in Users :
          told'[f][u].count > told[f][u].count => told'[f][u].ts >= told[f][u].ts]_vars

(* Liveness.  A pending crossing is announced or withdrawn; and once the   *)
(* devices are silent every row ends on the side of the latest stored fix  *)
(* (or of a later, deduplicated one) with nothing pending, in spite of     *)
(* failed evaluations and a restart: "a transient failure is self-healed   *)
(* on the next pass" (geofence_eval.go:75).                                *)
PendingResolved ==
    \A f \in Fences, u \in Users :
        row[f][u].inside # "none" /\ Pending(row[f][u]) ~> ~Pending(row[f][u])

Settled(f, u) ==
    LET r == row[f][u]
    IN  /\ ~(r.inside # "none" /\ Pending(r))
        /\ latest[u].ts # 0 /\ u \in member /\ Watches(f, u) /\ Alertable(fence[f].place) =>
              \/ r.inside = Side(latest[u].spot, fence[f].place)
              \/ r.inside # "none" /\ r.lastSeen > latest[u].ts

SelfHeals == <>[](\A f \in Fences, u \in Users : Settled(f, u))
=============================================================================
