--------------------------- MODULE GeofenceProofs ---------------------------
(***************************************************************************)
(* Theorems about GeofenceEngine, for any number of users, fences, places, *)
(* goroutines, fixes and faults, and any debounce window: first while the  *)
(* configuration changes at any moment, then while it is left alone.       *)
(***************************************************************************)
EXTENDS GeofenceEngine, TLAPS

-----------------------------------------------------------------------------
(* Type correctness.                                                       *)

LEMMA IdleType == Idle \in Evaluation
  <1>1. (CHOOSE u \in Users : TRUE) \in Users
    BY EngineAssumption
  <1>2. (CHOOSE s \in Spots : TRUE) \in Spots
    BY EngineAssumption
  <1>3. MaxTs \in Nat
    BY ConfigAssumption
  <1> QED
    BY <1>1, <1>2, <1>3 DEF Idle, Evaluation

LEMMA NoRowType == NoRow \in StateRow
  BY ConfigAssumption DEF NoRow, StateRow, Ages, Never, Sides

LEMMA NoPlacingType == NoPlacing \in Placing
  <1>1. (CHOOSE p \in Places : TRUE) \in Places
    BY ConfigAssumption
  <1> QED
    BY <1>1 DEF NoPlacing, Placing

LEMMA NothingToldType == NothingTold \in Told
  BY ConfigAssumption DEF NothingTold, Told, Ages, Never, Kinds

LEMMA TypeInit == Init => TypeOK
  <1> SUFFICES ASSUME Init PROVE TypeOK
    OBVIOUS
  <1> USE ConfigAssumption, EngineAssumption
  <1>1. ConfigTypeOK
    BY NoRowType, NothingToldType, NoPlacingType DEF Init, ConfigInit, ConfigTypeOK
  <1>2. EngineTypeOK
    BY IdleType DEF Init, EngineInit, EngineTypeOK, Waiting
  <1> QED
    BY <1>1, <1>2 DEF TypeOK

(* A patched fence is a fence.                                             *)
LEMMA PatchedType ==
  ASSUME NEW rec \in FenceRecord, NEW patch \in PatchRecord
  PROVE  /\ Patched(rec, patch) \in FenceRecord
         /\ Patched(rec, patch).state = rec.state
  <1> PICK to : to = patch.to
    OBVIOUS
  <1> PICK p, u, en, ex, on :
         /\ p = IF "place" \in patch.fields THEN to.place ELSE rec.place
         /\ u = IF "user" \in patch.fields THEN to.user ELSE rec.user
         /\ en = IF "enter" \in patch.fields THEN to.enter ELSE rec.enter
         /\ ex = IF "exit" \in patch.fields THEN to.exit ELSE rec.exit
         /\ on = IF "enabled" \in patch.fields THEN to.enabled ELSE rec.enabled
    OBVIOUS
  <1>1. to \in FenceRecord
    BY DEF PatchRecord
  <1>2. /\ p \in Places /\ u \in Users \cup {Everyone}
        /\ en \in BOOLEAN /\ ex \in BOOLEAN /\ on \in BOOLEAN
    BY <1>1 DEF FenceRecord
  <1>3. Patched(rec, patch) = [rec EXCEPT !.place = p, !.user = u, !.enter = en, !.exit = ex, !.enabled = on]
    BY DEF Patched
  <1> QED
    BY <1>2, <1>3 DEF FenceRecord

LEMMA OlderType == \A age \in Ages : Older(age) \in Ages
  BY ConfigAssumption DEF Older, Ages, Never

LEMMA DropRowsType ==
  ASSUME ConfigTypeOK, NEW fs, DropRows(fs)
  PROVE  row' \in [Fences -> [Users -> StateRow]]
  BY NoRowType DEF DropRows, ConfigTypeOK

LEMMA DeleteFencesType ==
  ASSUME ConfigTypeOK, NEW fs, DeleteFences(fs)
  PROVE  /\ fence' \in [Fences -> FenceRecord]
         /\ row' \in [Fences -> [Users -> StateRow]]
         /\ told' \in [Fences -> [Users -> Told]]
  <1>1. row' \in [Fences -> [Users -> StateRow]]
    BY DropRowsType DEF DeleteFences
  <1>2. told' \in [Fences -> [Users -> Told]]
    BY NothingToldType DEF DeleteFences, ConfigTypeOK
  <1>3. fence' \in [Fences -> FenceRecord]
    <2>1. ASSUME NEW r \in FenceRecord PROVE [r EXCEPT !.state = "deleted"] \in FenceRecord
      BY DEF FenceRecord, RowStates
    <2>2. \A f \in Fences : fence[f] \in FenceRecord
      BY DEF ConfigTypeOK
    <2> QED
      BY <2>1, <2>2 DEF DeleteFences
  <1> QED
    BY <1>1, <1>2, <1>3

LEMMA RequestType ==
  ASSUME ConfigTypeOK, Request
  PROVE  /\ fence' \in [Fences -> FenceRecord]
         /\ place' \in [Places -> PlaceRecord]
         /\ member' \subseteq Users
         /\ row' \in [Fences -> [Users -> StateRow]]
         /\ told' \in [Fences -> [Users -> Told]]
         /\ edit' \in [Editors -> EditRecord \cup {NoEdit}]
         /\ placing' \in Placing
  <1> USE DEF ConfigTypeOK
  <1>1. ASSUME NEW f \in Fences, NEW p \in Places, NEW u \in Users \cup {Everyone},
               NEW en \in BOOLEAN, NEW ex \in BOOLEAN, CreateGeofence(f, p, u, en, ex)
        PROVE  fence' \in [Fences -> FenceRecord] /\ UNCHANGED <<place, member, row, told, edit, placing>>
    BY <1>1 DEF CreateGeofence, FenceRecord, RowStates
  <1>2. ASSUME NEW m \in Editors, NEW f \in Fences, NEW patch \in Patches, UpdateBegin(m, f, patch)
        PROVE  edit' \in [Editors -> EditRecord \cup {NoEdit}]
               /\ UNCHANGED <<fence, place, member, row, told, placing>>
    BY <1>2 DEF UpdateBegin, EditRecord
  <1>3. ASSUME NEW p \in Places, NEW a \in BOOLEAN, NEW area \in SUBSET Spots,
               CreatePlace(p, a, area) \/ PlaceLock(p, a, area)
        PROVE  place' \in [Places -> PlaceRecord] /\ placing' \in Placing
               /\ UNCHANGED <<fence, member, row, told, edit>>
    <2>1. CASE CreatePlace(p, a, area)
      BY <2>1 DEF CreatePlace, PlaceRecord, RowStates
    <2>2. CASE PlaceLock(p, a, area)
      <3>1. FencesOf(p) \in SUBSET Fences
        BY DEF FencesOf
      <3> QED
        BY <2>2, <3>1, NoPlacingType DEF PlaceLock, Placing
    <2> QED
      BY <1>3, <2>1, <2>2
  <1>4. ASSUME NEW p \in Places, DeletePlace(p)
        PROVE  /\ place' \in [Places -> PlaceRecord]
               /\ fence' \in [Fences -> FenceRecord]
               /\ row' \in [Fences -> [Users -> StateRow]]
               /\ told' \in [Fences -> [Users -> Told]]
               /\ UNCHANGED <<member, edit, placing>>
    <2>1. place' \in [Places -> PlaceRecord]
      BY <1>4 DEF DeletePlace, PlaceRecord, RowStates
    <2> QED
      BY <1>4, <2>1, DeleteFencesType DEF DeletePlace
  <1>5. ASSUME NEW f \in Fences, DeleteGeofence(f)
        PROVE  /\ fence' \in [Fences -> FenceRecord]
               /\ row' \in [Fences -> [Users -> StateRow]]
               /\ told' \in [Fences -> [Users -> Told]]
               /\ UNCHANGED <<place, member, edit, placing>>
    BY <1>5, DeleteFencesType DEF DeleteGeofence
  <1>6. ASSUME NEW u \in Users, LeaveFamily(u) \/ JoinFamily(u)
        PROVE  member' \subseteq Users /\ UNCHANGED <<fence, place, row, told, edit, placing>>
    BY <1>6 DEF LeaveFamily, JoinFamily
  <1>7. CASE \E f \in Fences, p \in Places, u \in Users \cup {Everyone}, en, ex \in BOOLEAN :
               CreateGeofence(f, p, u, en, ex)
    <2> PICK f \in Fences, p \in Places, u \in Users \cup {Everyone}, en \in BOOLEAN, ex \in BOOLEAN :
            CreateGeofence(f, p, u, en, ex)
      BY <1>7
    <2> HIDE DEF ConfigTypeOK
    <2>1. fence' \in [Fences -> FenceRecord] /\ UNCHANGED <<place, member, row, told, edit, placing>>
      BY <1>1
    <2> QED
      BY <2>1 DEF ConfigTypeOK
  <1>8. CASE \E m \in Editors, f \in Fences, patch \in Patches : UpdateBegin(m, f, patch)
    BY <1>2, <1>8
  <1>9. CASE \E p \in Places, a \in BOOLEAN, area \in SUBSET Spots :
               CreatePlace(p, a, area) \/ PlaceLock(p, a, area)
    BY <1>3, <1>9
  <1> QED
    BY <1>4, <1>5, <1>6, <1>7, <1>8, <1>9 DEF Request

LEMMA UpdateCommitType ==
  ASSUME ConfigTypeOK, NEW m \in Editors, UpdateCommit(m), UNCHANGED changes
  PROVE  ConfigTypeOK'
  <1> USE DEF ConfigTypeOK
  <1>1. edit[m] \in EditRecord
    BY DEF UpdateCommit
  <1>2. /\ edit[m].fence \in Fences
        /\ edit[m].patch \in PatchRecord
    BY <1>1, ConfigAssumption DEF EditRecord
  <1>3. fence' \in [Fences -> FenceRecord]
    <2>1. Patched(fence[edit[m].fence], edit[m].patch) \in FenceRecord
      BY <1>2, PatchedType
    <2>2. \/ fence' = fence
          \/ fence' = [fence EXCEPT ![edit[m].fence] = Patched(fence[edit[m].fence], edit[m].patch)]
      BY DEF UpdateCommit
    <2> QED
      BY <1>2, <2>1, <2>2
  <1>4. row' \in [Fences -> [Users -> StateRow]]
    BY DropRowsType DEF UpdateCommit
  <1>5. edit' \in [Editors -> EditRecord \cup {NoEdit}]
    BY DEF UpdateCommit
  <1> QED
    BY <1>3, <1>4, <1>5 DEF UpdateCommit

LEMMA PlaceStepType ==
  ASSUME ConfigTypeOK, PlaceReset \/ PlaceCommit \/ PlaceRollback, UNCHANGED changes
  PROVE  ConfigTypeOK'
  <1> USE DEF ConfigTypeOK
  <1>1. CASE PlaceReset
    <2>1. {fu \in FencesOf(placing.place) \X Users : row[fu[1]][fu[2]].inside # "none"}
             \in SUBSET (Fences \X Users)
      BY DEF FencesOf
    <2> QED
      BY <1>1, <2>1 DEF PlaceReset, Placing
  <1>2. CASE PlaceCommit
    <2>1. [state |-> "live", alertable |-> placing.alertable, area |-> placing.area] \in PlaceRecord
      BY DEF Placing, PlaceRecord, RowStates
    <2>2. ASSUME NEW f \in Fences, NEW u \in Users PROVE AfterReset(f, u) \in StateRow
      <3>1. row[f][u] \in StateRow
        OBVIOUS
      <3>2. [row[f][u] EXCEPT !.escaped = TRUE] \in StateRow
        BY <3>1 DEF StateRow
      <3> QED
        BY <3>1, <3>2, NoRowType DEF AfterReset
    <2>3. row' \in [Fences -> [Users -> StateRow]]
      BY <1>2, <2>2 DEF PlaceCommit
    <2> QED
      BY <1>2, <2>1, <2>3, NoPlacingType DEF PlaceCommit
  <1>3. CASE PlaceRollback
    BY <1>3, NoPlacingType DEF PlaceRollback
  <1> QED
    BY <1>1, <1>2, <1>3

LEMMA ConfigNextType == ConfigTypeOK /\ ConfigNext => ConfigTypeOK'
  <1> SUFFICES ASSUME ConfigTypeOK, ConfigNext PROVE ConfigTypeOK'
    OBVIOUS
  <1>1. CASE changes < MaxChanges /\ changes' = changes + 1 /\ Request
    <2>1. changes' \in 0 .. MaxChanges
      BY <1>1, ConfigAssumption DEF ConfigTypeOK
    <2> QED
      BY <1>1, <2>1, RequestType DEF ConfigTypeOK
  <1>2. CASE UNCHANGED changes /\ \E m \in Editors : UpdateCommit(m) \/ UpdateFails(m)
    BY <1>2, UpdateCommitType DEF UpdateFails, ConfigTypeOK
  <1>3. CASE UNCHANGED changes /\ (PlaceReset \/ PlaceCommit \/ PlaceRollback)
    BY <1>3, PlaceStepType
  <1> QED
    BY <1>1, <1>2, <1>3 DEF ConfigNext

LEMMA RestType ==
  ASSUME EngineTypeOK, NEW e \in Evaluators, NEW todo \in SUBSET Candidate
  PROVE  Rest(e, todo) \in Evaluation
  BY IdleType DEF Rest, EngineTypeOK, Evaluation

LEMMA StartType ==
  ASSUME EngineTypeOK, NEW e \in Evaluators, NEW u \in Users, NEW spot \in Spots,
         NEW ts \in 1 .. MaxTs, Start(e, u, spot, ts)
  PROVE  eval' \in [Evaluators -> Evaluation]
  BY ConfigAssumption DEF Start, EngineTypeOK, Evaluation

LEMMA IngestType ==
  ASSUME TypeOK, Ingest
  PROVE  TypeOK'
  <1> PICK u \in Users, spot \in Spots, ts \in 1 .. MaxTs :
         \/ \E e \in Goroutines : IngestLocation(u, spot, ts, e) \/ IngestStationary(u, spot, ts, e)
         \/ IngestBackfill(u, spot, ts)
    BY DEF Ingest
  <1>1. unsent' \in [Users -> SUBSET (1 .. MaxTs)]
    BY DEF IngestLocation, IngestStationary, IngestBackfill, Deliver, TypeOK, EngineTypeOK
  <1>2. latest' \in [Users -> Fix \cup {NoFix}]
    <2>1. [spot |-> spot, ts |-> ts] \in Fix
      BY DEF Fix
    <2> QED
      BY <2>1 DEF IngestLocation, IngestStationary, IngestBackfill, TypeOK, EngineTypeOK
  <1>3. eval' \in [Evaluators -> Evaluation]
    BY StartType DEF IngestLocation, IngestStationary, IngestBackfill, TypeOK, EngineTypeOK, Evaluators
  <1>4. UNCHANGED <<cvars, recon, faults>>
    BY DEF IngestLocation, IngestStationary, IngestBackfill
  <1> QED
    BY <1>1, <1>2, <1>3, <1>4 DEF TypeOK, ConfigTypeOK, EngineTypeOK, cvars

LEMMA CandidatesType ==
  ASSUME ConfigTypeOK, NEW u, NEW spot
  PROVE  Candidates(u, spot) \subseteq Candidate
  BY DEF Candidates, Candidate, ConfigTypeOK, FenceRecord

LEMMA EvaluateGeofencesType ==
  ASSUME TypeOK, NEW e \in Evaluators, EvaluateGeofences(e)
  PROVE  TypeOK'
  <1>1. eval' \in [Evaluators -> Evaluation]
    BY RestType, CandidatesType DEF EvaluateGeofences, TypeOK, EngineTypeOK
  <1> QED
    BY <1>1 DEF EvaluateGeofences, TypeOK, ConfigTypeOK, EngineTypeOK, cvars

(* What a transaction of the engine writes.                                *)
LEMMA SetRowType ==
  ASSUME ConfigTypeOK, NEW f \in Fences, NEW u \in Users, NEW r \in StateRow, SetRow(f, u, r)
  PROVE  row' \in [Fences -> [Users -> StateRow]]
  BY DEF SetRow, ConfigTypeOK

LEMMA RecordType ==
  ASSUME ConfigTypeOK, NEW f \in Fences, NEW u \in Users, NEW kind \in Kinds,
         NEW ts \in 0 .. MaxTs, Record(f, u, kind, ts)
  PROVE  told' \in [Fences -> [Users -> Told]]
  <1>1. [kind |-> kind, ts |-> ts, age |-> 0, count |-> told[f][u].count + 1] \in Told
    BY ConfigAssumption DEF Told, ConfigTypeOK, Ages, Never
  <1> QED
    BY <1>1 DEF Record, ConfigTypeOK

LEMMA KindOfType == \A side \in Sides : KindOf(side) \in Kinds
  BY DEF KindOf, Kinds, Sides

LEMMA SideType == \A spot, p : Side(spot, p) \in Sides
  BY DEF Side, Sides

LEMMA MovedType ==
  ASSUME ConfigTypeOK, NEW f \in Fences, NEW u \in Users, NEW side \in Sides,
         NEW ts \in 0 .. MaxTs
  PROVE  Moved(f, u, side, ts) \in StateRow
  <1>1. place[fence[f].place].area \in SUBSET Spots
    BY DEF ConfigTypeOK, FenceRecord, PlaceRecord
  <1>2. row[f][u] \in StateRow
    BY DEF ConfigTypeOK
  <1> QED
    BY <1>1, <1>2 DEF Moved, StateRow

LEMMA ObserveType ==
  ASSUME ConfigTypeOK, NEW f \in Fences, NEW u \in Users, NEW c \in Candidate,
         NEW side \in Sides, NEW ts \in 0 .. MaxTs, Observe(f, u, c, side, ts)
  PROVE  /\ row' \in [Fences -> [Users -> StateRow]]
         /\ told' \in [Fences -> [Users -> Told]]
  <1> DEFINE moved == Moved(f, u, side, ts)
             old == row[f][u].inside
  <1>0. /\ moved \in StateRow
        /\ 0 \in Ages /\ Never \in Ages /\ 0 \in 0 .. MaxTs
        /\ told \in [Fences -> [Users -> Told]]
        /\ row[f][u] \in StateRow
    BY MovedType, ConfigAssumption DEF ConfigTypeOK, Ages, Never
  <1>1. CASE Baseline(f, u, side, ts)
    <2>1. place[fence[f].place].area \in SUBSET Spots
      BY DEF ConfigTypeOK, FenceRecord, PlaceRecord
    <2>2. [inside |-> side, notified |-> IF side = "in" THEN "unknown" ELSE "out",
           since |-> Never, pendingTs |-> 0, lastSeen |-> ts,
           basis |-> place[fence[f].place].area, escaped |-> FALSE] \in StateRow
      BY <1>0, <2>1, ConfigAssumption DEF StateRow, Sides
    <2> QED
      BY <1>0, <1>1, <2>2, SetRowType DEF Baseline
  <1>2. CASE Stay(f, u, side, ts)
    BY <1>0, <1>2, SetRowType DEF Stay
  <1>3. CASE Cross(f, u, c, side, ts)
    <2>1. old \in Sides
      BY <1>0, <1>3 DEF Cross, StateRow
    <2>2. CASE Fire(f, u, c, side, ts)
      <3>1. [moved EXCEPT !.notified = side, !.since = 0, !.pendingTs = 0] \in StateRow
        BY <1>0 DEF StateRow
      <3> QED
        BY <2>2, <3>1, SetRowType, RecordType, KindOfType DEF Fire
    <2>3. CASE Postpone(f, u, c, side, ts)
      <3>1. [moved EXCEPT !.pendingTs = ts] \in StateRow
        BY <1>0 DEF StateRow
      <3> QED
        BY <1>0, <2>3, <3>1, SetRowType DEF Postpone
    <2>4. CASE FireOlder(f, u, c, side, ts)
      <3>1. [moved EXCEPT !.notified = old, !.since = 0, !.pendingTs = ts] \in StateRow
        BY <1>0, <2>1 DEF StateRow
      <3>2. row[f][u].pendingTs \in 0 .. MaxTs
        BY <1>0 DEF StateRow
      <3> QED
        BY <2>1, <2>4, <3>1, <3>2, SetRowType, RecordType, KindOfType DEF FireOlder
    <2>5. CASE Sync(f, u, c, side, ts)
      <3>1. [moved EXCEPT !.notified = side, !.pendingTs = 0] \in StateRow
        BY <1>0 DEF StateRow
      <3> QED
        BY <1>0, <2>5, <3>1, SetRowType DEF Sync
    <2> QED
      BY <1>3, <2>2, <2>3, <2>4, <2>5 DEF Cross
  <1> QED
    BY <1>1, <1>2, <1>3 DEF Observe

LEMMA WriteOfType ==
  ASSUME ConfigTypeOK, NEW f \in Fences, NEW u, WriteOf(f, u) \/ UNCHANGED placing
  PROVE  placing' \in Placing
  <1>1. placing \in Placing
    BY DEF ConfigTypeOK
  <1>2. [placing EXCEPT !.held = @ \cup {f}] \in Placing
    BY <1>1 DEF Placing
  <1> QED
    BY <1>1, <1>2 DEF WriteOf

LEMMA ProcessGeofenceType ==
  ASSUME TypeOK, NEW e \in Evaluators, NEW c \in eval[e].todo, ProcessGeofence(e, c)
  PROVE  TypeOK'
  <1>1. eval[e] \in Evaluation /\ c \in Candidate
    BY DEF TypeOK, EngineTypeOK, Evaluation
  <1>2. eval' \in [Evaluators -> Evaluation]
    BY <1>1, RestType DEF ProcessGeofence, TypeOK, EngineTypeOK, Evaluation
  <1>3. /\ row' \in [Fences -> [Users -> StateRow]]
        /\ told' \in [Fences -> [Users -> Told]]
    BY <1>1, ObserveType, SideType
       DEF ProcessGeofence, Ignore, TypeOK, ConfigTypeOK, Evaluation, Candidate
  <1>4. placing' \in Placing
    BY <1>1, WriteOfType DEF ProcessGeofence, TypeOK, Candidate
  <1> QED
    BY <1>2, <1>3, <1>4 DEF ProcessGeofence, TypeOK, ConfigTypeOK, EngineTypeOK

LEMMA ReconcileType ==
  ASSUME TypeOK, Reconcile
  PROVE  TypeOK'
  <1> USE DEF TypeOK, EngineTypeOK
  <1>1. CASE ReconcileLatestPoints
    <2>1. \A u \in Users : latest[u].ts # 0 =>
             [user |-> u, spot |-> latest[u].spot, ts |-> latest[u].ts]
                \in [user: Users, spot: Spots, ts: 1 .. MaxTs]
      BY DEF Fix, NoFix
    <2>2. recon' \in [pc: {"wait", "points", "pending"},
                      points: SUBSET [user: Users, spot: Spots, ts: 1 .. MaxTs],
                      pending: SUBSET (Fences \X Users)]
      BY <1>1, <2>1 DEF ReconcileLatestPoints
    <2> QED
      BY <1>1, <2>2 DEF ReconcileLatestPoints, ConfigTypeOK, cvars
  <1>2. ASSUME NEW pt \in recon.points, ReconcilePoint(pt) PROVE TypeOK'
    <2>1. eval' \in [Evaluators -> Evaluation]
      BY <1>2, StartType DEF ReconcilePoint, Evaluators
    <2> QED
      BY <1>2, <2>1 DEF ReconcilePoint, ConfigTypeOK, cvars
  <1>3. CASE FirePendingNotifications
    BY <1>3 DEF FirePendingNotifications, Waiting, ConfigTypeOK, cvars
  <1>4. ASSUME NEW fu \in recon.pending, FirePendingNotification(fu[1], fu[2]) PROVE TypeOK'
    <2> DEFINE f == fu[1]
               u == fu[2]
               r == row[f][u]
    <2>1. f \in Fences /\ u \in Users
      OBVIOUS
    <2>2. r \in StateRow
      BY <2>1 DEF ConfigTypeOK
    <2>3. /\ row' \in [Fences -> [Users -> StateRow]]
          /\ told' \in [Fences -> [Users -> Told]]
      <3>1. CASE StillDue(f, u)
        <4>1. 0 \in Ages /\ 0 \in 0 .. MaxTs
          BY ConfigAssumption DEF Ages, Never
        <4>2. /\ r.inside \in Sides
              /\ r.pendingTs \in 0 .. MaxTs
          BY <2>2, <3>1 DEF StillDue, StateRow
        <4>3. [r EXCEPT !.notified = r.inside, !.since = 0, !.pendingTs = 0] \in StateRow
          BY <2>2, <4>1, <4>2 DEF StateRow
        <4> QED
          BY <1>4, <2>1, <3>1, <4>2, <4>3, SetRowType, RecordType, KindOfType DEF FirePendingNotification
      <3>2. CASE ~StillDue(f, u)
        BY <1>4, <3>2 DEF FirePendingNotification, ConfigTypeOK
      <3> QED
        BY <3>1, <3>2
    <2>4. recon' \in [pc: {"wait", "points", "pending"},
                      points: SUBSET [user: Users, spot: Spots, ts: 1 .. MaxTs],
                      pending: SUBSET (Fences \X Users)]
      BY <1>4 DEF FirePendingNotification, Waiting
    <2>5. placing' \in Placing
      BY <1>4, <2>1, WriteOfType DEF FirePendingNotification
    <2> QED
      BY <1>4, <2>3, <2>4, <2>5 DEF FirePendingNotification, ConfigTypeOK
  <1> QED
    BY <1>1, <1>2, <1>3, <1>4 DEF Reconcile

LEMMA TickType ==
  ASSUME TypeOK, Tick
  PROVE  TypeOK'
  <1>1. row' \in [Fences -> [Users -> StateRow]]
    <2>1. ASSUME NEW f \in Fences, NEW u \in Users
          PROVE  [row[f][u] EXCEPT !.since = Older(@)] \in StateRow
      <3>1. row[f][u] \in StateRow
        BY DEF TypeOK, ConfigTypeOK
      <3> QED
        BY <3>1, OlderType DEF StateRow
    <2> QED
      BY <2>1 DEF Tick
  <1>2. told' \in [Fences -> [Users -> Told]]
    <2>1. ASSUME NEW f \in Fences, NEW u \in Users
          PROVE  [told[f][u] EXCEPT !.age = Older(@)] \in Told
      <3>1. told[f][u] \in Told
        BY DEF TypeOK, ConfigTypeOK
      <3> QED
        BY <3>1, OlderType DEF Told
    <2> QED
      BY <2>1 DEF Tick
  <1> QED
    BY <1>1, <1>2 DEF Tick, TypeOK, ConfigTypeOK, EngineTypeOK, evars

LEMMA FaultType ==
  ASSUME TypeOK, Fault
  PROVE  TypeOK'
  <1> USE DEF TypeOK, EngineTypeOK
  <1>1. faults' \in 0 .. MaxFaults
    BY EngineAssumption DEF Fault
  <1>2. eval' \in [Evaluators -> Evaluation]
    <2>1. ASSUME NEW e \in Evaluators, QueryFails(e) PROVE eval' \in [Evaluators -> Evaluation]
      BY <2>1, IdleType DEF QueryFails
    <2>2. ASSUME NEW e \in Evaluators, NEW c \in eval[e].todo, TransactionFails(e, c)
          PROVE  eval' \in [Evaluators -> Evaluation]
      <3>1. eval[e].todo \ {c} \in SUBSET Candidate
        BY DEF Evaluation
      <3> QED
        BY <2>2, <3>1, RestType DEF TransactionFails
    <2>3. CASE Restart
      BY <2>3, IdleType DEF Restart
    <2> QED
      BY <2>1, <2>2, <2>3 DEF Fault, FirePendingFails
  <1>3. recon' \in [pc: {"wait", "points", "pending"},
                    points: SUBSET [user: Users, spot: Spots, ts: 1 .. MaxTs],
                    pending: SUBSET (Fences \X Users)]
    <2>1. ASSUME NEW fu \in recon.pending
          PROVE  [recon EXCEPT !.pending = @ \ {fu}]
                    \in [pc: {"wait", "points", "pending"},
                         points: SUBSET [user: Users, spot: Spots, ts: 1 .. MaxTs],
                         pending: SUBSET (Fences \X Users)]
      OBVIOUS
    <2>2. CASE UNCHANGED recon
      BY <2>2
    <2>3. CASE recon' = Waiting
      BY <2>3 DEF Waiting
    <2> QED
      BY <2>1, <2>2, <2>3 DEF Fault, QueryFails, TransactionFails, FirePendingFails, Restart
  <1> QED
    BY <1>1, <1>2, <1>3 DEF Fault, ConfigTypeOK, cvars

LEMMA TypeStep == TypeOK /\ [Next]_vars => TypeOK'
  <1> SUFFICES ASSUME TypeOK, [Next]_vars PROVE TypeOK'
    OBVIOUS
  <1>1. ASSUME NEW e \in Evaluators, Evaluate(e) PROVE TypeOK'
    BY <1>1, EvaluateGeofencesType, ProcessGeofenceType DEF Evaluate
  <1>2. CASE ConfigStep
    BY <1>2, ConfigNextType DEF ConfigStep, TypeOK, EngineTypeOK, evars
  <1>3. CASE UNCHANGED vars
    BY <1>3 DEF vars, cvars, evars, TypeOK, ConfigTypeOK, EngineTypeOK
  <1> QED
    BY <1>1, <1>2, <1>3, IngestType, ReconcileType, TickType, FaultType DEF Next, EngineNext

(* Every variable keeps its type, whatever is configured meanwhile.        *)
THEOREM TypeCorrect == Spec => []TypeOK
  BY TypeInit, TypeStep, PTL DEF Spec

-----------------------------------------------------------------------------
(* The resets of geofence_states: what a disabled or deleted fence keeps   *)
(* (nothing), whatever requests and evaluations interleave.                *)

(* A transaction of the engine writes states of armed fences only.         *)
LEMMA ObserveRows ==
  ASSUME TypeOK, NEW f \in Fences, NEW u \in Users, NEW c, NEW side, NEW ts,
         Observe(f, u, c, side, ts)
  PROVE  /\ Armed(f)
         /\ \A g \in Fences : g # f => row'[g] = row[g]
  <1>1. \E r : row' = [row EXCEPT ![f][u] = r]
    BY DEF Observe, Baseline, Stay, Cross, Fire, Postpone, FireOlder, Sync, SetRow
  <1> QED
    BY <1>1 DEF Observe, Concerns, TypeOK, ConfigTypeOK

LEMMA TickNoRow ==
  ASSUME TypeOK, Tick, NEW f \in Fences, NEW u \in Users, row[f][u] = NoRow
  PROVE  row'[f][u] = NoRow
  <1>1. Older(Never) = Never
    BY ConfigAssumption DEF Older, Never
  <1>2. row'[f][u] = [NoRow EXCEPT !.since = Older(NoRow.since)]
    BY DEF Tick
  <1>3. NoRow.since = Never
    BY DEF NoRow
  <1>4. row'[f][u] = [NoRow EXCEPT !.since = Never]
    BY <1>1, <1>2, <1>3
  <1> QED
    BY <1>4 DEF NoRow

(* After the commit of an update the fence is disabled only if its states  *)
(* were deleted or there were none.                                        *)
LEMMA UpdateCommitUnarmed ==
  ASSUME TypeOK, UnarmedHasNoRows, NEW m \in Editors, UpdateCommit(m)
  PROVE  UnarmedHasNoRows'
  <1> DEFINE f == edit[m].fence
             patch == edit[m].patch
             cur == edit[m].cur
  <1>1. /\ f \in Fences
        /\ cur \in FenceRecord
        /\ patch \in PatchRecord
    BY ConfigAssumption DEF UpdateCommit, TypeOK, ConfigTypeOK, EditRecord
  <1>2. CASE UNCHANGED <<fence, row>>
    BY <1>2 DEF UnarmedHasNoRows, Armed, Live
  <1>3. CASE /\ ~Refused(m)
             /\ fence' = [fence EXCEPT ![f] = Patched(fence[f], patch)]
             /\ DropRows(IF ResetsRows(m) THEN {f} ELSE {})
    <2>1. \A g \in Fences : row'[g] = row[g] \/ \A u \in Users : row'[g][u] = NoRow
      BY <1>3 DEF DropRows, TypeOK, ConfigTypeOK
    <2>2. \A g \in Fences : g # f => fence'[g] = fence[g]
      BY <1>3 DEF TypeOK, ConfigTypeOK
    <2>3. Live(f) /\ fence'[f].state = fence[f].state
      BY <1>1, <1>3, PatchedType DEF Refused, TypeOK, ConfigTypeOK
    <2>4. ASSUME ~(fence'[f].state = "live" /\ fence'[f].enabled)
          PROVE \A u \in Users : row'[f][u] = NoRow
      <3>1. ~Patched(fence[f], patch).enabled
        BY <1>1, <1>3, <2>3, <2>4 DEF Live, TypeOK, ConfigTypeOK
      <3>2. CASE "enabled" \in patch.fields
        <4>1. ~Patched(cur, patch).enabled
          BY <1>1, <3>1, <3>2 DEF Patched, TypeOK, ConfigTypeOK, FenceRecord, PatchRecord
        <4>2. ResetsRows(m)
          BY <3>2, <4>1 DEF ResetsRows
        <4> QED
          BY <1>1, <1>3, <4>2 DEF DropRows
      <3>3. CASE "enabled" \notin patch.fields
        <4>1. ~fence[f].enabled
          BY <1>1, <3>1, <3>3 DEF Patched, TypeOK, ConfigTypeOK, FenceRecord, PatchRecord
        <4> QED
          BY <1>1, <2>1, <4>1 DEF UnarmedHasNoRows, Armed
      <3> QED
        BY <3>2, <3>3
    <2>5. ASSUME NEW g \in Fences, ~(fence'[g].state = "live" /\ fence'[g].enabled), NEW u \in Users
          PROVE  row'[g][u] = NoRow
      BY <2>1, <2>2, <2>4, <2>5 DEF UnarmedHasNoRows, Armed, Live
    <2> HIDE DEF f
    <2> QED
      BY <2>5 DEF UnarmedHasNoRows, Armed, Live
  <1> QED
    BY <1>2, <1>3 DEF UpdateCommit

LEMMA DeleteFencesUnarmed ==
  ASSUME TypeOK, UnarmedHasNoRows, NEW fs, DeleteFences(fs)
  PROVE  UnarmedHasNoRows'
  BY DEF DeleteFences, DropRows, UnarmedHasNoRows, Armed, Live, TypeOK, ConfigTypeOK

LEMMA RequestUnarmed ==
  ASSUME TypeOK, UnarmedHasNoRows, Request
  PROVE  UnarmedHasNoRows'
  <1>1. ASSUME NEW f \in Fences, NEW p \in Places, NEW u \in Users \cup {Everyone},
               NEW en \in BOOLEAN, NEW ex \in BOOLEAN, CreateGeofence(f, p, u, en, ex)
        PROVE  UnarmedHasNoRows'
    BY <1>1 DEF CreateGeofence, UnarmedHasNoRows, Armed, Live, TypeOK, ConfigTypeOK
  <1>2. CASE UNCHANGED <<fence, row>>
    BY <1>2 DEF UnarmedHasNoRows, Armed, Live
  <1>4. ASSUME NEW p \in Places, DeletePlace(p) PROVE UnarmedHasNoRows'
    BY <1>4, DeleteFencesUnarmed DEF DeletePlace
  <1>5. ASSUME NEW f \in Fences, DeleteGeofence(f) PROVE UnarmedHasNoRows'
    BY <1>5, DeleteFencesUnarmed DEF DeleteGeofence
  <1>6. CASE \E f \in Fences, p \in Places, u \in Users \cup {Everyone}, en, ex \in BOOLEAN :
               CreateGeofence(f, p, u, en, ex)
    <2> PICK f \in Fences, p \in Places, u \in Users \cup {Everyone}, en \in BOOLEAN, ex \in BOOLEAN :
            CreateGeofence(f, p, u, en, ex)
      BY <1>6
    <2> QED
      BY <1>1
  <1>7. CASE \E m \in Editors, f \in Fences, patch \in Patches : UpdateBegin(m, f, patch)
    BY <1>2, <1>7 DEF UpdateBegin
  <1>8. CASE \E p \in Places, a \in BOOLEAN, area \in SUBSET Spots :
               CreatePlace(p, a, area) \/ PlaceLock(p, a, area)
    BY <1>2, <1>8 DEF CreatePlace, PlaceLock
  <1>9. CASE \E u \in Users : LeaveFamily(u) \/ JoinFamily(u)
    BY <1>2, <1>9 DEF LeaveFamily, JoinFamily
  <1> QED
    BY <1>4, <1>5, <1>6, <1>7, <1>8, <1>9 DEF Request

(* The commit of a place update writes a history, or nothing, to rows.     *)
LEMMA AfterResetRow ==
  ASSUME TypeOK, NEW f \in Fences, NEW u \in Users
  PROVE  /\ row[f][u] = NoRow => AfterReset(f, u) = NoRow
         /\ \/ AfterReset(f, u) = NoRow
            \/ AfterReset(f, u).inside = row[f][u].inside /\ AfterReset(f, u).basis = row[f][u].basis
  <1>1. row[f][u] \in StateRow
    BY DEF TypeOK, ConfigTypeOK
  <1>2. PICK r : r = [row[f][u] EXCEPT !.escaped = TRUE]
    OBVIOUS
  <1>3. r.inside = row[f][u].inside /\ r.basis = row[f][u].basis
    BY <1>1, <1>2 DEF StateRow
  <1>4. NoRow.inside = "none"
    BY DEF NoRow
  <1>5. AfterReset(f, u) \in {NoRow, r, row[f][u]}
    BY <1>2 DEF AfterReset
  <1>6. row[f][u] = NoRow => AfterReset(f, u) = NoRow
    BY <1>4 DEF AfterReset
  <1> QED
    BY <1>3, <1>5, <1>6

LEMMA PlaceStepUnarmed ==
  ASSUME TypeOK, UnarmedHasNoRows, PlaceReset \/ PlaceCommit \/ PlaceRollback
  PROVE  UnarmedHasNoRows'
  <1>1. CASE UNCHANGED <<fence, row>>
    BY <1>1 DEF UnarmedHasNoRows, Armed, Live
  <1>2. CASE PlaceCommit
    BY <1>2, AfterResetRow DEF PlaceCommit, UnarmedHasNoRows, Armed, Live
  <1> QED
    BY <1>1, <1>2 DEF PlaceReset, PlaceRollback

LEMMA UnarmedStep == TypeOK /\ UnarmedHasNoRows /\ [Next]_vars => UnarmedHasNoRows'
  <1> SUFFICES ASSUME TypeOK, UnarmedHasNoRows, [Next]_vars PROVE UnarmedHasNoRows'
    OBVIOUS
  <1>1. CASE UNCHANGED <<fence, row>>
    BY <1>1 DEF UnarmedHasNoRows, Armed, Live
  <1>2. ASSUME NEW e \in Evaluators, NEW c \in eval[e].todo, ProcessGeofence(e, c)
        PROVE  UnarmedHasNoRows'
    <2> DEFINE side == Side(eval[e].spot, fence[c.fence].place)
    <2>1. c.fence \in Fences /\ eval[e].user \in Users
      BY DEF TypeOK, EngineTypeOK, Evaluation, Candidate
    <2>2. CASE Ignore(c.fence, eval[e].user, eval[e].ts)
      BY <1>1, <1>2, <2>2 DEF Ignore, ProcessGeofence
    <2>3. CASE Observe(c.fence, eval[e].user, c, side, eval[e].ts)
      <3>1. /\ Armed(c.fence)
            /\ \A g \in Fences : g # c.fence => row'[g] = row[g]
        BY <2>1, <2>3, ObserveRows
      <3> QED
        BY <1>2, <3>1 DEF ProcessGeofence, UnarmedHasNoRows, Armed, Live
    <2> QED
      BY <1>2, <2>2, <2>3 DEF ProcessGeofence
  <1>3. ASSUME NEW fu \in recon.pending, FirePendingNotification(fu[1], fu[2])
        PROVE  UnarmedHasNoRows'
    <2>1. fu[1] \in Fences /\ fu[2] \in Users
      BY DEF TypeOK, EngineTypeOK
    <2>2. CASE StillDue(fu[1], fu[2])
      <3>1. \A g \in Fences : g # fu[1] => row'[g] = row[g]
        BY <1>3, <2>1, <2>2 DEF FirePendingNotification, SetRow, TypeOK, ConfigTypeOK
      <3>2. Armed(fu[1]) /\ UNCHANGED fence
        BY <1>3, <2>2 DEF FirePendingNotification, StillDue
      <3>3. ASSUME NEW g \in Fences, ~Armed(g)' PROVE \A u \in Users : row'[g][u] = NoRow
        <4>1. ~Armed(g) /\ g # fu[1]
          BY <3>2, <3>3 DEF Armed, Live
        <4> QED
          BY <3>1, <4>1 DEF UnarmedHasNoRows
      <3> QED
        BY <3>3 DEF UnarmedHasNoRows
    <2>3. CASE ~StillDue(fu[1], fu[2])
      BY <1>1, <1>3, <2>3 DEF FirePendingNotification
    <2> QED
      BY <2>2, <2>3
  <1>4. CASE Tick
    BY <1>4, TickNoRow DEF Tick, UnarmedHasNoRows, Armed, Live
  <1>5. CASE ConfigStep
    BY <1>1, <1>5, RequestUnarmed, UpdateCommitUnarmed, PlaceStepUnarmed
       DEF ConfigStep, ConfigNext, UpdateFails
  <1>6. CASE Ingest \/ Fault
    BY <1>1, <1>6 DEF Ingest, IngestLocation, IngestStationary, IngestBackfill, Fault, cvars
  <1>7. CASE Reconcile
    BY <1>1, <1>3, <1>7
       DEF Reconcile, ReconcileLatestPoints, ReconcilePoint, FirePendingNotifications, cvars
  <1>8. ASSUME NEW e \in Evaluators, Evaluate(e) PROVE UnarmedHasNoRows'
    BY <1>1, <1>2, <1>8 DEF Evaluate, EvaluateGeofences, cvars
  <1>9. CASE UNCHANGED vars
    BY <1>1, <1>9 DEF vars, cvars
  <1> QED
    BY <1>4, <1>5, <1>6, <1>7, <1>8, <1>9 DEF Next, EngineNext

(* A fence that is disabled or deleted has no geofence_states row: an      *)
(* evaluation that selected it earlier, and the worker, re-check it under  *)
(* the row lock that the disabling transaction holds while it deletes.     *)
THEOREM DisabledFencesForget == Spec => []UnarmedHasNoRows
  <1>1. Init => UnarmedHasNoRows
    BY DEF Init, ConfigInit, UnarmedHasNoRows
  <1> QED
    BY <1>1, TypeCorrect, UnarmedStep, PTL DEF Spec

-----------------------------------------------------------------------------
(* Rows and the areas they were computed against.  UpdateGeofence decides  *)
(* on the row it read before its transaction: while no other update runs,  *)
(* that is the row its transaction finds, unless the fence is gone.        *)

OneEditor == \A m, n \in Editors : m = n

Fresh(e) == /\ e.cur.state = "live"
            /\ fence[e.fence] = e.cur \/ fence[e.fence].state = "deleted"

EditsAreFresh == \A m \in Editors : edit[m] # NoEdit => Fresh(edit[m])

LEMMA EditType ==
  ASSUME TypeOK, NEW m \in Editors, edit[m] # NoEdit
  PROVE  edit[m].fence \in Fences /\ edit[m].cur \in FenceRecord /\ edit[m].patch \in PatchRecord
  BY ConfigAssumption DEF TypeOK, ConfigTypeOK, EditRecord

LEMMA RequestFresh ==
  ASSUME TypeOK, EditsAreFresh, Request
  PROVE  EditsAreFresh'
  <1>1. CASE UNCHANGED <<fence, edit>>
    BY <1>1 DEF EditsAreFresh, Fresh
  <1>2. ASSUME NEW fs, DeleteFences(fs), UNCHANGED edit PROVE EditsAreFresh'
    <2>1. ASSUME NEW f \in Fences PROVE fence'[f] = fence[f] \/ fence'[f].state = "deleted"
      BY <1>2 DEF DeleteFences, TypeOK, ConfigTypeOK, FenceRecord
    <2> QED
      BY <1>2, <2>1, EditType DEF EditsAreFresh, Fresh
  <1>3. ASSUME NEW f \in Fences, NEW p \in Places, NEW u \in Users \cup {Everyone},
               NEW en \in BOOLEAN, NEW ex \in BOOLEAN, CreateGeofence(f, p, u, en, ex)
        PROVE  EditsAreFresh'
    <2>1. /\ fence[f].state = "unused" /\ UNCHANGED edit
          /\ \A g \in Fences \ {f} : fence'[g] = fence[g]
      BY <1>3 DEF CreateGeofence, TypeOK, ConfigTypeOK
    <2>2. ASSUME NEW m \in Editors, edit[m] # NoEdit PROVE edit[m].fence \in Fences \ {f}
      BY <2>1, <2>2, EditType DEF EditsAreFresh, Fresh
    <2> QED
      BY <2>1, <2>2 DEF EditsAreFresh, Fresh
  <1>4. ASSUME NEW m \in Editors, NEW f \in Fences, NEW patch \in Patches, UpdateBegin(m, f, patch)
        PROVE  EditsAreFresh'
    <2> PICK e : e = [fence |-> f, cur |-> fence[f], patch |-> patch]
      OBVIOUS
    <2>1. Fresh(e) /\ edit' = [edit EXCEPT ![m] = e] /\ UNCHANGED fence
      BY <1>4 DEF UpdateBegin, Fresh, Live
    <2> QED
      BY <2>1 DEF EditsAreFresh, Fresh, TypeOK, ConfigTypeOK
  <1>5. CASE \E f \in Fences, p \in Places, u \in Users \cup {Everyone}, en, ex \in BOOLEAN :
               CreateGeofence(f, p, u, en, ex)
    <2> PICK f \in Fences, p \in Places, u \in Users \cup {Everyone}, en \in BOOLEAN, ex \in BOOLEAN :
            CreateGeofence(f, p, u, en, ex)
      BY <1>5
    <2> QED
      BY <1>3
  <1>6. CASE \E p \in Places : DeletePlace(p)
    BY <1>2, <1>6 DEF DeletePlace
  <1>7. CASE \E f \in Fences : DeleteGeofence(f)
    BY <1>2, <1>7 DEF DeleteGeofence
  <1>8. CASE \/ \E p \in Places, a \in BOOLEAN, area \in SUBSET Spots :
                   CreatePlace(p, a, area) \/ PlaceLock(p, a, area)
             \/ \E u \in Users : LeaveFamily(u) \/ JoinFamily(u)
    BY <1>1, <1>8 DEF CreatePlace, PlaceLock, LeaveFamily, JoinFamily
  <1> QED
    BY <1>4, <1>5, <1>6, <1>7, <1>8 DEF Request

(* The only update there is ends with its transaction.                     *)
LEMMA CommitFresh ==
  ASSUME OneEditor, TypeOK, NEW m \in Editors, UpdateCommit(m) \/ UpdateFails(m)
  PROVE  EditsAreFresh'
  <1>1. \A n \in Editors : edit'[n] = NoEdit
    BY DEF OneEditor, UpdateCommit, UpdateFails, TypeOK, ConfigTypeOK
  <1> QED
    BY <1>1 DEF EditsAreFresh

(* A row that is there fits a fence and its place.                         *)
RowFits(f, u) == row[f][u].inside # "none" =>
                  /\ fence[f].user \in {Everyone, u}
                  /\ row[f][u].escaped \/ OfTheArea(f, u)

LEMMA FitCells == RowsFitFence <=> \A f \in Fences, u \in Users : RowFits(f, u)
  BY DEF RowsFitFence, RowFits

LEMMA NoRowFits == ASSUME NEW f, NEW u, row[f][u] = NoRow PROVE RowFits(f, u)
  BY DEF RowFits, NoRow

LEMMA DeleteFits ==
  ASSUME TypeOK, RowsFitFence, NEW fs, DeleteFences(fs),
         \/ UNCHANGED place
         \/ \E p \in Places : /\ \A q \in Places \ {p} : place'[q] = place[q]
                              /\ \A f \in Fences \ fs : fence[f].place = p =>
                                    \A u \in Users : row[f][u] = NoRow
  PROVE  RowsFitFence'
  <1> SUFFICES ASSUME NEW f \in Fences, NEW u \in Users PROVE RowFits(f, u)'
    BY FitCells DEF RowsFitFence, RowFits, OfTheArea, Alertable
  <1>1. CASE f \in fs
    <2>1. row'[f][u] = NoRow
      BY <1>1 DEF DeleteFences, DropRows
    <2> QED
      BY <2>1 DEF RowFits, NoRow
  <1>2. CASE f \notin fs
    <2>1. row'[f] = row[f] /\ fence'[f] = fence[f] /\ fence[f].place \in Places
      BY <1>2 DEF DeleteFences, DropRows, TypeOK, ConfigTypeOK, FenceRecord
    <2>2. RowFits(f, u)
      BY FitCells
    <2> QED
      BY <1>2, <2>1, <2>2, NoRowFits DEF RowFits, OfTheArea, Alertable, NoRow
  <1> QED
    BY <1>1, <1>2

LEMMA RequestFits ==
  ASSUME TypeOK, UnarmedHasNoRows, RowsFitFence, Request
  PROVE  RowsFitFence'
  <1>1. CASE UNCHANGED <<fence, place, row>>
    BY <1>1 DEF RowsFitFence, OfTheArea, Alertable
  <1>2. ASSUME NEW f \in Fences, NEW p \in Places, NEW u \in Users \cup {Everyone},
               NEW en \in BOOLEAN, NEW ex \in BOOLEAN, CreateGeofence(f, p, u, en, ex)
        PROVE  RowsFitFence'
    <2>1. /\ UNCHANGED <<place, row>>
          /\ \A g \in Fences \ {f} : fence'[g] = fence[g]
      BY <1>2 DEF CreateGeofence, TypeOK, ConfigTypeOK
    <2>2. \A v \in Users : row[f][v] = NoRow
      BY <1>2 DEF CreateGeofence, UnarmedHasNoRows, Armed, Live
    <2> QED
      BY <2>1, <2>2 DEF RowsFitFence, OfTheArea, Alertable, NoRow
  <1>3. ASSUME NEW p \in Places, NEW a \in BOOLEAN, NEW area \in SUBSET Spots, CreatePlace(p, a, area)
        PROVE  RowsFitFence'
    <2>1. /\ ~Alertable(p) /\ UNCHANGED <<fence, row>>
          /\ \A q \in Places \ {p} : place'[q] = place[q]
      BY <1>3 DEF CreatePlace, Alertable, TypeOK, ConfigTypeOK
    <2>2. \A f \in Fences : fence[f].place \in Places
      BY DEF TypeOK, ConfigTypeOK, FenceRecord
    <2> QED
      BY <2>1, <2>2 DEF RowsFitFence, OfTheArea, Alertable
  <1>4. ASSUME NEW p \in Places, NEW a \in BOOLEAN, NEW area \in SUBSET Spots, PlaceLock(p, a, area)
        PROVE  RowsFitFence'
    BY <1>1, <1>4 DEF PlaceLock
  <1>5. ASSUME NEW p \in Places, DeletePlace(p) PROVE RowsFitFence'
    <2> DEFINE fs == FencesOf(p)
    <2>1. DeleteFences(fs) /\ \A q \in Places \ {p} : place'[q] = place[q]
      BY <1>5 DEF DeletePlace, TypeOK, ConfigTypeOK
    <2>2. \A f \in Fences \ fs : fence[f].place = p => \A u \in Users : row[f][u] = NoRow
      BY DEF FencesOf, UnarmedHasNoRows, Armed
    <2> HIDE DEF fs
    <2> QED
      BY <2>1, <2>2, DeleteFits
  <1>6. ASSUME NEW f \in Fences, DeleteGeofence(f) PROVE RowsFitFence'
    BY <1>6, DeleteFits DEF DeleteGeofence
  <1>7. CASE \E f \in Fences, p \in Places, u \in Users \cup {Everyone}, en, ex \in BOOLEAN :
               CreateGeofence(f, p, u, en, ex)
    <2> PICK f \in Fences, p \in Places, u \in Users \cup {Everyone}, en \in BOOLEAN, ex \in BOOLEAN :
            CreateGeofence(f, p, u, en, ex)
      BY <1>7
    <2> QED
      BY <1>2
  <1>8. CASE \/ \E m \in Editors, f \in Fences, patch \in Patches : UpdateBegin(m, f, patch)
             \/ \E u \in Users : LeaveFamily(u) \/ JoinFamily(u)
    BY <1>1, <1>8 DEF UpdateBegin, LeaveFamily, JoinFamily
  <1> QED
    BY <1>3, <1>4, <1>5, <1>6, <1>7, <1>8 DEF Request

(* A fresh update that resets nothing leaves place and user alone.         *)
LEMMA CommitFits ==
  ASSUME TypeOK, RowsFitFence, EditsAreFresh, NEW m \in Editors, UpdateCommit(m)
  PROVE  RowsFitFence'
  <1> PICK f, cur, patch, eff : /\ f = edit[m].fence /\ cur = edit[m].cur /\ patch = edit[m].patch
                                /\ eff = Patched(edit[m].cur, edit[m].patch)
    OBVIOUS
  <1>1. f \in Fences /\ cur \in FenceRecord /\ patch \in PatchRecord
    BY EditType DEF UpdateCommit
  <1>2. UNCHANGED place
    BY DEF UpdateCommit
  <1>3. CASE UNCHANGED <<fence, row>>
    BY <1>2, <1>3 DEF RowsFitFence, OfTheArea, Alertable
  <1>4. CASE /\ ~Refused(m)
             /\ fence' = [fence EXCEPT ![f] = Patched(fence[f], patch)]
             /\ DropRows(IF ResetsRows(m) THEN {f} ELSE {})
    <2>1. fence[f] = cur /\ fence'[f] = eff
      <3>1. Live(f)
        BY <1>4 DEF Refused
      <3> QED
        BY <1>1, <1>4, <3>1 DEF Live, EditsAreFresh, Fresh, UpdateCommit, TypeOK, ConfigTypeOK
    <2>2. \A g \in Fences \ {f} : fence'[g] = fence[g] /\ row'[g] = row[g]
      BY <1>4 DEF DropRows, TypeOK, ConfigTypeOK
    <2>3. CASE ResetsRows(m)
      <3>1. \A u \in Users : row'[f][u] = NoRow
        BY <1>1, <1>4, <2>3 DEF DropRows
      <3> QED
        BY <1>2, <2>2, <3>1 DEF RowsFitFence, OfTheArea, Alertable, NoRow
    <2>4. CASE ~ResetsRows(m)
      <3>1. eff.place = cur.place /\ eff.user = cur.user
        BY <2>4 DEF ResetsRows
      <3>2. row'[f] = row[f]
        BY <1>1, <1>4, <2>4 DEF DropRows
      <3> QED
        BY <1>2, <2>1, <2>2, <3>1, <3>2 DEF RowsFitFence, OfTheArea, Alertable
    <2> QED
      BY <2>3, <2>4
  <1> QED
    BY <1>3, <1>4 DEF UpdateCommit

(* What a running place update has locked: the fences the place had when   *)
(* it began.  They stay on it, and once their states are deleted no other  *)
(* is written until the update ends.                                       *)
LocksHold ==
    placing.pc # "idle" =>
        /\ placing.locked = placing.had
        /\ placing.had \subseteq FencesOf(placing.place)
        /\ placing.pc = "reset" =>
              \A f \in placing.had, u \in Users :
                 row[f][u].inside # "none" => <<f, u>> \in placing.doomed

(* A step that leaves the update, its fences and their states alone.       *)
LEMMA LocksKept ==
  ASSUME TypeOK, LocksHold, placing'.pc # "idle" => placing.pc = placing'.pc,
         placing'.place = placing.place, placing'.had = placing.had,
         placing'.locked = placing.locked, placing'.doomed = placing.doomed,
         \A f \in Fences : placing.pc # "idle" /\ f \in placing.locked =>
            /\ fence'[f].state = fence[f].state /\ fence'[f].place = fence[f].place
            /\ \A u \in Users : row'[f][u].inside \in {"none", row[f][u].inside}
  PROVE  LocksHold'
  BY DEF LocksHold, FencesOf, Live

LEMMA DeleteLocks ==
  ASSUME TypeOK, LocksHold, UNCHANGED placing, NEW fs \in SUBSET Fences, DeleteFences(fs),
         \A f \in fs : FenceFree(f)
  PROVE  LocksHold'
  <1>1. ASSUME NEW f \in Fences, f \in placing.locked PROVE fence'[f] = fence[f] /\ row'[f] = row[f]
    BY <1>1 DEF DeleteFences, DropRows, FenceFree
  <1> QED
    BY <1>1, LocksKept

LEMMA RequestLocks ==
  ASSUME TypeOK, LocksHold, Request
  PROVE  LocksHold'
  <1>1. CASE UNCHANGED <<fence, row, placing>>
    BY <1>1, LocksKept
  <1>2. ASSUME FamilyFree, UNCHANGED placing PROVE LocksHold'
    BY <1>2 DEF FamilyFree, LocksHold
  <1>3. ASSUME NEW p \in Places, NEW a \in BOOLEAN, NEW area \in SUBSET Spots, PlaceLock(p, a, area)
        PROVE  LocksHold'
    <2>1. /\ placing'.pc = "locked" /\ placing'.place = p
          /\ placing'.had = FencesOf(p) /\ placing'.locked = FencesOf(p)
      BY <1>3 DEF PlaceLock, NoPlacing
    <2>2. UNCHANGED fence
      BY <1>3 DEF PlaceLock
    <2> QED
      BY <2>1, <2>2 DEF LocksHold, FencesOf, Live
  <1>4. CASE \E f \in Fences, p \in Places, u \in Users \cup {Everyone}, en, ex \in BOOLEAN :
               CreateGeofence(f, p, u, en, ex)
    BY <1>2, <1>4 DEF CreateGeofence
  <1>5. CASE \E m \in Editors, f \in Fences, patch \in Patches : UpdateBegin(m, f, patch)
    BY <1>1, <1>5 DEF UpdateBegin
  <1>6. CASE \E p \in Places : DeletePlace(p)
    BY <1>6, DeleteLocks DEF DeletePlace, FencesOf
  <1>7. CASE \E f \in Fences : DeleteGeofence(f)
    BY <1>7, DeleteLocks DEF DeleteGeofence
  <1>8. CASE \E p \in Places, a \in BOOLEAN, area \in SUBSET Spots :
               CreatePlace(p, a, area) \/ PlaceLock(p, a, area)
    BY <1>1, <1>3, <1>8 DEF CreatePlace
  <1>9. CASE \E u \in Users : LeaveFamily(u) \/ JoinFamily(u)
    BY <1>1, <1>9 DEF LeaveFamily, JoinFamily
  <1> QED
    BY <1>4, <1>5, <1>6, <1>7, <1>8, <1>9 DEF Request

LEMMA CommitLocks ==
  ASSUME TypeOK, LocksHold, NEW m \in Editors, UpdateCommit(m) \/ UpdateFails(m)
  PROVE  LocksHold'
  <1>1. CASE UNCHANGED <<fence, row, placing>>
    BY <1>1, LocksKept
  <1>2. CASE UpdateCommit(m) /\ ~UNCHANGED <<fence, row>>
    <2> PICK f : f = edit[m].fence
      OBVIOUS
    <2>1. /\ UNCHANGED placing /\ f \notin placing.locked
          /\ \E r : fence' = [fence EXCEPT ![f] = r]
          /\ \E fs : fs \subseteq {f} /\ DropRows(fs)
      BY <1>2 DEF UpdateCommit, FenceFree
    <2>2. \A g \in Fences : g # f => fence'[g] = fence[g] /\ row'[g] = row[g]
      BY <2>1 DEF DropRows, TypeOK, ConfigTypeOK
    <2> QED
      BY <2>1, <2>2, LocksKept
  <1> QED
    BY <1>1, <1>2 DEF UpdateCommit, UpdateFails

LEMMA PlaceStepLocks ==
  ASSUME TypeOK, LocksHold, PlaceReset \/ PlaceCommit \/ PlaceRollback
  PROVE  LocksHold'
  <1>1. CASE placing' = NoPlacing
    BY <1>1 DEF NoPlacing, LocksHold
  <1>2. CASE PlaceReset
    <2> DEFINE doomed == {fu \in FencesOf(placing.place) \X Users : row[fu[1]][fu[2]].inside # "none"}
    <2>1. /\ placing'.pc = "reset" /\ placing'.place = placing.place
          /\ placing'.had = placing.had /\ placing'.locked = placing.locked
          /\ placing'.doomed = doomed
      BY <1>2 DEF PlaceReset, TypeOK, ConfigTypeOK, Placing
    <2>2. UNCHANGED <<fence, row>> /\ placing.pc # "idle"
      BY <1>2 DEF PlaceReset
    <2>3. \A f \in placing.had, u \in Users : row[f][u].inside # "none" => <<f, u>> \in doomed
      BY <2>2 DEF LocksHold
    <2> HIDE DEF doomed
    <2> QED
      BY <2>1, <2>2, <2>3 DEF LocksHold, FencesOf, Live
  <1> QED
    BY <1>1, <1>2 DEF PlaceCommit, PlaceRollback

(* The states that outlive the commit of a place update: of other places,  *)
(* or of fences that were put on the place meanwhile.                      *)
LEMMA PlaceStepFits ==
  ASSUME TypeOK, UnarmedHasNoRows, RowsFitFence, LocksHold, PlaceReset \/ PlaceCommit \/ PlaceRollback
  PROVE  RowsFitFence'
  <1>1. CASE UNCHANGED <<fence, place, row>>
    BY <1>1 DEF RowsFitFence, OfTheArea, Alertable
  <1>2. CASE PlaceCommit
    <2> SUFFICES ASSUME NEW f \in Fences, NEW u \in Users, row'[f][u].inside # "none"
                 PROVE  /\ fence'[f].user \in {Everyone, u}
                        /\ row'[f][u].escaped \/ OfTheArea(f, u)'
      BY DEF RowsFitFence
    <2>1. row'[f][u] = AfterReset(f, u) /\ UNCHANGED fence
      BY <1>2 DEF PlaceCommit
    <2>2. /\ row[f][u].inside # "none" /\ row[f][u] # NoRow
          /\ row'[f][u].inside = row[f][u].inside /\ row'[f][u].basis = row[f][u].basis
      BY <2>1, AfterResetRow DEF NoRow
    <2>3. fence[f].user \in {Everyone, u} /\ Live(f)
      BY <2>2 DEF RowsFitFence, UnarmedHasNoRows, Armed
    <2>4. CASE fence[f].place = placing.place
      <3>1. <<f, u>> \notin placing.doomed
        BY <2>1, <2>2 DEF AfterReset, NoRow
      <3>2. f \in FencesOf(placing.place) \ placing.had
        BY <1>2, <2>2, <2>3, <2>4, <3>1 DEF LocksHold, FencesOf, PlaceCommit
      <3>3. row'[f][u] = [row[f][u] EXCEPT !.escaped = TRUE]
        BY <2>1, <2>2, <3>1, <3>2 DEF AfterReset
      <3>4. row'[f][u].escaped
        BY <3>3 DEF TypeOK, ConfigTypeOK, StateRow
      <3> QED
        BY <2>1, <2>3, <3>4
    <2>5. CASE fence[f].place # placing.place
      <3>1. f \notin FencesOf(placing.place)
        BY <2>5 DEF FencesOf
      <3>2. row'[f][u] = row[f][u]
        BY <2>1, <2>2, <3>1 DEF AfterReset, NoRow
      <3>3. fence[f].place \in Places
        BY DEF TypeOK, ConfigTypeOK, FenceRecord
      <3>4. place'[fence[f].place] = place[fence[f].place]
        BY <1>2, <2>5, <3>3 DEF PlaceCommit, TypeOK, ConfigTypeOK
      <3> QED
        BY <2>1, <2>2, <2>3, <3>2, <3>4 DEF RowsFitFence, OfTheArea, Alertable
    <2> QED
      BY <2>4, <2>5
  <1> QED
    BY <1>1, <1>2 DEF PlaceReset, PlaceRollback

(* An evaluation writes where the user is in the area the fence has.       *)
LEMMA ObserveBasis ==
  ASSUME TypeOK, NEW f \in Fences, NEW u \in Users, NEW c, NEW side, NEW ts,
         Observe(f, u, c, side, ts)
  PROVE  \E r : SetRow(f, u, r) /\ r.basis = place[fence[f].place].area
  <1> PICK area, old : area = place[fence[f].place].area /\ old = row[f][u]
    OBVIOUS
  <1>1. old \in StateRow
    BY DEF TypeOK, ConfigTypeOK
  <1>2. Moved(f, u, side, ts) = [old EXCEPT !.inside = side, !.lastSeen = ts, !.basis = area, !.escaped = FALSE]
    BY DEF Moved
  <1>3. Moved(f, u, side, ts).basis = area
    BY <1>1, <1>2 DEF StateRow
  <1> PICK moved : moved = Moved(f, u, side, ts)
    OBVIOUS
  <1>7. CASE Baseline(f, u, side, ts)
    BY <1>7 DEF Baseline
  <1>8. CASE Stay(f, u, side, ts)
    BY <1>3, <1>8 DEF Stay
  <1>9. CASE Fire(f, u, c, side, ts)
    <2> PICK r : r = [moved EXCEPT !.notified = side, !.since = 0, !.pendingTs = 0]
      OBVIOUS
    <2>1. r.basis = area
      BY <1>1, <1>2 DEF StateRow
    <2> QED
      BY <1>9, <2>1 DEF Fire
  <1>10. CASE FireOlder(f, u, c, side, ts)
    <2> PICK r : r = [moved EXCEPT !.notified = old.inside, !.since = 0, !.pendingTs = ts]
      OBVIOUS
    <2>1. r.basis = area
      BY <1>1, <1>2 DEF StateRow
    <2>2. SetRow(f, u, r)
      BY <1>10 DEF FireOlder
    <2> QED
      BY <2>1, <2>2
  <1>11. CASE Postpone(f, u, c, side, ts)
    <2> PICK r : r = [moved EXCEPT !.pendingTs = ts]
      OBVIOUS
    <2>1. r.basis = area
      BY <1>1, <1>2 DEF StateRow
    <2> QED
      BY <1>11, <2>1 DEF Postpone
  <1>12. CASE Sync(f, u, c, side, ts)
    <2> PICK r : r = [moved EXCEPT !.notified = side, !.pendingTs = 0]
      OBVIOUS
    <2>1. r.basis = area
      BY <1>1, <1>2 DEF StateRow
    <2> QED
      BY <1>12, <2>1 DEF Sync
  <1> QED
    BY <1>7, <1>8, <1>9, <1>10, <1>11, <1>12 DEF Observe, Cross

(* The engine changes one row, of a fence it found to concern its user.    *)
LEMMA OneRowFits ==
  ASSUME TypeOK, RowsFitFence, UNCHANGED <<fence, place>>,
         NEW f \in Fences, NEW u \in Users, NEW r, SetRow(f, u, r),
         r.inside # "none" => /\ fence[f].user \in {Everyone, u}
                              /\ \/ r.escaped
                                 \/ /\ Alertable(fence[f].place)
                                    /\ r.basis = place[fence[f].place].area
  PROVE  RowsFitFence'
  <1>1. row'[f][u] = r
    BY DEF SetRow, TypeOK, ConfigTypeOK
  <1>2. \A g \in Fences, v \in Users : <<g, v>> # <<f, u>> => row'[g][v] = row[g][v]
    BY DEF SetRow, TypeOK, ConfigTypeOK
  <1> QED
    BY <1>1, <1>2 DEF RowsFitFence, OfTheArea, Alertable

LEMMA EngineFits ==
  ASSUME TypeOK, RowsFitFence, EngineNext
  PROVE  RowsFitFence' /\ UNCHANGED <<fence, edit>>
  <1>1. CASE UNCHANGED <<fence, place, row, edit>>
    BY <1>1 DEF RowsFitFence, OfTheArea, Alertable
  <1>2. ASSUME NEW e \in Evaluators, NEW c \in eval[e].todo, ProcessGeofence(e, c)
        PROVE  RowsFitFence' /\ UNCHANGED <<fence, edit>>
    <2> PICK f, u, ts, side : /\ f = c.fence /\ u = eval[e].user /\ ts = eval[e].ts
                              /\ side = Side(eval[e].spot, fence[c.fence].place)
      OBVIOUS
    <2>1. f \in Fences /\ u \in Users
      BY DEF TypeOK, EngineTypeOK, Evaluation, Candidate
    <2>2. UNCHANGED <<fence, place, edit>>
      BY <1>2 DEF ProcessGeofence
    <2>3. CASE Ignore(f, u, ts)
      BY <1>1, <2>2, <2>3 DEF Ignore
    <2>4. CASE Observe(f, u, c, side, ts)
      <3>1. PICK r : SetRow(f, u, r) /\ r.basis = place[fence[f].place].area
        BY <2>1, <2>4, ObserveBasis
      <3>2. fence[f].user \in {Everyone, u} /\ Alertable(fence[f].place)
        BY <2>4 DEF Observe, Concerns
      <3> QED
        BY <2>1, <2>2, <3>1, <3>2, OneRowFits
    <2> QED
      BY <1>2, <2>3, <2>4 DEF ProcessGeofence
  <1>3. ASSUME NEW f \in Fences, NEW u \in Users, FirePendingNotification(f, u)
        PROVE  RowsFitFence' /\ UNCHANGED <<fence, edit>>
    <2> PICK old : old = row[f][u]
      OBVIOUS
    <2> PICK r : r = [old EXCEPT !.notified = old.inside, !.since = 0, !.pendingTs = 0]
      OBVIOUS
    <2>1. UNCHANGED <<fence, place, edit>>
      BY <1>3 DEF FirePendingNotification
    <2>2. CASE StillDue(f, u)
      <3>1. r.basis = old.basis /\ r.inside = old.inside /\ r.escaped = old.escaped
        BY DEF TypeOK, ConfigTypeOK, StateRow
      <3>2. SetRow(f, u, r)
        BY <1>3, <2>2 DEF FirePendingNotification
      <3> QED
        <4>1. r.inside # "none" => /\ fence[f].user \in {Everyone, u}
                                   /\ \/ r.escaped
                                      \/ /\ Alertable(fence[f].place)
                                         /\ r.basis = place[fence[f].place].area
          BY <3>1 DEF RowsFitFence, OfTheArea
        <4> QED
          BY <2>1, <3>2, <4>1, OneRowFits
    <2>3. CASE ~StillDue(f, u)
      BY <1>1, <1>3, <2>1, <2>3 DEF FirePendingNotification
    <2> QED
      BY <2>2, <2>3
  <1>4. CASE Tick
    <2>1. UNCHANGED <<fence, place, edit>>
      BY <1>4 DEF Tick
    <2>2. ASSUME NEW f \in Fences, NEW u \in Users
          PROVE  /\ row'[f][u].inside = row[f][u].inside /\ row'[f][u].basis = row[f][u].basis
                 /\ row'[f][u].escaped = row[f][u].escaped
      <3> PICK r : r = row[f][u]
        OBVIOUS
      <3>1. r \in StateRow /\ row'[f][u] = [r EXCEPT !.since = Older(@)]
        BY <1>4 DEF Tick, TypeOK, ConfigTypeOK
      <3> QED
        BY <3>1 DEF StateRow
    <2> QED
      BY <2>1, <2>2 DEF RowsFitFence, OfTheArea, Alertable
  <1>5. CASE Ingest \/ Fault
    BY <1>1, <1>5 DEF Ingest, IngestLocation, IngestStationary, IngestBackfill, Fault, cvars
  <1>6. CASE Reconcile
    <2>1. \A fu \in recon.pending : fu[1] \in Fences /\ fu[2] \in Users
      BY DEF TypeOK, EngineTypeOK
    <2> QED
      BY <1>1, <1>3, <1>6, <2>1
         DEF Reconcile, ReconcileLatestPoints, ReconcilePoint, FirePendingNotifications, cvars
  <1>7. ASSUME NEW e \in Evaluators, Evaluate(e)
        PROVE  RowsFitFence' /\ UNCHANGED <<fence, edit>>
    BY <1>1, <1>2, <1>7 DEF Evaluate, EvaluateGeofences, cvars
  <1> QED
    BY <1>4, <1>5, <1>6, <1>7 DEF EngineNext

(* The engine writes no state of a fence that a place update has locked.   *)
LEMMA WriteOfLocks ==
  ASSUME TypeOK, NEW f, NEW u, WriteOf(f, u) \/ UNCHANGED placing
  PROVE  /\ placing'.pc = placing.pc /\ placing'.place = placing.place
         /\ placing'.had = placing.had /\ placing'.locked = placing.locked
         /\ placing'.doomed = placing.doomed
  BY DEF WriteOf, TypeOK, ConfigTypeOK, Placing

LEMMA EngineLocks ==
  ASSUME TypeOK, LocksHold, EngineNext
  PROVE  LocksHold'
  <1>1. CASE UNCHANGED <<fence, row, placing>>
    BY <1>1, LocksKept
  <1>2. ASSUME NEW e \in Evaluators, NEW c \in eval[e].todo, ProcessGeofence(e, c) PROVE LocksHold'
    <2> PICK f, u : f = c.fence /\ u = eval[e].user
      OBVIOUS
    <2>1. f \in Fences /\ u \in Users
      BY DEF TypeOK, EngineTypeOK, Evaluation, Candidate
    <2>2. \A g \in Fences : g # f => row'[g] = row[g]
      BY <1>2, <2>1, ObserveRows DEF ProcessGeofence, Ignore
    <2>3. UNCHANGED fence /\ f \notin placing.locked /\ (WriteOf(f, u) \/ UNCHANGED placing)
      BY <1>2 DEF ProcessGeofence, FenceFree
    <2> QED
      BY <2>2, <2>3, WriteOfLocks, LocksKept
  <1>3. ASSUME NEW f \in Fences, NEW u \in Users, FirePendingNotification(f, u) PROVE LocksHold'
    <2>1. \A g \in Fences : g # f => row'[g] = row[g]
      BY <1>3 DEF FirePendingNotification, SetRow, TypeOK, ConfigTypeOK
    <2>2. UNCHANGED fence /\ f \notin placing.locked /\ (WriteOf(f, u) \/ UNCHANGED placing)
      BY <1>3 DEF FirePendingNotification, FenceFree
    <2> QED
      BY <2>1, <2>2, WriteOfLocks, LocksKept
  <1>4. CASE Tick
    <2>1. ASSUME NEW f \in Fences, NEW u \in Users PROVE row'[f][u].inside = row[f][u].inside
      BY <1>4 DEF Tick, TypeOK, ConfigTypeOK, StateRow
    <2> QED
      BY <1>4, <2>1, LocksKept DEF Tick
  <1>5. CASE Ingest \/ Fault
    BY <1>1, <1>5 DEF Ingest, IngestLocation, IngestStationary, IngestBackfill, Fault, cvars
  <1>6. CASE Reconcile
    <2>1. \A fu \in recon.pending : fu[1] \in Fences /\ fu[2] \in Users
      BY DEF TypeOK, EngineTypeOK
    <2> QED
      BY <1>1, <1>3, <1>6, <2>1
         DEF Reconcile, ReconcileLatestPoints, ReconcilePoint, FirePendingNotifications, cvars
  <1>7. ASSUME NEW e \in Evaluators, Evaluate(e) PROVE LocksHold'
    BY <1>1, <1>2, <1>7 DEF Evaluate, EvaluateGeofences, cvars
  <1> QED
    BY <1>4, <1>5, <1>6, <1>7 DEF EngineNext

FitInv == RowsFitFence /\ EditsAreFresh /\ LocksHold

LEMMA FitStep ==
  ASSUME OneEditor, TypeOK, UnarmedHasNoRows, FitInv, [Next]_vars
  PROVE  FitInv'
  <1> USE DEF FitInv
  <1>1. CASE EngineNext
    BY <1>1, EngineFits, EngineLocks DEF EditsAreFresh, Fresh
  <1>2. CASE Request
    BY <1>2, RequestFits, RequestFresh, RequestLocks
  <1>3. ASSUME NEW m \in Editors, UpdateCommit(m) PROVE FitInv'
    BY <1>3, CommitFits, CommitFresh, CommitLocks
  <1>4. ASSUME NEW m \in Editors, UpdateFails(m) PROVE FitInv'
    <2>1. RowsFitFence'
      BY <1>4 DEF UpdateFails, RowsFitFence, OfTheArea, Alertable
    <2> QED
      BY <1>4, <2>1, CommitFresh, CommitLocks
  <1>5. CASE PlaceReset \/ PlaceCommit \/ PlaceRollback
    <2>1. UNCHANGED <<fence, edit>>
      BY <1>5 DEF PlaceReset, PlaceCommit, PlaceRollback
    <2> QED
      BY <1>5, <2>1, PlaceStepFits, PlaceStepLocks DEF EditsAreFresh, Fresh
  <1>6. CASE ConfigStep
    BY <1>2, <1>3, <1>4, <1>5, <1>6 DEF ConfigStep, ConfigNext
  <1>7. CASE UNCHANGED vars
    BY <1>7, LocksKept DEF vars, cvars, RowsFitFence, OfTheArea, Alertable, EditsAreFresh, Fresh
  <1> QED
    BY <1>1, <1>6, <1>7 DEF Next

LEMMA FitInit == Init => FitInv
  BY DEF Init, ConfigInit, FitInv, RowsFitFence, NoRow, EditsAreFresh, LocksHold, NoPlacing

(* While updates of fences do not overlap, every state is of a user its    *)
(* fence watches and of the area the fence has: reassignments, moves and   *)
(* changed geometries reset what evaluations wrote, whenever they wrote it *)
(* (geofence.go:525, place.go:462).  Excepted are the areas of fences that *)
(* were moved onto a place after its update had locked the others          *)
(* (place.go:467).                                                         *)
THEOREM RowsFitTheirFence == ASSUME OneEditor PROVE Spec => []RowsFitFence
  <1>1. TypeOK /\ UnarmedHasNoRows /\ FitInv /\ [Next]_vars => FitInv'
    BY FitStep
  <1>2. FitInv => RowsFitFence
    BY DEF FitInv
  <1> QED
    BY <1>1, <1>2, FitInit, TypeCorrect, DisabledFencesForget, PTL DEF Spec

-----------------------------------------------------------------------------
(* The overlap rule.  Only CreateGeofence and UpdateGeofence put a fence   *)
(* on a place; each asks for overlaps, the second with the place and the   *)
(* user it read before its transaction, and these are the row's while the  *)
(* update is alone.                                                        *)

LEMMA LessIsOneKind ==
  ASSUME OneKindOfFencePerPlace, TypeOK,
         \A f \in Fences : fence'[f] = fence[f] \/ fence'[f].state # "live"
  PROVE  OneKindOfFencePerPlace'
  BY DEF OneKindOfFencePerPlace, Live

(* One fence is written, where no fence of the other kind is.              *)
LEMMA OneMoreIsOneKind ==
  ASSUME OneKindOfFencePerPlace, TypeOK, NEW f \in Fences, NEW r,
         fence' = [fence EXCEPT ![f] = r], ~Overlaps(f, r.place, r.user)
  PROVE  OneKindOfFencePerPlace'
  <1> SUFFICES ASSUME NEW g \in Fences, NEW h \in Fences,
                      fence'[g].state = "live", fence'[h].state = "live",
                      fence'[g].place = fence'[h].place
               PROVE  (fence'[g].user = Everyone) <=> (fence'[h].user = Everyone)
    BY DEF OneKindOfFencePerPlace, Live
  <1>1. fence'[f] = r /\ \A e \in Fences \ {f} : fence'[e] = fence[e]
    BY DEF TypeOK, ConfigTypeOK
  <1>2. \A e \in Fences \ {f} : fence[e].state = "live" /\ fence[e].place = r.place
           => ((fence[e].user = Everyone) <=> (r.user = Everyone))
    BY DEF Overlaps, Live
  <1>3. CASE g = f \/ h = f
    BY <1>1, <1>2, <1>3
  <1>4. CASE g # f /\ h # f
    BY <1>1, <1>4 DEF OneKindOfFencePerPlace, Live
  <1> QED
    BY <1>3, <1>4

LEMMA RequestOneKind ==
  ASSUME TypeOK, OneKindOfFencePerPlace, Request
  PROVE  OneKindOfFencePerPlace'
  <1>1. CASE UNCHANGED fence
    BY <1>1 DEF OneKindOfFencePerPlace, Live
  <1>2. ASSUME NEW fs, DeleteFences(fs) PROVE OneKindOfFencePerPlace'
    <2>1. ASSUME NEW f \in Fences PROVE fence'[f] = fence[f] \/ fence'[f].state # "live"
      BY <1>2 DEF DeleteFences, TypeOK, ConfigTypeOK, FenceRecord
    <2> QED
      BY <2>1, LessIsOneKind
  <1>3. ASSUME NEW f \in Fences, NEW p \in Places, NEW u \in Users \cup {Everyone},
               NEW en \in BOOLEAN, NEW ex \in BOOLEAN, CreateGeofence(f, p, u, en, ex)
        PROVE  OneKindOfFencePerPlace'
    <2> PICK r : r = [state |-> "live", place |-> p, user |-> u,
                      enter |-> en, exit |-> ex, enabled |-> TRUE]
      OBVIOUS
    <2>1. r.place = p /\ r.user = u /\ fence' = [fence EXCEPT ![f] = r] /\ ~Overlaps(f, p, u)
      BY <1>3 DEF CreateGeofence
    <2> QED
      BY <2>1, OneMoreIsOneKind
  <1>4. CASE \E f \in Fences, p \in Places, u \in Users \cup {Everyone}, en, ex \in BOOLEAN :
               CreateGeofence(f, p, u, en, ex)
    <2> PICK f \in Fences, p \in Places, u \in Users \cup {Everyone}, en \in BOOLEAN, ex \in BOOLEAN :
            CreateGeofence(f, p, u, en, ex)
      BY <1>4
    <2> QED
      BY <1>3
  <1>5. CASE (\E p \in Places : DeletePlace(p)) \/ \E f \in Fences : DeleteGeofence(f)
    BY <1>2, <1>5 DEF DeletePlace, DeleteGeofence
  <1>6. CASE \/ \E m \in Editors, f \in Fences, patch \in Patches : UpdateBegin(m, f, patch)
             \/ \E p \in Places, a \in BOOLEAN, area \in SUBSET Spots :
                   CreatePlace(p, a, area) \/ PlaceLock(p, a, area)
             \/ \E u \in Users : LeaveFamily(u) \/ JoinFamily(u)
    BY <1>1, <1>6 DEF UpdateBegin, CreatePlace, PlaceLock, LeaveFamily, JoinFamily
  <1> QED
    BY <1>4, <1>5, <1>6 DEF Request

LEMMA CommitOneKind ==
  ASSUME TypeOK, OneKindOfFencePerPlace, EditsAreFresh, NEW m \in Editors, UpdateCommit(m)
  PROVE  OneKindOfFencePerPlace'
  <1> PICK f, cur, patch, eff : /\ f = edit[m].fence /\ cur = edit[m].cur /\ patch = edit[m].patch
                                /\ eff = Patched(edit[m].cur, edit[m].patch)
    OBVIOUS
  <1>1. f \in Fences /\ cur \in FenceRecord /\ patch \in PatchRecord
    BY EditType DEF UpdateCommit
  <1>2. CASE UNCHANGED fence
    BY <1>2 DEF OneKindOfFencePerPlace, Live
  <1>3. CASE ~Refused(m) /\ fence' = [fence EXCEPT ![f] = Patched(fence[f], patch)]
    <2>1. Live(f) /\ fence[f] = cur /\ fence' = [fence EXCEPT ![f] = eff]
      <3>1. Live(f)
        BY <1>3 DEF Refused
      <3> QED
        BY <1>1, <1>3, <3>1 DEF Live, EditsAreFresh, Fresh, UpdateCommit
    <2>2. CASE patch.fields \cap {"place", "user"} # {}
      <3>1. ~Overlaps(f, eff.place, eff.user)
        BY <1>3, <2>2 DEF Refused
      <3> QED
        BY <1>1, <2>1, <3>1, OneMoreIsOneKind
    <2>3. CASE patch.fields \cap {"place", "user"} = {}
      <3>1. "place" \notin patch.fields /\ "user" \notin patch.fields
        BY <2>3
      <3>2. eff.place = cur.place /\ eff.user = cur.user
        BY <1>1, <3>1 DEF Patched, FenceRecord
      <3>3. ~Overlaps(f, cur.place, cur.user)
        BY <1>1, <2>1 DEF OneKindOfFencePerPlace, Overlaps, Live
      <3> QED
        BY <1>1, <2>1, <3>2, <3>3, OneMoreIsOneKind
    <2> QED
      BY <2>2, <2>3
  <1> QED
    BY <1>2, <1>3 DEF UpdateCommit

LEMMA OneKindStep ==
  ASSUME OneEditor, TypeOK, OneKindOfFencePerPlace, RowsFitFence, EditsAreFresh, [Next]_vars
  PROVE  OneKindOfFencePerPlace'
  <1>1. CASE UNCHANGED fence
    BY <1>1 DEF OneKindOfFencePerPlace, Live
  <1>2. CASE EngineNext
    BY <1>1, <1>2, EngineFits
  <1>3. CASE ConfigStep
    BY <1>1, <1>3, RequestOneKind, CommitOneKind
       DEF ConfigStep, ConfigNext, UpdateFails, PlaceReset, PlaceCommit, PlaceRollback
  <1> QED
    BY <1>1, <1>2, <1>3 DEF Next, vars, cvars

(* From a table that obeys the rule, and while updates of fences do not    *)
(* overlap, no place ever has both a family-wide and a per-user fence,     *)
(* though UpdateGeofence looks for overlaps with what it read before its   *)
(* transaction (geofence.go:270, 467).                                     *)
THEOREM OneKindIsKept ==
  ASSUME OneEditor
  PROVE  OneKindOfFencePerPlace /\ Spec => []OneKindOfFencePerPlace
  <1>1. TypeOK /\ UnarmedHasNoRows /\ FitInv /\ OneKindOfFencePerPlace
           /\ [Next]_vars => FitInv' /\ OneKindOfFencePerPlace'
    BY FitStep, OneKindStep DEF FitInv
  <1> QED
    BY <1>1, FitInit, TypeCorrect, DisabledFencesForget, PTL DEF Spec

-----------------------------------------------------------------------------
(* While nobody edits the configuration, geofence evaluation implements    *)
(* AlertStream: every report is of a kind the fence asks for, two reports  *)
(* of a fence about a user are a debounce window apart, and arrivals and   *)
(* departures alternate where the fence asks for both.                     *)
(*                                                                         *)
(* The inductive invariant SteadyInv is a conjunction over the pairs of a  *)
(* fence and a user; Cell is its part for one pair.                        *)

Cell(f, u) ==
    LET r == row[f][u]
        t == told[f][u]
    IN  /\ r.inside # "none" /\ Pending(r) =>
              r.since # Never /\ r.pendingTs # 0 /\ Armed(f) /\ Flag(fence[f], r.inside)
        /\ TwoWay(f) /\ t.count > 0 => KindOf(r.notified) = t.kind /\ r.notified # "unknown"
        /\ r.inside = "none" => t.count = 0
        /\ r.since = IF t.count = 0 THEN Never ELSE t.age
        /\ IF t.count = 0 THEN t.kind = "none" ELSE t.age # Never

Running(e) ==
    /\ eval[e].pc # "idle" => eval[e].ts # 0
    /\ \A c \in eval[e].todo :
          /\ eval[e].pc = "process"
          /\ c.enter = fence[c.fence].enter /\ c.exit = fence[c.fence].exit

LEMMA SteadyInvCells ==
  SteadyInv <=> /\ TypeOK
                /\ \A f \in Fences, u \in Users : Cell(f, u)
                /\ \A e \in Evaluators : Running(e)
  BY DEF SteadyInv, PendingIsSelectable, BeliefIsTold, WindowSinceReport, Cell, Running

(* What a transaction does to the pair it is about, as AlertStream sees it *)
Reports(f, u) == \E kind \in Kinds, ts \in 1 .. MaxTs : Stream!Announce(f, u, kind, ts)

Frozen == UNCHANGED <<fence, place, member>>

LEMMA FrozenAsked == Frozen => UNCHANGED Asked
  BY DEF Frozen, Asked, Armed, Live

(* The two places that record a report: the row is about to be told        *)
(* `side`, in a direction the fence reports, the family believes           *)
(* otherwise, and the window has passed.                                   *)
LEMMA RecordReports ==
  ASSUME TypeOK, NEW f \in Fences, NEW u \in Users, Cell(f, u), Frozen,
         NEW side \in Sides, NEW ts \in 1 .. MaxTs,
         Armed(f), fence[f].user \in {Everyone, u}, Flag(fence[f], side),
         Elapsed(row[f][u]), row[f][u].notified # side,
         Record(f, u, KindOf(side), ts)
  PROVE  Reports(f, u)
  <1> DEFINE kind == KindOf(side)
             t == told[f][u]
  <1>1. kind \in Kinds
    BY KindOfType
  <1>2. kind \in Asked[f][u]
    BY <1>1 DEF Asked, Flag, KindOf, Kinds, Sides
  <1>3. t.count > 0 => t.age = Debounce
    BY ConfigAssumption DEF Cell, Elapsed, Never, TypeOK, ConfigTypeOK, Told
  <1>4. ASSUME Asked[f][u] = Kinds PROVE t.kind # kind
    <2>1. TwoWay(f)
      BY <1>4 DEF Asked, TwoWay, Kinds
    <2>2. CASE t.count = 0
      BY <1>1, <2>2 DEF Cell, Kinds
    <2>3. CASE t.count # 0
      <3>1. t.count > 0
        BY <2>3 DEF TypeOK, ConfigTypeOK, Told
      <3>2. row[f][u].notified \in Sides /\ KindOf(row[f][u].notified) = t.kind
        BY <2>1, <3>1 DEF Cell, TypeOK, ConfigTypeOK, StateRow
      <3> QED
        BY <3>2 DEF KindOf, Sides
    <2> QED
      BY <2>2, <2>3
  <1>5. Asked' = Asked
    BY FrozenAsked
  <1>6. Stream!Announce(f, u, kind, ts)
    BY <1>2, <1>3, <1>4, <1>5 DEF Stream!Announce, Stream!Kinds, Record, Kinds
  <1> QED
    BY <1>1, <1>6 DEF Reports

(* After a report: the row agrees with it.                                 *)
LEMMA CellAfterReport ==
  ASSUME TypeOK, NEW f \in Fences, NEW u \in Users, Frozen,
         NEW side \in Sides, NEW ts \in 1 .. MaxTs, NEW r \in StateRow,
         SetRow(f, u, r), Record(f, u, KindOf(side), ts),
         r.notified = side, r.since = 0, r.inside # "none",
         Pending(r) => r.pendingTs # 0 /\ Armed(f) /\ Flag(fence[f], r.inside)
  PROVE  Cell(f, u)'
  <1>1. row'[f][u] = r
    BY DEF SetRow, TypeOK, ConfigTypeOK
  <1>2. /\ told'[f][u].kind = KindOf(side)
        /\ told'[f][u].age = 0
        /\ told'[f][u].count = told[f][u].count + 1
    BY DEF Record, TypeOK, ConfigTypeOK
  <1>3. told[f][u].count \in Nat
    BY DEF TypeOK, ConfigTypeOK, Told
  <1> QED
    BY <1>1, <1>2, <1>3 DEF Cell, Frozen, Armed, Live, Flag, Never, Sides, Pending

LEMMA ObserveCell ==
  ASSUME TypeOK, NEW f \in Fences, NEW u \in Users, Cell(f, u), Frozen,
         NEW c \in Candidate, c.enter = fence[f].enter, c.exit = fence[f].exit,
         NEW side \in Sides, NEW ts \in 1 .. MaxTs, Observe(f, u, c, side, ts)
  PROVE  Cell(f, u)' /\ (UNCHANGED told \/ Reports(f, u))
  <1> DEFINE r == row[f][u]
             moved == Moved(f, u, side, ts)
  <1>1. /\ r \in StateRow
        /\ moved \in StateRow
        /\ moved = [r EXCEPT !.inside = side, !.lastSeen = ts, !.basis = place[fence[f].place].area, !.escaped = FALSE]
        /\ Armed(f) /\ fence[f].user \in {Everyone, u}
        /\ 0 \in Ages /\ Never \in Ages /\ 0 \in 0 .. MaxTs /\ ts \in 0 .. MaxTs
    <2>1. r \in StateRow /\ moved \in StateRow
      BY MovedType DEF TypeOK, ConfigTypeOK
    <2>2. 0 \in Ages /\ Never \in Ages /\ 0 \in 0 .. MaxTs
      BY ConfigAssumption DEF Ages, Never
    <2> QED
      BY <2>1, <2>2 DEF Observe, Concerns, Moved
  <1>2. Flag(c, side) = Flag(fence[f], side)
    BY DEF Flag
  <1>3. ASSUME NEW new, SetRow(f, u, new) PROVE row'[f][u] = new
    BY <1>3 DEF SetRow, TypeOK, ConfigTypeOK
  <1>4. CASE Baseline(f, u, side, ts)
    <2>1. /\ row'[f][u].inside = side /\ row'[f][u].since = Never
          /\ row'[f][u].notified = IF side = "in" THEN "unknown" ELSE "out"
          /\ told'[f][u] = told[f][u]
      BY <1>3, <1>4 DEF Baseline
    <2>2. told[f][u].count = 0
      BY <1>4 DEF Baseline, Cell
    <2> QED
      BY <1>4, <2>1, <2>2 DEF Baseline, Cell, Pending, Sides
  <1>5. CASE Stay(f, u, side, ts)
    <2>1. row'[f][u] = moved /\ r.inside = side /\ UNCHANGED told
      BY <1>3, <1>5 DEF Stay
    <2>2. /\ moved.inside = r.inside /\ moved.notified = r.notified
          /\ moved.since = r.since /\ moved.pendingTs = r.pendingTs
      BY <1>1, <2>1 DEF StateRow
    <2> QED
      BY <2>1, <2>2 DEF Cell, Pending, Frozen, Armed, Live, Flag, TwoWay
  <1>6. CASE Cross(f, u, c, side, ts) /\ Fire(f, u, c, side, ts)
    <2> DEFINE new == [moved EXCEPT !.notified = side, !.since = 0, !.pendingTs = 0]
    <2>1. new \in StateRow
      BY <1>1 DEF StateRow
    <2>2. new.inside = side /\ new.notified = side /\ new.since = 0
      BY <1>1 DEF StateRow
    <2>3. Cell(f, u)'
      <3>1. ~Pending(new) /\ new.inside # "none"
        BY <2>2 DEF Pending, Sides
      <3>2. SetRow(f, u, new) /\ Record(f, u, KindOf(side), ts)
        BY <1>6 DEF Fire
      <3> QED
        BY <2>1, <2>2, <3>1, <3>2, CellAfterReport
    <2>4. Reports(f, u)
      BY <1>1, <1>2, <1>6, RecordReports DEF Fire
    <2> QED
      BY <2>3, <2>4
  <1>7. CASE Cross(f, u, c, side, ts) /\ FireOlder(f, u, c, side, ts)
    <2> DEFINE old == r.inside
               new == [moved EXCEPT !.notified = old, !.since = 0, !.pendingTs = ts]
    <2>1. old \in Sides /\ old # side
      BY <1>1, <1>7 DEF Cross, StateRow
    <2>2. Pending(r) /\ r.notified = side
      BY <1>7, <2>1 DEF FireOlder, Pending, Sides
    <2>3. r.pendingTs \in 1 .. MaxTs /\ Flag(fence[f], old)
      BY <1>1, <2>1, <2>2, ConfigAssumption DEF Cell, Sides, StateRow
    <2>4. new \in StateRow
      BY <1>1, <2>1 DEF StateRow
    <2>5. new.inside = side /\ new.notified = old /\ new.since = 0 /\ new.pendingTs = ts
      BY <1>1 DEF StateRow
    <2>6. Cell(f, u)'
      <3>1. new.inside # "none" /\ ts # 0
        BY <2>5 DEF Sides
      <3>2. SetRow(f, u, new) /\ Record(f, u, KindOf(old), r.pendingTs)
        BY <1>7 DEF FireOlder
      <3>3. Flag(fence[f], new.inside)
        BY <1>2, <1>7, <2>5 DEF FireOlder
      <3> HIDE DEF new, old
      <3> QED
        BY <1>1, <2>1, <2>3, <2>4, <2>5, <3>1, <3>2, <3>3, CellAfterReport
    <2>7. Reports(f, u)
      BY <1>1, <1>7, <2>1, <2>2, <2>3, RecordReports DEF FireOlder
    <2> QED
      BY <2>6, <2>7
  <1>8. CASE Cross(f, u, c, side, ts) /\ Postpone(f, u, c, side, ts)
    <2> DEFINE new == [moved EXCEPT !.pendingTs = ts]
    <2>1. row'[f][u] = new /\ UNCHANGED told
      BY <1>3, <1>8 DEF Postpone
    <2>2. /\ new.inside = side /\ new.notified = r.notified
          /\ new.since = r.since /\ new.pendingTs = ts
      BY <1>1 DEF StateRow
    <2>3. r.since # Never /\ r.inside # "none" /\ Flag(fence[f], side)
      BY <1>2, <1>8 DEF Postpone, Elapsed, Cross
    <2>4. PICK q : q = new
      OBVIOUS
    <2>5. /\ row'[f][u] = q /\ told'[f][u] = told[f][u]
          /\ q.inside = side /\ q.notified = r.notified
          /\ q.since = r.since /\ q.pendingTs # 0
      BY <2>1, <2>2, <2>4
    <2>6. Armed(f)' /\ Flag(fence[f], side)' /\ fence' = fence
      BY <1>1, <2>3 DEF Frozen, Armed, Live, Flag
    <2>7. /\ TwoWay(f) /\ told[f][u].count > 0 =>
               KindOf(r.notified) = told[f][u].kind /\ r.notified # "unknown"
          /\ r.since = IF told[f][u].count = 0 THEN Never ELSE told[f][u].age
          /\ IF told[f][u].count = 0 THEN told[f][u].kind = "none" ELSE told[f][u].age # Never
      BY DEF Cell
    <2>8. side # "none"
      BY DEF Sides
    <2>9. Cell(f, u)'
      BY <2>3, <2>5, <2>6, <2>7, <2>8 DEF Cell, TwoWay, Flag, Frozen
    <2> QED
      BY <2>1, <2>9
  <1>9. CASE Cross(f, u, c, side, ts) /\ Sync(f, u, c, side, ts)
    <2> DEFINE new == [moved EXCEPT !.notified = side, !.pendingTs = 0]
    <2>1. row'[f][u] = new /\ UNCHANGED told
      BY <1>3, <1>9 DEF Sync
    <2>2. new.inside = side /\ new.notified = side /\ new.since = r.since
      BY <1>1 DEF StateRow
    <2>3. r.inside # "none" /\ side # "unknown" /\ side # "none"
      BY <1>9 DEF Cross, Sides
    <2>4. TwoWay(f) => r.notified = side
      BY <1>2, <1>9 DEF Sync, TwoWay, Flag
    <2> QED
      BY <2>1, <2>2, <2>3, <2>4 DEF Cell, Pending, Frozen, TwoWay
  <1> QED
    BY <1>4, <1>5, <1>6, <1>7, <1>8, <1>9 DEF Observe, Cross

(* A transaction leaves every other pair alone.                            *)
LEMMA OtherCells ==
  ASSUME TypeOK, NEW f \in Fences, NEW u \in Users, NEW g \in Fences, NEW v \in Users,
         <<g, v>> # <<f, u>>, Cell(g, v), Frozen,
         row' = row \/ \E r : SetRow(f, u, r),
         told' = told \/ \E kind, ts : Record(f, u, kind, ts)
  PROVE  Cell(g, v)'
  <1>1. row'[g][v] = row[g][v] /\ told'[g][v] = told[g][v]
    BY DEF SetRow, Record, TypeOK, ConfigTypeOK
  <1> QED
    BY <1>1 DEF Cell, Frozen, Armed, Live, Flag, TwoWay

LEMMA ObserveWrites ==
  ASSUME NEW f, NEW u, NEW c, NEW side, NEW ts, Observe(f, u, c, side, ts)
  PROVE  /\ row' = row \/ \E r : SetRow(f, u, r)
         /\ told' = told \/ \E kind, t : Record(f, u, kind, t)
  BY DEF Observe, Baseline, Stay, Cross, Fire, Postpone, FireOlder, Sync

Cells == \A f \in Fences, u \in Users : Cell(f, u)
SomeReport == \E f \in Fences, u \in Users : Reports(f, u)

LEMMA QuietCells ==
  ASSUME Cells, Frozen, UNCHANGED <<row, told>>
  PROVE  Cells'
  BY DEF Cells, Cell, Frozen, Armed, Live, Flag, TwoWay

LEMMA ProcessCells ==
  ASSUME TypeOK, Cells, NEW e \in Evaluators, Running(e), NEW c \in eval[e].todo,
         ProcessGeofence(e, c)
  PROVE  Cells' /\ (UNCHANGED told \/ SomeReport)
  <1> DEFINE f == c.fence
  <1>0. /\ c \in Candidate /\ f \in Fences
        /\ eval[e].user \in Users
        /\ eval[e].ts \in 1 .. MaxTs
        /\ Side(eval[e].spot, fence[f].place) \in Sides
    BY SideType, ConfigAssumption
       DEF TypeOK, EngineTypeOK, Evaluation, Candidate, Running, ProcessGeofence
  <1> PICK u \in Users, ts \in 1 .. MaxTs, side \in Sides :
         /\ u = eval[e].user /\ ts = eval[e].ts
         /\ side = Side(eval[e].spot, fence[f].place)
    BY <1>0
  <1>1. /\ c \in Candidate /\ f \in Fences
        /\ c.enter = fence[f].enter /\ c.exit = fence[f].exit
    BY <1>0 DEF Running
  <1>2. Frozen
    BY DEF ProcessGeofence, Frozen
  <1>3. CASE Ignore(f, u, ts)
    BY <1>2, <1>3, QuietCells DEF Ignore
  <1>4. CASE Observe(f, u, c, side, ts)
    <2>1. Cell(f, u) /\ Cell(f, u)' /\ (UNCHANGED told \/ Reports(f, u))
      BY <1>1, <1>2, <1>4, ObserveCell DEF Cells
    <2>2. ASSUME NEW g \in Fences, NEW v \in Users PROVE Cell(g, v)'
      <3>1. CASE g = f /\ v = u
        BY <2>1, <3>1
      <3>2. CASE <<g, v>> # <<f, u>>
        BY <1>1, <1>2, <1>4, <3>2, ObserveWrites, OtherCells DEF Cells
      <3> QED
        BY <3>1, <3>2
    <2> QED
      BY <1>1, <2>1, <2>2 DEF Cells, SomeReport
  <1> QED
    BY <1>3, <1>4 DEF ProcessGeofence

LEMMA FirePendingCells ==
  ASSUME TypeOK, Cells, NEW f \in Fences, NEW u \in Users, FirePendingNotification(f, u)
  PROVE  Cells' /\ (UNCHANGED told \/ SomeReport)
  <1>1. Frozen
    BY DEF FirePendingNotification, Frozen
  <1>2. CASE UNCHANGED <<row, told>>
    BY <1>1, <1>2, QuietCells
  <1>3. CASE /\ StillDue(f, u)
             /\ SetRow(f, u, [row[f][u] EXCEPT !.notified = row[f][u].inside,
                                               !.since = 0, !.pendingTs = 0])
             /\ Record(f, u, KindOf(row[f][u].inside), row[f][u].pendingTs)
    <2> PICK r, side, ts : r = row[f][u] /\ side = r.inside /\ ts = r.pendingTs
      OBVIOUS
    <2> PICK new : new = [r EXCEPT !.notified = side, !.since = 0, !.pendingTs = 0]
      OBVIOUS
    <2>1. r \in StateRow /\ 0 \in Ages /\ 0 \in 0 .. MaxTs
      BY ConfigAssumption DEF TypeOK, ConfigTypeOK, Ages, Never
    <2>2. side \in Sides /\ side # "none"
      BY <1>3, <2>1 DEF StillDue, StateRow, Sides
    <2>3. Pending(r) /\ Elapsed(r) /\ Armed(f) /\ fence[f].user \in {Everyone, u} /\ Flag(fence[f], side)
      BY <1>3 DEF StillDue
    <2>4. ts \in 1 .. MaxTs
      BY <2>1, <2>2, <2>3, ConfigAssumption DEF Cells, Cell, StateRow
    <2>5. new \in StateRow /\ new.notified = side /\ new.since = 0 /\ new.inside = side
      BY <2>1, <2>2 DEF StateRow
    <2>6. SetRow(f, u, new) /\ Record(f, u, KindOf(side), ts)
      BY <1>3
    <2>7. ~Pending(new) /\ new.inside # "none"
      BY <2>2, <2>5 DEF Pending
    <2>8. Cell(f, u)'
      BY <1>1, <2>2, <2>4, <2>5, <2>6, <2>7, CellAfterReport
    <2>9. Reports(f, u)
      <3>1. row[f][u].notified # side
        BY <2>3 DEF Pending
      <3> QED
        BY <1>1, <2>2, <2>3, <2>4, <2>6, <3>1, RecordReports DEF Cells
    <2>10. ASSUME NEW g \in Fences, NEW v \in Users PROVE Cell(g, v)'
      <3>1. CASE g = f /\ v = u
        BY <2>8, <3>1
      <3>2. CASE <<g, v>> # <<f, u>>
        BY <1>1, <2>6, <3>2, OtherCells DEF Cells
      <3> QED
        BY <3>1, <3>2
    <2> QED
      BY <2>9, <2>10 DEF Cells, SomeReport
  <1> QED
    BY <1>2, <1>3 DEF FirePendingNotification

(* Time ages the report and the row's copy of its moment alike.            *)
LEMMA TickCells ==
  ASSUME TypeOK, Cells, Tick
  PROVE  Cells' /\ Stream!Pass
  <1>1. Frozen
    BY DEF Tick, Frozen
  <1>2. Stream!Pass
    BY <1>1, FrozenAsked DEF Tick, Stream!Pass, Older, Stream!Older
  <1>3. ASSUME NEW f \in Fences, NEW u \in Users PROVE Cell(f, u)'
    <2> PICK r, t : r = row[f][u] /\ t = told[f][u]
      OBVIOUS
    <2>1. /\ r \in StateRow /\ t \in Told
          /\ row'[f][u] = [r EXCEPT !.since = Older(@)]
          /\ told'[f][u] = [t EXCEPT !.age = Older(@)]
      BY DEF Tick, TypeOK, ConfigTypeOK
    <2> PICK q, w : q = row'[f][u] /\ w = told'[f][u]
      OBVIOUS
    <2>2. /\ q.inside = r.inside /\ q.notified = r.notified /\ q.pendingTs = r.pendingTs
          /\ q.since = Older(r.since)
          /\ w.kind = t.kind /\ w.count = t.count /\ w.age = Older(t.age)
      BY <2>1 DEF StateRow, Told
    <2>3. \A age \in Ages : Older(age) = Never <=> age = Never
      BY ConfigAssumption DEF Older, Ages, Never
    <2>4. Older(Never) = Never
      BY ConfigAssumption DEF Older, Never
    <2>5. r.since \in Ages /\ t.age \in Ages
      BY <2>1 DEF StateRow, Told
    <2>6. /\ r.inside # "none" /\ Pending(r) =>
               r.since # Never /\ r.pendingTs # 0 /\ Armed(f) /\ Flag(fence[f], r.inside)
          /\ TwoWay(f) /\ t.count > 0 => KindOf(r.notified) = t.kind /\ r.notified # "unknown"
          /\ r.inside = "none" => t.count = 0
          /\ r.since = IF t.count = 0 THEN Never ELSE t.age
          /\ IF t.count = 0 THEN t.kind = "none" ELSE t.age # Never
      BY DEF Cells, Cell
    <2>7. /\ q.since # Never <=> r.since # Never
          /\ Pending(q) <=> Pending(r)
          /\ q.since = IF w.count = 0 THEN Never ELSE w.age
          /\ IF w.count = 0 THEN w.kind = "none" ELSE w.age # Never
      BY <2>2, <2>3, <2>4, <2>5, <2>6 DEF Pending
    <2>8. Armed(f)' = Armed(f) /\ TwoWay(f)' = TwoWay(f) /\ fence' = fence
      BY <1>1 DEF Frozen, Armed, Live, TwoWay
    <2> QED
      BY <2>2, <2>6, <2>7, <2>8 DEF Cell, Flag
  <1> QED
    BY <1>2, <1>3 DEF Cells

-----------------------------------------------------------------------------
(* Evaluations keep the flags their fences have.                           *)

AllRunning == \A e \in Evaluators : Running(e)

LEMMA RunningKept ==
  ASSUME TypeOK, AllRunning, Frozen, NEW e \in Evaluators, NEW v \in Evaluation,
         eval' = [eval EXCEPT ![e] = v],
         v.pc # "idle" => v.ts # 0,
         \A c \in v.todo : /\ v.pc = "process"
                            /\ c.enter = fence[c.fence].enter
                            /\ c.exit = fence[c.fence].exit
  PROVE  AllRunning'
  BY DEF AllRunning, Running, Frozen, TypeOK, EngineTypeOK

LEMMA RunningUnchanged == AllRunning /\ Frozen /\ UNCHANGED eval => AllRunning'
  BY DEF AllRunning, Running, Frozen

LEMMA IdleRunning == Idle.pc = "idle" /\ Idle.todo = {}
  BY DEF Idle

LEMMA StartRunning ==
  ASSUME TypeOK, AllRunning, Frozen, NEW e \in Evaluators, NEW u \in Users, NEW spot \in Spots,
         NEW ts \in 1 .. MaxTs, Start(e, u, spot, ts)
  PROVE  AllRunning'
  <1> PICK v : v = [pc |-> "query", user |-> u, spot |-> spot, ts |-> ts, todo |-> {}]
    OBVIOUS
  <1>1. v \in Evaluation /\ v.ts # 0 /\ v.todo = {}
    BY ConfigAssumption DEF Evaluation
  <1> QED
    BY <1>1, RunningKept DEF Start

(* A shorter list of candidates, or a fresh one with the present flags.    *)
LEMMA RestRunning ==
  ASSUME TypeOK, AllRunning, Frozen, NEW e \in Evaluators, eval[e].pc # "idle",
         NEW todo \in SUBSET Candidate,
         \A c \in todo : c.enter = fence[c.fence].enter /\ c.exit = fence[c.fence].exit,
         eval' = [eval EXCEPT ![e] = Rest(e, todo)]
  PROVE  AllRunning'
  <1>1. Rest(e, todo) \in Evaluation
    BY RestType DEF TypeOK
  <1>2. eval[e] \in Evaluation /\ eval[e].ts # 0
    BY DEF AllRunning, Running, TypeOK, EngineTypeOK
  <1>3. CASE todo = {}
    BY <1>1, <1>3, IdleRunning, RunningKept DEF Rest
  <1>4. CASE todo # {}
    <2>1. Rest(e, todo) = [eval[e] EXCEPT !.pc = "process", !.todo = todo]
      BY <1>4 DEF Rest
    <2>2. Rest(e, todo).pc = "process" /\ Rest(e, todo).ts # 0 /\ Rest(e, todo).todo = todo
      BY <1>2, <2>1 DEF Evaluation
    <2> QED
      BY <1>1, <2>2, RunningKept
  <1> QED
    BY <1>3, <1>4

LEMMA EngineRunning ==
  ASSUME TypeOK, AllRunning, EngineNext
  PROVE  AllRunning' /\ Frozen
  <1> USE EngineAssumption
  <1>1. CASE Ingest
    <2> PICK u \in Users, spot \in Spots, ts \in 1 .. MaxTs :
         \/ \E e \in Goroutines : IngestLocation(u, spot, ts, e) \/ IngestStationary(u, spot, ts, e)
         \/ IngestBackfill(u, spot, ts)
      BY <1>1 DEF Ingest
    <2>1. Frozen
      BY DEF IngestLocation, IngestStationary, IngestBackfill, Frozen, cvars
    <2>2. ASSUME NEW e \in Goroutines, IngestLocation(u, spot, ts, e) \/ IngestStationary(u, spot, ts, e)
          PROVE  AllRunning'
      BY <2>1, <2>2, StartRunning DEF IngestLocation, IngestStationary, Evaluators
    <2>3. CASE IngestBackfill(u, spot, ts)
      BY <2>1, <2>3, RunningUnchanged DEF IngestBackfill
    <2> QED
      BY <2>1, <2>2, <2>3
  <1>2. ASSUME NEW e \in Evaluators, EvaluateGeofences(e) PROVE AllRunning' /\ Frozen
    <2>1. Frozen
      BY <1>2 DEF EvaluateGeofences, Frozen, cvars
    <2> PICK todo : todo = IF eval[e].user \in member THEN Candidates(eval[e].user, eval[e].spot) ELSE {}
      OBVIOUS
    <2>2. todo \in SUBSET Candidate
      BY CandidatesType DEF TypeOK
    <2>3. \A c \in todo : c.enter = fence[c.fence].enter /\ c.exit = fence[c.fence].exit
      BY DEF Candidates
    <2>4. eval' = [eval EXCEPT ![e] = Rest(e, todo)] /\ eval[e].pc # "idle"
      BY <1>2 DEF EvaluateGeofences
    <2> QED
      BY <2>1, <2>2, <2>3, <2>4, RestRunning
  <1>3. ASSUME NEW e \in Evaluators, NEW c \in eval[e].todo, ProcessGeofence(e, c)
        PROVE  AllRunning' /\ Frozen
    <2>1. Frozen
      BY <1>3 DEF ProcessGeofence, Frozen
    <2> PICK todo : todo = eval[e].todo \ {c}
      OBVIOUS
    <2>2. todo \in SUBSET Candidate
      BY DEF TypeOK, EngineTypeOK, Evaluation
    <2>3. eval' = [eval EXCEPT ![e] = Rest(e, todo)] /\ eval[e].pc # "idle"
      BY <1>3 DEF ProcessGeofence, TypeOK, EngineTypeOK
    <2>4. \A d \in todo : d.enter = fence[d.fence].enter /\ d.exit = fence[d.fence].exit
      BY DEF AllRunning, Running
    <2> QED
      BY <2>1, <2>2, <2>3, <2>4, RestRunning
  <1>4. CASE Reconcile
    <2>1. Frozen
      BY <1>4 DEF Reconcile, ReconcileLatestPoints, ReconcilePoint, FirePendingNotifications,
                  FirePendingNotification, Frozen, cvars
    <2>2. ASSUME NEW pt \in recon.points, ReconcilePoint(pt) PROVE AllRunning'
      <3>1. pt.user \in Users /\ pt.spot \in Spots /\ pt.ts \in 1 .. MaxTs
        BY DEF TypeOK, EngineTypeOK
      <3> QED
        BY <2>1, <2>2, <3>1, StartRunning DEF ReconcilePoint, Evaluators
    <2>3. ASSUME ReconcileLatestPoints \/ FirePendingNotifications
                 \/ \E fu \in recon.pending : FirePendingNotification(fu[1], fu[2])
          PROVE  AllRunning'
      BY <2>1, <2>3, RunningUnchanged
         DEF ReconcileLatestPoints, FirePendingNotifications, FirePendingNotification
    <2> QED
      BY <1>4, <2>1, <2>2, <2>3 DEF Reconcile
  <1>5. CASE Tick
    BY <1>5, RunningUnchanged DEF Tick, Frozen, evars
  <1>6. CASE Fault
    <2>1. Frozen
      BY <1>6 DEF Fault, Frozen, cvars
    <2>2. ASSUME NEW e \in Evaluators, QueryFails(e) PROVE AllRunning'
      BY <2>1, <2>2, IdleType, IdleRunning, RunningKept DEF QueryFails
    <2>3. ASSUME NEW e \in Evaluators, NEW c \in eval[e].todo, TransactionFails(e, c) PROVE AllRunning'
      <3> PICK todo : todo = eval[e].todo \ {c}
        OBVIOUS
      <3>1. todo \in SUBSET Candidate
        BY DEF TypeOK, EngineTypeOK, Evaluation
      <3>2. /\ eval[e].pc # "idle"
            /\ \A d \in todo : d.enter = fence[d.fence].enter /\ d.exit = fence[d.fence].exit
        BY <2>3, IdleRunning DEF AllRunning, Running
      <3>3. eval' = [eval EXCEPT ![e] = Rest(e, todo)]
        BY <2>3 DEF TransactionFails, TypeOK, EngineTypeOK
      <3> QED
        BY <2>1, <3>1, <3>2, <3>3, RestRunning
    <2>4. CASE Restart
      <3>1. ASSUME NEW e \in Evaluators PROVE eval'[e] = Idle
        BY <2>4 DEF Restart
      <3> PICK idle : idle = Idle
        OBVIOUS
      <3>2. \A e \in Evaluators : eval'[e] = idle /\ idle.pc = "idle" /\ idle.todo = {}
        BY <3>1, IdleRunning
      <3>3. ASSUME NEW e \in Evaluators PROVE Running(e)'
        BY <3>2 DEF Running
      <3> QED
        BY <3>3, <2>1 DEF AllRunning
    <2>5. CASE \E fu \in recon.pending : FirePendingFails(fu)
      BY <2>1, <2>5, RunningUnchanged DEF FirePendingFails
    <2> QED
      BY <1>6, <2>1, <2>2, <2>3, <2>4, <2>5 DEF Fault
  <1> QED
    BY <1>1, <1>2, <1>3, <1>4, <1>5, <1>6 DEF EngineNext, Evaluate

-----------------------------------------------------------------------------
LEMMA SteadyInit == Init => SteadyInv /\ Stream!Init
  <1> SUFFICES ASSUME Init PROVE SteadyInv /\ Stream!Init
    OBVIOUS
  <1>1. TypeOK
    BY TypeInit
  <1>2. ASSUME NEW f \in Fences, NEW u \in Users PROVE Cell(f, u)
    BY <1>2 DEF Init, ConfigInit, Cell, NoRow, NothingTold
  <1>3. ASSUME NEW e \in Evaluators PROVE Running(e)
    BY <1>3, IdleRunning DEF Init, EngineInit, Running
  <1>4. Stream!Init
    <2>1. Asked \in [Fences -> [Users -> SUBSET Kinds]]
      BY DEF Asked
    <2> QED
      BY <2>1 DEF Init, ConfigInit, Stream!Init, Stream!Kinds, Stream!NothingTold, NothingTold, Never, Kinds
  <1> QED
    BY <1>1, <1>2, <1>3, <1>4, SteadyInvCells

LEMMA SteadyStep ==
  SteadyInv /\ [EngineNext]_vars => SteadyInv' /\ [Stream!Next]_<<Asked, told>>
  <1> SUFFICES ASSUME SteadyInv, [EngineNext]_vars
               PROVE  SteadyInv' /\ [Stream!Next]_<<Asked, told>>
    OBVIOUS
  <1>1. TypeOK /\ Cells /\ AllRunning
    BY SteadyInvCells DEF Cells, AllRunning
  <1>2. TypeOK'
    BY <1>1, TypeStep DEF Next
  <1>3. CASE EngineNext
    <2>1. AllRunning' /\ Frozen
      BY <1>1, <1>3, EngineRunning
    <2>2. ASSUME Cells' /\ (UNCHANGED told \/ SomeReport \/ Stream!Pass)
          PROVE  SteadyInv' /\ [Stream!Next]_<<Asked, told>>
      <3>1. SteadyInv'
        BY <1>2, <2>1, <2>2, SteadyInvCells, PTL DEF Cells, AllRunning
      <3>2. UNCHANGED Asked
        BY <2>1, FrozenAsked
      <3> QED
        BY <2>2, <3>1, <3>2 DEF SomeReport, Reports, Stream!Next, Stream!Kinds, Kinds
    <2>3. CASE UNCHANGED <<row, told>>
      BY <1>1, <2>1, <2>2, <2>3, QuietCells
    <2>4. ASSUME NEW e \in Evaluators, NEW c \in eval[e].todo, ProcessGeofence(e, c)
          PROVE  Cells' /\ (UNCHANGED told \/ SomeReport)
      BY <1>1, <2>4, ProcessCells DEF AllRunning
    <2>5. ASSUME NEW fu \in recon.pending, FirePendingNotification(fu[1], fu[2])
          PROVE  Cells' /\ (UNCHANGED told \/ SomeReport)
      <3>1. fu[1] \in Fences /\ fu[2] \in Users
        BY <1>1 DEF TypeOK, EngineTypeOK
      <3> QED
        BY <1>1, <2>5, <3>1, FirePendingCells
    <2>6. CASE Tick
      BY <1>1, <2>2, <2>6, TickCells
    <2> QED
      BY <1>3, <2>2, <2>3, <2>4, <2>5, <2>6
         DEF EngineNext, Ingest, IngestLocation, IngestStationary, IngestBackfill, Evaluate,
             EvaluateGeofences, Reconcile, ReconcileLatestPoints, ReconcilePoint,
             FirePendingNotifications, Fault, cvars
  <1>4. CASE UNCHANGED vars
    <2>1. Frozen /\ UNCHANGED <<row, told, eval>>
      BY <1>4 DEF vars, cvars, evars, Frozen
    <2>2. Cells' /\ AllRunning' /\ UNCHANGED Asked
      BY <1>1, <2>1, QuietCells, RunningUnchanged, FrozenAsked
    <2>3. SteadyInv'
      BY <1>2, <2>2, SteadyInvCells, PTL DEF Cells, AllRunning
    <2> QED
      BY <2>1, <2>2, <2>3
  <1> QED
    BY <1>3, <1>4

(* The inductive invariant of the runs without configuration changes.      *)
THEOREM SteadyInvariant == SteadySpec => []SteadyInv
  BY SteadyInit, SteadyStep, PTL DEF SteadySpec

(* A crossing held back by the debounce window stays selectable by the     *)
(* worker's query until it is announced or withdrawn.                      *)
THEOREM PendingStaysSelectable == SteadySpec => []PendingIsSelectable
  <1>1. SteadyInv => PendingIsSelectable
    BY DEF SteadyInv
  <1> QED
    BY <1>1, SteadyInvariant, PTL

(* What last_notified_inside says is what the last event said.             *)
THEOREM BeliefMatchesEvents == SteadySpec => []BeliefIsTold
  <1>1. SteadyInv => BeliefIsTold
    BY DEF SteadyInv
  <1> QED
    BY <1>1, SteadyInvariant, PTL

(* Evaluation implements the abstract stream of reports.                   *)
THEOREM EventsAreAStream == SteadySpec => ImplementsStream
  BY SteadyInit, SteadyStep, PTL DEF SteadySpec, ImplementsStream, Stream!Spec

-----------------------------------------------------------------------------
(* The order of events.  What a row holds back happened after the newest   *)
(* event and no later than the newest fix the row has seen.                *)

Ordered(f, u) ==
    LET r == row[f][u]
        t == told[f][u]
    IN  /\ t.count = 0 => t.ts = 0
        /\ t.ts <= r.lastSeen
        /\ r.inside # "none" /\ Pending(r) => t.ts <= r.pendingTs /\ r.pendingTs <= r.lastSeen

AllOrdered == \A f \in Fences, u \in Users : Ordered(f, u)

(* No pair is told of a crossing earlier than the one it was told last.    *)
Later(f, u) == told'[f][u].count > told[f][u].count => told'[f][u].ts >= told[f][u].ts
AllLater == \A f \in Fences, u \in Users : Later(f, u)

(* What decides the order, before and after a step that writes one pair.   *)
LEMMA OrderedWrite ==
  ASSUME TypeOK, NEW f \in Fences, NEW u \in Users, Ordered(f, u), NEW r \in StateRow,
         SetRow(f, u, r), row[f][u].lastSeen <= r.lastSeen \/ told[f][u].count = 0,
         \/ /\ UNCHANGED told
            /\ Pending(r) => told[f][u].ts <= r.pendingTs /\ r.pendingTs <= r.lastSeen
         \/ \E kind : \E ts \in 0 .. MaxTs :
               /\ Record(f, u, kind, ts) /\ told[f][u].ts <= ts /\ ts <= r.lastSeen
               /\ Pending(r) => ts <= r.pendingTs /\ r.pendingTs <= r.lastSeen
  PROVE  Ordered(f, u)' /\ Later(f, u)
  <1>1. row'[f][u] = r /\ told[f][u] \in Told /\ row[f][u] \in StateRow
    BY DEF SetRow, TypeOK, ConfigTypeOK
  <1> PICK t, old : t = told[f][u] /\ old = row[f][u]
    OBVIOUS
  <1>2. /\ t.count \in Nat /\ t.ts \in Nat /\ r.lastSeen \in Nat /\ r.pendingTs \in Nat
        /\ old.lastSeen \in Nat
    BY <1>1, ConfigAssumption DEF Told, StateRow
  <1>3. /\ t.count = 0 => t.ts = 0
        /\ t.ts <= old.lastSeen
    BY DEF Ordered
  <1>4. CASE /\ UNCHANGED told
             /\ Pending(r) => t.ts <= r.pendingTs /\ r.pendingTs <= r.lastSeen
    <2>1. told'[f][u] = t
      BY <1>4
    <2> QED
      BY <1>1, <1>2, <1>3, <1>4, <2>1 DEF Ordered, Later, Pending
  <1>5. ASSUME NEW kind, NEW ts \in 0 .. MaxTs, Record(f, u, kind, ts), t.ts <= ts,
               ts <= r.lastSeen, Pending(r) => ts <= r.pendingTs /\ r.pendingTs <= r.lastSeen
        PROVE  Ordered(f, u)' /\ Later(f, u)
    <2>1. told'[f][u] = [kind |-> kind, ts |-> ts, age |-> 0, count |-> t.count + 1]
      BY <1>5 DEF Record, TypeOK, ConfigTypeOK
    <2>2. told'[f][u].ts = ts /\ told'[f][u].count = t.count + 1
      BY <2>1
    <2> QED
      BY <1>1, <1>2, <1>5, <2>2 DEF Ordered, Later, Pending
  <1> QED
    BY <1>4, <1>5

LEMMA ObserveOrdered ==
  ASSUME TypeOK, NEW f \in Fences, NEW u \in Users, Cell(f, u), Ordered(f, u),
         NEW c, NEW side \in Sides, NEW ts \in 1 .. MaxTs, Observe(f, u, c, side, ts)
  PROVE  Ordered(f, u)' /\ Later(f, u)
  <1> PICK r, moved, t : /\ r = row[f][u] /\ moved = Moved(f, u, side, ts)
                         /\ t = told[f][u]
    OBVIOUS
  <1>1. r \in StateRow /\ moved \in StateRow /\ t \in Told
    <2>1. ts \in 0 .. MaxTs
      BY ConfigAssumption
    <2>2. Concerns(f, u)
      BY DEF Observe
    <2> QED
      BY <2>1, <2>2, MovedType DEF TypeOK, ConfigTypeOK
  <1>2. /\ moved = [r EXCEPT !.inside = side, !.lastSeen = ts, !.basis = place[fence[f].place].area, !.escaped = FALSE]
        /\ moved.inside = side /\ moved.lastSeen = ts
        /\ moved.notified = r.notified /\ moved.pendingTs = r.pendingTs
    BY <1>1 DEF Moved, StateRow
  <1>3. /\ r.lastSeen \in Nat /\ r.pendingTs \in Nat /\ t.ts \in Nat /\ t.count \in Nat
        /\ 0 \in Ages /\ 0 \in 0 .. MaxTs /\ ts \in 0 .. MaxTs /\ ts \in Nat
    BY <1>1, ConfigAssumption DEF StateRow, Told, Ages, Never
  <1>4. /\ r.inside = "none" => t.count = 0
        /\ r.inside # "none" => r.lastSeen <= ts
    BY <1>3 DEF Observe, Stale, Cell
  <1>5. /\ t.count = 0 => t.ts = 0
        /\ t.ts <= r.lastSeen
        /\ r.inside # "none" /\ Pending(r) => t.ts <= r.pendingTs /\ r.pendingTs <= r.lastSeen
    BY DEF Ordered
  <1>6. t.ts <= ts
    BY <1>3, <1>4, <1>5
  <1>7. CASE Baseline(f, u, side, ts)
    <2> DEFINE new == [inside |-> side, notified |-> IF side = "in" THEN "unknown" ELSE "out",
                       since |-> Never, pendingTs |-> 0, lastSeen |-> ts,
                       basis |-> place[fence[f].place].area, escaped |-> FALSE]
    <2>1. new \in StateRow
      BY <1>3, ConfigAssumption DEF StateRow, Sides, Ages, Never, Observe, Concerns,
                                    TypeOK, ConfigTypeOK, FenceRecord, PlaceRecord
    <2>2. ~Pending(new) /\ t.count = 0
      BY <1>4, <1>7 DEF Baseline, Pending, Sides
    <2>3. SetRow(f, u, new) /\ UNCHANGED told
      BY <1>7 DEF Baseline
    <2> HIDE DEF new
    <2> QED
      BY <2>1, <2>2, <2>3, OrderedWrite
  <1>8. CASE Stay(f, u, side, ts)
    <2>1. r.inside = side /\ SetRow(f, u, moved) /\ UNCHANGED told
      BY <1>8 DEF Stay
    <2>2. r.lastSeen <= moved.lastSeen /\ r.inside # "none"
      BY <1>2, <1>4, <2>1 DEF Sides
    <2>3. Pending(moved) => t.ts <= moved.pendingTs /\ moved.pendingTs <= moved.lastSeen
      BY <1>2, <1>3, <1>4, <1>5, <2>1, <2>2 DEF Pending
    <2> QED
      BY <1>1, <2>1, <2>2, <2>3, OrderedWrite
  <1>9. CASE Cross(f, u, c, side, ts) /\ Fire(f, u, c, side, ts)
    <2> PICK new : new = [moved EXCEPT !.notified = side, !.since = 0, !.pendingTs = 0]
      OBVIOUS
    <2>1. /\ new \in StateRow /\ new.lastSeen = ts
          /\ new.inside = side /\ new.notified = side
      BY <1>1, <1>2, <1>3 DEF StateRow
    <2>2. SetRow(f, u, new) /\ Record(f, u, KindOf(side), ts)
      BY <1>9 DEF Fire
    <2>3. ~Pending(new) /\ r.lastSeen <= new.lastSeen /\ ts <= new.lastSeen
      BY <1>3, <1>4, <1>9, <2>1 DEF Pending, Cross
    <2> QED
      BY <1>3, <1>6, <2>1, <2>2, <2>3, OrderedWrite
  <1>10. CASE Cross(f, u, c, side, ts) /\ FireOlder(f, u, c, side, ts)
    <2> PICK old : old = r.inside
      OBVIOUS
    <2> PICK new : new = [moved EXCEPT !.notified = old, !.since = 0, !.pendingTs = ts]
      OBVIOUS
    <2>1. old \in Sides /\ old # side /\ old # "none" /\ r.notified = side
      BY <1>1, <1>10 DEF Cross, FireOlder, StateRow
    <2>2. /\ new \in StateRow /\ new.lastSeen = ts /\ new.pendingTs = ts
      BY <1>1, <1>2, <1>3, <2>1 DEF StateRow
    <2>3. Pending(r)
      BY <2>1 DEF Pending, Sides
    <2>4. SetRow(f, u, new) /\ Record(f, u, KindOf(old), r.pendingTs)
      BY <1>10 DEF FireOlder
    <2>5. /\ t.ts <= r.pendingTs /\ r.pendingTs <= new.lastSeen /\ r.pendingTs <= new.pendingTs
          /\ r.lastSeen <= new.lastSeen /\ new.pendingTs <= new.lastSeen
          /\ r.pendingTs \in 0 .. MaxTs
      BY <1>1, <1>3, <1>4, <1>5, <2>1, <2>2, <2>3 DEF StateRow
    <2> QED
      BY <2>2, <2>4, <2>5, OrderedWrite
  <1>11. CASE Cross(f, u, c, side, ts) /\ Postpone(f, u, c, side, ts)
    <2> PICK new : new = [moved EXCEPT !.pendingTs = ts]
      OBVIOUS
    <2>1. new \in StateRow /\ new.lastSeen = ts /\ new.pendingTs = ts
      BY <1>1, <1>2, <1>3 DEF StateRow
    <2>2. SetRow(f, u, new) /\ UNCHANGED told
      BY <1>11 DEF Postpone
    <2>3. r.lastSeen <= new.lastSeen /\ t.ts <= new.pendingTs /\ new.pendingTs <= new.lastSeen
      BY <1>3, <1>4, <1>6, <1>11, <2>1 DEF Cross
    <2> QED
      BY <2>1, <2>2, <2>3, OrderedWrite
  <1>12. CASE Cross(f, u, c, side, ts) /\ Sync(f, u, c, side, ts)
    <2> PICK new : new = [moved EXCEPT !.notified = side, !.pendingTs = 0]
      OBVIOUS
    <2>1. new \in StateRow /\ new.lastSeen = ts /\ new.inside = side /\ new.notified = side
      BY <1>1, <1>2, <1>3 DEF StateRow
    <2>2. SetRow(f, u, new) /\ UNCHANGED told
      BY <1>12 DEF Sync
    <2>3. ~Pending(new) /\ r.lastSeen <= new.lastSeen
      BY <1>4, <1>12, <2>1 DEF Pending, Cross
    <2> QED
      BY <2>1, <2>2, <2>3, OrderedWrite
  <1> QED
    BY <1>7, <1>8, <1>9, <1>10, <1>11, <1>12 DEF Observe, Cross

LEMMA OtherOrdered ==
  ASSUME TypeOK, NEW f \in Fences, NEW u \in Users, NEW g \in Fences, NEW v \in Users,
         <<g, v>> # <<f, u>>, Ordered(g, v),
         row' = row \/ \E r : SetRow(f, u, r),
         told' = told \/ \E kind, ts : Record(f, u, kind, ts)
  PROVE  Ordered(g, v)' /\ Later(g, v)
  <1>1. row'[g][v] = row[g][v] /\ told'[g][v] = told[g][v]
    BY DEF SetRow, Record, TypeOK, ConfigTypeOK
  <1>2. told[g][v].count \in Nat
    BY DEF TypeOK, ConfigTypeOK, Told
  <1> QED
    BY <1>1, <1>2 DEF Ordered, Later, Pending

LEMMA QuietOrdered ==
  ASSUME TypeOK, AllOrdered, UNCHANGED <<row, told>>
  PROVE  AllOrdered' /\ AllLater
  <1>1. \A f \in Fences, u \in Users : told[f][u].count \in Nat
    BY DEF TypeOK, ConfigTypeOK, Told
  <1> QED
    BY <1>1 DEF AllOrdered, AllLater, Ordered, Later, Pending

LEMMA ProcessOrdered ==
  ASSUME TypeOK, Cells, AllOrdered, NEW e \in Evaluators, Running(e), NEW c \in eval[e].todo,
         ProcessGeofence(e, c)
  PROVE  AllOrdered' /\ AllLater
  <1>1. /\ c \in Candidate /\ c.fence \in Fences
        /\ eval[e].user \in Users
        /\ eval[e].ts \in 1 .. MaxTs
        /\ Side(eval[e].spot, fence[c.fence].place) \in Sides
    BY SideType, ConfigAssumption
       DEF TypeOK, EngineTypeOK, Evaluation, Candidate, Running, ProcessGeofence
  <1> PICK f \in Fences, u \in Users, ts \in 1 .. MaxTs, side \in Sides :
         /\ f = c.fence /\ u = eval[e].user /\ ts = eval[e].ts
         /\ side = Side(eval[e].spot, fence[f].place)
    BY <1>1
  <1>2. CASE Ignore(f, u, ts)
    BY <1>2, QuietOrdered DEF Ignore
  <1>3. CASE Observe(f, u, c, side, ts)
    <2>1. Ordered(f, u)' /\ Later(f, u)
      BY <1>3, ObserveOrdered DEF Cells, AllOrdered
    <2>2. ASSUME NEW g \in Fences, NEW v \in Users, <<g, v>> # <<f, u>>
          PROVE  Ordered(g, v)' /\ Later(g, v)
      BY <1>3, <2>2, ObserveWrites, OtherOrdered DEF AllOrdered
    <2>3. ASSUME NEW g \in Fences, NEW v \in Users PROVE Ordered(g, v)' /\ Later(g, v)
      <3>1. CASE g = f /\ v = u
        BY <2>1, <3>1
      <3>2. CASE <<g, v>> # <<f, u>>
        BY <2>2, <3>2
      <3> QED
        BY <3>1, <3>2
    <2> QED
      BY <2>3 DEF AllOrdered, AllLater
  <1> QED
    BY <1>2, <1>3 DEF ProcessGeofence

LEMMA FirePendingOrdered ==
  ASSUME TypeOK, AllOrdered, NEW f \in Fences, NEW u \in Users, FirePendingNotification(f, u)
  PROVE  AllOrdered' /\ AllLater
  <1>1. CASE UNCHANGED <<row, told>>
    BY <1>1, QuietOrdered
  <1>2. CASE /\ StillDue(f, u)
             /\ SetRow(f, u, [row[f][u] EXCEPT !.notified = row[f][u].inside,
                                               !.since = 0, !.pendingTs = 0])
             /\ Record(f, u, KindOf(row[f][u].inside), row[f][u].pendingTs)
    <2> PICK r, t : r = row[f][u] /\ t = told[f][u]
      OBVIOUS
    <2> PICK new : new = [r EXCEPT !.notified = r.inside, !.since = 0, !.pendingTs = 0]
      OBVIOUS
    <2>1. /\ r \in StateRow /\ t \in Told /\ 0 \in Ages /\ 0 \in 0 .. MaxTs
      BY ConfigAssumption DEF TypeOK, ConfigTypeOK, Ages, Never
    <2>2. r.inside \in Sides /\ r.inside # "none" /\ Pending(r)
      BY <1>2, <2>1 DEF StillDue, StateRow
    <2>3. /\ new \in StateRow /\ new.inside = r.inside /\ new.notified = r.inside
          /\ new.lastSeen = r.lastSeen
      BY <2>1, <2>2 DEF StateRow
    <2>4. /\ t.ts <= r.pendingTs /\ r.pendingTs <= new.lastSeen
          /\ r.pendingTs \in 0 .. MaxTs /\ r.lastSeen <= new.lastSeen /\ ~Pending(new)
      BY <2>1, <2>2, <2>3, ConfigAssumption DEF AllOrdered, Ordered, StateRow, Pending
    <2>5. SetRow(f, u, new) /\ Record(f, u, KindOf(r.inside), r.pendingTs)
      BY <1>2
    <2>6. Ordered(f, u)' /\ Later(f, u)
      BY <2>3, <2>4, <2>5, OrderedWrite DEF AllOrdered
    <2>7. ASSUME NEW g \in Fences, NEW v \in Users PROVE Ordered(g, v)' /\ Later(g, v)
      <3>1. CASE g = f /\ v = u
        BY <2>6, <3>1
      <3>2. CASE <<g, v>> # <<f, u>>
        BY <2>5, <3>2, OtherOrdered DEF AllOrdered
      <3> QED
        BY <3>1, <3>2
    <2> QED
      BY <2>7 DEF AllOrdered, AllLater
  <1> QED
    BY <1>1, <1>2 DEF FirePendingNotification

LEMMA TickOrdered ==
  ASSUME TypeOK, AllOrdered, Tick
  PROVE  AllOrdered' /\ AllLater
  <1>1. ASSUME NEW f \in Fences, NEW u \in Users PROVE Ordered(f, u)' /\ Later(f, u)
    <2> PICK r, t, q, w : /\ r = row[f][u] /\ t = told[f][u]
                          /\ q = row'[f][u] /\ w = told'[f][u]
      OBVIOUS
    <2>1. /\ r \in StateRow /\ t \in Told
          /\ q = [r EXCEPT !.since = Older(@)]
          /\ w = [t EXCEPT !.age = Older(@)]
      BY DEF Tick, TypeOK, ConfigTypeOK
    <2>2. /\ q.inside = r.inside /\ q.notified = r.notified /\ q.pendingTs = r.pendingTs
          /\ q.lastSeen = r.lastSeen /\ w.count = t.count /\ w.ts = t.ts /\ t.count \in Nat
      BY <2>1 DEF StateRow, Told
    <2> QED
      BY <2>2 DEF AllOrdered, Ordered, Later, Pending
  <1> QED
    BY <1>1 DEF AllOrdered, AllLater

LEMMA OrderedStep == SteadyInv /\ AllOrdered /\ [EngineNext]_vars => AllOrdered' /\ AllLater
  <1> SUFFICES ASSUME SteadyInv, AllOrdered, [EngineNext]_vars PROVE AllOrdered' /\ AllLater
    OBVIOUS
  <1>1. TypeOK /\ Cells /\ AllRunning
    BY SteadyInvCells DEF Cells, AllRunning
  <1>2. CASE UNCHANGED <<row, told>>
    BY <1>1, <1>2, QuietOrdered
  <1>3. ASSUME NEW e \in Evaluators, NEW c \in eval[e].todo, ProcessGeofence(e, c)
        PROVE  AllOrdered' /\ AllLater
    BY <1>1, <1>3, ProcessOrdered DEF AllRunning
  <1>4. ASSUME NEW fu \in recon.pending, FirePendingNotification(fu[1], fu[2])
        PROVE  AllOrdered' /\ AllLater
    <2>1. fu[1] \in Fences /\ fu[2] \in Users
      BY <1>1 DEF TypeOK, EngineTypeOK
    <2> QED
      BY <1>1, <1>4, <2>1, FirePendingOrdered
  <1>5. CASE Tick
    BY <1>1, <1>5, TickOrdered
  <1>6. CASE UNCHANGED vars
    BY <1>2, <1>6 DEF vars, cvars
  <1> QED
    BY <1>2, <1>3, <1>4, <1>5, <1>6
       DEF EngineNext, Ingest, IngestLocation, IngestStationary, IngestBackfill, Evaluate,
           EvaluateGeofences, Reconcile, ReconcileLatestPoints, ReconcilePoint,
           FirePendingNotifications, Fault, cvars

(* Events of a fence and a user are recorded in the order of the crossings *)
(* they report: what processGeofence and firePendingNotification hold back *)
(* keeps the time it happened, and no fix older than the row is applied.   *)
THEOREM EventsKeepOrder == SteadySpec => EventsInOrder
  <1>1. Init => AllOrdered
    BY DEF Init, ConfigInit, AllOrdered, Ordered, NoRow, NothingTold
  <1>2. SteadyInv /\ AllOrdered /\ [EngineNext]_vars =>
          AllOrdered' /\ [\A f \in Fences, u \in Users :
             told'[f][u].count > told[f][u].count => told'[f][u].ts >= told[f][u].ts]_vars
    BY OrderedStep DEF AllLater, Later
  <1> QED
    BY <1>1, <1>2, SteadyInvariant, PTL DEF SteadySpec, EventsInOrder

-----------------------------------------------------------------------------
(* What is held back is told.  A fence that reports both directions cannot *)
(* take either branch that gives a crossing up unannounced (Sync, for a    *)
(* direction not asked for or a window still open), so once the window has *)
(* passed the pending crossing stays pending or is recorded.               *)

Keeps(f, u) == TwoWay(f) => ~DropsPending(f, u)
AllKeep == \A f \in Fences, u \in Users : Keeps(f, u)

LEMMA SameRowKeeps ==
  ASSUME NEW f \in Fences, NEW u \in Users, row'[f][u] = row[f][u]
  PROVE  Keeps(f, u)
  BY DEF Keeps, DropsPending, Pending

LEMMA RecordKeeps ==
  ASSUME TypeOK, NEW f \in Fences, NEW u \in Users, NEW kind, NEW ts, Record(f, u, kind, ts)
  PROVE  Keeps(f, u)
  <1>1. told'[f][u].count = told[f][u].count + 1 /\ told[f][u].count \in Nat
    BY DEF Record, TypeOK, ConfigTypeOK, Told
  <1> QED
    BY <1>1 DEF Keeps, DropsPending

LEMMA ObserveKeeps ==
  ASSUME TypeOK, NEW f \in Fences, NEW u \in Users,
         NEW c, c.enter = fence[f].enter, c.exit = fence[f].exit,
         NEW side \in Sides, NEW ts \in 1 .. MaxTs, Observe(f, u, c, side, ts)
  PROVE  Keeps(f, u)
  <1> PICK r : r = row[f][u]
    OBVIOUS
  <1>1. r \in StateRow
    BY DEF TypeOK, ConfigTypeOK
  <1>2. CASE Baseline(f, u, side, ts)
    BY <1>2 DEF Baseline, Keeps, DropsPending
  <1>3. CASE Stay(f, u, side, ts)
    <2>1. row'[f][u] = [r EXCEPT !.inside = side, !.lastSeen = ts, !.basis = place[fence[f].place].area, !.escaped = FALSE]
      BY <1>3 DEF Stay, SetRow, Moved, TypeOK, ConfigTypeOK
    <2>2. row'[f][u].inside = r.inside /\ row'[f][u].notified = r.notified
      BY <1>1, <1>3, <2>1 DEF Stay, StateRow
    <2> QED
      BY <2>2 DEF Keeps, DropsPending, Pending
  <1>4. CASE Fire(f, u, c, side, ts) \/ FireOlder(f, u, c, side, ts)
    BY <1>4, RecordKeeps DEF Fire, FireOlder
  <1>5. CASE Postpone(f, u, c, side, ts)
    BY <1>5 DEF Postpone, Elapsed, Keeps, DropsPending
  <1>6. CASE Sync(f, u, c, side, ts)
    <2>1. CASE ~Flag(c, side)
      BY <2>1 DEF Flag, Keeps, TwoWay
    <2>2. CASE ~Elapsed(row[f][u])
      BY <2>2 DEF Elapsed, Keeps, DropsPending
    <2> QED
      BY <1>6, <2>1, <2>2 DEF Sync
  <1> QED
    BY <1>2, <1>3, <1>4, <1>5, <1>6 DEF Observe, Cross

LEMMA OtherKeeps ==
  ASSUME TypeOK, NEW f \in Fences, NEW u \in Users, NEW g \in Fences, NEW v \in Users,
         <<g, v>> # <<f, u>>, row' = row \/ \E r : SetRow(f, u, r)
  PROVE  Keeps(g, v)
  <1>1. row'[g][v] = row[g][v]
    BY DEF SetRow, TypeOK, ConfigTypeOK
  <1> QED
    BY <1>1, SameRowKeeps

LEMMA QuietKeeps == ASSUME UNCHANGED row PROVE AllKeep
  BY SameRowKeeps DEF AllKeep

LEMMA ProcessKeeps ==
  ASSUME TypeOK, NEW e \in Evaluators, Running(e), NEW c \in eval[e].todo, ProcessGeofence(e, c)
  PROVE  AllKeep
  <1>1. /\ c \in Candidate /\ c.fence \in Fences
        /\ c.enter = fence[c.fence].enter /\ c.exit = fence[c.fence].exit
        /\ eval[e].user \in Users
        /\ eval[e].ts \in 1 .. MaxTs
        /\ Side(eval[e].spot, fence[c.fence].place) \in Sides
    BY SideType, ConfigAssumption
       DEF TypeOK, EngineTypeOK, Evaluation, Candidate, Running, ProcessGeofence
  <1> PICK f \in Fences, u \in Users, ts \in 1 .. MaxTs, side \in Sides :
         /\ f = c.fence /\ u = eval[e].user /\ ts = eval[e].ts
         /\ side = Side(eval[e].spot, fence[f].place)
    BY <1>1
  <1>2. CASE Ignore(f, u, ts)
    BY <1>2, QuietKeeps DEF Ignore
  <1>3. CASE Observe(f, u, c, side, ts)
    <2>1. Keeps(f, u)
      BY <1>1, <1>3, ObserveKeeps
    <2>2. ASSUME NEW g \in Fences, NEW v \in Users PROVE Keeps(g, v)
      <3>1. CASE g = f /\ v = u
        BY <2>1, <3>1
      <3>2. CASE <<g, v>> # <<f, u>>
        BY <1>3, <3>2, ObserveWrites, OtherKeeps
      <3> QED
        BY <3>1, <3>2
    <2> QED
      BY <2>2 DEF AllKeep
  <1> QED
    BY <1>2, <1>3 DEF ProcessGeofence

LEMMA FirePendingKeeps ==
  ASSUME TypeOK, NEW f \in Fences, NEW u \in Users, FirePendingNotification(f, u)
  PROVE  AllKeep
  <1>1. CASE UNCHANGED row
    BY <1>1, QuietKeeps
  <1>2. ASSUME NEW r, SetRow(f, u, r), NEW kind, NEW ts, Record(f, u, kind, ts)
        PROVE  AllKeep
    <2>1. ASSUME NEW g \in Fences, NEW v \in Users PROVE Keeps(g, v)
      <3>1. CASE g = f /\ v = u
        BY <1>2, <3>1, RecordKeeps
      <3>2. CASE <<g, v>> # <<f, u>>
        BY <1>2, <3>2, OtherKeeps
      <3> QED
        BY <3>1, <3>2
    <2> QED
      BY <2>1 DEF AllKeep
  <1> QED
    BY <1>1, <1>2 DEF FirePendingNotification

LEMMA TickKeeps == ASSUME TypeOK, Tick PROVE AllKeep
  <1>1. ASSUME NEW f \in Fences, NEW u \in Users PROVE Keeps(f, u)
    <2>1. row[f][u] \in StateRow /\ row'[f][u] = [row[f][u] EXCEPT !.since = Older(@)]
      BY DEF Tick, TypeOK, ConfigTypeOK
    <2>2. row'[f][u].inside = row[f][u].inside /\ row'[f][u].notified = row[f][u].notified
      BY <2>1 DEF StateRow
    <2> QED
      BY <2>2 DEF Keeps, DropsPending, Pending
  <1> QED
    BY <1>1 DEF AllKeep

LEMMA KeepStep == SteadyInv /\ [EngineNext]_vars => AllKeep
  <1> SUFFICES ASSUME SteadyInv, [EngineNext]_vars PROVE AllKeep
    OBVIOUS
  <1>1. TypeOK /\ AllRunning
    BY SteadyInvCells DEF AllRunning
  <1>2. CASE UNCHANGED row
    BY <1>2, QuietKeeps
  <1>3. ASSUME NEW e \in Evaluators, NEW c \in eval[e].todo, ProcessGeofence(e, c)
        PROVE  AllKeep
    BY <1>1, <1>3, ProcessKeeps DEF AllRunning
  <1>4. ASSUME NEW fu \in recon.pending, FirePendingNotification(fu[1], fu[2])
        PROVE  AllKeep
    <2>1. fu[1] \in Fences /\ fu[2] \in Users
      BY <1>1 DEF TypeOK, EngineTypeOK
    <2> QED
      BY <1>1, <1>4, <2>1, FirePendingKeeps
  <1>5. CASE Tick
    BY <1>1, <1>5, TickKeeps
  <1>6. CASE UNCHANGED vars
    BY <1>2, <1>6 DEF vars, cvars
  <1> QED
    BY <1>2, <1>3, <1>4, <1>5, <1>6
       DEF EngineNext, Ingest, IngestLocation, IngestStationary, IngestBackfill, Evaluate,
           EvaluateGeofences, Reconcile, ReconcileLatestPoints, ReconcilePoint,
           FirePendingNotifications, Fault, cvars

(* A crossing held back whose window has passed is never given up without  *)
(* an event when the fence asks for arrivals and departures, whatever late *)
(* fix, worker pass, fault or restart comes next (geofence_eval.go:296).   *)
THEOREM PendingIsNotLost == SteadySpec => NoPendingLostTwoWay
  <1>1. SteadyInv /\ [EngineNext]_vars =>
          [\A f \in Fences, u \in Users : TwoWay(f) => ~DropsPending(f, u)]_vars
    BY KeepStep DEF AllKeep, Keeps
  <1> QED
    BY <1>1, SteadyInvariant, PTL DEF SteadySpec, NoPendingLostTwoWay
=============================================================================
