--------------------------- MODULE LocationStore ---------------------------
(***************************************************************************)
(* The server's side of location reports of one user: the tables           *)
(* `locations` and `member_positions`, POST /locations (location.go) and   *)
(* POST /locations/batch (location_batch.go).  A live report is checked    *)
(* and stored under the lock of the user's row; a batch takes no lock: it  *)
(* reads which of its fixes are stored and then inserts the others.        *)
(*                                                                         *)
(* A fix is its timestamp.  A request stays on the server until it is      *)
(* done, whether or not the device still waits for the answer.             *)
(***************************************************************************)
EXTENDS Integers, FiniteSets, FiniteSetsExt

CONSTANTS
    Requests,       \* requests that may be under way at once
    Clients,        \* who sends requests
    Nobody,         \* the sender has stopped waiting
    Accounts,       \* owners of the reporting device, one session after another
    MaxTs           \* bound: fixes, numbered in time order

Times == 1 .. MaxTs
Point == [ts: Times, owner: Accounts]

VARIABLES
    stored,         \* how many rows of `locations` each fix has
    position,       \* member_positions.ts; 0: no row
    req             \* the requests under way

svars == <<stored, position, req>>

Request == [pc: {"free", "sent", "checked", "done"}, from: Clients \cup {Nobody},
            kind: {"live", "batch"}, account: Accounts, points: SUBSET Point,
            known: SUBSET Times, ok: BOOLEAN]
Free == [pc |-> "free", from |-> Nobody, kind |-> "live",
         account |-> CHOOSE a \in Accounts : TRUE, points |-> {}, known |-> {}, ok |-> FALSE]

StoreTypeOK ==
    /\ stored \in [Times -> Nat]
    /\ position \in 0 .. MaxTs
    /\ req \in [Requests -> Request]

StoreInit ==
    /\ stored = [t \in Times |-> 0]
    /\ position = 0
    /\ req = [r \in Requests |-> Free]

Stored == {t \in Times : stored[t] > 0}
Newest(ts) == IF ts = {} THEN 0 ELSE Max(ts)
PointTimes(r) == {p.ts : p \in req[r].points}

Post(r, client, kind, account, points) ==
    /\ req[r].pc = "free"
    /\ req' = [req EXCEPT ![r] = [pc |-> "sent", from |-> client, kind |-> kind,
                                  account |-> account, points |-> points,
                                  known |-> {}, ok |-> FALSE]]

(* Once done, a request nobody waits for is forgotten.                     *)
Done(r, ok) == req' = [req EXCEPT ![r] =
                          IF @.from = Nobody THEN Free ELSE [@ EXCEPT !.pc = "done", !.ok = ok]]

-----------------------------------------------------------------------------
(* Devices belong to the account they were registered under.               *)
Owned(r) == \A p \in req[r].points : p.owner = req[r].account

UserLocked == \E r \in Requests : req[r].kind = "live" /\ req[r].pc = "checked"

(* IngestLocation: a fix that is not newer than every stored one is        *)
(* refused; a stationary one is acknowledged and not stored.               *)
LiveCheck(r) ==
    /\ req[r].pc = "sent" /\ req[r].kind = "live"
    /\ ~UserLocked
    /\ LET fresh == Newest(PointTimes(r)) > Newest(Stored)
       IN  \/ ~(Owned(r) /\ fresh) /\ Done(r, FALSE)
           \/ Owned(r) /\ fresh /\ position # 0 /\ Done(r, TRUE)
           \/ Owned(r) /\ fresh /\ req' = [req EXCEPT ![r].pc = "checked"]
    /\ UNCHANGED <<stored, position>>

(* Mutant: the position follows the last write.                            *)
UpsertAlways(ts) == position' = IF ts = {} THEN position ELSE Newest(ts)

Upsert(ts) == position' = Newest({position} \cup ts)

Insert(ts) == stored' = [t \in Times |-> IF t \in ts THEN stored[t] + 1 ELSE stored[t]]

LiveInsert(r) ==
    /\ req[r].pc = "checked" /\ req[r].kind = "live"
    /\ Insert(PointTimes(r))
    /\ Upsert(PointTimes(r))
    /\ Done(r, TRUE)

(* IngestLocationBatch, storeBackfill: all points of one device of the     *)
(* caller, then the query for the fixes already stored.                    *)
BatchCheck(r) ==
    /\ req[r].pc = "sent" /\ req[r].kind = "batch"
    /\ IF Owned(r)
       THEN req' = [req EXCEPT ![r].pc = "checked", ![r].known = PointTimes(r) \cap Stored]
       ELSE Done(r, FALSE)
    /\ UNCHANGED <<stored, position>>

BatchInsert(r) ==
    /\ req[r].pc = "checked" /\ req[r].kind = "batch"
    /\ LET new == PointTimes(r) \ req[r].known
       IN  Insert(new) /\ Upsert(new)
    /\ Done(r, TRUE)

Serve(r) == LiveCheck(r) \/ LiveInsert(r) \/ BatchCheck(r) \/ BatchInsert(r)

(* A statement fails; the transaction is rolled back.                      *)
ServeFails(r) ==
    /\ req[r].pc \in {"sent", "checked"}
    /\ Done(r, FALSE)
    /\ UNCHANGED <<stored, position>>

-----------------------------------------------------------------------------
(* The map never moves backwards and never lags behind the history: the    *)
(* last-known position is that of the newest stored fix, in whatever order *)
(* live reports and backfills are stored (location.go:201,                 *)
(* location_batch.go:33).                                                  *)
PositionIsNewest == position = Newest(Stored)
=============================================================================
