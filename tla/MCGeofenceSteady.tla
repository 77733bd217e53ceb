-------------------------- MODULE MCGeofenceSteady --------------------------
(* One fence that nobody edits: a family-wide one that reports both        *)
(* directions, or a per-user one that reports one direction only.          *)
EXTENDS GeofenceEngine, TLC

CONSTANTS u1, all, f1, home, atHome, away

Reports(user, enter, exit) ==
    f1 :> [state |-> "live", place |-> home, user |-> user,
           enter |-> enter, exit |-> exit, enabled |-> TRUE]

MCFences == {Reports(all, TRUE, TRUE), Reports(u1, TRUE, FALSE), Reports(u1, FALSE, TRUE)}

MCPlace == home :> [state |-> "live", alertable |-> TRUE, area |-> {atHome}]

(* The two spots are far apart: only a fix at the same spot is stationary. *)
MCNear == [s \in Spots |-> {s}]
=============================================================================
