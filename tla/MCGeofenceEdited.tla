-------------------------- MODULE MCGeofenceEdited --------------------------
(* Fences, places and the family change while fixes are evaluated.         *)
EXTENDS GeofenceEngine, TLC

CONSTANTS u1, u2, all, f1, f2, home, school, park, atHome

Fence(p, u) == [state |-> "live", place |-> p, user |-> u,
                enter |-> TRUE, exit |-> TRUE, enabled |-> TRUE]
Unused == [Fence(home, u1) EXCEPT !.state = "unused"]

MCFences == { (f1 :> Fence(home, u1)) @@ (f2 :> Unused),
              (f1 :> Fence(home, u1)) @@ (f2 :> Fence(school, u2)) }

MCPlace ==
    (home   :> [state |-> "live", alertable |-> TRUE, area |-> {atHome}]) @@
    (school :> [state |-> "live", alertable |-> TRUE, area |-> {}]) @@
    (park   :> [state |-> "unused", alertable |-> FALSE, area |-> {}])

MCNear == [s \in Spots |-> {s}]

To == [state |-> "live", place |-> school, user |-> u2,
       enter |-> TRUE, exit |-> FALSE, enabled |-> FALSE]
MCPatches == { [fields |-> {"enabled"}, to |-> To],
               [fields |-> {"enabled"}, to |-> [To EXCEPT !.enabled = TRUE]],
               [fields |-> {"place"}, to |-> To],
               [fields |-> {"user"}, to |-> To],
               [fields |-> {"user"}, to |-> [To EXCEPT !.user = u1]],
               [fields |-> {"user"}, to |-> [To EXCEPT !.user = all]],
               [fields |-> {"exit"}, to |-> To] }
=============================================================================
