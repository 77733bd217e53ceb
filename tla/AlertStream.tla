---------------------------- MODULE AlertStream ----------------------------
(***************************************************************************)
(* What geofencing promises a family whose fences are left alone, whatever *)
(* happens inside: for every fence and every user it watches, a stream of  *)
(* arrivals and departures of the kinds the fence asks for, alternating    *)
(* when it asks for both, at least a debounce window apart.                *)
(***************************************************************************)
EXTENDS Integers

CONSTANTS
    Users, Fences,
    Debounce,
    Times           \* when a crossing may have happened

VARIABLES
    asked,          \* asked[f][u]: the kinds fence f reports of user u
    told            \* the newest report of f about u, and how many there were

Kinds == {"enter", "exit"}

NothingTold == [kind |-> "none", ts |-> 0, age |-> -1, count |-> 0]

Init == /\ asked \in [Fences -> [Users -> SUBSET Kinds]]
        /\ told = [f \in Fences |-> [u \in Users |-> NothingTold]]

Announce(f, u, kind, ts) ==
    /\ kind \in asked[f][u]
    /\ told[f][u].count > 0 => told[f][u].age = Debounce
    /\ asked[f][u] = Kinds => told[f][u].kind # kind
    /\ told' = [told EXCEPT ![f][u] = [kind |-> kind, ts |-> ts, age |-> 0, count |-> @.count + 1]]
    /\ asked' = asked

Older(age) == IF age \in 0 .. Debounce - 1 THEN age + 1 ELSE age

Pass ==
    /\ told' = [f \in Fences |-> [u \in Users |-> [told[f][u] EXCEPT !.age = Older(@)]]]
    /\ asked' = asked

Next == \/ \E f \in Fences, u \in Users, kind \in Kinds, ts \in Times :
              Announce(f, u, kind, ts)
        \/ Pass

Spec == Init /\ [][Next]_<<asked, told>>
=============================================================================
