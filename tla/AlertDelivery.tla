--------------------------- MODULE AlertDelivery ---------------------------
(***************************************************************************)
(* What is promised for the push of one event to one device: it is handed  *)
(* to the push service only while its delivery is open, it counts as done  *)
(* only if the service took it, and a delivery that is done, given up or   *)
(* withdrawn is never opened again.                                        *)
(***************************************************************************)
EXTENDS Integers

CONSTANTS Events, Devices

VARIABLES
    status,     \* of the delivery of an event to a device
    taken       \* how often the push service took it

Status == {"none", "open", "done", "dead", "gone"}

Init == /\ status = [e \in Events |-> [d \in Devices |-> "none"]]
        /\ taken = [e \in Events |-> [d \in Devices |-> 0]]

Open(e) ==
    /\ \A d \in Devices : status[e][d] = "none"
    /\ \E ds \in SUBSET Devices :
          status' = [status EXCEPT ![e] = [d \in Devices |-> IF d \in ds THEN "open" ELSE "gone"]]
    /\ UNCHANGED taken

(* The sender may never learn of it, and give up.                          *)
Take(e, d) ==
    /\ status[e][d] = "open"
    /\ taken' = [taken EXCEPT ![e][d] = @ + 1]
    /\ \E after \in {"open", "dead", "gone"} : status' = [status EXCEPT ![e][d] = after]

Done(e, d) ==
    /\ status[e][d] = "open" /\ taken[e][d] > 0
    /\ status' = [status EXCEPT ![e][d] = "done"]
    /\ UNCHANGED taken

(* Deliveries are given up, or withdrawn with their fence.                 *)
Ends(old, new) == \/ new = old
                  \/ old = "open" /\ new = "dead"
                  \/ old # "none" /\ new = "gone"

End == /\ status' \in [Events -> [Devices -> Status]]
       /\ \A e \in Events, d \in Devices : Ends(status[e][d], status'[e][d])
       /\ UNCHANGED taken

Next == \/ \E e \in Events : Open(e)
        \/ \E e \in Events, d \in Devices : Take(e, d) \/ Done(e, d)
        \/ End

Spec == Init /\ [][Next]_<<status, taken>>
=============================================================================
