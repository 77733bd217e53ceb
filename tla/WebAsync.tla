------------------------------- MODULE WebAsync -------------------------------
(***************************************************************************)
(* useAsync.ts: what a page knows of one query.  The answer of the latest  *)
(* run is taken, that of a run whose effect was cleaned up is dropped.     *)
(*                                                                         *)
(* A query reads one value of the server at some time between its request  *)
(* and its answer.  `data` and `got` hold at most one value, and `old` the *)
(* one that the last run to be superseded is still to be answered with.    *)
(***************************************************************************)

NewAsync == [loading |-> TRUE, failed |-> FALSE, data |-> {}, at |-> "sent", got |-> {},
             old |-> {}]

(* A query that asks the server nothing, as those of a closed row.         *)
NoAsync == [NewAsync EXCEPT !.loading = FALSE, !.at = "none"]

(* The cleanup of the effect: `cancelled`.                                 *)
Cancelled(a, now) ==
    [a EXCEPT !.at = "none", !.got = {},
              !.old = IF a.at = "none" THEN @ ELSE IF a.at = "sent" THEN {now} ELSE a.got]

(* A new nonce or dependency runs the effect again, the data still held.   *)
Refetched(a, now) == [Cancelled(a, now) EXCEPT !.loading = TRUE, !.at = "sent"]

Arrived(a) == [a EXCEPT !.loading = FALSE, !.failed = FALSE, !.data = a.got, !.at = "none",
                        !.got = {}]
FailedAsync(a) == [a EXCEPT !.loading = FALSE, !.failed = TRUE, !.data = {}, !.at = "none",
                            !.got = {}]

(* `if (cancelled) return`.                                                *)
StaleArrived(a, v) == [a EXCEPT !.old = @ \ {v}]

(* What may become of a query next, `now` being the server's value.        *)
AsyncSteps(a, now) ==
    {[a EXCEPT !.at = "read", !.got = {now}] : at \in {a.at} \cap {"sent"}}
    \cup {Arrived(a) : at \in {a.at} \cap {"read"}}
    \cup {FailedAsync(a) : at \in {a.at} \cap {"sent", "read"}}
    \cup {StaleArrived(a, v) : v \in a.old}

SettledAsync(a) == ~a.loading /\ ~a.failed
=============================================================================
