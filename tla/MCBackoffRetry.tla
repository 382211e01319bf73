--------------------------- MODULE MCBackoffRetry ---------------------------
(* BackoffRetry on a queue with two workers. *)
EXTENDS BackoffRetry

QueueSubOf == [w \in {"w1", "w2"} |-> "q"]
=============================================================================
