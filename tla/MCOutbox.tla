------------------------------ MODULE MCOutbox ------------------------------
(* Instances of Outbox for TLC: request goroutines on the first replica. *)
EXTENDS Outbox

CONSTANTS n1, n2, r1, r2, w1

MCHome == [w \in Writer |-> n1]
=============================================================================
