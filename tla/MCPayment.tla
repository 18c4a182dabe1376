------------------------------ MODULE MCPayment ------------------------------
(* Small instances of Payment; the bounds differ per configuration. *)
EXTENDS Payment, TLC

Interchangeable == Permutations(Worker) \cup Permutations(Dispute)
=============================================================================
