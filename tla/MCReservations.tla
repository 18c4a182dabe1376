--------------------------- MODULE MCReservations ---------------------------
(* Small instances of Reservations; the operations differ per configuration. *)
EXTENDS Reservations, TLC

Interchangeable == Permutations(Booking) \cup Permutations(Request)
                     \cup Permutations(Block)
=============================================================================
