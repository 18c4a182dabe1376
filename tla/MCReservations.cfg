\* Two bookings, one block and two goroutines that create, confirm and cancel
\* reservations and blocks in every interleaving.
SPECIFICATION Spec
CONSTANTS
  Booking = {b1, b2}
  Block = {k1}
  Request = {p1, p2}
  NoBooking = none
  Nights = 2
  MaxRedemptions = 1
  Operations = {"create", "coupon", "deactivate", "confirm", "cancel", "block", "unblock"}
  MaxEvents = 3
  MaxCrashes = 0
SYMMETRY Interchangeable
CHECK_DEADLOCK FALSE
INVARIANTS NoDoubleBooking LastEventTellsStatus NoUseIsBurnt
PROPERTY BlocksRespected
