SPECIFICATION Spec
CONSTANTS
  Booking = {b1}
  Block = {}
  Request = {p1}
  NoBooking = none
  Nights = 2
  MaxRedemptions = 1
  Operations = {"create", "modify"}
  MaxEvents = 3
  MaxCrashes = 0
CHECK_DEADLOCK FALSE
INVARIANTS PromisedNightsAreKept
