SPECIFICATION Spec
CONSTANTS
  Booking = {b1}
  Block = {}
  Request = {p1, p2}
  NoBooking = none
  Nights = 1
  MaxRedemptions = 1
  Operations = {"create", "split", "coupon", "modify", "confirm", "cancel", "complete", "auto", "settle", "deactivate", "onboard", "edit", "midnight"}
  MaxEvents = 4
  MaxCrashes = 1
SYMMETRY Interchangeable
CHECK_DEADLOCK FALSE
INVARIANTS CompletedWasStayed NeverOnboardedNeverConfirmed
