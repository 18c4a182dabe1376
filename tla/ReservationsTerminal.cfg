SPECIFICATION Spec
CONSTANTS
  Booking = {b1}
  Block = {}
  Request = {p1, p2}
  NoBooking = none
  Nights = 1
  MaxRedemptions = 1
  Operations = {"create", "confirm", "cancel"}
  MaxEvents = 3
  MaxCrashes = 0
CHECK_DEADLOCK FALSE
PROPERTIES TerminalIsFinal
