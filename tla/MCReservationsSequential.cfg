\* One call at a time, with a crash: the lifecycle is implemented and paid
\* splits settle.
SPECIFICATION FairSpec
CONSTANTS
  Booking = {b1, b2}
  Block = {}
  Request = {p1}
  NoBooking = none
  Nights = 1
  MaxRedemptions = 1
  Operations = {"create", "split", "modify", "confirm", "cancel", "complete", "auto", "settle", "midnight"}
  MaxEvents = 4
  MaxCrashes = 1
CHECK_DEADLOCK FALSE
PROPERTIES LifecycleImplemented 
