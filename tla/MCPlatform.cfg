\* Seventeen components, one at a time, each on its own small instance.
SPECIFICATION Spec
CONSTANTS
  c1 = c1
  c2 = c2
  c3 = c3
  w1 = w1
  w2 = w2
  Call <- Callers
  Worker <- Processes
  MaxFaults = 1
  Sale = {"b1"}
  SaleTotal = 3
  Fee = 1
  Shares <- TwoShares
  Disbursement = {"r1", "r2"}
  Process <- OneReplica
  MaxDeliveries = 2
  Payer = {"s1", "s2"}
  Organizer = "s1"
  Amounts = {1, 2}
  Price = 3
  MaxRefusals = 1
  Rival = "rival"
  Editor = {"e1", "e2", "e3"}
  StartTimes = {1, 2}
  Durations = {1}
  LastTime = 3
  BatchLimit = 1
  Key = {"k1", "k2"}
  Body = {"q1", "q2"}
  Season <- Seasons
  City = {"lis", "opo"}
  TaxRule <- TaxRules
  Deposits = {5}
  Nights = {1, 2}
  Guests = {2}
  Coupons = {"none", "half", "fixed"}
  Photo = {"p1"}
  Cohost = {"h2"}
  MaxVersion = 2
  Stay = {"b1", "b2"}
  Home = {"p1", "p2"}
  Place <- Homes
  Rating = {4, 5}
  MinReviews = 2
  EventKinds = {"BookingCancelled", "PaymentCaptured", "SplitPaymentCompleted"}
  Device = {"d1"}
  Online = {"guest"}
  Buffer = 1
  MaxTime = 5
  MaxEvents = 1
  MaxRows = 2
  Person = {"u1", "u2"}
  Admitted = {"r1"}
  Wish = {"l1"}
  Collection = {"k1"}
  MaxToken = 3
  Local = {"b1"}
  Setting <- Settings
  MaxHolds = 2
  Ident = {"r1", "r2"}
  Owner = {"u1", "u2"}
SYMMETRY Interchangeable
CHECK_DEADLOCK FALSE
INVARIANTS
  CreditedOnce
  CommittedIsEarned
  CompletionIsFunded
  RefundedIsReleased
  OffersAreExplained
  SessionsAreExplained
  ActedOncePerKey
  
  
  RatingIsExplained
  UnreadIsExplained
  
  
  
  
  
  
  GatewaysAreExplained
  
