\* Two deliveries or webhooks at a time, a fault of the gateway and a crash.
SPECIFICATION Spec
CONSTANTS
  Worker = {w1, w2}
  Dispute = {d1}
  NoDispute = none
  Ref = {1, 2, 3}
  Total = 2
  NewTotal = 3
  Deposit = 0
  Awards = {0, 1}
  Policies = {0, 1}
  Operations = {"modify", "webhook", "decline"}
  MaxFaults = 1
  MaxCrashes = 1
SYMMETRY Interchangeable
CHECK_DEADLOCK FALSE
INVARIANTS CapturedMeansCharged  RefundedMeansReleased
