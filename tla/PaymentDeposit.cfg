\* A deposit is charged for damage and the charge is not recorded.
SPECIFICATION Spec
CONSTANTS
  Worker = {w1}
  Dispute = {d1}
  NoDispute = none
  Ref = {1, 2, 3}
  Total = 2
  NewTotal = 3
  Deposit = 1
  Awards = {0, 1}
  Policies = {0, 1}
  Operations = {"dispute", "damage"}
  MaxFaults = 0
  MaxCrashes = 0
CHECK_DEADLOCK FALSE
INVARIANT DepositChargeIsRecorded
