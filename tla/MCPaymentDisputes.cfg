\* Two decisions, or a decision and a delivery, about one dispute.
SPECIFICATION Spec
CONSTANTS
  Worker = {w1, w2}
  Dispute = {d1}
  NoDispute = none
  Ref = {1, 2, 3}
  Total = 2
  NewTotal = 3
  Deposit = 1
  Awards = {0, 1}
  Policies = {0, 1}
  Operations = {"dispute", "damage"}
  MaxFaults = 0
  MaxCrashes = 0
SYMMETRY Interchangeable
CHECK_DEADLOCK FALSE
INVARIANTS LedgerIsBacked ReleasedDepositIsBack
PROPERTY AwardPrecedesDecision
