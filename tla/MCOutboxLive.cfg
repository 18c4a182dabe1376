\* Liveness: an undecodable record and a healthy one behind a batch limit of one.
SPECIFICATION FairSpec
CONSTANTS
  n1 = n1
  n2 = n2
  r1 = r1
  r2 = r2
  w1 = w1
  Record = {r1, r2}
  Undecodable = {r2}
  Writer = {w1}
  Node = {n1}
  Home <- MCHome
  NSub = 1
  MaxAttempts = 1
  Limit = 1
  MaxFaults = 1
  MaxCrashes = 1
  MaxRequeues = 1
PROPERTY EveryRowSettles
