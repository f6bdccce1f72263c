\* Five tasks at a bulkhead of four; the dependency fails until it heals.
SPECIFICATION FairSpec
CONSTANTS
  c1 = c1
  c2 = c2
  c3 = c3
  c4 = c4
  c5 = c5
  Calls = {c1, c2, c3, c4, c5}
  FailureThreshold = 3
  SuccessThreshold = 2
  MaxConcurrency = 4
INVARIANTS
  TrialWillEnd
  ProbesBounded
  BulkheadCounts
PROPERTIES
  ClosesAfterHealing
