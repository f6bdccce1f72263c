\* Two retries of one payload and a request with another; three faults.
SPECIFICATION FairSpec
CONSTANTS
  q1 = q1
  q2 = q2
  q3 = q3
  h1 = h1
  h2 = h2
  Requests = {q1, q2, q3}
  HashOf <- OneOther
  NoHash = NoHash
  Stages = 2
  Tries = 2
  MaxFaults = 3
INVARIANTS
  AnsweredIsStored
  CompletedHadEffects
  DuplicatesBounded
PROPERTIES
  SettledIsFinal
  KeySettles
CHECK_DEADLOCK FALSE
