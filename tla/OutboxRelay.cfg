\* A relay beside a flush call on two rows, one of which may be unreadable.  A
\* failed publish releases its row the first time and dead-letters it the second.
SPECIFICATION FairSpec
CONSTANTS
  r1 = r1
  r2 = r2
  Events <- ThreeEvents
  Workers = {r1, r2}
  Flushers = {r2}
  Tokens <- FourTokens
  NoToken = NoToken
  NoEvent = NoEvent
  BatchSize = 2
  MaxAttempts = 2
  PublishTries = 2
  Unreadable = {3}
  MaxStored = 2
  MaxFaults = 2
  MaxClaims = 6
INVARIANTS
  IInv
  CallsWithinClaims
  SharedOnlyAfterLapse
  CopiesBounded
PROPERTIES
  NothingForgotten
  SettledIsFinal
  ImplementsOutbox
CHECK_DEADLOCK FALSE
