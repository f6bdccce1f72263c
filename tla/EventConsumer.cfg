\* One event in two queues that share the exchange; replays and faults, and
\* workers that go on.
SPECIFICATION FairSpec
CONSTANTS
  e1 = e1
  e2 = e2
  scoring = scoring
  audit = audit
  Queues = {scoring, audit}
  Events = {e1}
  Bindings <- BothQueues
  Prefetch <- TwoAndOne
  HandlerTries <- TwoAndOne
  PublishTries = 2
  MaxCopies = 1
  MaxReplays = 1
  MaxFaults = 1
INVARIANTS
  EffectOnce
  NoSilentLoss
  CopiesConserved
PROPERTIES
  ImplementsConsumer
  EventuallyAnswered
CHECK_DEADLOCK FALSE
