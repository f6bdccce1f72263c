\* What becomes of a dead letter whose replay fails?
SPECIFICATION FairSpec
CONSTANTS
  e1 = e1
  e2 = e2
  scoring = scoring
  audit = audit
  Queues = {scoring}
  Events = {e1, e2}
  Bindings <- ScoringOnly
  Prefetch <- TwoEach
  HandlerTries <- OneEach
  PublishTries = 2
  MaxCopies = 1
  MaxReplays = 1
  MaxFaults = 0
INVARIANTS
  DeadLettersSurviveReplay
CHECK_DEADLOCK FALSE
