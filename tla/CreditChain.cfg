\* Three services and the audit service; dead letters may be replayed.
SPECIFICATION FairSpec
CONSTANTS
  c1 = c1
  application = application
  feature = feature
  scoring = scoring
  decision = decision
  assistant = assistant
  audit = audit
  None = None
  EventIds = {1, 2, 3}
  Commands = {c1}
  Producers <- FirstThree
  Audit = audit
  Upstream <- FirstConsumeFrom
  Workers = {feature, scoring, audit}
  Pipelines <- IntakeOrEvaluation
  MaxCopies = 1
  MaxRejects = 1
  MaxReplays = 2
INVARIANTS
  HistoryMatchesOutbox
  CausesLinked
  OneOutcomePerCause
  OneRowPerPost
PROPERTIES
  ChainCompletes
CHECK_DEADLOCK FALSE
