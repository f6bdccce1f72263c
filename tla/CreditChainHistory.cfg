\* One evaluation through the gateway, no fault: one row in each history?
SPECIFICATION Spec
CONSTANTS
  c1 = c1
  application = application
  feature = feature
  scoring = scoring
  decision = decision
  assistant = assistant
  audit = audit
  None = None
  EventIds = {1, 2, 3, 4, 5, 6, 7, 8, 9}
  Commands = {c1}
  Producers <- AllProducers
  Audit = audit
  Upstream <- ConsumesFrom
  Workers = {feature, scoring, decision, assistant, audit}
  Pipelines <- Evaluation
  MaxCopies = 1
  MaxRejects = 0
  MaxReplays = 0
INVARIANTS
  SingleHistory
CHECK_DEADLOCK FALSE
