\* Two requests at a time, tokens of 20 s and of 70 s, two minutes.
SPECIFICATION FairSpec
CONSTANTS
  q1 = q1
  q2 = q2
  Requests = {q1, q2}
  Headers <- FiveHeaders
  ServiceClaims <- TwoServiceClaims
  RequiredScopes = {"credit"}
  RequiredAudiences = {"gateway"}
  Malformed = Malformed
  None = None
  Lifetimes = {2, 7}
  LocalLifetime = 30
  Margin = 3
  Floor = 6
  Leeway = 6
  AskSpan = 1
  PostSpan = 4
  Posts = 2
  MaxTime = 11
INVARIANTS
  NoNeedlessRefresh
  NeverExpiredMidway
PROPERTIES
  AdmittedIsAnswered
CHECK_DEADLOCK FALSE
