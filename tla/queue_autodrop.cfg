\* The automatic drop alone, every consumer created before the first push.
SPECIFICATION FairSpec
CONSTANTS
  Consumers = {c1, c2}
  Strangers = {}
  MaxMessages = 3
  Autodrop = TRUE
  Claims = FALSE
  LateJoins = FALSE
INVARIANTS AutodropSafe PassedIsDropped SleepersAreUpToDate
PROPERTIES NextReturns ImplementsStream
CHECK_DEADLOCK FALSE
