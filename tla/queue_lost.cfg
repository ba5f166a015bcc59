\* Consumers that come late, with the automatic drop alone.
SPECIFICATION Spec
CONSTANTS
  Consumers = {c1, c2}
  Strangers = {}
  MaxMessages = 3
  Autodrop = TRUE
  Claims = FALSE
  LateJoins = TRUE
INVARIANT SleepersAreUpToDate
CHECK_DEADLOCK FALSE
