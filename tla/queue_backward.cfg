\* Two consumers that claim, without the automatic drop.
SPECIFICATION Spec
CONSTANTS
  Consumers = {c1, c2}
  Strangers = {}
  MaxMessages = 2
  Autodrop = FALSE
  Claims = TRUE
  LateJoins = TRUE
PROPERTY VisitedInOrder
CHECK_DEADLOCK FALSE
