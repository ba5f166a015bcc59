\* Consumers that go before they have read everything.
SPECIFICATION Spec
CONSTANTS
  Consumers = {c1, c2}
  Strangers = {}
  MaxMessages = 2
  Autodrop = TRUE
  Claims = FALSE
  LateJoins = FALSE
INVARIANT DroppedWhenNobodyIsLeft
CHECK_DEADLOCK FALSE
