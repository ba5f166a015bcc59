\* One consumer of which nothing is held back: claims and drops.  Passes too
\* with Consumers = {c1, c2}, MaxMessages = 3, no drops and no claims.
SPECIFICATION FairSpec
CONSTANTS
  Consumers = {c1}
  Strangers = {}
  MaxMessages = 4
  Autodrop = TRUE
  Claims = TRUE
  LateJoins = TRUE
INVARIANT SleepersAreUpToDate
PROPERTY ImplementsStream
CHECK_DEADLOCK FALSE
