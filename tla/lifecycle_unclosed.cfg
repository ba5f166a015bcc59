\* init again with no close.
SPECIFICATION FairSpec
CONSTANTS
  MaxAttempts = 2
  MaxPages = 2
  BufferSize = 1
  Scenarios = {{"unclosed"}}
  None = None
PROPERTY InitReturns
CHECK_DEADLOCK FALSE
