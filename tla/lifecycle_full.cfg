\* A wait fails, and the application goes on sending.
SPECIFICATION FairSpec
CONSTANTS
  MaxAttempts = 1
  MaxPages = 2
  BufferSize = 1
  Scenarios = {{"wait_fails"}}
  None = None
PROPERTY SendReturns
CHECK_DEADLOCK FALSE
