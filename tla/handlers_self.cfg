\* A handler that deregisters itself while the application deregisters it.
\* With INVARIANT NeverAborts instead: the deregistration of a handler that
\* panicked, having deregistered itself before its entry was made.
SPECIFICATION FairSpec
CONSTANTS
  Apps = {a1}
  Handlers = {h1}
  Outcomes = {"pause", "deregister"}
  Starts = {"paused", "awaiting"}
  Modes = {"wait"}
  Careful = {"resume"}
  OnEventLoop = FALSE
  MaxMessages = 1
  MaxRuntimes = 2
  Nobody = Nobody
PROPERTY DeregisterReturns
CHECK_DEADLOCK FALSE
