\* A handler that deregisters itself while another is being registered.
SPECIFICATION Spec
CONSTANTS
  Apps = {a1}
  Handlers = {h1, h2}
  Outcomes = {"pause", "deregister"}
  Starts = {"paused", "awaiting"}
  Modes = {"wait"}
  Careful = {"resume"}
  OnEventLoop = FALSE
  MaxMessages = 1
  MaxRuntimes = 2
  Nobody = Nobody
INVARIANT EndsOnlyOnRequest
CHECK_DEADLOCK FALSE
