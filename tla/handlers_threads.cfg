\* Two threads, handlers that do anything, calls at any time.
SPECIFICATION Spec
CONSTANTS
  Apps = {a1, a2}
  Handlers = {h1, h2}
  Outcomes = {"continue", "pause", "deregister"}
  Starts = {"paused", "awaiting"}
  Modes = {"wait"}
  Careful = {}
  OnEventLoop = FALSE
  MaxMessages = 1
  MaxRuntimes = 3
  Nobody = Nobody
SYMMETRY Symmetry
INVARIANTS DeregisterIsFinal NoStrayTask
CHECK_DEADLOCK FALSE
