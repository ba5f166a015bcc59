\* The Deno binding, a consumer being freed while a promise is pending.  With
\* Careful = {"resume", "deregister"}, freed only with none pending, it passes.
SPECIFICATION FairSpec
CONSTANTS
  Apps = {a1}
  Handlers = {h1}
  Outcomes = {"pause"}
  Starts = {"paused"}
  Modes = {"wait"}
  Careful = {"resume"}
  OnEventLoop = TRUE
  MaxMessages = 1
  MaxRuntimes = 2
  Nobody = Nobody
PROPERTY DeregisterReturns
CHECK_DEADLOCK FALSE
