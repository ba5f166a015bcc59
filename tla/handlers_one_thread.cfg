\* One thread that resumes what is paused and deregisters at any time.
SPECIFICATION FairSpec
CONSTANTS
  Apps = {a1}
  Handlers = {h1, h2}
  Outcomes = {"pause"}
  Starts = {"paused", "awaiting"}
  Modes = {"wait", "try"}
  Careful = {"resume"}
  OnEventLoop = FALSE
  MaxMessages = 1
  MaxRuntimes = 3
  Nobody = Nobody
INVARIANT EndsOnlyOnRequest
PROPERTIES CallsReturn ResumedCallsBack
CHECK_DEADLOCK FALSE
