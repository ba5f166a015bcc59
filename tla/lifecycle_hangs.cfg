\* init again at once, and close.  Also violated, with one attempt, where the
\* runtime has one thread (Scenarios = {{"one_thread"}}) and where Deno runs
\* should_collect on the thread that is in the call ({{"deno"}}).
SPECIFICATION FairSpec
CONSTANTS
  MaxAttempts = 2
  MaxPages = 2
  BufferSize = 1
  Scenarios = {{"early"}}
  None = None
PROPERTY CloseReturns
CHECK_DEADLOCK FALSE
