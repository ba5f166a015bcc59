\* init, close, init again and sends, in every scenario; any attempt may fail.
SPECIFICATION FairSpec
CONSTANTS
  MaxAttempts = 2
  MaxPages = 2
  BufferSize = 1
  Scenarios = {{"own_runtime"}, {"early"}, {"unclosed"}, {"wait_fails"}, {"one_thread"}, {"deno", "own_runtime"}}
  None = None
INVARIANTS CloseIsFinal BlockedForAReason HangsForAReason GatewayGoesOn
PROPERTIES CallsReturn TaskEnds
CHECK_DEADLOCK FALSE
