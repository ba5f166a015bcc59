\* To be run with -continue: init again at once; iceoryx2's wait fails; the C binding.
SPECIFICATION Spec
CONSTANTS
  MaxAttempts = 2
  MaxPages = 1
  BufferSize = 1
  Scenarios = {{"early"}, {"wait_fails"}, {"own_runtime"}}
  None = None
INVARIANTS OneReceiver BlockedIsWaiting GatewayServes
CHECK_DEADLOCK FALSE
