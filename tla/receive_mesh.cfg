\* A message of the application that fills the buffer, a client with a good frame and
\* two bad ones, channels of one, and a call that fails. Two failures: MaxFailures = 2,
\* Frames = {f1}, Short = Refused = {}, BufferSize = 8. Two messages (1 million states):
\* AppMessages = {m1, m2}, Long = Collected = {m2}, Frames = {f1, f3}, Short = {},
\* BufferSize = 3.
SPECIFICATION FairSpec
CONSTANTS
  AppMessages = {m1}
  Frames = {f1, f2, f3}
  Long = {m1}
  Collected = {m1}
  Short = {f2}
  Refused = {f3}
  Clients = {c1}
  BufferSize = 2
  ChannelSize = 1
  MaxFailures = 1
  None = None
INVARIANTS BlockedIsWaiting SleepsOnEmptyBuffer
PROPERTIES MeshDelivers TryReturns
CHECK_DEADLOCK FALSE
