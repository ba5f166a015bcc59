\* A channel is full in both directions: a client waits to hand on a frame, and the
\* broadcast of the task that would take it waits for that client.
SPECIFICATION FairSpec
CONSTANTS
  AppMessages = {m1, m2}
  Frames = {f1, f2}
  Long = {}
  Collected = {m1, m2}
  Clients = {c1}
  BufferSize = 6
  ChannelSize = 1
  MaxFailures = 0
  Short = {}
  Refused = {}
  None = None
PROPERTY NeverBlocks
CHECK_DEADLOCK FALSE
