\* A frame of more pages than the buffer of the subscriber has.
SPECIFICATION FairSpec
CONSTANTS
  AppMessages = {}
  Frames = {f1}
  Long = {f1}
  Collected = {f1}
  Clients = {c1}
  BufferSize = 1
  ChannelSize = 2
  MaxFailures = 0
  Short = {}
  Refused = {}
  None = None
PROPERTY NeverBlocks
CHECK_DEADLOCK FALSE
