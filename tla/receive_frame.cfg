\* A frame that arrives while the mesh is blocked and has its turn.
SPECIFICATION FairSpec
CONSTANTS
  AppMessages = {}
  Frames = {f1}
  Long = {}
  Collected = {f1}
  Clients = {c1}
  BufferSize = 2
  ChannelSize = 2
  MaxFailures = 0
  Short = {}
  Refused = {}
  None = None
PROPERTY FramesAreFetched
CHECK_DEADLOCK FALSE
