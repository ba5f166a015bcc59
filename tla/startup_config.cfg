\* The second process reads the file while the first one writes it (violated).
SPECIFICATION FairSpec
CONSTANTS
  Procs = {p1, p2}
  Limits = {4}
  BufferSize = 1
  MaxCrashes = 0
  None = None
INVARIANT ConfigIsWhole
