\* Two processes start, send, end and are killed; too few nodes for both, and enough.
SPECIFICATION FairSpec
CONSTANTS
  Procs = {p1, p2}
  Limits = {2, 4, 5}
  BufferSize = 1
  MaxCrashes = 1
  None = None
INVARIANT PartForAReason
PROPERTIES EveryoneStarts SendsUnlessHindered
