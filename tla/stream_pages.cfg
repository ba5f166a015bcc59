\* Two senders to one receiver, a failure at any page.
SPECIFICATION Spec
CONSTANTS
  s1 = s1
  s2 = s2
  r1 = r1
  r2 = r2
  Senders = {s1, s2}
  Receivers = {r1}
  Wants <- MCBoth
  Sizes <- MCSizes
  PageSize = 6
  PlainMeta = 2
  ChunkMeta = 3
  BufferSize = 2
  MaxAttempts = 2
  None = None
INVARIANTS CompletedOnce Intact Arrives KeptForAReason
CHECK_DEADLOCK FALSE
