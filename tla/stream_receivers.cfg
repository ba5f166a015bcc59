\* One sender to two receivers, one of which does not collect.
SPECIFICATION Spec
CONSTANTS
  s1 = s1
  s2 = s2
  r1 = r1
  r2 = r2
  Senders = {s1}
  Receivers = {r1, r2}
  Wants <- MCOne
  Sizes <- MCSizes
  PageSize = 6
  PlainMeta = 2
  ChunkMeta = 3
  BufferSize = 2
  MaxAttempts = 2
  None = None
INVARIANTS TypeOK Intact Arrives CompletedOnce KeptForAReason
CHECK_DEADLOCK FALSE
