\* The list under claims alone: unclaimed nodes are walked from, pruned nodes
\* point back to them, and the pusher has to follow such pointers.
SPECIFICATION Spec
CONSTANTS
  Consumers = {c1, c2}
  Strangers = {}
  MaxMessages = 4
  Autodrop = FALSE
  Claims = TRUE
  LateJoins = TRUE
SYMMETRY Symmetry
INVARIANTS Acyclic NoLockCycle
PROPERTY SkipsOnlyClaimed
CHECK_DEADLOCK FALSE
