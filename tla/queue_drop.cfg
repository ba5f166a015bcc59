\* Everything at once around the automatic drop: claims, consumers that come
\* and go while a push is under way, and one that belongs to another queue.
SPECIFICATION Spec
CONSTANTS
  Consumers = {c1, c2, s}
  Strangers = {s}
  MaxMessages = 2
  Autodrop = TRUE
  Claims = TRUE
  LateJoins = TRUE
SYMMETRY Symmetry
INVARIANTS TypeOK AutodropSafe PassedIsDropped
CHECK_DEADLOCK FALSE
