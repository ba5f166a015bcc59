\* Users and consumers at the same time, in any order.
SPECIFICATION Spec
CONSTANTS
  Users = {u1, u2, u3}
  Walkers = {w1, w2}
  OneAtATime = FALSE
  DropsFirst = FALSE
  Nobody = Nobody
SYMMETRY Symmetry
INVARIANTS ViewsAreBacked StuckForAReason
PROPERTY SealedWhileWalking
CHECK_DEADLOCK FALSE
