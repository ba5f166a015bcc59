\* A view is requested while a consumer wants to walk on.
SPECIFICATION FairSpec
CONSTANTS
  Users = {u1}
  Walkers = {w1, w2}
  OneAtATime = FALSE
  DropsFirst = TRUE
  Nobody = Nobody
PROPERTY NextUnblocks
CHECK_DEADLOCK FALSE
