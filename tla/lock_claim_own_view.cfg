\* The wrapper of lmq-deno, which claims with its view still held.  With
\* DropsFirst = TRUE every call returns (CallsReturn).
SPECIFICATION FairSpec
CONSTANTS
  Users = {u1}
  Walkers = {w1}
  OneAtATime = TRUE
  DropsFirst = FALSE
  Nobody = Nobody
PROPERTY ClaimReturns
CHECK_DEADLOCK FALSE
