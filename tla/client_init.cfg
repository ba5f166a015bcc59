\* An init between the close event and the timer.
SPECIFICATION FairSpec
CONSTANTS
  Sockets = {s1, s2, s3}
  Inits = {i1, i2}
  MaxSends = 0
  None = None
PROPERTY InitSettles
CHECK_DEADLOCK FALSE
