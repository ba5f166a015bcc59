\* To be run with -continue: a close event of the socket before the current one,
\* a send during the closing handshake, a close event after the application closed.
SPECIFICATION Spec
CONSTANTS
  Sockets = {s1, s2, s3}
  Inits = {i1, i2}
  MaxSends = 1
  None = None
INVARIANTS StatusIsRight NothingStuck
PROPERTY ClosedStaysClosed
CHECK_DEADLOCK FALSE
