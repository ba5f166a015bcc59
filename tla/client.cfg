\* The gateway comes and goes, the application initialises, sends and closes.
SPECIFICATION FairSpec
CONSTANTS
  Sockets = {s1, s2, s3}
  Inits = {i1, i2}
  MaxSends = 3
  None = None
INVARIANTS OneLiveSocket AttemptsGoOn NobodyWaitsConnected SentInOrder StatusIsExplained
PROPERTIES Reconnects InitSettlesIfHeard
CHECK_DEADLOCK FALSE
