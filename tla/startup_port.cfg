\* Both are built with the gateway: the second one hinders every sender (violated).
\* With Limits = {2} each holds one node and neither starts (OneStarts is violated).
SPECIFICATION FairSpec
CONSTANTS
  Procs = {p1, p2}
  Limits = {4}
  BufferSize = 1
  MaxCrashes = 0
  None = None
PROPERTY SendReturns
