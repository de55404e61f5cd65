SPECIFICATION Spec
CONSTANTS
  Tunnels = 2
  Conn = {r1}
  Call = {i1}
  None = None
  Buffer = 1
  MaxOutput = 1
CHECK_DEADLOCK FALSE
INVARIANTS DrainLeavesNone LatestServes FailedForCause
PROPERTIES NoGap
