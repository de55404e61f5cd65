SPECIFICATION FairSpec
CONSTANTS
  Tunnels = 1
  Conn = {r1}
  Call = {i1}
  None = None
  Buffer = 1
  MaxOutput = 2
CHECK_DEADLOCK FALSE
PROPERTIES    ShutdownCompletes
