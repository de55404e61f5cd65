SPECIFICATION Spec
CONSTANTS
  Client = {c1, c2}
  None = None
  MaxRequests = 3
  MaxBody = 1
  MaxTime = 1
  MaxWait = 1
  Runtimes = {"docker", "youki"}
SYMMETRY ClientSymmetry
INVARIANTS    RefusedTouchesNothing TempRemoved
CHECK_DEADLOCK FALSE
