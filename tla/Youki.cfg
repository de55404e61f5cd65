SPECIFICATION Spec
CONSTANTS
  Sandbox = {s1}
  Commands = 3
  None = None
  Configs <- YoukiConfigs
  Failure = {"disk", "unlink", "registry", "libcontainer", "cni", "deadline", "crash"}
  MaxRestarts = 1
CHECK_DEADLOCK FALSE
INVARIANTS LeavesOnlyLapses  
 
