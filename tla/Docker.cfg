SPECIFICATION FairSpec
CONSTANTS
  Sandbox = {s1}
  Commands = 3
  None = None
  Configs <- Config
  Failure = {"daemon", "registry", "ports", "deadline", "prune", "exit", "crash"}
  MaxRestarts = 1
  Port = {1, 2}
  MaxAttempts = 2
  MaxPulls = 2
CHECK_DEADLOCK FALSE
INVARIANTS NoOrphan PausedIsFrozen StoppedForGood
PROPERTY CommandAnswered
