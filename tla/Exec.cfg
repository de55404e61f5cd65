SPECIFICATION FairSpec
CONSTANTS
  Runtimes = {"docker", "youki"}
  Stream = {i1}
  MaxFrames = 2
  MaxOutput = 2
  ClientBuffer = 1
  ServerBuffer = 1
  PipeBuffer = 1
INVARIANTS EndedIsReaped  Watched
CHECK_DEADLOCK FALSE
PROPERTIES HangupKills
