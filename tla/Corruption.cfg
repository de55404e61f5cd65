SPECIFICATION ImageSpec
CONSTANTS
  Puller = {p1}
  Fault = {"disk"}
INVARIANT NoCorruption
