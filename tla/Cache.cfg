SPECIFICATION FairSpec
CONSTANTS
  NoAgent = NoAgent  NoSandbox = NoSandbox
  Agent = {a1, a2}
  Sandbox = {s1, s2}
  Lookup = {l1}
  Faults = {"listener", "store"}
INVARIANTS OwnerOnly OneOwner
PROPERTY StaleDropped
