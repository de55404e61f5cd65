SPECIFICATION Spec
CONSTANTS
  a1 = a1  a2 = a2  s1 = s1  s2 = s2  t1 = t1  t2 = t2
  o1 = o1  o2 = o2  o3 = o3  o4 = o4
  NoAgent = NoAgent  NoStream = NoStream  NoSandbox = NoSandbox
  Agent = {a1}
  Sandbox = {s1, s2}
  Stream = {t1}
  Dialer <- OneAgent
  Op = {o1, o2, o3}
  Requests = {"delete", "pause", "unpause"}
  Failures = {"cancel"}
  Capacity <- MCCapacity
  Requirement <- MCRequirement
SYMMETRY Calls
INVARIANTS RoutedReserved LedgerBalanced 
PROPERTY DoubleEntry
