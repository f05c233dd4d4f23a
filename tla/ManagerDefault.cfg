SPECIFICATION Spec
CONSTANTS
  Requests = {r1}
  MaxGen = 2
  Kinds = {"http"}
  DefaultPolicy = {"a"}
  ManagerMode = "enforce"
INVARIANT DefaultIsInherited
CHECK_DEADLOCK FALSE
