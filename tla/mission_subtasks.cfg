SPECIFICATION MissionSpec
CONSTANTS
  Resources = {"k1", "k2"}
  Processes = {p1, p2}
  NoOne = NoOne
  Gone = Gone
  NoTask = NoTask
  Plan <- MCPlan
  Needs <- MCNeeds
  MaxMishaps = 1
  MaxCopies = 2
  MaxRequests = 2
INVARIANTS
  MissionTypeOK
  OneTaskPerKey
  LockReleased
  DecomposedIsLinked
CHECK_DEADLOCK FALSE
SYMMETRY MCSymmetry
