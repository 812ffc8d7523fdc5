CONSTANTS
  Tasks = {t1, t2, t3}
  Keys = {}
  Calls = {}
  NoTask = NoTask
  NoKey = NoKey
  Verified = {}
  Retriable = {}
  Escalating = {}
  BirthStatuses = {"todo"}
  Kinds = {}
  MaxFaults = 0
  MaxExpiries = 0
SPECIFICATION Spec
SYMMETRY InterchangeableTasks
INVARIANT DependencyAcyclic
