CONSTANTS
  Tasks = {t1}
  Keys = {}
  Calls = {}
  NoTask = NoTask
  NoKey = NoKey
  Verified = {}
  Retriable = {t1}
  Escalating = {}
  BirthStatuses = {"todo", "assignment_pending"}
  Kinds = {"timed", "gap"}
  MaxFaults = 0
  MaxExpiries = 0
  Nodes = {n1, n2}
  Vacant = Vacant
  Departed = Departed
  MaxCrashes = 1
  MaxMisreads = 1
SPECIFICATION PassLiveSpec
INVARIANT PassTypeOK
INVARIANT OneLeader
PROPERTY OutcomesUnlessMisread
PROPERTY InProgressEnds
PROPERTY SuspensionEnds
