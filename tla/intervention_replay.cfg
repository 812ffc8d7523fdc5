CONSTANTS
  Tasks = {t1}
  Keys = {k1}
  Calls = {c1}
  NoTask = NoTask
  NoKey = NoKey
  Verified = {t1}
  Retriable = {t1}
  Escalating = {t1}
  BirthStatuses = {"todo", "assignment_pending"}
  Kinds = {"manual", "timed", "gap"}
  MaxFaults = 0
  MaxExpiries = 0
SPECIFICATION Spec
PROPERTY InterventionReplaySafe
