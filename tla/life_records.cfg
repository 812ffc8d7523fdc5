CONSTANTS
  Tasks = {t1}
  Keys = {k1}
  Calls = {c1, c2}
  NoTask = NoTask
  NoKey = NoKey
  Verified = {t1}
  Retriable = {t1}
  Escalating = {t1}
  BirthStatuses = {"todo", "assignment_pending", "split_required", "cancelled"}
  Kinds = {"manual", "timed", "gap"}
  MaxFaults = 2
  MaxExpiries = 1
SPECIFICATION Spec
SYMMETRY Interchangeable
INVARIANT TypeOK
INVARIANT SuspensionOriginOK
INVARIANT AcceptedStaysFinished
PROPERTY VerifiedDone
PROPERTY KeepsOutcomes
