CONSTANTS
  t1 = t1
  t2 = t2
  Tasks = {t1, t2}
  FetchOrder <- NewestFirst
  DependsOn <- Chain
  External = {t1}
  Retriable = {t2}
  Workers = {w1}
  Overlapping = {o1}
  Targets = {"todo", "in_progress"}
  BatchSize = 2
  MaxAttempts = 2
  MaxCrashes = 1
  MaxCuts = 1
SPECIFICATION Spec
INVARIANT TypeOK
INVARIANT AttemptBudget
INVARIANT DependenciesFirst
