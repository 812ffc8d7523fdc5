CONSTANTS
  t1 = t1
  t2 = t2
  Tasks = {t1, t2}
  FetchOrder <- NewestFirst
  DependsOn <- Chain
  External = {t1}
  Retriable = {t2}
  Workers = {w1}
  Overlapping = {}
  Targets = {}
  BatchSize = 1
  MaxAttempts = 2
  MaxCrashes = 0
  MaxCuts = 0
SPECIFICATION LiveSpec
PROPERTY ReadyRuns
