SPECIFICATION Spec
CONSTANTS
  Jobs = {"j1", "j2"}
  PriorityOf <- MCPriorityOf
  Capacity = 1
  MaxRecords = 1
  Threshold = 1
  Threads = {"w1"}
  PoolSize = 1
  MaxRetries = 1
  Cancellable = {"j1"}
  Targets = {"cancelled", "archived"}
  Noisy = {"j2"}
INVARIANTS
  TypeOK
  TrackedIsQueued
  RetryBudget
  PendingIsQueued
  CompletedAgrees
PROPERTIES
  CancelledNeverRuns
  WorkerReturns
CHECK_DEADLOCK FALSE
