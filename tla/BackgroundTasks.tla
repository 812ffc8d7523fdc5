--------------------------- MODULE BackgroundTasks ---------------------------
(***************************************************************************)
(* The generic background machinery of a process: PriorityTaskQueue, a     *)
(* heap with an index of the ids in it, and BackgroundTaskMonitor, the     *)
(* records of the tasks with a circuit breaker for their type.             *)
(*                                                                         *)
(* The operators here are the methods of the two classes.  Each runs under *)
(* the lock of its object and is one step, except get of the queue, which  *)
(* takes the entry from the heap before it asks for the lock: Take and     *)
(* Untrack.  AsyncReflection calls them.                                   *)
(*                                                                         *)
(* An id is a fresh uuid per submission and is put again only after it was *)
(* taken, so it is in the heap once at most, and the heap is a set.  Its   *)
(* order by time is kept in ahead: the entries an entry came after.        *)
(*                                                                         *)
(* A definition whose comment begins with "Mutant" is a wrong version of   *)
(* the one after it: it shows which property notices that mistake.         *)
(***************************************************************************)
EXTENDS Naturals, FiniteSets

CONSTANTS
  Jobs,       \* ids of background tasks
  PriorityOf, \* priority of every job, 0 (critical) to 3 (low)
  Capacity,   \* max_size of the queue
  MaxRecords, \* max_tasks of the monitor
  Threshold   \* _failure_threshold of the circuit breaker

ASSUME BackgroundAssumption ==
  /\ IsFiniteSet(Jobs)
  /\ PriorityOf \in [Jobs -> 0..3]
  /\ Capacity \in Nat \ {0}
  /\ MaxRecords \in Nat \ {0}
  /\ Threshold \in Nat \ {0}

VARIABLES
  queued,  \* the heap: ids of its entries
  level,   \* priority of an entry
  ahead,   \* entries that were in the heap when this one was put
  flagged, \* jobs whose task_data has the mark _cancelled
  tracked, \* keys of _task_entries
  known,   \* keys of the monitor's _tasks
  older,   \* records that were there when this one was registered
  record,  \* status and retry count of a record
  fails,   \* _failure_stats, counted up to the threshold
  breaker  \* circuit breaker: closed, open, or open with its time over

queueVars == <<queued, level, ahead, flagged, tracked>>
statsVars == <<fails, breaker>>
monitorVars == <<known, older, record, fails, breaker>>

RecordStatuses == {"PENDING", "RUNNING", "COMPLETED", "FAILED", "CANCELLED"}
Records == [status : RecordStatuses, retries : Nat]

-----------------------------------------------------------------------------
(* PriorityTaskQueue                                                       *)

(* Mutant: the queue is full one entry too late. *)
RoomForOneMore == Cardinality(queued) <= Capacity

(* put adds an entry while there are fewer than max_size of them. *)
HasRoom == Cardinality(queued) < Capacity

(* put, when it accepts. *)
Put(j, p) ==
  /\ j \notin tracked
  /\ HasRoom
  /\ queued' = queued \cup {j}
  /\ level' = [level EXCEPT ![j] = p]
  /\ ahead' = [ahead EXCEPT ![j] = queued]
  /\ tracked' = tracked \cup {j}
  /\ UNCHANGED flagged

(* put, when the id is there or the queue is full. *)
Refuses(j) == j \in tracked \/ ~HasRoom

(* The entry the heap gives next: lowest number, then first come.  The boost
   of the aging thread is no part of the comparison. *)
IsNext(j) ==
  /\ j \in queued
  /\ \A i \in queued \ {j} :
       level[j] < level[i] \/ (level[j] = level[i] /\ i \notin ahead[j])

(* get, its first half: the heap gives an entry up... *)
Take(j) ==
  /\ IsNext(j)
  /\ queued' = queued \ {j}
  /\ ahead' = [i \in Jobs |-> ahead[i] \ {j}]
  /\ UNCHANGED <<level, flagged, tracked>>

(* Mutant: the id stays in the index of the queue. *)
UntrackNothing(j) == UNCHANGED queueVars

(* ... and its second half, under the lock: the id leaves the index. *)
Untrack(j) ==
  /\ tracked' = tracked \ {j}
  /\ UNCHANGED <<queued, level, ahead, flagged>>

(* remove, when it answers True.  The entry keeps its place in the heap. *)
Remove(j) ==
  /\ j \in tracked
  /\ tracked' = tracked \ {j}
  /\ flagged' = flagged \cup {j}
  /\ UNCHANGED <<queued, level, ahead>>

-----------------------------------------------------------------------------
(* BackgroundTaskMonitor                                                   *)

(* The records that make room for a new one: the first in insertion order. *)
Evicted ==
  IF Cardinality(known) < MaxRecords THEN {}
  ELSE {k \in known : older[k] \cap known = {}}

Fresh == [status |-> "PENDING", retries |-> 0]

(* register_task of a fresh id, when the breaker lets it pass. *)
Register(j) ==
  /\ breaker # "open"
  /\ breaker' = "closed"
  /\ fails' = IF breaker = "expired" THEN 0 ELSE fails
  /\ known' = (known \ Evicted) \cup {j}
  /\ older' = [k \in Jobs |-> IF k = j THEN known \ Evicted
                             ELSE older[k] \ Evicted]
  /\ record' = [k \in Jobs |-> IF k \in Evicted \cup {j} THEN Fresh
                              ELSE record[k]]

AtMost(n, bound) == IF n < bound THEN n ELSE bound

(* What update_status does to the failure count and the breaker. *)
Count(s) ==
  CASE s = "FAILED" ->
         /\ fails' = AtMost(fails + 1, Threshold)
         /\ breaker' = IF fails + 1 >= Threshold THEN "open" ELSE breaker
    [] s = "COMPLETED" -> fails' = 0 /\ UNCHANGED breaker
    [] OTHER -> UNCHANGED statsVars

(* update_status: an id without a record is ignored. *)
SetRecord(j, r) ==
  \/ /\ j \in known
     /\ record' = [record EXCEPT ![j] = r]
     /\ Count(r.status)
     /\ UNCHANGED <<known, older>>
  \/ /\ j \notin known
     /\ UNCHANGED monitorVars

UpdateStatus(j, s) == SetRecord(j, [record[j] EXCEPT !.status = s])

(* The block duration of the breaker passes. *)
Cooldown ==
  /\ breaker = "open"
  /\ breaker' = "expired"
  /\ UNCHANGED <<known, older, record, fails>>

BackgroundInit ==
  /\ queued = {}
  /\ level = PriorityOf
  /\ ahead = [j \in Jobs |-> {}]
  /\ flagged = {}
  /\ tracked = {}
  /\ known = {}
  /\ older = [j \in Jobs |-> {}]
  /\ record = [j \in Jobs |-> Fresh]
  /\ fails = 0
  /\ breaker = "closed"

BackgroundTypeOK ==
  /\ queued \in SUBSET Jobs
  /\ level \in [Jobs -> 0..3]
  /\ ahead \in [Jobs -> SUBSET Jobs]
  /\ flagged \in SUBSET Jobs
  /\ tracked \in SUBSET Jobs
  /\ known \in SUBSET Jobs
  /\ older \in [Jobs -> SUBSET Jobs]
  /\ record \in [Jobs -> Records]
  /\ fails \in 0..Threshold
  /\ breaker \in {"closed", "open", "expired"}
  /\ Cardinality(queued) <= Capacity
  /\ Cardinality(known) <= MaxRecords
=============================================================================
