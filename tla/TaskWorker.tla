----------------------------- MODULE TaskWorker -----------------------------
(***************************************************************************)
(* The scheduler threads of TaskAutoLoopScheduler and what they race with. *)
(* Each thread repeats a cycle: TaskExecutionWorker.run_cycle lists a      *)
(* batch of rows, screens it, and executes what is ready one task after    *)
(* the other; then the recovery passes look for expired leases.  There is  *)
(* one thread per process, and all processes share the tasks table.        *)
(*                                                                         *)
(* The worker decides on the rows it listed and writes the table through   *)
(* the DAO, past the transition table of update_task_status.  A service    *)
(* handler (operator) reads a row, checks the transition and writes the    *)
(* whole row back; a thread of Overlapping handlers may be cut in between. *)
(*                                                                         *)
(* A definition whose comment begins with "Mutant" is a wrong version of   *)
(* the one after it: it shows which property notices that mistake.         *)
(***************************************************************************)
EXTENDS TaskStates, Sequences, FiniteSets

CONSTANTS
  Tasks,       \* ids of the rows, all created before the first cycle
  FetchOrder,  \* Tasks in the order list_tasks returns them
  DependsOn,   \* depends_on of every task
  External,    \* tasks with an external executor: CLI, MCP, connector, agent
  Retriable,   \* tasks whose contract is retriable
  Workers,     \* scheduler threads
  Overlapping, \* handler threads that may be cut between read and write
  Targets,     \* statuses operators ask for
  BatchSize,   \* WorkerConfig.batch_size
  MaxAttempts, \* WorkerConfig.max_attempts
  MaxCrashes,  \* bound: processes that die
  MaxCuts      \* bound: handlers cut between read and write

ASSUME WorkerAssumption ==
  /\ FetchOrder \in Seq(Tasks)
  /\ \A t \in Tasks : \E i \in DOMAIN FetchOrder : FetchOrder[i] = t
  /\ \A i, j \in DOMAIN FetchOrder : FetchOrder[i] = FetchOrder[j] => i = j
  /\ DependsOn \in [Tasks -> SUBSET Tasks]
  /\ Targets \subseteq Statuses
  /\ BatchSize \in Nat \ {0}
  /\ MaxAttempts \in Nat \ {0}
  /\ MaxCrashes \in Nat
  /\ MaxCuts \in Nat

VARIABLES
  row,       \* the tasks table: status, attempt_count, lease, completion mark
  phase,     \* where each worker is in its cycle
  agenda,    \* rows as listed, still to be screened or executed
  ready,     \* rows that passed the screening
  handler,   \* what an overlapping handler has read and means to write
  runs,      \* history: executions begun
  relisted,  \* history: tasks that one batch ever held twice
  finished,  \* history: tasks that have ever been DONE
  crashes,   \* processes that died so far
  cuts       \* handlers cut so far

vars == <<row, phase, agenda, ready, handler, runs, relisted, finished,
          crashes, cuts>>
bounds == <<crashes, cuts>>

-----------------------------------------------------------------------------

(* metadata.lease: the worker's claim, its heartbeat recent ("live") or older
   than its timeout ("overdue"), or no heartbeat at all ("none"), which is what a
   released lease has. *)
Leases == {"none", "live", "overdue"}

(* mark: metadata.completion_status is "failed". *)
Rows == [status : Statuses, attempts : 0..MaxAttempts, lease : Leases,
         mark : BOOLEAN]

Listed(t) == [task |-> t, row |-> row[t]]
Current(w) == Head(agenda[w])

Unstarted == {"queued", "todo"}
SpoiledDependency == {"failed", "blocked", "cancelled", "archived"}

(* The k-th smallest number of a set. *)
Ranked(S, k) == CHOOSE i \in S : Cardinality({j \in S : j <= i}) = k

(* list_tasks of the worker: the rows of a status, cut to a limit. *)
Fetched(s, limit) ==
  LET all == {i \in DOMAIN FetchOrder : row[FetchOrder[i]].status = s}
      n   == IF Cardinality(all) < limit THEN Cardinality(all) ELSE limit
  IN  [k \in 1..n |-> Listed(FetchOrder[Ranked(all, k)])]

(* Mutant: the last attempt is never granted. *)
HasBudgetShort(s) == s.row.attempts + 1 < MaxAttempts

(* The attempt budget of a listed row. *)
HasBudget(s) == s.row.attempts < MaxAttempts

(* _dependency_block_reason *)
Spoiled(t) == \E d \in DependsOn[t] : row[d].status \in SpoiledDependency

(* Mutant: every started dependency counts. *)
DependenciesStarted(t) ==
  \A d \in DependsOn[t] : row[d].status \notin Unstarted /\ ~row[d].mark

(* _all_deps_done *)
DependenciesDone(t) ==
  \A d \in DependsOn[t] : row[d].status = "done" /\ ~row[d].mark

(* A row update by the worker that rewrites the metadata it listed. *)
Rewrite(s, new, lease) ==
  row' = [row EXCEPT ![s.task].status = new, ![s.task].lease = lease,
                     ![s.task].mark = s.row.mark]

-----------------------------------------------------------------------------
(* One cycle of a worker.                                                  *)

(* _fetch_dispatchable_tasks, its query for QUEUED rows... *)
ListQueued(w) ==
  /\ phase[w] = "idle"
  /\ agenda' = [agenda EXCEPT ![w] = Fetched("queued", BatchSize)]
  /\ phase' = [phase EXCEPT ![w] = "list"]
  /\ UNCHANGED <<row, ready, handler, runs, relisted, bounds>>

(* ... and its query for TODO rows, which may return a row again that was
   QUEUED a moment before. *)
ListTodo(w) ==
  LET queued == agenda[w]
      todo   == Fetched("todo", BatchSize - Len(queued))
  IN
  /\ phase[w] = "list"
  /\ agenda' = [agenda EXCEPT ![w] = queued \o todo]
  /\ relisted' = relisted \cup {t \in Tasks :
                   \E i \in DOMAIN queued, j \in DOMAIN todo :
                     queued[i].task = t /\ todo[j].task = t}
  /\ phase' = [phase EXCEPT ![w] = "screen"]
  /\ UNCHANGED <<row, ready, handler, runs, bounds>>

(* _fetch_dispatchable_tasks, its loop, one listed row at a time. *)
Screen(w) ==
  /\ phase[w] = "screen"
  /\ agenda[w] # <<>>
  /\ LET s == Current(w)
         doomed == HasBudget(s) /\ Spoiled(s.task)
     IN  \/ /\ doomed
            /\ Rewrite(s, "blocked", s.row.lease)
            /\ UNCHANGED ready
         \/ /\ ~doomed
            /\ ready' = IF HasBudget(s) /\ DependenciesDone(s.task)
                        THEN [ready EXCEPT ![w] = Append(@, s)] ELSE ready
            /\ UNCHANGED row
  /\ agenda' = [agenda EXCEPT ![w] = Tail(@)]
  /\ UNCHANGED <<phase, handler, runs, relisted, bounds>>

(* Mutant: what was ready is not taken off the list of the next cycle. *)
StartBatchKeeping(w) ==
  /\ phase[w] = "screen"
  /\ agenda[w] = <<>>
  /\ agenda' = [agenda EXCEPT ![w] = ready[w]]
  /\ phase' = [phase EXCEPT ![w] = "process"]
  /\ UNCHANGED <<row, ready, handler, runs, relisted, bounds>>

(* The screening is over: the batch is what passed it. *)
StartBatch(w) ==
  /\ phase[w] = "screen"
  /\ agenda[w] = <<>>
  /\ agenda' = [agenda EXCEPT ![w] = ready[w]]
  /\ ready' = [ready EXCEPT ![w] = <<>>]
  /\ phase' = [phase EXCEPT ![w] = "process"]
  /\ UNCHANGED <<row, handler, runs, relisted, bounds>>

(* Mutant: the attempt is counted when it ends in a retry only. *)
BeginUncounted(w) ==
  /\ phase[w] = "process"
  /\ agenda[w] # <<>>
  /\ Rewrite(Current(w), "in_progress", "live")
  /\ runs' = [runs EXCEPT ![Current(w).task] = @ + 1]
  /\ phase' = [phase EXCEPT ![w] = "busy"]
  /\ UNCHANGED <<agenda, ready, handler, relisted, bounds>>

(* _process_task claims the row with what it listed: status, attempt count and
   lease, whatever the row has become. *)
Begin(w) ==
  /\ phase[w] = "process"
  /\ agenda[w] # <<>>
  /\ LET s == Current(w) IN
     /\ row' = [row EXCEPT ![s.task] =
                  [status |-> "in_progress", attempts |-> s.row.attempts + 1,
                   lease |-> "live", mark |-> s.row.mark]]
     /\ runs' = [runs EXCEPT ![s.task] = @ + 1]
  /\ phase' = [phase EXCEPT ![w] = "busy"]
  /\ UNCHANGED <<agenda, ready, handler, relisted, bounds>>

(* On to the next task of the batch. *)
Leave(w) ==
  /\ phase' = [phase EXCEPT ![w] = "process"]
  /\ agenda' = [agenda EXCEPT ![w] = Tail(@)]
  /\ UNCHANGED <<ready, handler, runs, relisted, bounds>>

(* Whether the plugin path is taken.  An external executor named only in the
   metadata is forgotten when _mark_failed replaces them. *)
Inside(s) == s.task \notin External \/ s.row.mark

(* _write_success, its row... *)
Succeed(w) ==
  /\ phase[w] = "busy"
  /\ Inside(Current(w))
  /\ row' = [row EXCEPT ![Current(w).task].status = "done",
                        ![Current(w).task].lease = "none",
                        ![Current(w).task].mark = FALSE]
  /\ phase' = [phase EXCEPT ![w] = "record"]
  /\ UNCHANGED <<agenda, ready, handler, runs, relisted, bounds>>

(* ... and its outcome, for which it reads the row back. *)
RecordOutcome(w) ==
  /\ phase[w] = "record"
  /\ row[Current(w).task].status = "done"
  /\ Leave(w)
  /\ UNCHANGED row

(* A failed attempt with budget left goes back to TODO. *)
RetryLater(w) ==
  /\ phase[w] = "busy"
  /\ Inside(Current(w))
  /\ Current(w).row.attempts + 1 < MaxAttempts
  /\ Rewrite(Current(w), "todo", "none")
  /\ Leave(w)

(* _mark_dispatch_blocked: no executor matches, or the external one is out. *)
Block(w) ==
  /\ phase[w] = "busy"
  /\ Rewrite(Current(w), "blocked", "none")
  /\ Leave(w)

(* _mark_failed, which replaces the metadata: the last attempt failed, or the
   router, an external executor's synchronisation, the recording of an outcome
   or the reading back of its row raised. *)
Fail(w) ==
  /\ phase[w] \in {"busy", "record"}
  /\ row' = [row EXCEPT ![Current(w).task].status = "failed",
                        ![Current(w).task].lease = "none",
                        ![Current(w).task].mark = TRUE]
  /\ Leave(w)

(* An external executor ends and the result bridge writes what came of it
   through the service.  A verdict of "retry" counts as a success and leaves the
   row IN_PROGRESS. *)
SucceedOutside(w) ==
  /\ phase[w] = "busy"
  /\ Current(w).task \in External
  /\ row[Current(w).task].status \in Unstarted \cup {"in_progress"}
  /\ \E new \in {"done", "in_progress"} :
       row' = [row EXCEPT ![Current(w).task].status = new]
  /\ Leave(w)

FailOutside(w) ==
  /\ phase[w] = "busy"
  /\ Current(w).task \in External
  /\ Legal(row[Current(w).task].status, "failed")
  /\ row' = [row EXCEPT ![Current(w).task].status = "failed"]
  /\ Leave(w)

(* build_timeout_recovery_action *)
Recovered(t) ==
  CASE row[t].status # "in_progress" -> row[t].status
    [] row[t].lease = "live" -> "in_progress"
    [] row[t].lease = "overdue" -> IF t \in Retriable THEN "todo" ELSE "failed"
    [] OTHER -> "blocked"

(* Mutant: only rows with a lease are looked at. *)
RecoverLeased(w) ==
  /\ phase[w] = "process"
  /\ agenda[w] = <<>>
  /\ row' = [t \in Tasks |-> [row[t] EXCEPT !.status =
               IF row[t].lease = "overdue" THEN Recovered(t) ELSE @]]
  /\ phase' = [phase EXCEPT ![w] = "idle"]
  /\ UNCHANGED <<agenda, ready, handler, runs, relisted, bounds>>

(* The batch is done: check_timeout_and_republish_tasks closes the cycle. *)
Recover(w) ==
  /\ phase[w] = "process"
  /\ agenda[w] = <<>>
  /\ row' = [t \in Tasks |-> [row[t] EXCEPT !.status = Recovered(t)]]
  /\ phase' = [phase EXCEPT ![w] = "idle"]
  /\ UNCHANGED <<agenda, ready, handler, runs, relisted, bounds>>

-----------------------------------------------------------------------------
(* Operators, time, crashes.                                               *)

(* An update_task_status handler that runs without being cut. *)
Update(t, new) ==
  /\ new \in Targets
  /\ Legal(row[t].status, new)
  /\ row' = [row EXCEPT ![t].status = new]
  /\ UNCHANGED <<phase, agenda, ready, handler, runs, relisted, bounds>>

(* The same handler, cut: get_task and the legality check... *)
Read(o, t, new) ==
  /\ handler[o] = <<>>
  /\ cuts < MaxCuts
  /\ cuts' = cuts + 1
  /\ new \in Targets
  /\ Legal(row[t].status, new)
  /\ handler' = [handler EXCEPT ![o] = <<Listed(t), new>>]
  /\ UNCHANGED <<row, phase, agenda, ready, runs, relisted, crashes>>

(* ... and _sync_task_to_database, which writes every column. *)
Write(o) ==
  /\ handler[o] # <<>>
  /\ row' = [row EXCEPT ![handler[o][1].task] =
               [handler[o][1].row EXCEPT !.status = handler[o][2]]]
  /\ handler' = [handler EXCEPT ![o] = <<>>]
  /\ UNCHANGED <<phase, agenda, ready, runs, relisted, bounds>>

(* A lease's heartbeat, written once at the claim, becomes too old. *)
Age(t) ==
  /\ row[t].status = "in_progress"
  /\ row[t].lease = "live"
  /\ row' = [row EXCEPT ![t].lease = "overdue"]
  /\ UNCHANGED <<phase, agenda, ready, handler, runs, relisted, finished,
                 bounds>>

(* A process dies; another takes its place with an empty memory. *)
Crash(w) ==
  /\ crashes < MaxCrashes
  /\ phase' = [phase EXCEPT ![w] = "idle"]
  /\ agenda' = [agenda EXCEPT ![w] = <<>>]
  /\ ready' = [ready EXCEPT ![w] = <<>>]
  /\ crashes' = crashes + 1
  /\ UNCHANGED <<row, handler, runs, relisted, finished, cuts>>

-----------------------------------------------------------------------------

Init ==
  /\ row \in [Tasks -> [status : Unstarted, attempts : {0}, lease : {"none"},
                        mark : {FALSE}]]
  /\ phase = [w \in Workers |-> "idle"]
  /\ agenda = [w \in Workers |-> <<>>]
  /\ ready = [w \in Workers |-> <<>>]
  /\ handler = [o \in Overlapping |-> <<>>]
  /\ runs = [t \in Tasks |-> 0]
  /\ relisted = {}
  /\ finished = {}
  /\ crashes = 0
  /\ cuts = 0

(* The history takes down what a step finished. *)
Noted == finished' = finished \cup {t \in Tasks : row'[t].status = "done"}

WorkerStep(w) ==
  /\ \/ ListQueued(w) \/ ListTodo(w) \/ Screen(w) \/ StartBatch(w) \/ Begin(w)
     \/ Succeed(w) \/ RecordOutcome(w) \/ RetryLater(w) \/ Block(w) \/ Fail(w)
     \/ SucceedOutside(w) \/ FailOutside(w) \/ Recover(w)
  /\ Noted

OperatorStep ==
  /\ \/ \E t \in Tasks, new \in Targets : Update(t, new)
     \/ \E o \in Overlapping, t \in Tasks, new \in Targets : Read(o, t, new)
     \/ \E o \in Overlapping : Write(o)
  /\ Noted

Next ==
  \/ \E w \in Workers : WorkerStep(w) \/ Crash(w)
  \/ OperatorStep
  \/ \E t \in Tasks : Age(t)

Spec == Init /\ [][Next]_vars

(* A scheduler thread goes on for as long as its process runs, executors
   answer, and time passes. *)
Fairness ==
  /\ \A w \in Workers : WF_vars(WorkerStep(w))
  /\ \A t \in Tasks : WF_vars(Age(t))

LiveSpec == Spec /\ Fairness

-----------------------------------------------------------------------------
(* Properties.                                                             *)

Snapshots == [task : Tasks, row : Rows]

(* Every variable has its type; a batch never exceeds its size. *)
TypeOK ==
  /\ row \in [Tasks -> Rows]
  /\ phase \in [Workers -> {"idle", "list", "screen", "process", "busy",
                            "record"}]
  /\ \A w \in Workers :
       /\ Len(agenda[w]) + Len(ready[w]) <= BatchSize
       /\ \A i \in DOMAIN agenda[w] : agenda[w][i] \in Snapshots
       /\ \A i \in DOMAIN ready[w] : ready[w][i] \in Snapshots
       /\ phase[w] \in {"busy", "record"} => agenda[w] # <<>>
  /\ \A o \in Overlapping : handler[o] \in {<<>>} \cup (Snapshots \X Targets)
  /\ runs \in [Tasks -> Nat]
  /\ relisted \in SUBSET Tasks
  /\ finished \in SUBSET Tasks
  /\ crashes \in 0..MaxCrashes
  /\ cuts \in 0..MaxCuts

Executes(w, t) == phase[w] = "busy" /\ Current(w).task = t

(* A task is executed max_attempts times at most, through failures, crashed
   processes, recovered leases and operators' retries.  Two races cost more: a
   handler cut between its read and its write may undo the count, and renews
   the budget once; a row that a batch holds twice is executed once more. *)
AttemptBudget ==
  \A t \in Tasks :
    runs[t] <= MaxAttempts * (1 + cuts) + (IF t \in relisted THEN 1 ELSE 0)

(* What executes had all its dependencies finished before. *)
DependenciesFirst ==
  \A w \in Workers, t \in Tasks :
    Executes(w, t) => DependsOn[t] \subseteq finished

(* No task is executed by two workers at a time. *)
ExclusiveExecution ==
  \A v, w \in Workers, t \in Tasks : Executes(v, t) /\ Executes(w, t) => v = w

(* What the worker's query is documented to return. *)
Dispatchable(t) ==
  /\ row[t].status \in Unstarted
  /\ row[t].attempts < MaxAttempts
  /\ \A d \in DependsOn[t] : row[d].status = "done" /\ ~row[d].mark

(* A task that is ready to execute does not stay so: it is executed. *)
ReadyRuns == \A t \in Tasks : Dispatchable(t) ~> ~Dispatchable(t)

(* A row does not stay IN_PROGRESS, whether its worker ends, dies or was never
   there. *)
RunEnds ==
  \A t \in Tasks :
    row[t].status = "in_progress" ~> row[t].status # "in_progress"
=============================================================================
