# A TLA+ model of AnimoCerebro's tasks, background jobs and upgrades

This directory holds TLA+ specifications of the program in `src/src/zentex`, the
TLC configurations that check them on small instances, and TLAPS proofs of the
main results for instances of every size. Paths below are relative to
`src/src/zentex/` unless they say otherwise.

AnimoCerebro ("Zentex") is a long-running agent: a kernel turns goals into
*tasks*, a task service keeps their records in SQLite, a scheduler thread per
process executes them through plugins, CLI, MCP servers, connectors and other
agents, and a verification engine accepts or refuses the results. The task
subsystem is where this program has concurrent state: two threads in every
process (the event loop of the web console and the scheduler) and several
processes share one tasks table, and everything above it trusts that a task's
status means what it says. It is therefore modelled first, with the creation of
tasks by several processes and the decomposition of missions. Two more parts
have threads, files and records that must agree: the background queue under
asynchronous reflection, and the upgrade jobs with their physical rollback.
Most of the rest (reasoning, learning, memory consolidation) is LLM and data
work over records.

## 1. Inventory

| Component | State it keeps | Operations | Talks to |
|---|---|---|---|
| Status table and interventions (`tasks/management/status_control_mixin.py`) | `tasks` rows; `_intervention_receipts`; `intervention_receipts` table | claim, update status, delete, intervene | verification bridge, DAO, event bus |
| Suspension (`tasks/management/suspension_mixin.py`, `SuspendedTaskDAO`) | shared store `tasks:suspensions` (TTL), `suspended_tasks` table | suspend, resume, look up | status rows, scheduler, router |
| Completion with verification (`task_completion_verification_mixin.py`, `verification_failure_mixin.py`, `verification/status_bridge.py`) | status, `task_outcomes` table | complete, accept, retry, escalate, reject, recover | verification engine (awaited) |
| Creation and idempotency (`task_creation_flow_mixin.py`) | rows, idempotency keys, a distributed lock | create (with noise policy, assignment gate) | locks, router |
| Dependency graph (`dependency_graph_mixin.py`) | `depends_on` | add, remove, cycle check, path analyses | rows |
| Assignment router (`tasks/execution/assignment_flow.py`) | status, executor fields | assign, suspend on a resource gap (G9), resume it | suspension, plugin registry |
| Recovery passes (`worker_timeout_mixin.py`, `timeout_recovery.py`) | rows, `metadata.lease` | auto-resume, gap recovery, reclaim stale or unleased rows (G39) | suspension, status table |
| Execution worker (`tasks/execution/worker.py`) | rows (attempt count, lease, results) | list, screen, claim, execute, write the result | DAO directly, executors, result bridge |
| Auto-loop scheduler (`tasks/scheduling/loop_scheduler.py`) | a thread and its stop event | start, stop, run a cycle | worker, recovery passes |
| Mission decomposition, Q8/Q9 persistence | rows of missions and subtasks | decompose (awaits), persist, link | service, DAO directly |
| Locks, leases, leader election (`common/locking.py`, `lease.py`, `coordination.py`) | keys with an owner and a TTL | acquire, renew, release, lead | shared stores |
| Shared stores, database (`common/state.py`, `database.py`) | SQLite files, LRU caches per process | get, set, delete, cached find | everything |
| Background queue and monitor (`background_tasks/`) | a priority heap, its index; job records, a circuit breaker | put, get, remove, aging; register, update, evict | any background service |
| Asynchronous reflection (`reflection/async_service.py`, `task_executor.py`) | a worker thread, a thread pool with its futures | submit, cancel, execute, retry, start, stop | queue, monitor, workflow bridge |
| Workflow bridge (`tasks/integration/workflow_bridge.py`) | a row per reflection, learning or upgrade job | sync, which may raise | task service |
| Upgrade records (`upgrade/management.py`) | records in memory, rows in SQLite | upsert, cancel, clean up, load | everything in `upgrade/` |
| Upgrade execution and publication (`upgrade/execution.py`, `publication.py`) | the record, a physical backup, the files of the target, a `.corrupted` snapshot | execute (prompt, plugin, new plugin), promote, roll back | store, bridge, runtimes |
| Phase D self-evolution (`upgrade/phase_d_self_evolution.py`) | the record's payload, governance decisions | register, govern, activate, observe, promote, roll back | store, learning log |
| Kernel sessions, nine questions, memory, learning | sessions, working memory, memory records | turns, reasoning, consolidation | task service, LLM gateway |
| Plugins | registry | register, activate | router, audit |
| Safety, supervision, governance, audit, collaboration, environment, web console, launcher | rules, logs, wiring | evaluate, append, serve | all |

`PROJECT.json` lists every one with its status. What is hard in them, and what
makes them correct:

* **Suspension.** Three writes (shared record, row, table record) of which each
  may fail, two stores consulted in different orders by different callers, and
  records that outlive the suspension they belong to. Correct when no record,
  however stale, can bring finished work back, and every suspension with a date
  or a resource gap ends.
* **Completion.** The engine is awaited with the task in
  `WAITING_CONFIRMATION`; operators, recoveries and a second completion run
  meanwhile. Correct when a verified task is not finished without a
  verification and accepted work is never reopened.
* **Interventions.** Idempotency keys are to survive repeats. Correct when a
  stored key is never applied again.
* **Dependencies.** Edits, creations and forced deletions in any order.
  Correct when no cycle ever closes and nothing executes before what it
  depends on.
* **Worker.** It decides on rows it listed earlier and writes the table past the
  transition table; it may die at any point; operators and other workers write
  the same rows. Correct when a task runs within its attempt budget, never
  twice at once, after its dependencies, and ready work is executed.
* **Creation and locks.** Two stores of keys, three writes, stale entries that
  anybody deletes, a lock whose TTL may pass and whose timeout nobody looks at.
  Correct when a key has one task.
* **Decomposition.** Rows read before an await and written after it, in two
  passes over copies, beside the worker that executes them. Correct when a
  decomposed mission's subtasks are dispatched and linked.
* **Background jobs.** Queue, index, monitor, pool and row are updated one after
  the other by threads that overtake each other. Correct when what was cancelled
  never runs, retries stay in budget, and the worker always comes back.
* **Upgrades.** A record shared by reference between the execution and its
  callers, files moved while anything may fail, a store rewritten without a
  transaction. Correct when no rollback is claimed that did not happen, a whole
  copy of the files always exists, and nothing goes live without approval.

The hazards, each at its line, are in `PROJECT.json`.

## 2. Modules

| Module | What it is |
|---|---|
| `TaskStates` | the status alphabet and the transition table, shared by the others |
| `TaskLifecycle` | the service's operations on task records, suspension records, outcomes, keys and dependencies |
| `TaskOutcomes` | the abstract specification: what the service promises of a task |
| `TaskLifecycleProofs` | theorems about `TaskLifecycle` |
| `LeaderElection` | the key that names the leader of a pass, and who counts on it |
| `AutoResumePass` | `check_auto_resume_tasks` on several nodes, over `TaskLifecycle` and `LeaderElection` |
| `AutoResumePassProofs` | theorems about these two, on top of `TaskLifecycleProofs` |
| `TaskWorker` | the scheduler threads, the worker, the leases, and handlers that race with them |
| `TaskWorkerProofs` | theorems about `TaskWorker` |
| `AttemptBudgetProofs` | its attempt budget, on top of `TaskWorkerProofs` |
| `DistributedLock` | the lock of a single node, and the mishaps that are counted |
| `TaskCreation` | `create_task` by idempotency key, and `delete_task`, over `DistributedLock` |
| `MissionDecomposition` | the decomposition of a mission over `TaskCreation`, beside a worker |
| `MissionDecompositionProofs` | theorems about these three |
| `MissionDispatchProofs` | what a decomposition dispatches and links, on top of `MissionDecompositionProofs` |
| `BackgroundTasks` | queue and monitor, as operators |
| `WorkflowBridge` | the rows that follow jobs and upgrade records, as operators |
| `AsyncReflection` | the reflection service, composed of these two |
| `AsyncReflectionProofs` | theorems about these three |
| `UpgradeStore` | upgrade records in memory and on disk |
| `UpgradeExecution` | execution, promotion and rollback of upgrades, over `UpgradeStore` and `WorkflowBridge` |
| `PhaseD` | phase D, crashes, and the whole upgrade subsystem |
| `PhaseDProofs` | theorems about these three |
| `MC...` | instances for TLC |

### TaskLifecycle

`status[t]` is the column of the table, taken to be what `get_task` answers. In
the code `find_by_id` answers from an LRU cache of the process, for up to 60 s
(`common/database.py:426`); the process's own writes clear it, so the two are the
same as long as one process serves the calls, which this module assumes. What
becomes of a row when another process has written it is in `AutoResumePass`
(`Misread`). `dbSusp` and
`shSusp` are the two stores of suspension records; `passed` is the
`overall_passed` flag of the stored outcomes; `call` holds the completions that
await the engine; `receipts` and `receiptLog` are the keys of interventions in
memory and in the table. A record keeps its origin status and one of three
kinds: *manual*, *timed* (with `auto_resume_at`), *gap* (the router's G9).

An action is a service call run to its end: calls that only await each other, or
awaits that nothing blocks on, do not interleave here. The exception is
`complete_task_with_verification`, split at its `await`: `BeginVerification` is
what precedes the engine, `Verdict` what follows it, and its disjuncts are the
branches of the code, the two `except` clauses and the outcome record that
fails to be stored among them. An operator's approval that the bridge routes
through verification is the same call with the operator's key, acknowledged
when the verdict is in.

`update_task_status` is `Legal` and one row write. A row write that fails there
rolls back the in-memory copies and changes nothing, so it is no action. Each
write of `suspend_task` and `resume_task` that fails after another one is an
action of its own (`...Fault`), because it leaves a trace. `Remember` says what
the code does when a table record exists already: the insert fails on the
primary key, the result is ignored and the older record stays.
`recover_waiting_confirmation_task` makes two legal moves in a row without a
foreign step in between and is one action; so is the router's resume-and-queue.

`WouldClose` is the depth-first search of `_would_create_circular_dependency` as
what it computes: "every set holding `d` and closed under dependencies holds
`t`". It is written without recursion so that it can be proved about.

Left out here: leases (`Reclaim` and `BlockUnleased` may both strike any
IN_PROGRESS row; `TaskWorker` has the leases), the worker's writes past the
table, decomposition, notification and audit, which change no task state. The
automatic maintenance hook at the end of a completion is awaited after all
writes and adds nothing. The assignment router's choice of an executor is
nondeterministic. The shared task store and `_tasks` are copies that `get_task`
never answers from.

### TaskOutcomes

A task is unborn, open, done, failed, closed or gone. Done work can only be filed
away or removed; a failed task may be reopened; a closed one stays closed; the
set of accepted outcomes only grows, and only by an acceptance that finishes an
open task. `TaskLifecycle` implements it under `PhaseOf`: all of suspension,
resumption, retry, assignment and verification is work on an open task.

### LeaderElection, AutoResumePass

`leader` is what the key in the shared cache holds. `TryAdd`, `ReadLeader` and
`Extend` are the three operations of `try_acquire` (the Redis and the disk cache
branch use them in the same order), `Lapse` is the TTL, which may pass at any
moment, also in the middle of a pass: the lease is taken for 10 s and not renewed
while the pass awaits a call per task. `Depart` is a death; the process that comes
after it has a new `node_id`. `late` is a history: whose term the key no longer
covers, because it lapsed or because an extension that came after a lapse
overwrote it. The docstring says that a job runs "on only one node/process"
(`coordination.py:14`); what holds is `OneLeader`: on one, or else a lease ran out.

`pass[n]` is where the pass of a leader is: a stage and the tasks it has listed and
not served. `TaskLifecycle` has the same passes as single steps that meet a task
that is due (`AutoResume`, `ResumeGap`); here the list is made first and every task
of it served later, with the calls of operators, workers and other nodes in
between. So `ServeDated` resumes a task that was resumed and suspended for another
reason meanwhile, `ServeGap` queues it, and `ServeStale` returns to TODO what has
failed since it was listed. The timeout pass asks for no leader and stays as it is.

A handler of the pass decides on what `get_task` answers and saves the whole row
without comparing it (`task_serialization_mixin.py:170`). If another process has
written the row in the last 60 s, that may be an outdated copy: `Misread` says that
one is read, `Overwrite` that it is saved. The copy is not kept as state; any status
the handler asks for and any earlier `depends_on` may come with it, which allows
more than the code does. So a pass may reopen what another process has finished, or
insert a deleted row again; `OutcomesUnlessMisread` says that it does so to no row
of which no outdated copy was read, and that `misreads` counts them all.
`MaxMisreads` bounds the copies per task, which is what lets a suspension end: a copy
lives 60 s. The calls of operators, completions and workers act on the current row:
one process serves them, and its own writes clear its cache.

Left out: a pass started by hand beside the scheduler's in the same process, which
has the same `node_id` and is let in; `release`, which nobody calls, and
`is_leader`, which only `release` reads. A dated record is listed when its date has
come and a gap when its executor is there: a pass before that is one that does not
list the task. A gap's resumption and the QUEUED that follows it are one step.

### TaskWorker

A cycle of a thread is `ListQueued`, `ListTodo`, `Screen` for every listed row,
`StartBatch`, then `Begin` and one ending per ready row, and `Recover`. Between
any two of these other threads run. What the worker carries from the listing is
a copy of the row (`agenda`), and `Begin` writes the attempt count *of the copy*
plus one, unconditionally, as `_process_task` does. The endings are those of the
code: `Succeed` followed by `RecordOutcome`, which reads the row back,
`RetryLater`, `Block`, `Fail` (after `Succeed` too, when the outcome cannot be
recorded), and `SucceedOutside` and `FailOutside`, where an external executor's
result is written through the service and a "retry" verdict leaves the row
IN_PROGRESS. `_mark_failed` replaces the metadata, with them an executor named
only there: such a task may take the plugin path when it is retried (`Inside`).
`Fetched` keeps a query's order and its `LIMIT`: newest first, cut *before* the
rows are screened; the two queries are two steps, so one batch can hold a row
twice. `Update` is a handler that is not interrupted; `Read` and `Write` are
one that the thread switch cuts between its read and its write of the whole row.

`runs`, `relisted` and `finished` are histories. `mark` is
`metadata.completion_status = "failed"`, which a retry does not clear.

Left out: the approval gate, the ReAct executor (off by default), replacement
of a missing executor, failing row writes, deletion of rows, priorities (all
rows have the same), the WAITING_CONFIRMATION that a verified external result
passes through (`TaskLifecycle` has it), an exception after the external result is
written, the rows and task types the worker is configured not to list,
and the path of G39 that returns rows without a lease to TODO after a long
downtime (they are BLOCKED here). The recovery pass is one step: it decides row
by row on what it has just read. The worker does not ask who leads; the passes that
do are in `AutoResumePass`.

### DistributedLock, TaskCreation, MissionDecomposition

`create[p]` is where a call of `create_task` is: it reads the entry of its key
from the table (`log`) and from the store that forgets (`shared`), answers with
the task if the row exists, deletes the entry if it does not, takes the lock and
does the same again, then writes row, entry and shared entry, and leaves. Every
one of these is a step. `Acquire` goes in without the lock when it has waited too
long, as `__enter__` does; `Leave` and `Unlock` are the two halves of `release`.
An insert of an entry that exists fails unnoticed, and so may any other
(`Record`, "unlogged"): `BaseDAO.insert` answers False, which nobody looks at. The key
is then known to the shared store alone, which forgets.

`job[p]` holds what `decompose_and_dispatch_mission` carries from step to step:
the mission as it was read, the ids of this time, the statuses read back, and
the step being linked. `Route` writes the row that `create_task` answered, not
the current one, and `ReadBack` raises when the worker was faster. `Link` writes
a whole row from the copy in `_tasks`, which pass 1 read back or another reader in
the process has refreshed since: its status may be any the row had once it was
dispatched. `AllIds` is the list of the ids the mission ever had, which pass 2 pairs
with the plan. The worker beside it claims and settles what was dispatched without
looking at the row again, as often as it likes (`Claim`, `Settle`; `TaskWorker` has
what it screens and how often it tries): it writes the status and leaves `depends_on`
alone.

A process that dies leaves its lock behind (`Gone`) until it expires (`Abandon`).

`mishaps` counts what went wrong. `OneTaskPerKey` names those that can cost a key
its uniqueness: a lapse (nobody else was kept out), a tear (a row no entry leads
to), a deletion (whose later writes may hit the entries of the task's
successor), and an insert that failed together with an expiry of a shared entry
(either alone costs nothing). All others, in any number, cost nothing. How many rows
a costly one may add depends on the number of processes, so no budget is stated.

Left out: the noise policy's keys for automatically cancelled and forced tasks
(they are unique by construction), the mission's own status, the resource gap of
a subtask (in `TaskLifecycle`), the file and Redis locks (`get_lock_for_resource`
gives neither to a single node with a disk cache), the cache of the DAO (lookups
here see the rows as they are). Whole rows are also written by other calls of the
service and by the bridge of external executors, from what their process last read;
one from before pass 2 takes the links of a subtask back. They are left out, so
`DecomposedIsLinked` speaks of decompositions beside workers, deletions and each
other only. The lookup before the noise policy and the one after it are one here: nothing is
kept from the first. The decomposer's plan is fixed.

### BackgroundTasks, WorkflowBridge, AsyncReflection

The operators of `BackgroundTasks` are the methods of queue and monitor, atomic
under their locks, but for `get`: `Take` removes from the heap, `Untrack` from the
index. Aging is absent because it changes a number the heap does not compare.
`Evicted` drops the oldest record of a full monitor, live or not. Steps are cut
after every call that changes the queue, the monitor or a row; what `get_task` says
is read in the step that acts on it (`Collect`), for the one thing that can happen
to the record of a job in a worker's hands is its eviction, which has an action of
its own where it makes a difference (`LetGo`). Deletion of a job's row by an operator
is left out: `CompletedAgrees` speaks of rows that are only moved.

`caller`, `cancel` and `phase` are the places where a submission, a cancellation
and a worker thread may be overtaken. `future` is a job in the pool; when nobody
waits for it any more its result is lost. `service` follows `start_worker` and
`stop_worker`; a service started again has a pool that refuses (`PoolUp`).
`Syncs` and `SyncRaises` are what the bridge does with a row that operators move
as well: a refused transition raises in the job's own code, inside the `try` or in
its `except` clause.

`stray` are the jobs the code is known to leave PENDING (`submit` overtaken
before it marks the record; a retry refused by a full queue), so that
`PendingIsQueued` can say that there is no third way.

### UpgradeStore, UpgradeExecution, PhaseD

`mem` is the dictionary of records, which everybody shares and changes in place,
`disk` the rows. `upsert` sets the record and then rewrites the table in two
statements, a DELETE and the INSERTs. It returns (`Upsert`) or it raises (`UpsertRaises`),
with the memory changed all the same and the rows as they were, cut short or gone
(`SaveRaises`): then the caller is left without its answer and the process goes on,
and every action says what becomes of it. A handler sets several fields before it
saves; the record is taken to change with the save, but for the success an execution
writes down (`Work`, by `Touch`), between which and its save others may come in.
`SaveOthers` stands for the saves of all records the instance does not have: they
carry these rows along, or lose them. Nothing promises that rows follow the memory,
and no property says so; those of the run hold of memory and rows that differ.
`Reload` is a crash: the next process loads the rows there are, and saves them.
`exec[r]` is where the thread of an execution is. `call[c]` is a
rollback or an activation under way; `target` and `kept` are the files at
`source_path` and the `.corrupted` snapshots left beside it, `call[c].moved` the
snapshot of a rollback in progress. Every file operation is a step that may fail
or be cut off. `execute_rollback` is called by `rollback` of the publication service
(`Publish`, `Refuse`) or directly by a router ("revert"). `mirror` is the row of the
tasks table that follows the record; operators, and the worker, which is not kept
from these rows, move it to any of `Moved` (`Meddle`). No property relies on it: it
decides only whether the bridge raises.

The requests of phase D are steps, but `activate`, which reads the learning log
between its gate and its write. It keeps the record of the gate, also when a new
registration has put another one in its place meanwhile (`ActivateReplaced`).

Left out: planning and the nine-question audit of a proposal, statuses nobody
sets (planning, validating, registered...), the evidence ledger, `EvolutionMonitor`
(nobody creates one), and the deletion of a candidate's directory.

## 3. Runs

| Run | Instance | Shows |
|---|---|---|
| `life_records` | one task that is verified, retriable and escalating; a key; two completion slots; two faults; one expiry | types, `SuspensionOriginOK`, `AcceptedStaysFinished`, `VerifiedDone`, and that the service implements `TaskOutcomes` |
| `life_graph` | three tasks, all operations on rows and edges | `DependencyAcyclic` |
| `life_live` | two nodes that campaign, one death, one outdated copy, one task without verification, suspensions with dates and for gaps, fair scheduler | types, `OneLeader`, `OutcomesUnlessMisread`, `InProgressEnds`, `SuspensionEnds` |
| `worker_one` | one thread, batch 2, two attempts, a chain of an external and a dependent internal task, a crash, operators, one cut handler | types, `AttemptBudget`, `DependenciesFirst` |
| `worker_live` | the same without the cut handler, fair scheduler | `ReadyRuns`, `RunEnds` |
| `mission_subtasks` | two processes, a plan of two steps of which the second needs the first, two decompositions, two rows per key, one mishap of each kind | types, `OneTaskPerKey`, `LockReleased`, `DecomposedIsLinked` |
| `reflection_queue` | two jobs, one of them cancellable; queue, monitor, pool and worker of one each; one retry | types, `TrackedIsQueued`, `RetryBudget`, `PendingIsQueued`, `CompletedAgrees`, `CancelledNeverRuns`, `WorkerReturns` |
| `upgrade_records` | each kind of upgrade, one record at a time; two callers; saves that raise | types, `NoFakeRollback`, `SnapshotKept`, `WorkedBeforeDone`, `LiveWasApproved`, `BaselineBack` |
| `auto_resume_ttl` | `TaskLifecycle`, one task, all kinds of suspension, one expiry, fair scheduler | a dated suspension that never ends (finding) |
| `intervention_replay` | as `life_records`, no faults | a stored key applied twice (finding) |
| `worker_shared` | two threads | a task executed twice at once (finding) |
| `worker_starved` | batch 1 | a ready task that is never fetched (finding) |

**Bounds.** `MaxFaults` and `MaxExpiries` count failures; two are enough to have
a suspension and the resumption that follows it fail, which is what leaves both
stores stale in different ways. Two completion slots give a late verdict and a
newer submission of the same task; what the properties relate beyond one task
is only `depends_on`, for which three tasks give a cycle longer than the edge
that closes it, with a fourth state (deleted) for dangling ids. In the worker,
two tasks in a chain give the one relation between rows the code reads; two
attempts distinguish first, last and spent; one crash and one cut handler
suffice to lose or renew a count, and the property says how much each may
cost. In `mission_subtasks` one mishap of each kind is enough to meet every path it
opens; two decompositions give a stale mission row and a stale copy, two rows per key
the duplicate. `reflection_queue` has capacities of one, so that the second job
meets a full queue, an evicted record and a busy pool. Upgrades
share nothing but the rewrite of the table, for which `SaveOthers` stands, so one
record of each kind is enough;
two callers give a rollback that meets another, and two activations of one
record. In `life_live` two nodes give a leader and a rival, which is all that
`OneLeader` compares; leases lapse without bound; one death leaves a key nobody
owns. The verification of the task and manual suspensions are left to
`life_records`: the passes do not look at them. Calls that nobody answers (`CHECK_DEADLOCK FALSE`) are normal here: a
program whose jobs are done stops.

**Symmetry.** `mission_subtasks` and `upgrade_records` permute the processes and
the callers, which no definition tells apart; they check no liveness.

Everything the proofs cover holds for any bounds.

**Mutants.** Definitions marked `Mutant` are wrong versions of the one below
them (a dropped check, the other store, an uncounted attempt). They are not used
by any specification; replacing the real definition by one makes TLC refute the
property `PROJECT.json` pairs it with.

**Fairness.** `PassFairness` is weak fairness of every node's next step, of the
timeout pass per task, and of the expiry of a dead node's lease: `_run_loop`
repeats its cycle until it is stopped, a cycle's exceptions are caught and logged,
every pass looks at every row, and the key is written with a TTL. Nobody is
assumed to lead. That a pass takes place again and again is what the election has
to guarantee: a key somebody holds was added or extended by who begins a pass, and
the key of the dead runs out. `SchedulerFairness` of `TaskLifecycle`, used by
`auto_resume_ttl`, is weak fairness of the passes as single steps. Both assume that
a gap's executor has come, and that a date comes. `Fairness` of the worker adds that executors answer (plugins and
external calls have timeouts) and that a heartbeat, which is written only at
the claim, grows too old. Operators, faults and crashes are not fair.
`reflection_queue` assumes only that its worker threads go on (a loop with a
one-second poll); a reflection may hang for ever and the pool with it.
`SuspensionEnds` passes in `life_live` because no record expires there;
`auto_resume_ttl` shows what an expiry does.

## 4. Proofs

`TaskLifecycleProofs` proves, for every set of tasks, keys and call slots, all
contracts and all bounds, from `LifecycleAssumption` alone:

| Theorem | Statement |
|---|---|
| `TypeCorrect` | `Spec => []TypeOK` |
| `SuspensionSound` | `Spec => []SuspensionOriginOK` |
| `AcceptedSound` | `Spec => []AcceptedStaysFinished` |
| `VerifiedDoneSound` | `Spec => VerifiedDone` |
| `ImplementsOutcomes` | `Spec => KeepsOutcomes` (refinement of `TaskOutcomes`) |
| `DependenciesSound` | `Spec => []DependencyAcyclic` |

`LifecycleAssumption` says that the placeholders are no task and no key, that
verified tasks are tasks, that bounds are numbers, and that a task is not born
IN_PROGRESS, SUSPENDED or finished: `create_task` starts a payload as the
assignment gate, the noise policy or the decomposition flag say.

The theorems speak of the service's operations. The execution worker and the
Q8/Q9 persistence may write rows past them, and what those writes may do to a task
is the subject of `TaskWorker` and of the modules planned below.

The argument of `TaskLifecycleProofs`. `RowStep(t)` abstracts a step to what it may do to one row:
nothing, a birth, a deletion, a legal move, or a move among open statuses
(resumption, recovery and the router write such moves themselves). That every
action is a `RowStep` (`RowOperator`, `RowCompletion`, `RowSuspension`,
`RowScheduler`, `RowVerdict`) needs `SuspensionOriginOK`: a resumption writes
whatever the record says, so only the invariant on records keeps it among open
statuses. With `TypeOK` it is inductive. `AcceptedStaysFinished` then follows
because no `RowStep` leaves a finished row but to a finished one; it in turn is
what makes a late "retry" verdict harmless to the set of accepted outcomes,
which the refinement needs. The refinement is by cases: an acceptance is
`Accept`, every other step moves one phase along `PhaseSteps` or none.

`DependencyAcyclic` is not inductive: a fresh row may name any id, so it needs
`DependenciesBorn` (nobody depends on an id not yet handed out). The step of
`add_dependency` is an argument about *knots*, sets of rows in which each
depends on another of the set: were one tied by the new edge, its part inside
the closed set that the search found would have been a knot before.

### AutoResumePassProofs

From `LifecycleAssumption`, `ElectionAssumption` and `PassAssumption` (a bound is a
number), for any number of nodes and of outdated copies:

| Theorem | Statement |
|---|---|
| `PassTypes` | `PassSpec => []PassTypeOK` |
| `LeaderIsAlone` | `PassSpec => []OneLeader` |
| `PassKeepsOutcomes` | `PassSpec => OutcomesUnlessMisread` |
| `PassKeepsRecords` | `PassSpec => []SuspensionOriginOK` |
| `PassKeepsVerified` | `PassSpec => VerifiedDone` |

`HoldsUnlessLate` (who counts on the key and is not late finds its name in it) is
inductive because `ReadLeader` compares and because only `Lapse` and an extension
after one take the key away. For the rows, `PassServes` reduces a step of a pass to
a step of `TaskLifecycle`, to `ResumeListedGap` (the resumption of a gap whose
record is no longer the one listed) or to an `Overwrite`; that the second is a
`RowStep` needs `SuspensionOriginOK` of the *current* record. What
`TaskLifecycleProofs` shows of steps then carries over to the first two. An
`Overwrite` is none: it touches one row, is counted, and writes no status that
finishes a task, which is what `OutcomesUnlessMisread` and `VerifiedDone` need. That
dependencies stay without cycles is not claimed here: an old `depends_on` may come
back with a copy.

### TaskWorkerProofs

From `WorkerAssumption` (the fetch order names every task once, batches and
attempts are positive), for any number of workers, handlers and tasks:

| Theorem | Statement |
|---|---|
| `WorkerTypes` | `Spec => []TypeOK` |
| `DependenciesComeFirst` | `Spec => []DependenciesFirst` |

`WorkerInv` is the types of the tables, `BatchOK(w)` for every worker (what it
lists, screens and executes are rows with budget, in numbers that fit the batch),
and `DoneIsFinished`: a row that says done, or a stale copy of one that a cut
handler carries, is of a task that was done once. The last is what a worker
relies on when it reads a dependency. That `Fetched` answers at most `LIMIT` rows
is an argument about the k-th smallest number of a set.

### AttemptBudgetProofs

| Theorem | Statement |
|---|---|
| `AttemptsAreBounded` | `Alone => (Spec => []AttemptBudget)` |

`Alone` says that one scheduler thread works on the table, as `worker_one` has it;
the handlers beside it are as many as one likes. The hypothesis is needed: with two
threads TLC violates `AttemptBudget`, because both write the attempt count they
listed and one execution goes uncounted (finding 3). `BudgetInv` says of every row
that its attempts account for the executions of its task, up to a budget for every
cut handler that has written (`Fits`), and of every copy in a batch that an execution
begun with it is accounted for as well (`CopiesOK`). The difficult case is a row the
same batch holds twice, once from its list of QUEUED rows, which turns them into TODO, and
once from its list of TODO rows. That happens to a task once in its life: no
operation makes a row QUEUED but on its way from the assignment gate, which the rows
of this model have passed and never return to (`NeverRequeued`).

### AsyncReflectionProofs

From `BackgroundAssumption` and `ReflectionAssumption` (capacities are positive,
jobs finite in number):

| Theorem | Statement |
|---|---|
| `ReflectionTypes` | `Spec => []TypeOK` |
| `IndexAgrees` | `Spec => []TrackedIsQueued` |
| `CancellationHolds` | `Spec => CancelledNeverRuns` |
| `RetriesAreBounded` | `Spec => []RetryBudget` |
| `CompletedAgreesHolds` | `Spec => []CompletedAgrees` |
| `PendingHolds` | `Spec => []PendingIsQueued` |

`Base` has the types and the age of the records: what is older than a record is
itself a record with fewer older ones, so that a full monitor always finds one to
evict. `Places` says where a job can be: one thread at most holds it, a
cancelled one is in no place it could be executed from, an index entry has a heap
entry. Each of the last three theorems has a strengthening of its own on top of
these two: what a retry may still grant, what the row says at each point of the
report, and which phase of `submit` or of the worker a PENDING record belongs to.

### PhaseDProofs

From `StoreAssumption` (the kinds considered are kinds of records) and
`MovedAssumption` (what rows are moved to are statuses), for any
records and callers:

| Theorem | Statement |
|---|---|
| `NoRollbackIsFaked` | `UpgradeSpec => []NoFakeRollback` |
| `WorkComesFirst` | `UpgradeSpec => []WorkedBeforeDone` |
| `LiveIsApproved` | `UpgradeSpec => []LiveWasApproved` |
| `BaselineIsBack` | `UpgradeSpec => []BaselineBack` |
| `SnapshotIsKept` | `UpgradeSpec => []SnapshotKept` |
| `UpgradeTypes` | `UpgradeSpec => []UpgradeTypeOK` |

`UpgradeInv` is `Shapes` and `Accounts`: whatever a record says, in memory *or on
disk*, the histories account for (`RecordsSound`), so that a crash, which replaces
the one by the other, changes nothing; what was checked at the beginning of a
call still holds at its end (`CallsSound`). For the files, `FilesSound` says which
copies exist at each step of a rollback, alone or overtaken. `Filed` is what
`UpgradeTypeOK` needs beside `UpgradeInv`: whoever has a record under way has one that
exists. An execution saves the record it was given and an activation puts back one
that had been replaced, but neither makes one up, nor does a save that raises take one
out of the memory.

### MissionDecompositionProofs

From `LockAssumption`, `CreationAssumption` and `MissionAssumption`, for any
number of processes, keys and rows, any plan and any number of mishaps:

| Theorem | Statement |
|---|---|
| `MissionTypes` | `MissionSpec => []MissionTypeOK` |
| `LocksAreReleased` | `MissionSpec => []LockReleased` |
| `KeysAreUnique` | `MissionSpec => []OneTaskPerKey` |

`MissionAssumption` takes from the plan's reviewer
(`tasks/decomposition/reviewer.py:115` and `:175`) that no step is named twice
and that a step needs only steps of the plan. `Shapes` says what a call and a
decomposition carry: entries lead to rows made for their key, the ids of a
decomposition are those of the steps so far. `HolderInside` says that the owner of
a lock is inside it; it is inductive whoever expires or deletes the key. The
converse is not: it needs that no lock lapsed, and is a part of `Uniqueness`,
with "an entry leads to every row, in the shared store at least if its insert
failed, or its writer is about to make one" (`Known`), "that writer
is the only one to have made a row of the key" and "who searches inside the lock
has nothing to find". A lock that a dead process left expires without harm
because its holder is no longer inside.

### MissionDispatchProofs

From the same assumptions:

| Theorem | Statement |
|---|---|
| `DecomposedMissionsAreLinked` | `MissionSpec => []DecomposedIsLinked` |

`DecomposedIsLinked` follows from `Pairing`, which holds while nothing was cut off and no
subtask deleted (locks may lapse and entries expire): a mission that is done names
a dispatched subtask for every step, a decomposition under way has one for every step
it has passed, a call answers with a row of its own key, and every dispatched
subtask is linked or some process still has it before it in pass 2 (`WillLink`).
That last part is why a late write of pass 1 does no harm: who overwrites the
links of another process has yet to link the subtask itself.

The strengthening was checked by TLC, with two processes and plans of two and three
steps, before it was proved. The worker's
case is short: it leaves `depends_on` alone, and what it writes is a status of a
dispatched row.

### What is only model-checked

The liveness properties: `InProgressEnds`, `SuspensionEnds`, `ReadyRuns`, `RunEnds`
and `WorkerReturns`. Temporal reasoning under fairness and `ENABLED` are out of the
prover's reach. Every invariant and action property of a passing run is a theorem;
`AttemptBudget` is one for one scheduler thread. No module declares a recursive
operator.

## 5. Findings

1. `check_auto_resume_tasks` looks for due suspensions in the shared store only;
   its records expire (`worker_timeout_mixin.py:35`), after which the date kept
   in the table is never looked at: `auto_resume_ttl`.
2. `intervene` consults the keys of its own process, never the table it writes:
   `intervention_replay`.
3. The worker's claim does not compare the row with what it listed, so two
   processes execute one task and count one attempt: `worker_shared`.
4. `LIMIT` before screening: a batch full of waiting dependents hides the ready
   task they wait for: `worker_starved`. With `batch_size` at its default the
   same needs as many waiting rows as the batch is long.

## 6. Plan

Done: the modules of section 2. Next, in this order:

1. An abstract specification of the upgrade records (what a reader of the store may
   see of a candidate) and the refinement proof that the subsystem implements it.
2. The synchronisation of Q8 tasks (`nine_questions/q8_tasks.py`) and the blueprints
   of Q9 with their children (`tasks/decomposition/`), composed with the worker
   (`tasks/execution/task_persistence.py` has no caller); the caches of several
   processes for the calls besides the recovery pass, creation among them.
3. Kernel sessions, plugin lifecycle, learning jobs on the bridge.

### Not modelled

The map names a small share of the repository's lines: most of its thousand
files are prompts, plugins, data classes, routers and reports without state of
their own. What has state and is not modelled is in the plan. Not planned: the
nine questions, learning, the LLM gateway (data),
environment sensing and transports (I/O), the web console and the admin portal
(a layer of HTTP over the services), deployment and wiring.
