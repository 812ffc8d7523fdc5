--------------------------- MODULE AsyncReflection ---------------------------
(***************************************************************************)
(* AsyncReflectionService: callers submit and cancel reflection jobs,      *)
(* worker threads take them from the queue and wait for the thread pool    *)
(* of ReflectionTaskExecutor, and each step is reported to the monitor and *)
(* to the job's row in the tasks table.                                    *)
(*                                                                         *)
(* A call is split wherever another thread may run in between: after every *)
(* call that changes the queue, the monitor or the rows; get_task is read  *)
(* in the step that acts on it (Collect), or is a step (CancelCheck).  A   *)
(* job's caller, its cancellation, the worker threads, the pool and the    *)
(* thread that starts and stops the service all interleave.                *)
(*                                                                         *)
(* A definition whose comment begins with "Mutant" is a wrong version of   *)
(* the one after it: it shows which property notices that mistake.         *)
(***************************************************************************)
EXTENDS BackgroundTasks, WorkflowBridge

CONSTANTS
  Threads,    \* worker threads the service may ever have at a time
  PoolSize,   \* threads of the executor's pool
  MaxRetries, \* max_retries of a job
  Cancellable, \* jobs somebody may try to cancel, as jobs or as rows
  Targets     \* statuses operators give to the rows of jobs

NoJob == "no job"

ASSUME ReflectionAssumption ==
  /\ NoJob \notin Jobs
  /\ PoolSize \in Nat \ {0}
  /\ MaxRetries \in Nat
  /\ Cancellable \subseteq Jobs
  /\ Targets \subseteq Statuses

VARIABLES
  caller,     \* where submit_reflection_task is, for every job
  cancel,     \* where cancel_task is
  phase,      \* where every worker thread is
  job,        \* what it works on
  future,     \* the job's future in the thread pool
  service,    \* what start_worker and stop_worker have done
  executions, \* history: reflections generated for a job
  stray       \* history: jobs whose record was, or will be, left PENDING

histories == <<executions, stray>>
vars == <<queueVars, monitorVars, mirror, caller, cancel, phase, job, future,
          service, histories>>

Running == service \in {"up", "again"}
PoolUp == service \in {"up", "joining"}

(* The job leaves the queue before its caller marks it PENDING. *)
Outruns(j) == stray' = IF caller[j] = "queued" THEN stray \cup {j} ELSE stray

-----------------------------------------------------------------------------
(* submit_reflection_task, in the caller's thread.                         *)

(* The monitor registers the job, or refuses while the breaker is open. *)
SubmitRegister(j) ==
  /\ caller[j] = "new"
  /\ \/ /\ Register(j)
        /\ caller' = [caller EXCEPT ![j] = "registered"]
     \/ /\ breaker = "open"
        /\ caller' = [caller EXCEPT ![j] = "refused"]
        /\ UNCHANGED monitorVars
  /\ UNCHANGED <<queueVars, mirror, cancel, phase, job, future, service,
                 histories>>

(* Mutant: the answer of the queue is not looked at. *)
PutUnchecked(j) ==
  /\ caller[j] = "registered"
  /\ Put(j, PriorityOf[j]) \/ (Refuses(j) /\ UNCHANGED queueVars)
  /\ caller' = [caller EXCEPT ![j] = "queued"]
  /\ UNCHANGED <<monitorVars, mirror, cancel, phase, job, future, service,
                 histories>>

(* The queue takes it, or is full: that counts as a failed job. *)
SubmitPut(j) ==
  /\ caller[j] = "registered"
  /\ \/ /\ Put(j, PriorityOf[j])
        /\ caller' = [caller EXCEPT ![j] = "queued"]
        /\ UNCHANGED monitorVars
     \/ /\ Refuses(j)
        /\ UpdateStatus(j, "FAILED")
        /\ caller' = [caller EXCEPT ![j] = "refused"]
        /\ UNCHANGED queueVars
  /\ UNCHANGED <<mirror, cancel, phase, job, future, service, histories>>

(* The caller marks the record PENDING, whatever a worker has made of it. *)
SubmitMark(j) ==
  /\ caller[j] = "queued"
  /\ UpdateStatus(j, "PENDING")
  /\ caller' = [caller EXCEPT ![j] = "marked"]
  /\ UNCHANGED <<queueVars, mirror, cancel, phase, job, future, service,
                 histories>>

SubmitSync(j) ==
  /\ caller[j] = "marked"
  /\ SyncSubmission(j)
  /\ caller' = [caller EXCEPT ![j] = "returned"]
  /\ UNCHANGED <<queueVars, monitorVars, cancel, phase, job, future, service,
                 histories>>

-----------------------------------------------------------------------------
(* cancel_task                                                             *)

CancelCheck(j) ==
  /\ j \in Cancellable
  /\ cancel[j] = "none"
  /\ j \in known
  /\ record[j].status = "PENDING"
  /\ cancel' = [cancel EXCEPT ![j] = "checked"]
  /\ UNCHANGED <<queueVars, monitorVars, mirror, caller, phase, job, future,
                 service, histories>>

CancelRemove(j) ==
  /\ cancel[j] = "checked"
  /\ \/ /\ Remove(j)
        /\ cancel' = [cancel EXCEPT ![j] = "removed"]
        /\ Outruns(j)
     \/ /\ j \notin tracked
        /\ cancel' = [cancel EXCEPT ![j] = "none"]
        /\ UNCHANGED <<queueVars, stray>>
  /\ UNCHANGED <<monitorVars, mirror, caller, phase, job, future, service,
                 executions>>

CancelMark(j) ==
  /\ cancel[j] = "removed"
  /\ UpdateStatus(j, "CANCELLED")
  /\ cancel' = [cancel EXCEPT ![j] = "marked"]
  /\ UNCHANGED <<queueVars, mirror, caller, phase, job, future, service,
                 histories>>

(* The row follows, or the bridge raises in the canceller's face. *)
CancelSync(j) ==
  /\ cancel[j] = "marked"
  /\ Syncs(j, "cancelled") \/ SyncRaises(j, "cancelled")
  /\ cancel' = [cancel EXCEPT ![j] = "none"]
  /\ UNCHANGED <<queueVars, monitorVars, caller, phase, job, future, service,
                 histories>>

-----------------------------------------------------------------------------
(* _worker_loop and _execute_task                                          *)

(* Mutant: the last retry is granted once more. *)
CanRetryOnceMore(j) == j \in known /\ record[j].retries <= MaxRetries

(* Whether a failed job has retries left; one without a record has none. *)
CanRetry(j) == j \in known /\ record[j].retries < MaxRetries

Goto(w, p) == phase' = [phase EXCEPT ![w] = p] /\ UNCHANGED job

(* Back to the loop; with an exception, the job is let go as it is. *)
Back(w) ==
  /\ phase' = [phase EXCEPT ![w] = "idle"]
  /\ job' = [job EXCEPT ![w] = NoJob]

Dequeue(w, j) ==
  /\ phase[w] = "idle"
  /\ Running
  /\ Take(j)
  /\ phase' = [phase EXCEPT ![w] = "taken"]
  /\ job' = [job EXCEPT ![w] = j]
  /\ Outruns(j)
  /\ UNCHANGED <<monitorVars, mirror, caller, cancel, future, service,
                 executions>>

Quit(w) ==
  /\ phase[w] = "idle"
  /\ ~Running
  /\ Goto(w, "off")
  /\ UNCHANGED <<queueVars, monitorVars, mirror, caller, cancel, future,
                 service, histories>>

FinishGet(w) ==
  /\ phase[w] = "taken"
  /\ Untrack(job[w])
  /\ Goto(w, "got")
  /\ UNCHANGED <<monitorVars, mirror, caller, cancel, future, service,
                 histories>>

(* Mutant: the mark of a cancelled entry is not looked at. *)
StartAnyway(w) ==
  /\ phase[w] = "got"
  /\ UpdateStatus(job[w], "RUNNING")
  /\ Goto(w, "started")
  /\ UNCHANGED <<queueVars, mirror, caller, cancel, future, service, histories>>

(* A cancelled entry is skipped; another one is RUNNING. *)
BeginJob(w) ==
  /\ phase[w] = "got"
  /\ \/ /\ job[w] \in flagged
        /\ Back(w)
        /\ UNCHANGED monitorVars
     \/ /\ job[w] \notin flagged
        /\ UpdateStatus(job[w], "RUNNING")
        /\ Goto(w, "started")
  /\ UNCHANGED <<queueVars, mirror, caller, cancel, future, service, histories>>

(* The row follows and the pool gets the job.  The bridge may raise, and so
   does a pool that was shut down: the record stays RUNNING. *)
Delegate(w) ==
  /\ phase[w] = "started"
  /\ \/ /\ Syncs(job[w], "in_progress")
        /\ PoolUp
        /\ future' = [future EXCEPT ![job[w]] = "waiting"]
        /\ Goto(w, "wait")
     \/ /\ \/ Syncs(job[w], "in_progress") /\ ~PoolUp
           \/ SyncRaises(job[w], "in_progress")
        /\ Back(w)
        /\ UNCHANGED future
  /\ UNCHANGED <<queueVars, monitorVars, caller, cancel, service, histories>>

(* The result of the future is taken: done, to be retried, or failed.  A
   record evicted between get_task and the update of a retry comes to the same
   as one evicted after it: so the two are one step here. *)
Collect(w) ==
  /\ phase[w] = "wait"
  /\ future[job[w]] \in {"ok", "error"}
  /\ future' = [future EXCEPT ![job[w]] = "none"]
  /\ \/ /\ future[job[w]] = "ok"
        /\ UpdateStatus(job[w], "COMPLETED")
        /\ Goto(w, "completed")
     \/ /\ future[job[w]] = "error"
        /\ CanRetry(job[w])
        /\ SetRecord(job[w], [status |-> "PENDING",
                              retries |-> record[job[w]].retries + 1])
        /\ Goto(w, "retry")
     \/ /\ future[job[w]] = "error"
        /\ ~CanRetry(job[w])
        /\ UpdateStatus(job[w], "FAILED")
        /\ Goto(w, "failed")
  /\ UNCHANGED <<queueVars, mirror, caller, cancel, service, histories>>

(* A retry asks the monitor for the record a second time; if it was evicted
   since the first, _retry_task lets the job go without a word. *)
LetGo(w) ==
  /\ phase[w] = "wait"
  /\ future[job[w]] = "error"
  /\ job[w] \notin known
  /\ future' = [future EXCEPT ![job[w]] = "none"]
  /\ Back(w)
  /\ UNCHANGED <<queueVars, monitorVars, mirror, caller, cancel, service,
                 histories>>

(* Mutant: the time of a job begins to count when the pool is through with
   its first step, so that only one that waits for the pool times out. *)
TimeOutInPoolOnly(w) ==
  /\ phase[w] = "wait"
  /\ future[job[w]] = "waiting"
  /\ UpdateStatus(job[w], "FAILED")
  /\ Goto(w, "caught")
  /\ UNCHANGED <<queueVars, mirror, caller, cancel, future, service, histories>>

(* The wait times out.  The future goes on without anybody waiting. *)
TimeOut(w) ==
  /\ phase[w] = "wait"
  /\ future[job[w]] \in {"waiting", "running"}
  /\ UpdateStatus(job[w], "FAILED")
  /\ Goto(w, "caught")
  /\ UNCHANGED <<queueVars, mirror, caller, cancel, future, service, histories>>

(* _retry_task puts the job back one priority lower, and does not look at
   what the queue answers. *)
Requeue(w) ==
  /\ phase[w] = "retry"
  /\ \/ /\ Put(job[w], AtMost(PriorityOf[job[w]] + 1, 3))
        /\ UNCHANGED stray
     \/ /\ Refuses(job[w])
        /\ stray' = stray \cup {job[w]}
        /\ UNCHANGED queueVars
  /\ Back(w)
  /\ UNCHANGED <<monitorVars, mirror, caller, cancel, future, service,
                 executions>>

(* Mutant: an exception of the bridge is logged and the job left COMPLETED. *)
ReportLeniently(w, p, new) ==
  /\ phase[w] = p
  /\ Syncs(job[w], new) \/ SyncRaises(job[w], new)
  /\ Back(w)
  /\ UNCHANGED <<queueVars, monitorVars, caller, cancel, future, service,
                 histories>>

(* The row is told; an exception of the bridge fails the job. *)
Report(w, p, new) ==
  /\ phase[w] = p
  /\ \/ /\ Syncs(job[w], new)
        /\ Back(w)
        /\ UNCHANGED monitorVars
     \/ /\ SyncRaises(job[w], new)
        /\ UpdateStatus(job[w], "FAILED")
        /\ Goto(w, "caught")
  /\ UNCHANGED <<queueVars, caller, cancel, future, service, histories>>

ReportCompleted(w) == Report(w, "completed", "done")
ReportFailed(w) == Report(w, "failed", "failed")

(* In the except clauses the row is told once more, outside of any try. *)
ReportCaught(w) ==
  /\ phase[w] = "caught"
  /\ Syncs(job[w], "failed") \/ SyncRaises(job[w], "failed")
  /\ Back(w)
  /\ UNCHANGED <<queueVars, monitorVars, caller, cancel, future, service,
                 histories>>

-----------------------------------------------------------------------------
(* ReflectionTaskExecutor and the service's own life.                      *)

Busy == {j \in Jobs : future[j] = "running"}
Awaited(j) == \E w \in Threads : phase[w] = "wait" /\ job[w] = j

(* A thread of the pool takes a job: generate_reflection is called. *)
PoolBegins(j) ==
  /\ future[j] = "waiting"
  /\ Cardinality(Busy) < PoolSize
  /\ future' = [future EXCEPT ![j] = "running"]
  /\ executions' = [executions EXCEPT ![j] = @ + 1]
  /\ UNCHANGED <<queueVars, monitorVars, mirror, caller, cancel, phase, job,
                 service, stray>>

PoolEnds(j) ==
  /\ future[j] = "running"
  /\ \E result \in {"ok", "error"} :
       future' = [future EXCEPT ![j] = IF Awaited(j) THEN result ELSE "none"]
  /\ UNCHANGED <<queueVars, monitorVars, mirror, caller, cancel, phase, job,
                 service, histories>>

(* start_worker, which leaves an executor that was shut down as it is.  It
   is called again, once, after stop_worker returned: the pool has run dry. *)
StartWorker(w) ==
  /\ \/ service = "new"
     \/ service = "down" /\ \A j \in Jobs : future[j] \notin {"waiting", "running"}
  /\ phase[w] = "off"
  /\ service' = IF service = "new" THEN "up" ELSE "again"
  /\ Goto(w, "idle")
  /\ UNCHANGED <<queueVars, monitorVars, mirror, caller, cancel, future,
                 histories>>

(* stop_worker clears the flag and joins its thread... *)
StopWorker ==
  /\ Running
  /\ service' = IF service = "up" THEN "joining" ELSE "stopped"
  /\ UNCHANGED <<queueVars, monitorVars, mirror, caller, cancel, phase, job,
                 future, histories>>

(* ... five seconds at most, and shuts the executor down. *)
ShutDown ==
  /\ service = "joining"
  /\ service' = "down"
  /\ UNCHANGED <<queueVars, monitorVars, mirror, caller, cancel, phase, job,
                 future, histories>>

-----------------------------------------------------------------------------

(* The breaker's time passes; an operator moves the row of a job. *)
Housekeeping ==
  /\ \/ Cooldown /\ UNCHANGED mirror
     \/ /\ \E j \in Cancellable, new \in Targets : Interfere(j, new)
        /\ UNCHANGED monitorVars
  /\ UNCHANGED <<queueVars, caller, cancel, phase, job, future, service,
                 histories>>

Init ==
  /\ BackgroundInit
  /\ mirror = [j \in Jobs |-> "none"]
  /\ caller = [j \in Jobs |-> "new"]
  /\ cancel = [j \in Jobs |-> "none"]
  /\ phase = [w \in Threads |-> "off"]
  /\ job = [w \in Threads |-> NoJob]
  /\ future = [j \in Jobs |-> "none"]
  /\ service = "new"
  /\ executions = [j \in Jobs |-> 0]
  /\ stray = {}

Submission(j) == SubmitRegister(j) \/ SubmitPut(j) \/ SubmitMark(j) \/ SubmitSync(j)
Cancellation(j) == CancelCheck(j) \/ CancelRemove(j) \/ CancelMark(j) \/ CancelSync(j)

(* What a worker thread does until its flag is cleared. *)
Work(w) ==
  \/ \E j \in Jobs : Dequeue(w, j)
  \/ Quit(w) \/ FinishGet(w) \/ BeginJob(w) \/ Delegate(w) \/ Collect(w)
  \/ LetGo(w) \/ TimeOut(w) \/ Requeue(w)
  \/ ReportCompleted(w) \/ ReportFailed(w) \/ ReportCaught(w)

Next ==
  \/ \E j \in Jobs : Submission(j) \/ Cancellation(j) \/ PoolBegins(j) \/ PoolEnds(j)
  \/ \E w \in Threads : Work(w) \/ StartWorker(w)
  \/ StopWorker
  \/ ShutDown
  \/ Housekeeping

(* Only the worker threads have to go on.  A reflection may take for ever:
   the wait for it has a timeout. *)
Spec == Init /\ [][Next]_vars /\ \A w \in Threads : WF_vars(Work(w))

-----------------------------------------------------------------------------

TypeOK ==
  /\ BackgroundTypeOK
  /\ mirror \in [Jobs -> Mirrored]
  /\ caller \in [Jobs -> {"new", "registered", "queued", "marked", "returned",
                         "refused"}]
  /\ cancel \in [Jobs -> {"none", "checked", "removed", "marked"}]
  /\ phase \in [Threads -> {"off", "idle", "taken", "got", "started", "wait",
                           "retry", "completed", "failed", "caught"}]
  /\ job \in [Threads -> Jobs \cup {NoJob}]
  /\ \A w \in Threads : (job[w] = NoJob) <=> (phase[w] \in {"off", "idle"})
  /\ future \in [Jobs -> {"none", "waiting", "running", "ok", "error"}]
  /\ service \in {"new", "up", "joining", "down", "again", "stopped"}
  /\ executions \in [Jobs -> Nat]
  /\ stray \in SUBSET Jobs

InHand(j, phases) == \E w \in Threads : job[w] = j /\ phase[w] \in phases

(* The index cancel_task works on lists nothing that has left the heap but
   for an entry a worker is taking this moment: an id that stays behind
   would make a cancellation answer True for a job that is running, and the
   queue refuse its retry. *)
TrackedIsQueued ==
  \A j \in tracked : (j \in queued \/ InHand(j, {"taken"})) /\ j \notin flagged

(* A job is reflected upon once and once more per retry, whatever the
   timeouts, evictions and restarts of the service in between. *)
RetryBudget == \A j \in Jobs : executions[j] <= MaxRetries + 1

(* A record that says PENDING is that of a job that will be executed: it is
   in the queue or in a worker's hands, unless cancel_task is about to say
   CANCELLED.  The code breaks this in two ways that are left out here: a
   caller that is overtaken writes PENDING over what came after, and a retry
   the queue refuses stays PENDING. *)
PendingIsQueued ==
  \A j \in known \ stray :
    /\ record[j].status = "PENDING"
    /\ caller[j] # "registered"
    => \/ j \in tracked
       \/ InHand(j, {"taken", "got", "retry"})
       \/ cancel[j] = "removed"

(* Once its worker is done with it, a job the monitor calls COMPLETED has a
   row that says done, which operators can only archive.  (delete_task, by
   which they can remove any row, is left out of this module.) *)
CompletedAgrees ==
  \A j \in known :
    record[j].status = "COMPLETED" /\ (\A w \in Threads : job[w] # j)
      => mirror[j] \in {"done", "archived"}

(* A job for which cancel_task answered True is never reflected upon, be it
   that a worker had taken it from the heap already or that it came back to
   the queue for a retry. *)
CancelledNeverRuns ==
  [][\A j \in Jobs : executions'[j] > executions[j] => j \notin flagged]_vars

(* A worker thread comes back to the queue from every job, also when the
   reflection hangs, the pool is busy with others that hang, or the bridge
   raises: the wait has a timeout and the loop catches what is left. *)
WorkerReturns == \A w \in Threads : (job[w] # NoJob) ~> (job[w] = NoJob)
=============================================================================
