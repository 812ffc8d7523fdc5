--------------------------- MODULE TaskLifecycle ---------------------------
(***************************************************************************)
(* The task records of TaskManagementService and the service operations    *)
(* that change them: creation, claiming, status updates, completion with   *)
(* verification, suspension and resumption, assignment, interventions,     *)
(* deletion, dependency edits, and the periodic recovery passes.           *)
(*                                                                         *)
(* One action is one service call run to its end.  The exception is        *)
(* completion with verification, which awaits the verification engine: it  *)
(* is split into the part before the await (BeginVerification) and the     *)
(* part after it (Verdict), and any other call may run in between.         *)
(* status[t] is the status column of the task's row.  get_task answers     *)
(* from the table, or from a cache of the process which its own writes     *)
(* clear: the calls here are those of one process, and find the row as it  *)
(* is (AutoResumePass has several).  The shared task cache and _tasks are  *)
(* copies get_task never answers from.                                     *)
(*                                                                         *)
(* A definition whose comment begins with "Mutant" is a wrong version of   *)
(* the one after it: it shows which property notices that mistake.         *)
(***************************************************************************)
EXTENDS TaskStates

CONSTANTS
  Tasks,        \* task ids that create_task may hand out
  Keys,         \* idempotency keys operators put on interventions
  Calls,        \* slots for completion calls awaiting the verification engine
  NoTask,       \* the task of a free slot
  NoKey,        \* the key of a completion that no intervention asked for
  Verified,     \* tasks whose contract enables verification
  Retriable,    \* tasks whose contract is retriable
  Escalating,   \* tasks whose contract names an escalation target
  BirthStatuses,\* statuses a creation payload may ask for
  Kinds,        \* kinds of suspension that take place
  MaxFaults,    \* bound: persistence failures
  MaxExpiries   \* bound: shared suspension records dropped by their TTL

(* "manual": suspend_task without a date; "timed": with auto_resume_at;
   "gap": the G9 resource gap of the assignment router. *)
AllKinds == {"manual", "timed", "gap"}

ASSUME LifecycleAssumption ==
  /\ NoTask \notin Tasks
  /\ Verified \subseteq Tasks
  /\ NoKey \notin Keys
  /\ BirthStatuses \subseteq
       Statuses \ {"in_progress", "suspended", "done", "failed", "archived"}
  /\ Kinds \subseteq AllKinds
  /\ MaxFaults \in Nat
  /\ MaxExpiries \in Nat

VARIABLES
  status,      \* status column of the tasks table, "absent" before creation
  deps,        \* depends_on
  passed,      \* tasks whose stored outcome has overall_passed = True
  dbSusp,      \* row of suspended_tasks
  shSusp,      \* record of the shared suspension store
  call,        \* completion calls awaiting their verdict
  receipts,    \* keys in _intervention_receipts, this process's memory
  receiptLog,  \* keys in the intervention_receipts table
  faults,      \* persistence failures so far
  expiries     \* expired shared suspension records so far

vars == <<status, deps, passed, dbSusp, shSusp, call, receipts, receiptLog,
          faults, expiries>>
suspVars == <<dbSusp, shSusp>>
keyVars  == <<receipts, receiptLog>>
bounds   == <<faults, expiries>>

-----------------------------------------------------------------------------

RowStatuses == Statuses \cup {"absent", "deleted"}

Record(origin, kind) == [origin |-> origin, kind |-> kind]
NoRecord == Record("none", "none")

Present(t) == status[t] \in Statuses

Free == [task |-> NoTask, key |-> NoKey]

(* The row write of update_task_status, legality check included. *)
Move(t, new) ==
  /\ Legal(status[t], new)
  /\ status' = [status EXCEPT ![t] = new]

(* Mutant: the bridge covers only the statuses a completion claims from. *)
BridgedBeforeClaim(t, new) ==
  /\ new = "done"
  /\ t \in Verified
  /\ status[t] \in AutoClaimed

(* Whether a DONE update is routed through the verification bridge. *)
Bridged(t, new) ==
  /\ new = "done"
  /\ t \in Verified
  /\ status[t] # "waiting_confirmation"

(* get_suspended_task: the table first, then the shared store. *)
SuspensionInfo(t) == IF dbSusp[t] # NoRecord THEN dbSusp[t] ELSE shSusp[t]

(* Mutant: only the two ends of the new edge are compared. *)
WouldCloseDirectly(t, d) == d = t \/ t \in deps[d]

(* _would_create_circular_dependency: the depth-first search from d over
   depends_on meets t, i.e. every set that holds d and is closed under the
   dependencies of its rows holds t. *)
WouldClose(t, d) ==
  \A S \in SUBSET Tasks :
    (d \in S /\ \A x \in S : Present(x) => deps[x] \subseteq S) => t \in S

(* A persistence call that fails, while the bound allows it. *)
Fault ==
  /\ faults < MaxFaults
  /\ faults' = faults + 1
  /\ UNCHANGED expiries

Init ==
  /\ status = [t \in Tasks |-> "absent"]
  /\ deps = [t \in Tasks |-> {}]
  /\ passed = {}
  /\ dbSusp = [t \in Tasks |-> NoRecord]
  /\ shSusp = [t \in Tasks |-> NoRecord]
  /\ call = [c \in Calls |-> Free]
  /\ receipts = {}
  /\ receiptLog = {}
  /\ faults = 0
  /\ expiries = 0

-----------------------------------------------------------------------------
(* Creation, claiming, plain status updates, deletion.                     *)

(* create_task writes a row under a fresh id.  Its payload's depends_on may
   name any id handed out before. *)
Create(t, birth, ds) ==
  /\ status[t] = "absent"
  /\ birth \in BirthStatuses
  /\ \A d \in ds : status[d] # "absent"
  /\ status' = [status EXCEPT ![t] = birth]
  /\ deps' = [deps EXCEPT ![t] = ds]
  /\ UNCHANGED <<passed, suspVars, call, keyVars, bounds>>

(* claim_task: a dependency that has no row does not hold the claim back. *)
Claim(t) ==
  /\ \A d \in deps[t] : Present(d) => status[d] = "done"
  /\ Move(t, "in_progress")
  /\ UNCHANGED <<deps, passed, suspVars, call, keyVars, bounds>>

(* update_task_status outside the bridge.  A failed row write rolls the copies
   back and leaves the row, which is no step here. *)
UpdateStatus(t, new) ==
  /\ ~Bridged(t, new)
  /\ Move(t, new)
  /\ UNCHANGED <<deps, passed, suspVars, call, keyVars, bounds>>

(* delete_task: the row goes; suspension records and outcomes stay. *)
Delete(t, force) ==
  /\ Present(t)
  /\ force \/ /\ status[t] # "in_progress"
              /\ \A u \in Tasks : Present(u) => t \notin deps[u]
  /\ status' = [status EXCEPT ![t] = "deleted"]
  /\ deps' = [deps EXCEPT ![t] = {}]
  /\ UNCHANGED <<passed, suspVars, call, keyVars, bounds>>

-----------------------------------------------------------------------------
(* Completion with and without verification.                               *)

(* complete_task_with_verification on a task whose contract has it disabled. *)
CompleteUnverified(t) ==
  /\ t \notin Verified
  /\ status[t] \in AutoClaimed \/ Legal(status[t], "done")
  /\ status' = [status EXCEPT ![t] = "done"]
  /\ UNCHANGED <<deps, passed, suspVars, call, keyVars, bounds>>

(* The part of a verified completion before the engine is awaited.  key is
   NoKey when a worker or a status update asks, the intervention's key when
   an operator approves. *)
BeginVerification(c, t, key) ==
  /\ call[c] = Free
  /\ t \in Verified
  /\ key \notin receipts
  /\ status[t] \in AutoClaimed \cup {"in_progress"}
  /\ status' = [status EXCEPT ![t] = "waiting_confirmation"]
  /\ call' = [call EXCEPT ![c] = [task |-> t, key |-> key]]
  /\ UNCHANGED <<deps, passed, suspVars, keyVars, bounds>>

(* A verified completion from any other status: the move to WAITING_CONFIRMATION
   is illegal, and the handler's except clause fails the task if it can. *)
CompletionRefused(t) ==
  /\ t \in Verified
  /\ status[t] \notin AutoClaimed \cup {"in_progress"}
  /\ Move(t, "failed")
  /\ UNCHANGED <<deps, passed, suspVars, call, keyVars, bounds>>

(* The tail of intervene: the receipt goes into the task's metadata, then into
   this process's memory, then into the table.  A failed metadata write raises
   before the key is kept anywhere; a failed insert is ignored. *)
Acknowledge(key) ==
  \/ /\ key = NoKey
     /\ UNCHANGED <<keyVars, bounds>>
  \/ /\ key \in Keys
     /\ receipts' = receipts \cup {key}
     /\ receiptLog' = receiptLog \cup {key}
     /\ UNCHANGED bounds
  \/ /\ key \in Keys
     /\ Fault
     /\ receipts' \in {receipts, receipts \cup {key}}
     /\ UNCHANGED receiptLog

(* Mutant: the passing outcome is stored whatever became of the status. *)
VerdictStoredFirst(c) ==
  LET t == call[c].task IN
  /\ status' = IF Legal(status[t], "done")
               THEN [status EXCEPT ![t] = "done"] ELSE status
  /\ passed' = passed \cup {t}
  /\ Acknowledge(call[c].key)
  /\ UNCHANGED suspVars

(* The verdict is accepted: DONE without the bridge, outcome stored. *)
VerdictPassed(c) ==
  LET t == call[c].task IN
  /\ Move(t, "done")
  /\ passed' = passed \cup {t}
  /\ Acknowledge(call[c].key)
  /\ UNCHANGED suspVars

(* recommendation "retry": back to IN_PROGRESS, reported as a success. *)
VerdictRetry(c) ==
  LET t == call[c].task IN
  /\ Move(t, "in_progress")
  /\ passed' = passed \ {t}
  /\ Acknowledge(call[c].key)
  /\ UNCHANGED suspVars

(* recommendation "reject", or "escalate" without a target. *)
VerdictRejected(c) ==
  LET t == call[c].task IN
  /\ Move(t, "failed")
  /\ passed' = passed \ {t}
  /\ UNCHANGED <<suspVars, keyVars, bounds>>

(* Both records of a suspension; the table keeps a row it already has,
   because its insert fails on the primary key and the result is ignored. *)
Remember(t, kind) ==
  LET rec == Record(status[t], kind) IN
  /\ shSusp' = [shSusp EXCEPT ![t] = rec]
  /\ dbSusp' = [dbSusp EXCEPT ![t] = IF @ = NoRecord THEN rec ELSE @]

(* recommendation "escalate" with a target: suspend_task, which accepts the
   task only when something moved it out of WAITING_CONFIRMATION. *)
VerdictEscalated(c) ==
  LET t == call[c].task IN
  /\ t \in Escalating
  /\ status[t] \in Suspendable
  /\ Remember(t, "manual")
  /\ status' = [status EXCEPT ![t] = "suspended"]
  /\ passed' = passed \ {t}
  /\ Acknowledge(call[c].key)

(* The engine or one of the steps above raises: the task is failed if the table
   allows it and left alone otherwise, deleted tasks included. *)
VerdictError(c) ==
  LET t == call[c].task IN
  /\ status' = IF Legal(status[t], "failed")
               THEN [status EXCEPT ![t] = "failed"] ELSE status
  /\ UNCHANGED <<passed, suspVars, keyVars, bounds>>

(* The outcome record cannot be stored after the status was: what follows fails
   the task, which DONE does not allow.  After a retry or a rejection the task
   is left as VerdictError leaves it. *)
VerdictUnrecorded(c) ==
  LET t == call[c].task IN
  /\ Fault
  /\ \/ /\ Move(t, "done")
        /\ UNCHANGED suspVars
     \/ /\ t \in Escalating
        /\ status[t] \in Suspendable
        /\ Remember(t, "manual")
        /\ status' = [status EXCEPT ![t] = "failed"]
  /\ UNCHANGED <<passed, keyVars>>

(* The part after the await.  What the engine answers is not constrained. *)
Verdict(c) ==
  /\ call[c] # Free
  /\ \/ VerdictPassed(c)
     \/ VerdictRetry(c)
     \/ VerdictRejected(c)
     \/ VerdictEscalated(c)
     \/ VerdictError(c)
     \/ VerdictUnrecorded(c)
  /\ call' = [call EXCEPT ![c] = Free]
  /\ UNCHANGED deps

(* Mutant: the recovery does not look at the status first. *)
RecoverAny(t) ==
  /\ Present(t)
  /\ status' = [status EXCEPT ![t] = "todo"]
  /\ UNCHANGED <<deps, passed, suspVars, call, keyVars, bounds>>

(* recover_waiting_confirmation_task: IN_PROGRESS and then TODO. *)
RecoverWaiting(t) ==
  /\ status[t] = "waiting_confirmation"
  /\ status' = [status EXCEPT ![t] = "todo"]
  /\ UNCHANGED <<deps, passed, suspVars, call, keyVars, bounds>>

-----------------------------------------------------------------------------
(* Suspension and resumption.                                              *)

(* Mutant: suspend_task without its check of the status. *)
SuspendAny(t, kind) ==
  /\ Present(t)
  /\ kind \in Kinds
  /\ kind = "gap" => status[t] = "assignment_pending"
  /\ Remember(t, kind)
  /\ status' = [status EXCEPT ![t] = "suspended"]
  /\ UNCHANGED <<deps, passed, call, keyVars, bounds>>

(* suspend_task: shared record, row, table record. *)
Suspend(t, kind) ==
  /\ status[t] \in Suspendable
  /\ kind \in Kinds
  /\ kind = "gap" => status[t] = "assignment_pending"
  /\ Remember(t, kind)
  /\ status' = [status EXCEPT ![t] = "suspended"]
  /\ UNCHANGED <<deps, passed, call, keyVars, bounds>>

(* The row write of suspend_task fails: the shared record is already there. *)
SuspendRowFault(t, kind) ==
  /\ status[t] \in Suspendable
  /\ kind \in Kinds
  /\ kind = "gap" => status[t] = "assignment_pending"
  /\ Fault
  /\ shSusp' = [shSusp EXCEPT ![t] = Record(status[t], kind)]
  /\ UNCHANGED <<status, deps, passed, dbSusp, call, keyVars>>

(* The table record of suspend_task fails to insert, which goes unnoticed. *)
SuspendRecordFault(t, kind) ==
  /\ status[t] \in Suspendable
  /\ kind \in Kinds
  /\ kind = "gap" => status[t] = "assignment_pending"
  /\ Fault
  /\ shSusp' = [shSusp EXCEPT ![t] = Record(status[t], kind)]
  /\ status' = [status EXCEPT ![t] = "suspended"]
  /\ UNCHANGED <<deps, passed, dbSusp, call, keyVars>>

(* Mutant: a missing suspension record is not an error. *)
ResumeUnrecorded(t) ==
  /\ status[t] = "suspended"
  /\ status' = [status EXCEPT ![t] = SuspensionInfo(t).origin]
  /\ shSusp' = [shSusp EXCEPT ![t] = NoRecord]
  /\ dbSusp' = [dbSusp EXCEPT ![t] = NoRecord]
  /\ UNCHANGED <<deps, passed, call, keyVars, bounds>>

(* resume_task: original status back, both records dropped. *)
Resume(t) ==
  /\ status[t] = "suspended"
  /\ SuspensionInfo(t) # NoRecord
  /\ status' = [status EXCEPT ![t] = SuspensionInfo(t).origin]
  /\ shSusp' = [shSusp EXCEPT ![t] = NoRecord]
  /\ dbSusp' = [dbSusp EXCEPT ![t] = NoRecord]
  /\ UNCHANGED <<deps, passed, call, keyVars, bounds>>

(* The row write of resume_task fails after the shared record is gone. *)
ResumeRowFault(t) ==
  /\ status[t] = "suspended"
  /\ SuspensionInfo(t) # NoRecord
  /\ Fault
  /\ shSusp' = [shSusp EXCEPT ![t] = NoRecord]
  /\ UNCHANGED <<status, deps, passed, dbSusp, call, keyVars>>

(* The delete of the table record raises at the end of resume_task. *)
ResumeRecordFault(t) ==
  /\ status[t] = "suspended"
  /\ SuspensionInfo(t) # NoRecord
  /\ Fault
  /\ status' = [status EXCEPT ![t] = SuspensionInfo(t).origin]
  /\ shSusp' = [shSusp EXCEPT ![t] = NoRecord]
  /\ UNCHANGED <<deps, passed, dbSusp, call, keyVars>>

(* The TTL of the shared store drops a suspension record. *)
ExpireSharedRecord(t) ==
  /\ expiries < MaxExpiries
  /\ shSusp[t] # NoRecord
  /\ shSusp' = [shSusp EXCEPT ![t] = NoRecord]
  /\ expiries' = expiries + 1
  /\ UNCHANGED <<status, deps, passed, dbSusp, call, keyVars, faults>>

-----------------------------------------------------------------------------
(* Assignment, and the scheduler's recovery passes.                        *)

(* The assignment gate finds an owner: the router writes QUEUED itself. *)
Assign(t) ==
  /\ status[t] = "assignment_pending"
  /\ status' = [status EXCEPT ![t] = "queued"]
  /\ UNCHANGED <<deps, passed, suspVars, call, keyVars, bounds>>

(* Step 1 of check_auto_resume_tasks: the shared records whose date has come. *)
AutoResume(t) ==
  /\ shSusp[t].kind = "timed"
  /\ Resume(t)

(* Step 1b, G9: a table record of a resource gap whose executor is now there.
   After resume_task the router insists on ASSIGNMENT_PENDING and queues the
   task. *)
ResumeGap(t) ==
  /\ dbSusp[t].kind = "gap"
  /\ status[t] = "suspended"
  /\ status' = [status EXCEPT ![t] =
                   IF dbSusp[t].origin = "assignment_pending"
                   THEN "queued" ELSE dbSusp[t].origin]
  /\ shSusp' = [shSusp EXCEPT ![t] = NoRecord]
  /\ dbSusp' = [dbSusp EXCEPT ![t] = NoRecord]
  /\ UNCHANGED <<deps, passed, call, keyVars, bounds>>

(* An expired lease: back to TODO if the contract is retriable. *)
Reclaim(t) ==
  /\ status[t] = "in_progress"
  /\ Move(t, IF t \in Retriable THEN "todo" ELSE "failed")
  /\ UNCHANGED <<deps, passed, suspVars, call, keyVars, bounds>>

(* A missing or unreadable lease. *)
BlockUnleased(t) ==
  /\ status[t] = "in_progress"
  /\ Move(t, "blocked")
  /\ UNCHANGED <<deps, passed, suspVars, call, keyVars, bounds>>

(* Mutant: the pass leaves retriable tasks to their worker. *)
TimeoutPassPatient(t) == t \notin Retriable /\ (Reclaim(t) \/ BlockUnleased(t))

(* Step 2 of the pass, G39, and check_timeout_and_republish_tasks. *)
TimeoutPass(t) == Reclaim(t) \/ BlockUnleased(t)

-----------------------------------------------------------------------------
(* Interventions, dependency edits, restart.                               *)

(* intervene, except an approval that the verification bridge takes over. *)
Intervene(t, action, key) ==
  /\ key \notin receipts
  /\ ~Bridged(t, InterventionStatus[action])
  /\ Move(t, InterventionStatus[action])
  /\ Acknowledge(key)
  /\ UNCHANGED <<deps, passed, suspVars, call>>

(* Approval of a verified task that is DONE with a passing outcome already:
   the bridge answers with the stored success. *)
ApproveAgain(t, key) ==
  /\ key \notin receipts
  /\ t \in Verified \cap passed
  /\ status[t] = "done"
  /\ Acknowledge(key)
  /\ UNCHANGED <<status, deps, passed, suspVars, call>>

(* add_dependency. *)
AddDependency(t, d) ==
  /\ Present(t)
  /\ Present(d)
  /\ d \notin deps[t]
  /\ ~WouldClose(t, d)
  /\ deps' = [deps EXCEPT ![t] = @ \cup {d}]
  /\ UNCHANGED <<status, passed, suspVars, call, keyVars, bounds>>

(* remove_dependency. *)
RemoveDependency(t, d) ==
  /\ Present(t)
  /\ d \in deps[t]
  /\ deps' = [deps EXCEPT ![t] = @ \ {d}]
  /\ UNCHANGED <<status, passed, suspVars, call, keyVars, bounds>>

(* The process stops and a new one starts: tables and shared stores are on
   disk; awaiting calls and the receipts in memory are lost. *)
Restart ==
  /\ call' = [c \in Calls |-> Free]
  /\ receipts' = {}
  /\ UNCHANGED <<status, deps, passed, suspVars, receiptLog, bounds>>

-----------------------------------------------------------------------------

CompletionNext(t) ==
  \/ CompleteUnverified(t)
  \/ \E c \in Calls, key \in Keys \cup {NoKey} : BeginVerification(c, t, key)
  \/ CompletionRefused(t)
  \/ RecoverWaiting(t)

SuspensionNext(t) ==
  \/ \E kind \in Kinds : \/ Suspend(t, kind)
                          \/ SuspendRowFault(t, kind)
                          \/ SuspendRecordFault(t, kind)
  \/ Resume(t)
  \/ ResumeRowFault(t)
  \/ ResumeRecordFault(t)
  \/ ExpireSharedRecord(t)

SchedulerNext(t) ==
  \/ Assign(t)
  \/ AutoResume(t)
  \/ ResumeGap(t)
  \/ TimeoutPass(t)

OperatorNext(t) ==
  \/ \E birth \in BirthStatuses, ds \in SUBSET Tasks : Create(t, birth, ds)
  \/ Claim(t)
  \/ \E new \in Statuses : UpdateStatus(t, new)
  \/ \E force \in BOOLEAN : Delete(t, force)
  \/ \E action \in DOMAIN InterventionStatus, key \in Keys :
       Intervene(t, action, key)
  \/ \E key \in Keys : ApproveAgain(t, key)
  \/ \E d \in Tasks : AddDependency(t, d) \/ RemoveDependency(t, d)

Next ==
  \/ \E t \in Tasks : \/ OperatorNext(t)
                      \/ CompletionNext(t)
                      \/ SuspensionNext(t)
                      \/ SchedulerNext(t)
  \/ \E c \in Calls : Verdict(c)
  \/ Restart

Spec == Init /\ [][Next]_vars

(* The scheduler thread repeats its passes for as long as the process runs: a
   record whose date has come, a gap whose executor has come and an
   IN_PROGRESS row past its lease are met again on every pass until served. *)
SchedulerFairness ==
  \A t \in Tasks : /\ WF_vars(AutoResume(t))
                   /\ WF_vars(ResumeGap(t))
                   /\ WF_vars(TimeoutPass(t))

LiveSpec == Spec /\ SchedulerFairness

-----------------------------------------------------------------------------
(* Properties.                                                             *)

Records == {NoRecord} \cup [origin : Statuses, kind : AllKinds]

(* Every variable has its type; a call in a slot is a verified task's. *)
TypeOK ==
  /\ status \in [Tasks -> RowStatuses]
  /\ deps \in [Tasks -> SUBSET Tasks]
  /\ passed \in SUBSET Tasks
  /\ dbSusp \in [Tasks -> Records]
  /\ shSusp \in [Tasks -> Records]
  /\ call \in [Calls -> {Free} \cup [task : Verified, key : Keys \cup {NoKey}]]
  /\ receipts \in SUBSET Keys
  /\ receiptLog \in SUBSET Keys
  /\ faults \in 0..MaxFaults
  /\ expiries \in 0..MaxExpiries

(* A suspension record, however stale it has become, names a status the task
   could be suspended from, and a resource-gap record the one the G9 pass will
   insist on: no resumption, early, late or repeated, revives finished work. *)
SuspensionOriginOK ==
  \A t \in Tasks : \A rec \in {dbSusp[t], shSusp[t]} :
    rec # NoRecord => /\ status[t] # "absent"
                      /\ rec.origin \in Suspendable
                      /\ rec.kind = "gap" => rec.origin = "assignment_pending"

(* No non-empty set of rows in which each depends on another of the set:
   depends_on stays free of cycles through additions, removals, deletions
   (forced ones leave dangling ids) and creations. *)
DependencyAcyclic ==
  \A S \in SUBSET Tasks :
    S # {} => \E x \in S : ~Present(x) \/ deps[x] \cap S = {}

(* Work whose outcome passed verification is never open again: it is done,
   filed away or deleted. *)
AcceptedStaysFinished ==
  \A t \in passed : status[t] \in {"done", "archived", "deleted"}

(* A verification of t ends in this step: its outcome passed, or could not be
   stored. *)
VerdictArrives(t) ==
  /\ \E c \in Calls : call[c].task = t /\ call'[c] = Free
  /\ t \in passed' \/ faults' # faults

(* A verified task becomes DONE only by a verdict that passed, or by a
   confirmation while it was waiting for one: no order of updates, approvals,
   suspensions and late verdicts finishes it unverified. *)
VerifiedCompletion ==
  \A t \in Verified :
    (status[t] # "done" /\ status'[t] = "done") =>
      status[t] = "waiting_confirmation" \/ VerdictArrives(t)

VerifiedDone == [][VerifiedCompletion]_vars

(* The phase of a row, for the abstract specification. *)
PhaseOf(s) ==
  CASE s = "absent" -> "unborn"
    [] s = "done" -> "done"
    [] s = "failed" -> "failed"
    [] s \in {"archived", "cancelled"} -> "closed"
    [] s = "deleted" -> "gone"
    [] OTHER -> "open"

Phase == [t \in Tasks |-> PhaseOf(status[t])]

(* The service implements TaskOutcomes: suspension, resumption, retries and
   verification are all work on an open task. *)
Outcomes == INSTANCE TaskOutcomes WITH
  phase <- Phase,
  accepted <- passed

KeepsOutcomes == Outcomes!OutcomesSpec

(* An IN_PROGRESS task does not stay so for ever: the recovery passes return
   it to the queue, fail it or block it. *)
InProgressEnds ==
  \A t \in Tasks : status[t] = "in_progress" ~> status[t] # "in_progress"

(* A task suspended with a date is resumed once the date has come. *)
TimedSuspensionEnds ==
  \A t \in Tasks : (status[t] = "suspended" /\ shSusp[t].kind = "timed")
                     ~> status[t] # "suspended"

(* An intervention whose receipt is stored is not applied a second time. *)
ReplayKeepsKeys ==
  \A key \in receiptLog : key \in receipts' => key \in receipts

InterventionReplaySafe == [][ReplayKeepsKeys]_vars
=============================================================================
