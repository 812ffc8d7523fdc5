--------------------------- MODULE AutoResumePass ---------------------------
(***************************************************************************)
(* check_auto_resume_tasks on several nodes that share tables and stores.  *)
(* TaskLifecycle takes it for granted that a recovery pass meets a task    *)
(* that is due.  Here a node has to lead first, lists what is due in three *)
(* stages, and serves each list task by task, while other nodes, operators *)
(* and workers go on: a list is stale as soon as it is made, a lease may   *)
(* run out in the middle of a pass, and a leader may die.                  *)
(*                                                                         *)
(* The rows, records and calls are those of TaskLifecycle; its Restart is  *)
(* that of the process the calls run in.                                   *)
(*                                                                         *)
(* get_task answers from a cache of the node's own process, which only the *)
(* writes of that process and a TTL of 60 s clear, and what a handler      *)
(* saves is the whole row: of a row that another process has changed, a    *)
(* pass may write an outdated copy back.  Which copy is left open.  The    *)
(* calls of TaskLifecycle act on the rows as they are: one process serves  *)
(* them.                                                                   *)
(*                                                                         *)
(* A definition whose comment begins with "Mutant" is a wrong version of   *)
(* the one after it: it shows which property notices that mistake.         *)
(***************************************************************************)
EXTENDS TaskLifecycle, LeaderElection

CONSTANT
  MaxMisreads  \* bound: outdated copies of a row that passes act on

ASSUME PassAssumption == MaxMisreads \in Nat

VARIABLES
  pass,     \* of every node: the stage of its pass and the tasks listed for it
  misreads  \* of every task: outdated copies of its row acted on so far

passVars == <<vars, electionVars, pass, misreads>>

Stages == {"none", "dated", "gaps", "stale"}
NoPass == [stage |-> "none", listed |-> {}]

(* list_all of the shared store, for the records whose date has come; a
   pass before that date is one that does not list the task. *)
Dated == {t \in Tasks : shSusp[t].kind = "timed"}

(* list_suspended_tasks, for the gaps whose executor is there. *)
Gaps == {t \in Tasks : dbSusp[t].kind = "gap"}

InProgress == {t \in Tasks : status[t] = "in_progress"}

(* The pass of n goes on to stage s with the list it makes for it. *)
Lists(n, s, due) == pass' = [pass EXCEPT ![n] = [stage |-> s, listed |-> due]]

(* n is done with t. *)
Ticks(n, t) == pass' = [pass EXCEPT ![n].listed = @ \ {t}]

(* Outdated copies of the rows of S are read.  A copy lives for 60 s, so those
   of a row that no longer changes come to an end. *)
Misread(S) ==
  /\ \A t \in S : status[t] # "absent" /\ misreads[t] < MaxMisreads
  /\ misreads' = [t \in Tasks |-> misreads[t] + IF t \in S THEN 1 ELSE 0]

(* The whole row is saved from a copy: new for its status, and depends_on as
   some earlier edit left it.  A row that is gone is inserted again if the copy
   is, by then. *)
Overwrite(t, new) ==
  /\ status' = [status EXCEPT ![t] = new]
  /\ \E older \in SUBSET {d \in Tasks \ {t} : status[d] # "absent"} :
       deps' = [deps EXCEPT ![t] = older]

(* The lists, each made when the stage before it is over.  find_all answers
   list_suspended_tasks, and from the cache as well: it may miss a record or
   name one that is gone.  What G39 takes for stale among the rows IN_PROGRESS
   depends on their age. *)
ListDated(n) ==
  /\ seat[n] = "leading"
  /\ pass[n].stage = "none"
  /\ Lists(n, "dated", Dated)
  /\ UNCHANGED <<vars, electionVars, misreads>>

ListGaps(n) ==
  /\ pass[n] = [stage |-> "dated", listed |-> {}]
  /\ \E missed \in SUBSET Gaps, old \in SUBSET {t \in Tasks : status[t] # "absent"} :
       Misread(missed) /\ Lists(n, "gaps", (Gaps \ missed) \cup old)
  /\ UNCHANGED <<vars, electionVars>>

ListStale(n) ==
  /\ pass[n] = [stage |-> "gaps", listed |-> {}]
  /\ \E old \in SUBSET InProgress : Lists(n, "stale", old)
  /\ UNCHANGED <<vars, electionVars, misreads>>

(* resume_task takes t for SUSPENDED, as its copy says, and saves the copy with
   status new; the table record goes last.  An UPDATE that meets no row fails,
   which raises when the shared record is gone already. *)
ResumeFromCopy(t, new) ==
  /\ SuspensionInfo(t) # NoRecord
  /\ shSusp' = [shSusp EXCEPT ![t] = NoRecord]
  /\ \/ /\ Overwrite(t, new)
        /\ dbSusp' = [dbSusp EXCEPT ![t] = NoRecord]
     \/ /\ status[t] = "deleted"
        /\ UNCHANGED <<status, deps, dbSusp>>
  /\ UNCHANGED <<passed, call, keyVars, bounds>>

(* resume_task of a listed task that is SUSPENDED, for whatever reason by now;
   of any other it raises, which is caught and logged, as of one that an
   outdated copy takes for another. *)
ServeDated(n, t) ==
  /\ pass[n].stage = "dated"
  /\ t \in pass[n].listed
  /\ \/ /\ \/ Resume(t)
           \/ /\ ~(status[t] = "suspended" /\ SuspensionInfo(t) # NoRecord)
              /\ UNCHANGED vars
        /\ UNCHANGED misreads
     \/ /\ Misread({t})
        /\ UNCHANGED vars \/ ResumeFromCopy(t, SuspensionInfo(t).origin)
  /\ Ticks(n, t)
  /\ UNCHANGED electionVars

(* What try_resume_suspended_assignment makes of t: QUEUED if resume_task made
   it ASSIGNMENT_PENDING again, which is read back after the write. *)
GapTarget(t) ==
  IF SuspensionInfo(t).origin = "assignment_pending"
  THEN "queued" ELSE SuspensionInfo(t).origin

(* try_resume_suspended_assignment with the record that was listed. *)
ResumeListedGap(t) ==
  /\ status[t] = "suspended"
  /\ SuspensionInfo(t) # NoRecord
  /\ status' = [status EXCEPT ![t] = GapTarget(t)]
  /\ shSusp' = [shSusp EXCEPT ![t] = NoRecord]
  /\ dbSusp' = [dbSusp EXCEPT ![t] = NoRecord]
  /\ UNCHANGED <<deps, passed, call, keyVars, bounds>>

ServeGap(n, t) ==
  /\ pass[n].stage = "gaps"
  /\ t \in pass[n].listed
  /\ \/ /\ \/ ResumeListedGap(t)
           \/ /\ ~(status[t] = "suspended" /\ SuspensionInfo(t) # NoRecord)
              /\ UNCHANGED vars
        /\ UNCHANGED misreads
     \/ /\ Misread({t})
        /\ UNCHANGED vars \/ ResumeFromCopy(t, GapTarget(t))
  /\ Ticks(n, t)
  /\ UNCHANGED electionVars

ReclaimTarget(t) == IF t \in Retriable THEN "todo" ELSE "failed"

(* Mutant: the row is written as it was listed. *)
ReclaimUnchecked(t) ==
  /\ Present(t)
  /\ status' = [status EXCEPT ![t] = ReclaimTarget(t)]
  /\ UNCHANGED <<deps, passed, suspVars, call, keyVars, bounds, misreads>>

(* G39: back to TODO if the contract is retriable, FAILED otherwise, as far as
   the row's status, or that of an outdated copy, still allows it. *)
ReclaimListed(t) ==
  \/ /\ \/ UpdateStatus(t, ReclaimTarget(t))
        \/ /\ ~Legal(status[t], ReclaimTarget(t))
           /\ UNCHANGED vars
     /\ UNCHANGED misreads
  \/ /\ Misread({t})
     /\ Overwrite(t, ReclaimTarget(t)) \/ UNCHANGED <<status, deps>>
     /\ UNCHANGED <<passed, suspVars, call, keyVars, bounds>>

ServeStale(n, t) ==
  /\ pass[n].stage = "stale"
  /\ t \in pass[n].listed
  /\ ReclaimListed(t)
  /\ Ticks(n, t)
  /\ UNCHANGED electionVars

(* check_auto_resume_tasks returns. *)
EndPass(n) ==
  /\ pass[n] = [stage |-> "stale", listed |-> {}]
  /\ EndTerm(n)
  /\ pass' = [pass EXCEPT ![n] = NoPass]
  /\ UNCHANGED <<vars, misreads>>

Campaign(n) ==
  /\ TryAdd(n) \/ ReadLeader(n) \/ Extend(n)
  /\ UNCHANGED <<vars, pass, misreads>>

PassStep(n) ==
  \/ Campaign(n)
  \/ ListDated(n) \/ ListGaps(n) \/ ListStale(n)
  \/ \E t \in Tasks : ServeDated(n, t) \/ ServeGap(n, t) \/ ServeStale(n, t)
  \/ EndPass(n)

(* Mutant: the pass of a dead node goes on in the process after it. *)
NodeDiesUnnoticed(n) ==
  /\ Depart(n)
  /\ UNCHANGED <<vars, pass, misreads>>

(* A node dies in whatever stage of its pass it is. *)
NodeDies(n) ==
  /\ Depart(n)
  /\ pass' = [pass EXCEPT ![n] = NoPass]
  /\ UNCHANGED <<vars, misreads>>

LeaseLapses ==
  /\ Lapse
  /\ UNCHANGED <<vars, pass, misreads>>

(* Everything of TaskLifecycle but the two passes that need a leader. *)
ServiceStep ==
  /\ \/ \E t \in Tasks : \/ OperatorNext(t)
                         \/ CompletionNext(t)
                         \/ SuspensionNext(t)
                         \/ Assign(t)
                         \/ TimeoutPass(t)
     \/ \E c \in Calls : Verdict(c)
     \/ Restart
  /\ UNCHANGED <<electionVars, pass, misreads>>

PassInit ==
  /\ Init
  /\ ElectionInit
  /\ pass = [n \in Nodes |-> NoPass]
  /\ misreads = [t \in Tasks |-> 0]

PassNext ==
  \/ \E n \in Nodes : PassStep(n) \/ NodeDies(n)
  \/ LeaseLapses
  \/ ServiceStep

PassSpec == PassInit /\ [][PassNext]_passVars

(* Every node's scheduler thread goes on with its cycle, in which the timeout
   pass needs no leader, and the lease of a dead node expires. *)
PassFairness ==
  /\ \A n \in Nodes : WF_passVars(PassStep(n))
  /\ \A t \in Tasks : WF_passVars(TimeoutPass(t) /\ UNCHANGED <<electionVars, pass, misreads>>)
  /\ WF_passVars(leader = Departed /\ LeaseLapses)

PassLiveSpec == PassSpec /\ PassFairness

-----------------------------------------------------------------------------
(* Properties; those of TaskLifecycle are checked here as well.            *)

(* Every variable has its type, and a pass is under way only on a node that
   was told that it leads. *)
PassTypeOK ==
  /\ TypeOK
  /\ ElectionTypeOK
  /\ pass \in [Nodes -> [stage : Stages, listed : SUBSET Tasks]]
  /\ \A n \in Nodes : pass[n].stage # "none" => seat[n] = "leading"
  /\ misreads \in [Tasks -> 0..MaxMisreads]

(* Of all rows only that of t takes on another phase or acceptance. *)
Only(t) ==
  \A u \in Tasks \ {t} : /\ PhaseOf(status'[u]) = PhaseOf(status[u])
                         /\ u \in passed' <=> u \in passed

(* Passes on several nodes, led by one or by two at once, from lists however
   old, do to a row what TaskOutcomes promises: finished work stays finished,
   a deleted row gone.  Excepted is a row of which a pass has read an outdated
   copy (common/database.py:426-447): it is saved as the copy has it, whatever
   another process has made of it meanwhile. *)
OutcomesUnlessMisread ==
  /\ Outcomes!OutcomesInit
  /\ [][\/ Outcomes!OutcomesNext
        \/ \E t \in Tasks : misreads'[t] > 0 /\ Only(t)]_<<Phase, passed>>

(* A suspension that passes look for ends: one with a date once the date has
   come, one for a resource gap once its executor is there and stays. *)
SuspensionEnds ==
  \A t \in Tasks :
    (status[t] = "suspended" /\ (shSusp[t].kind = "timed" \/ dbSusp[t].kind = "gap"))
      ~> status[t] # "suspended"
=============================================================================
