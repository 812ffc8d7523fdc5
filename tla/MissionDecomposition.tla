------------------------ MODULE MissionDecomposition ------------------------
(***************************************************************************)
(* decompose_and_dispatch_mission, run for one mission by several          *)
(* processes (when the mission is created, and whenever a request asks for *)
(* it), over create_task, with a worker that executes what is QUEUED.      *)
(*                                                                         *)
(* The mission row is read before the decomposer is awaited and written as *)
(* it was read; subtasks are created and QUEUED in a first pass and linked *)
(* to each other in a second; and both passes write whole rows from copies *)
(* of them.  Of those who write the rows meanwhile the model has the task  *)
(* worker, which updates single columns, and delete_task.  Other calls of  *)
(* the service write whole rows as well, from what their process last read *)
(* of them, and one from before pass 2 takes the links back: they are left *)
(* out.                                                                    *)
(*                                                                         *)
(* A definition whose comment begins with "Mutant" is a wrong version of   *)
(* the one after it: it shows which property notices that mistake.         *)
(***************************************************************************)
EXTENDS TaskCreation, Sequences

CONSTANTS
  Plan,        \* the steps the decomposer names, in order: keys of subtasks
  Needs,       \* the steps a step depends on
  MaxRequests  \* bound: decompositions

ASSUME MissionAssumption ==
  /\ Plan \in Seq(Resources)
  /\ \A i, j \in DOMAIN Plan : Plan[i] = Plan[j] => i = j
  /\ Needs \in [Resources -> SUBSET {Plan[i] : i \in DOMAIN Plan}]
  /\ IsFiniteSet(Processes)
  /\ MaxRequests \in Nat

VARIABLES
  mission,   \* the row of the mission
  job,       \* what a process makes of it
  requests   \* decompositions begun

missionVars == <<creationVars, mission, job, requests>>

(* Statuses from QUEUED on.  "failed" stands for every one that takes a subtask
   out of the queue unfinished. *)
Dispatched == {"queued", "todo", "in_progress", "done", "failed"}

Resting == [at |-> "none"]
Doing(p, s) == job[p].at = s
Quiet == \A p \in Processes : job[p] = Resting

Decomposed == mission.done /\ \A i \in 1..Len(mission.ids) : HasRow(mission.ids[i])

(* The decomposition ends; if by an exception, nothing is taken back. *)
End(p) == job' = [job EXCEPT ![p] = Resting]
Raise(p) == End(p) /\ mishaps' = [mishaps EXCEPT !["raise"] = @ + 1]

-----------------------------------------------------------------------------

(* The mission is read, and unless it is decomposed already the decomposer
   awaited with it. *)
Begin(p) ==
  /\ job[p] = Resting
  /\ requests < MaxRequests
  /\ ~Decomposed
  /\ job' = [job EXCEPT ![p] = [at |-> "awaiting", held |-> mission, ids |-> <<>>,
                                link |-> 1]]
  /\ requests' = requests + 1
  /\ UNCHANGED <<creationVars, mission>>

(* It raises or answers with nothing: the mission fails, as it was read. *)
NoPlan(p) ==
  /\ Doing(p, "awaiting")
  /\ mission' = [job[p].held EXCEPT !.done = FALSE]
  /\ End(p)
  /\ UNCHANGED <<creationVars, requests>>

(* Pass 1: the next step of the plan is created under the key of its local
   id... *)
CreateStep(p) ==
  /\ job[p].at \in {"awaiting", "creating"}
  /\ LET i == Len(job[p].ids) + 1 IN i <= Len(Plan) /\ Call(p, Plan[i])
  /\ job' = [job EXCEPT ![p].at = "creating"]
  /\ UNCHANGED <<mission, requests>>

(* ... assigned to an executor and QUEUED, with the row as create_task
   answered it... *)
Route(p) ==
  /\ In(p, "answer")
  /\ create[p].task # NoTask
  /\ create[p].copy.status = "assignment_pending"
  /\ row' = [row EXCEPT ![create[p].task] = [create[p].copy EXCEPT !.status = "queued"]]
  /\ Go(p, "routed")
  /\ UNCHANGED <<lockVars, log, shared, deleting, mission, job, requests>>

(* ... and read back.  A row that is gone raises, and so does one that was
   assigned and is not QUEUED any more. *)
ReadBack(p) ==
  /\ \/ In(p, "routed")
     \/ In(p, "answer") /\ create[p].copy.status # "assignment_pending"
  /\ create' = [create EXCEPT ![p] = Out]
  /\ LET t == create[p].task IN
       IF HasRow(t) /\ (In(p, "routed") => row[t].status = "queued")
       THEN /\ job' = [job EXCEPT ![p].ids = Append(@, t),
                                  ![p].at = IF Len(job[p].ids) + 1 = Len(Plan)
                                            THEN "linking" ELSE @]
            /\ UNCHANGED mishaps
       ELSE Raise(p)
  /\ UNCHANGED <<owner, row, log, shared, deleting, mission, requests>>

(* Pass 2.  The ids of this time are appended to those the mission had, and
   the steps paired with the first of them. *)
AllIds(p) == job[p].held.ids \o job[p].ids
IdOf(p, k) == job[p].ids[CHOOSE i \in 1..Len(Plan) : Plan[i] = k]

(* Mutant: local ids are not translated. *)
LocalLinks(p, k) == Needs[k]

Links(p, k) == {IdOf(p, n) : n \in Needs[k]}

(* Mutant: the last step is not linked. *)
NextIsShort(p) == IF job[p].link + 1 >= Len(Plan) THEN "finishing" ELSE "linking"

NextIs(p) == IF job[p].link = Len(Plan) THEN "finishing" ELSE "linking"

(* The whole row is written, a deleted one anew, from the copy in _tasks: read
   back in pass 1 and perhaps refreshed by another reader in the process since,
   so with a status the row had, which may be any but its first.  A row that
   is not in _tasks, deleted by this process or created before it started,
   raises. *)
Link(p) ==
  /\ Doing(p, "linking")
  /\ LET i == job[p].link
         t == AllIds(p)[i]
     IN \/ /\ \E s \in Dispatched :
                row' = [row EXCEPT ![t] = [status |-> s, deps |-> Links(p, Plan[i])]]
           /\ job' = [job EXCEPT ![p].link = i + 1, ![p].at = NextIs(p)]
           /\ UNCHANGED mishaps
        \/ /\ HasRow(t) => \A j \in DOMAIN job[p].ids : job[p].ids[j] # t
           /\ Raise(p)
           /\ UNCHANGED row
  /\ UNCHANGED <<owner, log, shared, create, deleting, mission, requests>>

(* The mission, as it was read, with its subtasks. *)
Finish(p) ==
  /\ Doing(p, "finishing")
  /\ mission' = [ids |-> AllIds(p), done |-> TRUE]
  /\ End(p)
  /\ UNCHANGED <<creationVars, requests>>

(* create_task raised. *)
CreateRaised(p) ==
  /\ In(p, "answer")
  /\ create[p].task = NoTask
  /\ create' = [create EXCEPT ![p] = Out]
  /\ Raise(p)
  /\ UNCHANGED <<owner, row, log, shared, deleting, mission, requests>>

(* The process dies, or a write of a row fails. *)
Interrupted(p) ==
  /\ job[p] # Resting
  /\ Die(p)
  /\ End(p)
  /\ UNCHANGED <<mission, requests>>

Decomposing(p) ==
  \/ Creating(p) /\ UNCHANGED <<mission, job, requests>>
  \/ NoPlan(p) \/ CreateStep(p) \/ Route(p) \/ ReadBack(p) \/ Link(p)
  \/ Finish(p) \/ CreateRaised(p)

-----------------------------------------------------------------------------
(* The worker, operators and time.                                         *)

(* The worker claims what it listed while it was QUEUED or TODO, whatever it is
   by now.  What it screens out of the list, and when, is a matter of
   TaskWorker: here any subtask that was QUEUED may be on it. *)
Claim(t) ==
  /\ row[t].status \in Dispatched
  /\ row' = [row EXCEPT ![t].status = "in_progress"]
  /\ UNCHANGED <<lockVars, log, shared, create, deleting, mission, job, requests>>

(* It finishes what it claimed, puts it back for another attempt or gives it
   up, which it also does to what it listed when a dependency failed, and all
   without looking at the row again. *)
Settle(t) ==
  /\ row[t].status \in Dispatched
  /\ \E s \in {"done", "todo", "failed"} : row' = [row EXCEPT ![t].status = s]
  /\ UNCHANGED <<lockVars, log, shared, create, deleting, mission, job, requests>>

Elsewhere ==
  /\ \/ \E t \in Tasks, force \in BOOLEAN : DeleteRow(t, force)
     \/ DeleteShared
     \/ DeleteLog
     \/ \E k \in Resources : Forget(k) \/ ExpireLock(k)
  /\ UNCHANGED <<mission, job, requests>>

MissionInit ==
  /\ CreationInit
  /\ mission = [ids |-> <<>>, done |-> FALSE]
  /\ job = [p \in Processes |-> Resting]
  /\ requests = 0

MissionNext ==
  \/ \E p \in Processes : Begin(p) \/ Decomposing(p) \/ Interrupted(p)
  \/ \E t \in Tasks : Claim(t) \/ Settle(t)
  \/ Elsewhere

MissionSpec == MissionInit /\ [][MissionNext]_missionVars

-----------------------------------------------------------------------------

MissionTypeOK ==
  /\ CreationTypeOK
  /\ mission.ids \in Seq(Tasks)
  /\ \A p \in Processes : job[p] # Resting =>
       /\ Len(job[p].ids) <= Len(Plan)
       /\ In(p, "out") \/ Doing(p, "creating")

(* A key has one task, however the lookups, the writes, crashes, exceptions and
   repeated decompositions interleave, as long as no lock failed to keep
   another process out, nobody died between a row and its entries, no task was
   deleted, whose entries go later and may be its successor's by then, and not
   both entries got lost: the table's, whose insert failed, and the shared
   one, which expired. *)
OneTaskPerKey ==
  /\ \A m \in {"lapse", "tear", "deletion"} : mishaps[m] = 0
  /\ \E m \in {"unlogged", "expiry"} : mishaps[m] = 0
  => \A t, u \in Tasks : HasRow(t) /\ HasRow(u) /\ KeyOf(t) = KeyOf(u) => t = u

(* A lock names a call that is inside it, or one that was cut off: nobody
   leaves it behind by an early answer or an exception, whoever else expired
   it, took it or deleted it meanwhile. *)
LockReleased == \A k \in Resources : owner[k] \notin {NoOne, Gone} => Using(k)

NoneCutOff == \A m \in {"tear", "crash", "raise"} : mishaps[m] = 0

(* When a mission says it is decomposed, and no other decomposition of it is
   under way or was cut off, every subtask it names has been dispatched and
   waits for subtasks of the steps it needs: a late whole-row write of
   pass 1 undoes no link of pass 2.  Deleting subtasks breaks the pairing of
   steps and ids and is left out. *)
DecomposedIsLinked ==
  mission.done /\ Quiet /\ NoneCutOff /\ mishaps["deletion"] = 0 =>
    \A i \in 1..Len(Plan) :
      /\ row[mission.ids[i]].status \in Dispatched
      /\ {KeyOf(d) : d \in row[mission.ids[i]].deps} = Needs[Plan[i]]
=============================================================================
