------------------------ MODULE TaskLifecycleProofs ------------------------
(***************************************************************************)
(* Theorems about TaskLifecycle, for every set of tasks, keys and calls,   *)
(* every choice of contracts and every bound on faults and expiries.       *)
(***************************************************************************)
EXTENDS TaskLifecycle, TLAPS

(* What the transition table promises whatever the pair: both ends are
   statuses, nothing leaves ARCHIVED or CANCELLED, DONE can only be archived
   and FAILED only reopened as TODO or archived. *)
LEMMA LegalShape ==
  ASSUME NEW old, NEW new, Legal(old, new)
  PROVE  /\ old \in Statuses \ {"archived", "cancelled"}
         /\ new \in Statuses
         /\ old = "done" => new = "archived"
         /\ old = "failed" => new \in {"todo", "archived"}
BY DEF Legal, Statuses

LEMMA BirthIsStatus == BirthStatuses \subseteq Statuses
BY LifecycleAssumption

LEMMA SuspendableIsStatus == Suspendable \subseteq Statuses
BY DEF Suspendable, Statuses

LEMMA RecordType ==
  ASSUME NEW origin \in Statuses, NEW kind \in AllKinds
  PROVE  Record(origin, kind) \in Records /\ Record(origin, kind) # NoRecord
BY DEF Record, Records, NoRecord, AllKinds

LEMMA InfoType ==
  ASSUME TypeOK, NEW t \in Tasks, SuspensionInfo(t) # NoRecord
  PROVE  SuspensionInfo(t).origin \in Statuses
BY DEF TypeOK, SuspensionInfo, Records, NoRecord, Record

-----------------------------------------------------------------------------
(* Type correctness.                                                       *)

LEMMA AcknowledgeType ==
  ASSUME TypeOK, NEW key, key \in Keys \cup {NoKey}, Acknowledge(key)
  PROVE  /\ receipts' \in SUBSET Keys
         /\ receiptLog' \in SUBSET Keys
         /\ faults' \in 0..MaxFaults
         /\ expiries' \in 0..MaxExpiries
BY LifecycleAssumption DEF TypeOK, Acknowledge, Fault, keyVars, bounds

LEMMA RememberType ==
  ASSUME TypeOK, NEW t \in Tasks, NEW kind \in AllKinds, Present(t),
         Remember(t, kind)
  PROVE  /\ dbSusp' \in [Tasks -> Records]
         /\ shSusp' \in [Tasks -> Records]
BY RecordType DEF TypeOK, Remember, Present

LEMMA TypeOperator ==
  ASSUME TypeOK, NEW t \in Tasks, OperatorNext(t)
  PROVE  TypeOK'
<1> USE DEF TypeOK, RowStatuses, suspVars, keyVars, bounds
<1>1. ASSUME NEW birth \in BirthStatuses, NEW ds \in SUBSET Tasks,
             Create(t, birth, ds)
      PROVE  TypeOK'
  BY <1>1, BirthIsStatus DEF Create
<1>2. CASE Claim(t)
  BY <1>2, LegalShape DEF Claim, Move
<1>3. ASSUME NEW new \in Statuses, UpdateStatus(t, new)
      PROVE  TypeOK'
  BY <1>3 DEF UpdateStatus, Move
<1>4. ASSUME NEW force \in BOOLEAN, Delete(t, force)
      PROVE  TypeOK'
  BY <1>4 DEF Delete
<1>5. ASSUME NEW action \in DOMAIN InterventionStatus, NEW key \in Keys,
             Intervene(t, action, key)
      PROVE  TypeOK'
  BY <1>5, LegalShape, AcknowledgeType DEF Intervene, Move
<1>6. ASSUME NEW key \in Keys, ApproveAgain(t, key)
      PROVE  TypeOK'
  BY <1>6, AcknowledgeType DEF ApproveAgain
<1>7. ASSUME NEW d \in Tasks, AddDependency(t, d) \/ RemoveDependency(t, d)
      PROVE  TypeOK'
  BY <1>7 DEF AddDependency, RemoveDependency
<1> QED
  BY <1>1, <1>2, <1>3, <1>4, <1>5, <1>6, <1>7 DEF OperatorNext

LEMMA TypeCompletion ==
  ASSUME TypeOK, NEW t \in Tasks, CompletionNext(t)
  PROVE  TypeOK'
<1> USE DEF TypeOK, RowStatuses, suspVars, keyVars, bounds
<1>1. CASE CompleteUnverified(t)
  BY <1>1 DEF CompleteUnverified, Statuses
<1>2. ASSUME NEW c \in Calls, NEW key \in Keys \cup {NoKey},
             BeginVerification(c, t, key)
      PROVE  TypeOK'
  BY <1>2 DEF BeginVerification, Statuses
<1>3. CASE CompletionRefused(t)
  BY <1>3, LegalShape DEF CompletionRefused, Move
<1>4. CASE RecoverWaiting(t)
  BY <1>4 DEF RecoverWaiting, Statuses
<1> QED
  BY <1>1, <1>2, <1>3, <1>4 DEF CompletionNext

LEMMA TypeSuspension ==
  ASSUME TypeOK, NEW t \in Tasks, SuspensionNext(t)
  PROVE  TypeOK'
<1> USE DEF TypeOK, RowStatuses, suspVars, keyVars, bounds
<1>1. Kinds \subseteq AllKinds /\ MaxFaults \in Nat /\ MaxExpiries \in Nat
  BY LifecycleAssumption
<1>2. "suspended" \in Statuses /\ NoRecord \in Records
  BY DEF Statuses, Records
<1>3. ASSUME NEW kind \in Kinds, Suspend(t, kind)
      PROVE  TypeOK'
  <2>1. Present(t)
    BY <1>3, SuspendableIsStatus DEF Suspend, Present
  <2> QED
    BY <1>1, <1>2, <1>3, <2>1, RememberType DEF Suspend
<1>4. ASSUME NEW kind \in Kinds, SuspendRowFault(t, kind)
      PROVE  TypeOK'
  BY <1>1, <1>4, RecordType, SuspendableIsStatus DEF SuspendRowFault, Fault
<1>5. ASSUME NEW kind \in Kinds, SuspendRecordFault(t, kind)
      PROVE  TypeOK'
  BY <1>1, <1>2, <1>5, RecordType, SuspendableIsStatus
     DEF SuspendRecordFault, Fault
<1>6. CASE Resume(t)
  BY <1>2, <1>6, InfoType DEF Resume
<1>7. CASE ResumeRowFault(t)
  BY <1>1, <1>2, <1>7 DEF ResumeRowFault, Fault
<1>8. CASE ResumeRecordFault(t)
  BY <1>1, <1>2, <1>8, InfoType DEF ResumeRecordFault, Fault
<1>9. CASE ExpireSharedRecord(t)
  BY <1>1, <1>2, <1>9 DEF ExpireSharedRecord
<1> QED
  BY <1>3, <1>4, <1>5, <1>6, <1>7, <1>8, <1>9 DEF SuspensionNext

LEMMA TypeScheduler ==
  ASSUME TypeOK, NEW t \in Tasks, SchedulerNext(t)
  PROVE  TypeOK'
<1> USE DEF TypeOK, RowStatuses, suspVars, keyVars, bounds
<1>1. {"queued", "todo", "failed", "blocked"} \subseteq Statuses
  BY DEF Statuses
<1>2. NoRecord \in Records
  BY DEF Records
<1>3. CASE Assign(t)
  BY <1>1, <1>3 DEF Assign
<1>4. CASE AutoResume(t)
  BY <1>2, <1>4, InfoType DEF AutoResume, Resume
<1>5. CASE ResumeGap(t)
  <2>1. dbSusp[t].origin \in Statuses
    BY <1>5 DEF ResumeGap, Records, NoRecord, Record
  <2> QED
    BY <1>1, <1>2, <1>5, <2>1 DEF ResumeGap
<1>6. CASE Reclaim(t)
  BY <1>1, <1>6 DEF Reclaim, Move
<1>7. CASE BlockUnleased(t)
  BY <1>1, <1>7 DEF BlockUnleased, Move
<1> QED
  BY <1>3, <1>4, <1>5, <1>6, <1>7 DEF SchedulerNext, TimeoutPass

(* A call in a slot: its task is a task, its key a key or none. *)
LEMMA CallType ==
  ASSUME TypeOK, NEW c \in Calls, call[c] # Free, Verified \subseteq Tasks
  PROVE  call[c].task \in Tasks /\ call[c].key \in Keys \cup {NoKey}
BY DEF TypeOK

LEMMA TypeVerdict ==
  ASSUME TypeOK, NEW c \in Calls, Verdict(c)
  PROVE  TypeOK'
<1> DEFINE t == call[c].task
<1> USE DEF TypeOK, RowStatuses, suspVars, keyVars, bounds
<1>1. t \in Tasks /\ call[c].key \in Keys \cup {NoKey}
  BY CallType, LifecycleAssumption DEF Verdict
<1>2. /\ call' \in [Calls -> {Free} \cup [task : Verified, key : Keys \cup {NoKey}]]
      /\ deps' = deps
  BY DEF Verdict
<1>3. {"done", "in_progress", "failed", "suspended"} \subseteq Statuses
  BY DEF Statuses
<1>4. CASE VerdictPassed(c)
  BY <1>1, <1>2, <1>3, <1>4, AcknowledgeType DEF VerdictPassed, Move
<1>5. CASE VerdictRetry(c)
  BY <1>1, <1>2, <1>3, <1>5, AcknowledgeType DEF VerdictRetry, Move
<1>6. CASE VerdictRejected(c)
  BY <1>1, <1>2, <1>3, <1>6 DEF VerdictRejected, Move
<1>7. CASE VerdictEscalated(c)
  <2>1. Present(t) /\ "manual" \in AllKinds
    BY <1>7, SuspendableIsStatus DEF VerdictEscalated, Present, AllKinds
  <2> QED
    BY <1>1, <1>2, <1>3, <1>7, <2>1, AcknowledgeType, RememberType
       DEF VerdictEscalated
<1>8. CASE VerdictError(c)
  BY <1>1, <1>2, <1>3, <1>8 DEF VerdictError
<1>9. CASE VerdictUnrecorded(c)
  <2>1. faults' \in 0..MaxFaults /\ expiries' = expiries
    BY <1>9, LifecycleAssumption DEF VerdictUnrecorded, Fault
  <2>2. CASE Move(t, "done") /\ UNCHANGED suspVars
    BY <1>1, <1>2, <1>3, <1>9, <2>1, <2>2 DEF VerdictUnrecorded, Move
  <2>3. CASE /\ status[t] \in Suspendable
             /\ Remember(t, "manual")
             /\ status' = [status EXCEPT ![t] = "failed"]
    <3>1. Present(t) /\ "manual" \in AllKinds
      BY <2>3, SuspendableIsStatus DEF Present, AllKinds
    <3> QED
      BY <1>1, <1>2, <1>3, <1>9, <2>1, <2>3, <3>1, RememberType
         DEF VerdictUnrecorded
  <2> QED
    BY <1>9, <2>2, <2>3 DEF VerdictUnrecorded
<1> QED
  BY <1>4, <1>5, <1>6, <1>7, <1>8, <1>9 DEF Verdict

LEMMA InitType == Init => TypeOK
BY LifecycleAssumption DEF Init, TypeOK, RowStatuses, Records

LEMMA TypeStep ==
  ASSUME TypeOK, [Next]_vars
  PROVE  TypeOK'
<1>1. ASSUME NEW t \in Tasks,
             OperatorNext(t) \/ CompletionNext(t) \/ SuspensionNext(t)
               \/ SchedulerNext(t)
      PROVE  TypeOK'
  BY <1>1, TypeOperator, TypeCompletion, TypeSuspension, TypeScheduler
<1>2. ASSUME NEW c \in Calls, Verdict(c)
      PROVE  TypeOK'
  BY <1>2, TypeVerdict
<1>3. CASE Restart
  BY <1>3 DEF Restart, TypeOK, suspVars, bounds
<1>4. CASE UNCHANGED vars
  BY <1>4 DEF vars, TypeOK
<1> QED
  BY <1>1, <1>2, <1>3, <1>4 DEF Next

(* Every variable keeps its type in every reachable state. *)
THEOREM TypeCorrect == Spec => []TypeOK
<1>1. TypeOK /\ [Next]_vars => TypeOK'
  BY TypeStep
<1> QED
  BY <1>1, InitType, PTL DEF Spec

-----------------------------------------------------------------------------
(* How rows move.                                                          *)

OpenStatuses == {"split_required", "assignment_pending", "queued", "todo",
                 "in_progress", "blocked", "waiting_confirmation", "suspended"}

(* The moves a row of t can make in one step that accepts no verdict. *)
CanBecome(t, old, new) ==
  /\ \/ new = old
     \/ old = "absent" /\ new \in BirthStatuses
     \/ old \in Statuses /\ new = "deleted"
     \/ Legal(old, new)
     \/ old \in OpenStatuses /\ new \in OpenStatuses \cup {"done"}
  /\ (t \in Verified /\ new = "done") =>
       old \in {"done", "waiting_confirmation"} \/ VerdictArrives(t)

RowStep(t) ==
  \E new \in RowStatuses :
    /\ CanBecome(t, status[t], new)
    /\ status' = [status EXCEPT ![t] = new]

(* A step that leaves the table of rows alone. *)
LEMMA SameRow ==
  ASSUME TypeOK, NEW t \in Tasks, status' = status
  PROVE  RowStep(t)
<1>1. status[t] \in RowStatuses /\ status' = [status EXCEPT ![t] = status[t]]
  BY DEF TypeOK
<1>2. CanBecome(t, status[t], status[t])
  BY DEF CanBecome
<1> QED
  BY <1>1, <1>2 DEF RowStep

(* A legal move that is no verified completion. *)
LEMMA LegalRow ==
  ASSUME TypeOK, NEW t \in Tasks, NEW new, Move(t, new), ~Bridged(t, new)
  PROVE  RowStep(t)
BY LegalShape DEF Move, Bridged, RowStep, CanBecome, RowStatuses

LEMMA OpenRow ==
  ASSUME TypeOK, NEW t \in Tasks, NEW new \in OpenStatuses,
         status[t] \in OpenStatuses,
         status' = [status EXCEPT ![t] = new]
  PROVE  RowStep(t)
BY DEF RowStep, CanBecome, RowStatuses, OpenStatuses, Statuses

LEMMA SuspendableOpen == Suspendable \subseteq OpenStatuses
BY DEF Suspendable, OpenStatuses

LEMMA InfoOpen ==
  ASSUME SuspensionOriginOK, NEW t \in Tasks, SuspensionInfo(t) # NoRecord
  PROVE  SuspensionInfo(t).origin \in OpenStatuses
BY SuspendableOpen DEF SuspensionOriginOK, SuspensionInfo

LEMMA RowOperator ==
  ASSUME TypeOK, NEW t \in Tasks, OperatorNext(t)
  PROVE  RowStep(t) /\ passed' = passed /\ UNCHANGED suspVars
<1>1. ASSUME NEW birth \in BirthStatuses, NEW ds \in SUBSET Tasks,
             Create(t, birth, ds)
      PROVE  RowStep(t) /\ passed' = passed /\ UNCHANGED suspVars
  BY <1>1, LifecycleAssumption
     DEF Create, RowStep, CanBecome, RowStatuses, Statuses
<1>2. CASE Claim(t)
  BY <1>2, LegalRow DEF Claim, Bridged
<1>3. ASSUME NEW new \in Statuses, UpdateStatus(t, new)
      PROVE  RowStep(t) /\ passed' = passed /\ UNCHANGED suspVars
  BY <1>3, LegalRow DEF UpdateStatus
<1>4. ASSUME NEW force \in BOOLEAN, Delete(t, force)
      PROVE  RowStep(t) /\ passed' = passed /\ UNCHANGED suspVars
  BY <1>4 DEF Delete, Present, RowStep, CanBecome, RowStatuses
<1>5. ASSUME NEW action \in DOMAIN InterventionStatus, NEW key \in Keys,
             Intervene(t, action, key)
      PROVE  RowStep(t) /\ passed' = passed /\ UNCHANGED suspVars
  BY <1>5, LegalRow DEF Intervene
<1>6. ASSUME NEW key \in Keys, ApproveAgain(t, key)
      PROVE  RowStep(t) /\ passed' = passed /\ UNCHANGED suspVars
  BY <1>6, SameRow DEF ApproveAgain
<1>7. ASSUME NEW d \in Tasks, AddDependency(t, d) \/ RemoveDependency(t, d)
      PROVE  RowStep(t) /\ passed' = passed /\ UNCHANGED suspVars
  BY <1>7, SameRow DEF AddDependency, RemoveDependency
<1> QED
  BY <1>1, <1>2, <1>3, <1>4, <1>5, <1>6, <1>7 DEF OperatorNext

LEMMA RowCompletion ==
  ASSUME TypeOK, NEW t \in Tasks, CompletionNext(t)
  PROVE  RowStep(t) /\ passed' = passed /\ UNCHANGED suspVars
<1>1. CASE CompleteUnverified(t)
  BY <1>1 DEF CompleteUnverified, AutoClaimed, RowStep, CanBecome, RowStatuses,
              Statuses, OpenStatuses
<1>2. ASSUME NEW c \in Calls, NEW key \in Keys \cup {NoKey},
             BeginVerification(c, t, key)
      PROVE  RowStep(t) /\ passed' = passed /\ UNCHANGED suspVars
  BY <1>2, OpenRow DEF BeginVerification, AutoClaimed, OpenStatuses
<1>3. CASE CompletionRefused(t)
  BY <1>3, LegalRow DEF CompletionRefused, Bridged
<1>4. CASE RecoverWaiting(t)
  BY <1>4, OpenRow DEF RecoverWaiting, OpenStatuses
<1> QED
  BY <1>1, <1>2, <1>3, <1>4 DEF CompletionNext

LEMMA RowSuspension ==
  ASSUME TypeOK, SuspensionOriginOK, NEW t \in Tasks, SuspensionNext(t)
  PROVE  RowStep(t) /\ passed' = passed
<1>1. "suspended" \in OpenStatuses
  BY DEF OpenStatuses
<1>2. ASSUME NEW kind \in Kinds, Suspend(t, kind)
      PROVE  RowStep(t) /\ passed' = passed
  BY <1>1, <1>2, OpenRow, SuspendableOpen DEF Suspend
<1>3. ASSUME NEW kind \in Kinds, SuspendRowFault(t, kind)
      PROVE  RowStep(t) /\ passed' = passed
  BY <1>3, SameRow DEF SuspendRowFault
<1>4. ASSUME NEW kind \in Kinds, SuspendRecordFault(t, kind)
      PROVE  RowStep(t) /\ passed' = passed
  BY <1>1, <1>4, OpenRow, SuspendableOpen DEF SuspendRecordFault
<1>5. CASE Resume(t)
  BY <1>1, <1>5, OpenRow, InfoOpen DEF Resume
<1>6. CASE ResumeRowFault(t)
  BY <1>6, SameRow DEF ResumeRowFault
<1>7. CASE ResumeRecordFault(t)
  BY <1>1, <1>7, OpenRow, InfoOpen DEF ResumeRecordFault
<1>8. CASE ExpireSharedRecord(t)
  BY <1>8, SameRow DEF ExpireSharedRecord
<1> QED
  BY <1>2, <1>3, <1>4, <1>5, <1>6, <1>7, <1>8 DEF SuspensionNext

LEMMA RowScheduler ==
  ASSUME TypeOK, SuspensionOriginOK, NEW t \in Tasks, SchedulerNext(t)
  PROVE  RowStep(t) /\ passed' = passed
<1>1. {"suspended", "queued", "assignment_pending"} \subseteq OpenStatuses
  BY DEF OpenStatuses
<1>2. CASE Assign(t)
  BY <1>1, <1>2, OpenRow DEF Assign
<1>3. CASE AutoResume(t)
  BY <1>1, <1>3, OpenRow, InfoOpen DEF AutoResume, Resume
<1>4. CASE ResumeGap(t)
  <2>1. dbSusp[t].origin \in OpenStatuses
    BY <1>4, SuspendableOpen
       DEF ResumeGap, SuspensionOriginOK, NoRecord, Record
  <2> QED
    BY <1>1, <1>4, <2>1, OpenRow DEF ResumeGap
<1>5. CASE Reclaim(t)
  BY <1>5, LegalRow DEF Reclaim, Bridged
<1>6. CASE BlockUnleased(t)
  BY <1>6, LegalRow DEF BlockUnleased, Bridged
<1> QED
  BY <1>2, <1>3, <1>4, <1>5, <1>6 DEF SchedulerNext, TimeoutPass

(* Any verdict but an acceptance; what it does to passed matters only to
   finished tasks, which it cannot move. *)
LEMMA RowVerdict ==
  ASSUME TypeOK, NEW c \in Calls, Verdict(c), ~VerdictPassed(c)
  PROVE  /\ RowStep(call[c].task)
         /\ \/ passed' = passed
            \/ /\ passed' = passed \ {call[c].task}
               /\ status[call[c].task] \in OpenStatuses
<1> DEFINE t == call[c].task
<1>1. t \in Tasks
  BY CallType, LifecycleAssumption DEF Verdict
<1>2. ASSUME NEW new \in {"in_progress", "failed"}, Legal(status[t], new)
      PROVE  status[t] \in OpenStatuses
  BY <1>2 DEF Legal, OpenStatuses
<1>3. CASE VerdictRetry(c)
  BY <1>1, <1>2, <1>3, LegalRow DEF VerdictRetry, Move, Bridged
<1>4. CASE VerdictRejected(c)
  BY <1>1, <1>2, <1>4, LegalRow DEF VerdictRejected, Move, Bridged
<1>5. CASE VerdictEscalated(c)
  BY <1>1, <1>5, OpenRow, SuspendableOpen DEF VerdictEscalated, OpenStatuses
<1>6. CASE VerdictError(c)
  <2>1. CASE Legal(status[t], "failed")
    BY <1>1, <1>6, <2>1, LegalRow DEF VerdictError, Move, Bridged
  <2>2. CASE ~Legal(status[t], "failed")
    BY <1>1, <1>6, <2>2, SameRow DEF VerdictError
  <2> QED
    BY <2>1, <2>2
<1>7. CASE VerdictUnrecorded(c)
  <2>1. passed' = passed /\ faults' # faults
    BY <1>7 DEF VerdictUnrecorded, Fault, TypeOK
  <2>2. VerdictArrives(t)
    <3>1. call[c].task = t /\ call'[c] = Free
      BY DEF Verdict, TypeOK
    <3> QED
      BY <2>1, <3>1 DEF VerdictArrives
  <2>3. CASE Move(t, "done")
    BY <1>1, <2>1, <2>2, <2>3, LegalShape
       DEF Move, RowStep, CanBecome, RowStatuses
  <2>4. CASE status[t] \in Suspendable /\ status' = [status EXCEPT ![t] = "failed"]
    <3>1. Legal(status[t], "failed")
      BY <2>4 DEF Suspendable, Legal
    <3> QED
      BY <1>1, <2>1, <2>4, <3>1, LegalRow DEF Move, Bridged
  <2> QED
    BY <1>7, <2>3, <2>4 DEF VerdictUnrecorded
<1> QED
  BY <1>3, <1>4, <1>5, <1>6, <1>7 DEF Verdict

(* A row once created is never again absent. *)
StaysBorn == \A u \in Tasks : status[u] # "absent" => status'[u] # "absent"

LEMMA RowStepBorn ==
  ASSUME TypeOK, NEW t \in Tasks, RowStep(t)
  PROVE  StaysBorn
<1>1. PICK new \in RowStatuses : /\ CanBecome(t, status[t], new)
                                 /\ status' = [status EXCEPT ![t] = new]
  BY DEF RowStep
<1>2. "absent" \notin Statuses /\ "absent" \notin OpenStatuses
  BY DEF Statuses, OpenStatuses
<1>3. status[t] # "absent" => new # "absent"
  BY <1>1, <1>2, LegalShape DEF CanBecome
<1> QED
  BY <1>1, <1>3 DEF StaysBorn, TypeOK

-----------------------------------------------------------------------------
(* Suspension records.                                                     *)

GoodRecord(rec) ==
  rec # NoRecord => /\ rec.origin \in Suspendable
                    /\ rec.kind = "gap" => rec.origin = "assignment_pending"

(* Records that are kept or dropped stay good, and so does one that is made
   from a status the task may be suspended from. *)
LEMMA RecordsStep ==
  ASSUME TypeOK, SuspensionOriginOK, StaysBorn, NEW t \in Tasks,
         NEW rec, GoodRecord(rec), status[t] # "absent",
         \A u \in Tasks \ {t} : /\ dbSusp'[u] \in {dbSusp[u], NoRecord}
                                /\ shSusp'[u] \in {shSusp[u], NoRecord},
         dbSusp'[t] \in {dbSusp[t], NoRecord, rec},
         shSusp'[t] \in {shSusp[t], NoRecord, rec}
  PROVE  SuspensionOriginOK'
BY DEF SuspensionOriginOK, StaysBorn, GoodRecord

LEMMA RecordsSame ==
  ASSUME SuspensionOriginOK, StaysBorn, UNCHANGED suspVars
  PROVE  SuspensionOriginOK'
BY DEF SuspensionOriginOK, StaysBorn, suspVars

(* The record a suspension makes. *)
LEMMA NewRecordGood ==
  ASSUME NEW t \in Tasks, NEW kind, status[t] \in Suspendable,
         kind = "gap" => status[t] = "assignment_pending"
  PROVE  GoodRecord(Record(status[t], kind)) /\ status[t] # "absent"
BY DEF GoodRecord, Record, NoRecord, Suspendable

LEMMA NoRecordGood == GoodRecord(NoRecord)
BY DEF GoodRecord

LEMMA RememberStep ==
  ASSUME TypeOK, SuspensionOriginOK, StaysBorn, NEW t \in Tasks, NEW kind,
         Remember(t, kind), status[t] \in Suspendable,
         kind = "gap" => status[t] = "assignment_pending"
  PROVE  SuspensionOriginOK'
BY RecordsStep, NewRecordGood DEF Remember, TypeOK

LEMMA OriginSuspension ==
  ASSUME TypeOK, SuspensionOriginOK, NEW t \in Tasks, SuspensionNext(t)
  PROVE  SuspensionOriginOK'
<1>1. StaysBorn
  BY RowSuspension, RowStepBorn
<1>2. ASSUME NEW kind \in Kinds, Suspend(t, kind)
      PROVE  SuspensionOriginOK'
  BY <1>1, <1>2, RememberStep DEF Suspend
<1>3. ASSUME NEW kind \in Kinds, SuspendRowFault(t, kind)
      PROVE  SuspensionOriginOK'
  BY <1>1, <1>3, RecordsStep, NewRecordGood DEF SuspendRowFault, TypeOK
<1>4. ASSUME NEW kind \in Kinds, SuspendRecordFault(t, kind)
      PROVE  SuspensionOriginOK'
  BY <1>1, <1>4, RecordsStep, NewRecordGood DEF SuspendRecordFault, TypeOK
<1>5. CASE Resume(t)
  BY <1>1, <1>5, RecordsStep, NoRecordGood DEF Resume, TypeOK
<1>6. CASE ResumeRowFault(t)
  BY <1>1, <1>6, RecordsStep, NoRecordGood DEF ResumeRowFault, TypeOK
<1>7. CASE ResumeRecordFault(t)
  BY <1>1, <1>7, RecordsStep, NoRecordGood DEF ResumeRecordFault, TypeOK
<1>8. CASE ExpireSharedRecord(t)
  <2>1. status[t] # "absent"
    BY <1>8 DEF ExpireSharedRecord, SuspensionOriginOK
  <2> QED
    BY <1>1, <1>8, <2>1, RecordsStep, NoRecordGood
       DEF ExpireSharedRecord, TypeOK
<1> QED
  BY <1>2, <1>3, <1>4, <1>5, <1>6, <1>7, <1>8 DEF SuspensionNext

LEMMA OriginScheduler ==
  ASSUME TypeOK, SuspensionOriginOK, NEW t \in Tasks, SchedulerNext(t)
  PROVE  SuspensionOriginOK'
<1>1. StaysBorn
  BY RowScheduler, RowStepBorn
<1>2. CASE AutoResume(t)
  BY <1>1, <1>2, RecordsStep, NoRecordGood DEF AutoResume, Resume, TypeOK
<1>3. CASE ResumeGap(t)
  BY <1>1, <1>3, RecordsStep, NoRecordGood DEF ResumeGap, TypeOK
<1>4. CASE Assign(t) \/ Reclaim(t) \/ BlockUnleased(t)
  BY <1>1, <1>4, RecordsSame DEF Assign, Reclaim, BlockUnleased
<1> QED
  BY <1>2, <1>3, <1>4 DEF SchedulerNext, TimeoutPass

LEMMA OriginVerdict ==
  ASSUME TypeOK, SuspensionOriginOK, NEW c \in Calls, Verdict(c)
  PROVE  SuspensionOriginOK'
<1> DEFINE t == call[c].task
<1>1. t \in Tasks
  BY CallType, LifecycleAssumption DEF Verdict
<1>2. CASE VerdictPassed(c)
  <2>1. StaysBorn
    BY <1>1, <1>2 DEF VerdictPassed, Move, StaysBorn, TypeOK
  <2> QED
    BY <1>2, <2>1, RecordsSame DEF VerdictPassed
<1>3. CASE ~VerdictPassed(c)
  <2>1. StaysBorn
    BY <1>1, <1>3, RowVerdict, RowStepBorn
  <2>2. CASE VerdictEscalated(c)
    BY <1>1, <2>1, <2>2, RememberStep DEF VerdictEscalated
  <2>3. CASE VerdictRetry(c) \/ VerdictRejected(c) \/ VerdictError(c)
    BY <2>1, <2>3, RecordsSame DEF VerdictRetry, VerdictRejected, VerdictError
  <2>4. CASE VerdictUnrecorded(c)
    BY <1>1, <2>1, <2>4, RememberStep, RecordsSame DEF VerdictUnrecorded
  <2> QED
    BY <1>3, <2>2, <2>3, <2>4 DEF Verdict
<1> QED
  BY <1>2, <1>3

LEMMA OriginStep ==
  ASSUME TypeOK, SuspensionOriginOK, [Next]_vars
  PROVE  SuspensionOriginOK'
<1>1. ASSUME NEW t \in Tasks, OperatorNext(t) \/ CompletionNext(t)
      PROVE  SuspensionOriginOK'
  BY <1>1, RowOperator, RowCompletion, RowStepBorn, RecordsSame
<1>2. ASSUME NEW t \in Tasks, SuspensionNext(t) \/ SchedulerNext(t)
      PROVE  SuspensionOriginOK'
  BY <1>2, OriginSuspension, OriginScheduler
<1>3. ASSUME NEW c \in Calls, Verdict(c)
      PROVE  SuspensionOriginOK'
  BY <1>3, OriginVerdict
<1>4. CASE Restart \/ UNCHANGED vars
  BY <1>4, RecordsSame DEF Restart, vars, StaysBorn, suspVars
<1> QED
  BY <1>1, <1>2, <1>3, <1>4 DEF Next

(* No suspension record, current or stale, can bring finished work back. *)
THEOREM SuspensionSound == Spec => []SuspensionOriginOK
<1>1. Init => SuspensionOriginOK
  BY DEF Init, SuspensionOriginOK
<1>2. TypeOK /\ SuspensionOriginOK /\ [Next]_vars => SuspensionOriginOK'
  BY OriginStep
<1> QED
  BY <1>1, <1>2, TypeCorrect, PTL DEF Spec

-----------------------------------------------------------------------------
(* Accepted work.                                                          *)

(* Every step but an acceptance moves at most one row, and takes back no
   acceptance but that of a row that is open. *)
LEMMA AnyStep ==
  ASSUME TypeOK, SuspensionOriginOK, [Next]_vars,
         ~ \E c \in Calls : Verdict(c) /\ VerdictPassed(c)
  PROVE  \/ status' = status /\ passed' = passed
         \/ \E t \in Tasks :
              /\ RowStep(t)
              /\ \/ passed' = passed
                 \/ passed' = passed \ {t} /\ status[t] \in OpenStatuses
<1>1. ASSUME NEW t \in Tasks,
             OperatorNext(t) \/ CompletionNext(t) \/ SuspensionNext(t)
               \/ SchedulerNext(t)
      PROVE  passed' = passed /\ RowStep(t)
  BY <1>1, RowOperator, RowCompletion, RowSuspension, RowScheduler
<1>2. ASSUME NEW c \in Calls, Verdict(c)
      PROVE  \E t \in Tasks :
               /\ RowStep(t)
               /\ \/ passed' = passed
                  \/ passed' = passed \ {t} /\ status[t] \in OpenStatuses
  <2>1. call[c].task \in Tasks
    BY <1>2, CallType, LifecycleAssumption DEF Verdict
  <2> QED
    BY <1>2, <2>1, RowVerdict
<1>3. CASE Restart \/ UNCHANGED vars
  BY <1>3 DEF Restart, vars
<1> QED
  BY <1>1, <1>2, <1>3 DEF Next

(* Where accepted work is finished, passed is left alone. *)
LEMMA OrdinaryStep ==
  ASSUME TypeOK, SuspensionOriginOK, AcceptedStaysFinished, [Next]_vars,
         ~ \E c \in Calls : Verdict(c) /\ VerdictPassed(c)
  PROVE  /\ passed' = passed
         /\ status' = status \/ \E t \in Tasks : RowStep(t)
<1>1. \A t \in passed : status[t] \notin OpenStatuses
  BY DEF AcceptedStaysFinished, OpenStatuses
<1> QED
  BY <1>1, AnyStep

(* A finished row only moves on to another finished status. *)
LEMMA FinishedRow ==
  ASSUME TypeOK, NEW t \in Tasks, RowStep(t), NEW u \in Tasks,
         status[u] \in {"done", "archived", "deleted"}
  PROVE  status'[u] \in {"done", "archived", "deleted"}
<1>1. PICK new \in RowStatuses : /\ CanBecome(t, status[t], new)
                                 /\ status' = [status EXCEPT ![t] = new]
  BY DEF RowStep
<1>2. CASE u # t
  BY <1>1, <1>2 DEF TypeOK
<1>3. CASE u = t
  <2>1. new \in {"done", "archived", "deleted"}
    BY <1>1, <1>3, LegalShape DEF CanBecome, OpenStatuses, Statuses
  <2> QED
    BY <1>1, <1>3, <2>1 DEF TypeOK
<1> QED
  BY <1>2, <1>3

(* What an accepted verdict does to its task. *)
LEMMA AcceptanceStep ==
  ASSUME TypeOK, NEW c \in Calls, Verdict(c), VerdictPassed(c)
  PROVE  /\ call[c].task \in Verified
         /\ status[call[c].task] \in OpenStatuses
         /\ status' = [status EXCEPT ![call[c].task] = "done"]
         /\ passed' = passed \cup {call[c].task}
BY DEF VerdictPassed, Verdict, Move, Legal, OpenStatuses, TypeOK

LEMMA AcceptedStep ==
  ASSUME TypeOK, SuspensionOriginOK, AcceptedStaysFinished, [Next]_vars
  PROVE  AcceptedStaysFinished'
<1>1. ASSUME NEW c \in Calls, Verdict(c), VerdictPassed(c)
      PROVE  AcceptedStaysFinished'
  BY <1>1, AcceptanceStep, LifecycleAssumption
     DEF AcceptedStaysFinished, TypeOK
<1>2. CASE ~ \E c \in Calls : Verdict(c) /\ VerdictPassed(c)
  <2>1. /\ passed' = passed
        /\ status' = status \/ \E t \in Tasks : RowStep(t)
    BY <1>2, OrdinaryStep
  <2>2. passed \subseteq Tasks
    BY DEF TypeOK
  <2> QED
    BY <2>1, <2>2, FinishedRow DEF AcceptedStaysFinished
<1> QED
  BY <1>1, <1>2

(* Work whose outcome passed verification is never open again. *)
THEOREM AcceptedSound == Spec => []AcceptedStaysFinished
<1>1. Init => AcceptedStaysFinished
  BY DEF Init, AcceptedStaysFinished
<1>2. /\ TypeOK /\ SuspensionOriginOK /\ AcceptedStaysFinished
      /\ [Next]_vars
      => AcceptedStaysFinished'
  BY AcceptedStep
<1> QED
  BY <1>1, <1>2, TypeCorrect, SuspensionSound, PTL DEF Spec

LEMMA VerifiedStep ==
  ASSUME TypeOK, SuspensionOriginOK, [Next]_vars
  PROVE  VerifiedCompletion
<1> SUFFICES ASSUME NEW t \in Verified, status[t] # "done", status'[t] = "done"
             PROVE  status[t] = "waiting_confirmation" \/ VerdictArrives(t)
  BY DEF VerifiedCompletion
<1>1. t \in Tasks
  BY LifecycleAssumption
<1>2. ASSUME NEW c \in Calls, Verdict(c), VerdictPassed(c)
      PROVE  VerdictArrives(t)
  <2>1. t = call[c].task /\ t \in passed'
    BY <1>1, <1>2, AcceptanceStep DEF TypeOK
  <2>2. call'[c] = Free
    BY <1>2 DEF Verdict, TypeOK
  <2> QED
    BY <2>1, <2>2 DEF VerdictArrives
<1>3. CASE ~ \E c \in Calls : Verdict(c) /\ VerdictPassed(c)
  <2>1. PICK u \in Tasks : RowStep(u)
    BY <1>3, AnyStep
  <2>2. PICK new \in RowStatuses : /\ CanBecome(u, status[u], new)
                                   /\ status' = [status EXCEPT ![u] = new]
    BY <2>1 DEF RowStep
  <2>3. u = t /\ new = "done"
    BY <1>1, <2>2 DEF TypeOK
  <2> QED
    BY <2>2, <2>3 DEF CanBecome
<1> QED
  BY <1>2, <1>3

(* A verified task becomes DONE only by a verdict that passed or by confirmation
   while it waits for one. *)
THEOREM VerifiedDoneSound == Spec => VerifiedDone
<1>1. TypeOK /\ SuspensionOriginOK /\ [Next]_vars => [VerifiedCompletion]_vars
  BY VerifiedStep
<1> QED
  BY <1>1, TypeCorrect, SuspensionSound, PTL DEF Spec, VerifiedDone

-----------------------------------------------------------------------------
(* The service implements TaskOutcomes.                                    *)

LEMMA PhaseOpen ==
  ASSUME NEW s \in OpenStatuses
  PROVE  PhaseOf(s) = "open"
BY DEF OpenStatuses, PhaseOf

(* One row moved: one phase moved. *)
LEMMA PhaseMoves ==
  ASSUME TypeOK, NEW t \in Tasks, NEW new,
         status' = [status EXCEPT ![t] = new]
  PROVE  Phase' = [Phase EXCEPT ![t] = PhaseOf(new)]
BY DEF TypeOK, Phase

(* The moves of a row, seen as phases. *)
LEMMA PhaseSteps ==
  ASSUME NEW t \in Tasks, NEW old \in RowStatuses, NEW new,
         CanBecome(t, old, new)
  PROVE  \/ PhaseOf(new) = PhaseOf(old)
         \/ PhaseOf(old) \in {"unborn", "failed"} /\ PhaseOf(new) = "open"
         \/ /\ PhaseOf(old) \in {"unborn", "open", "done", "failed"}
            /\ PhaseOf(new) = "closed"
         \/ PhaseOf(old) = "open" /\ PhaseOf(new) \in {"done", "failed"}
         \/ /\ PhaseOf(old) \in {"open", "done", "failed", "closed"}
            /\ PhaseOf(new) = "gone"
<1>1. CASE old = "absent" /\ new \in BirthStatuses
  BY <1>1, LifecycleAssumption DEF PhaseOf, Statuses
<1>2. CASE old \in Statuses /\ new = "deleted"
  BY <1>2 DEF PhaseOf, Statuses
<1>3. CASE Legal(old, new)
  BY <1>3 DEF PhaseOf, Legal
<1>4. CASE old \in OpenStatuses /\ new \in OpenStatuses \cup {"done"}
  BY <1>4 DEF PhaseOf, OpenStatuses
<1> QED
  BY <1>1, <1>2, <1>3, <1>4 DEF CanBecome

LEMMA RowImplements ==
  ASSUME TypeOK, NEW t \in Tasks, RowStep(t), passed' = passed
  PROVE  Outcomes!OutcomesNext \/ (Phase' = Phase /\ passed' = passed)
<1>1. PICK new \in RowStatuses : /\ CanBecome(t, status[t], new)
                                 /\ status' = [status EXCEPT ![t] = new]
  BY DEF RowStep
<1>2. Phase' = [Phase EXCEPT ![t] = PhaseOf(new)]
  BY <1>1, PhaseMoves
<1>3. Phase[t] = PhaseOf(status[t]) /\ status[t] \in RowStatuses
  BY DEF Phase, TypeOK
<1>4. CASE PhaseOf(new) = Phase[t]
  BY <1>2, <1>4 DEF Phase
<1>5. CASE PhaseOf(new) # Phase[t]
  BY <1>1, <1>2, <1>3, <1>5, PhaseSteps
     DEF Phase, Outcomes!OutcomesNext, Outcomes!Open, Outcomes!Close,
         Outcomes!Finish, Outcomes!Fail, Outcomes!Remove, Outcomes!Advance
<1> QED
  BY <1>4, <1>5

LEMMA AcceptanceImplements ==
  ASSUME TypeOK, NEW c \in Calls, Verdict(c), VerdictPassed(c)
  PROVE  Outcomes!OutcomesNext
<1>1. call[c].task \in Tasks \cap Verified
  BY AcceptanceStep, LifecycleAssumption
<1>2. Phase' = [Phase EXCEPT ![call[c].task] = "done"]
  BY <1>1, AcceptanceStep, PhaseMoves DEF PhaseOf
<1>3. Phase[call[c].task] = "open"
  BY <1>1, AcceptanceStep, PhaseOpen DEF Phase
<1> QED
  BY <1>1, <1>2, <1>3, AcceptanceStep
     DEF Phase, Outcomes!OutcomesNext, Outcomes!Accept, Outcomes!Advance

LEMMA StepImplements ==
  ASSUME TypeOK, SuspensionOriginOK, AcceptedStaysFinished, [Next]_vars
  PROVE  Outcomes!OutcomesNext \/ (Phase' = Phase /\ passed' = passed)
<1>1. ASSUME NEW c \in Calls, Verdict(c), VerdictPassed(c)
      PROVE  Outcomes!OutcomesNext
  BY <1>1, AcceptanceImplements
<1>2. CASE ~ \E c \in Calls : Verdict(c) /\ VerdictPassed(c)
  <2>1. /\ passed' = passed
        /\ status' = status \/ \E t \in Tasks : RowStep(t)
    BY <1>2, OrdinaryStep
  <2>2. CASE status' = status
    BY <2>1, <2>2 DEF Phase
  <2>3. CASE \E t \in Tasks : RowStep(t)
    BY <2>1, <2>3, RowImplements
  <2> QED
    BY <2>1, <2>2, <2>3
<1> QED
  BY <1>1, <1>2

(* Every behaviour of the service, seen through the phases of its rows and the
   set of accepted outcomes, is a behaviour of TaskOutcomes. *)
THEOREM ImplementsOutcomes == Spec => KeepsOutcomes
<1>1. Init => Outcomes!OutcomesInit
  BY DEF Init, Outcomes!OutcomesInit, Phase, PhaseOf
<1>2. TypeOK /\ SuspensionOriginOK /\ AcceptedStaysFinished /\ [Next]_vars
      => [Outcomes!OutcomesNext]_<<Phase, passed>>
  BY StepImplements
<1> QED
  BY <1>1, <1>2, TypeCorrect, SuspensionSound, AcceptedSound, PTL
     DEF Spec, KeepsOutcomes, Outcomes!OutcomesSpec, Phase

-----------------------------------------------------------------------------
(* Dependencies.                                                           *)

(* No row depends on an id that has not been handed out: what lets a fresh
   row carry dependencies without a search for cycles. *)
DependenciesBorn ==
  \A t \in Tasks : status[t] = "absent" => \A u \in Tasks : t \notin deps[u]

(* A set of rows each of which depends on another of the set. *)
Knot(S) ==
  /\ S \in SUBSET Tasks
  /\ S # {}
  /\ \A x \in S : Present(x) /\ deps[x] \cap S # {}

LEMMA AcyclicMeansNoKnot == DependencyAcyclic <=> \A S : ~Knot(S)
BY DEF DependencyAcyclic, Knot

(* Rows and edges that were there before: a step that only loses edges and
   rows ties no knot. *)
LEMMA FewerEdges ==
  ASSUME DependencyAcyclic,
         \A x \in Tasks : Present(x)' =>
           /\ Present(x)
           /\ deps'[x] \subseteq deps[x]
  PROVE  DependencyAcyclic'
BY DEF DependencyAcyclic

(* add_dependency's search is sound: if the closure of d misses t, the edge
   from t to d ties no knot.  Were S a knot after the step, its part inside
   a closed set that holds d and misses t would have been one before. *)
LEMMA AddDependencyAcyclic ==
  ASSUME TypeOK, DependencyAcyclic, NEW t \in Tasks, NEW d \in Tasks,
         AddDependency(t, d)
  PROVE  DependencyAcyclic'
<1> SUFFICES ASSUME NEW S, Knot(S)'
             PROVE  FALSE
  BY DEF DependencyAcyclic, Knot
<1>1. /\ status' = status
      /\ deps' = [deps EXCEPT ![t] = @ \cup {d}]
  BY DEF AddDependency
<1>2. \A x \in S : Present(x) /\ (x # t => deps[x] \cap S # {})
  BY <1>1 DEF Knot, Present, TypeOK
<1>3. S \subseteq Tasks /\ S # {}
  BY DEF Knot
<1>4. t \in S /\ deps[t] \cap S = {}
  BY <1>2, <1>3 DEF DependencyAcyclic
<1>5. d \in S
  BY <1>1, <1>4 DEF Knot, TypeOK
<1>6. PICK C \in SUBSET Tasks :
        /\ d \in C
        /\ \A x \in C : Present(x) => deps[x] \subseteq C
        /\ t \notin C
  BY DEF AddDependency, WouldClose
<1>7. \A x \in S \cap C : Present(x) /\ deps[x] \cap (S \cap C) # {}
  BY <1>2, <1>6
<1>8. S \cap C \in SUBSET Tasks /\ S \cap C # {}
  BY <1>3, <1>5, <1>6
<1> QED
  BY <1>7, <1>8 DEF DependencyAcyclic

(* A fresh row may depend on what it likes: nobody depends on it yet. *)
LEMMA CreateAcyclic ==
  ASSUME TypeOK, DependencyAcyclic, DependenciesBorn, NEW t \in Tasks,
         NEW birth \in BirthStatuses, NEW ds \in SUBSET Tasks,
         Create(t, birth, ds)
  PROVE  DependencyAcyclic'
<1> SUFFICES ASSUME NEW S, Knot(S)'
             PROVE  FALSE
  BY DEF DependencyAcyclic, Knot
<1>1. /\ status' = [status EXCEPT ![t] = birth]
      /\ deps' = [deps EXCEPT ![t] = ds]
      /\ status[t] = "absent"
      /\ t \notin ds
  BY DEF Create
<1>2. S \subseteq Tasks /\ S # {}
  BY DEF Knot
<1>3. \A x \in S \ {t} : Present(x) /\ deps[x] \cap (S \ {t}) # {}
  BY <1>1, <1>2 DEF Knot, Present, TypeOK, DependenciesBorn
<1>4. S \ {t} # {}
  BY <1>1, <1>2 DEF Knot, TypeOK
<1> QED
  BY <1>2, <1>3, <1>4 DEF DependencyAcyclic

(* Steps that leave the edges alone bring no deleted row back. *)
LEMMA RowStepAcyclic ==
  ASSUME TypeOK, DependencyAcyclic, NEW t \in Tasks, RowStep(t), deps' = deps,
         status[t] # "absent"
  PROVE  DependencyAcyclic'
<1>1. PICK new \in RowStatuses : /\ CanBecome(t, status[t], new)
                                 /\ status' = [status EXCEPT ![t] = new]
  BY DEF RowStep
<1>2. new \in Statuses => status[t] \in Statuses
  BY <1>1, LegalShape DEF CanBecome, OpenStatuses, Statuses
<1>3. \A x \in Tasks : Present(x)' => Present(x)
  BY <1>1, <1>2 DEF Present, TypeOK
<1> QED
  BY <1>3, FewerEdges

(* Which steps leave the edges alone. *)
LEMMA EdgesSame ==
  ASSUME TypeOK, SuspensionOriginOK, NEW t \in Tasks,
         \/ CompletionNext(t)
         \/ SuspensionNext(t)
         \/ SchedulerNext(t)
  PROVE  /\ deps' = deps
         /\ RowStep(t)
         /\ status[t] # "absent" \/ status' = status
<1>1. RowStep(t)
  BY RowCompletion, RowSuspension, RowScheduler
<1>2. CASE CompletionNext(t)
  BY <1>1, <1>2
     DEF CompletionNext, CompleteUnverified, BeginVerification,
         CompletionRefused, RecoverWaiting, Move, AutoClaimed, Legal
<1>3. CASE SuspensionNext(t)
  BY <1>1, <1>3
     DEF SuspensionNext, Suspend, SuspendRowFault, SuspendRecordFault, Resume,
         ResumeRowFault, ResumeRecordFault, ExpireSharedRecord, Suspendable
<1>4. CASE SchedulerNext(t)
  BY <1>1, <1>4
     DEF SchedulerNext, TimeoutPass, Assign, AutoResume, Resume, ResumeGap, Reclaim,
         BlockUnleased
<1> QED
  BY <1>2, <1>3, <1>4

LEMMA AcyclicSameRows ==
  ASSUME DependencyAcyclic, deps' = deps, status' = status
  PROVE  DependencyAcyclic'
BY DEF DependencyAcyclic, Present

LEMMA AcyclicOperator ==
  ASSUME TypeOK, DependencyAcyclic, DependenciesBorn, NEW t \in Tasks,
         OperatorNext(t)
  PROVE  DependencyAcyclic'
<1>1. RowStep(t)
  BY RowOperator
<1>2. ASSUME NEW birth \in BirthStatuses, NEW ds \in SUBSET Tasks,
             Create(t, birth, ds)
      PROVE  DependencyAcyclic'
  BY <1>2, CreateAcyclic
<1>3. CASE Claim(t)
  BY <1>1, <1>3, RowStepAcyclic DEF Claim, Move, Legal
<1>4. ASSUME NEW new \in Statuses, UpdateStatus(t, new)
      PROVE  DependencyAcyclic'
  BY <1>1, <1>4, RowStepAcyclic DEF UpdateStatus, Move, Legal
<1>5. ASSUME NEW force \in BOOLEAN, Delete(t, force)
      PROVE  DependencyAcyclic'
  <2>1. \A x \in Tasks : Present(x)' => Present(x) /\ deps'[x] \subseteq deps[x]
    BY <1>5 DEF Delete, Present, TypeOK, Statuses
  <2> QED
    BY <2>1, FewerEdges
<1>6. ASSUME NEW action \in DOMAIN InterventionStatus, NEW key \in Keys,
             Intervene(t, action, key)
      PROVE  DependencyAcyclic'
  BY <1>1, <1>6, RowStepAcyclic DEF Intervene, Move, Legal
<1>7. ASSUME NEW key \in Keys, ApproveAgain(t, key)
      PROVE  DependencyAcyclic'
  BY <1>7, AcyclicSameRows DEF ApproveAgain
<1>8. ASSUME NEW d \in Tasks, AddDependency(t, d)
      PROVE  DependencyAcyclic'
  BY <1>8, AddDependencyAcyclic
<1>9. ASSUME NEW d \in Tasks, RemoveDependency(t, d)
      PROVE  DependencyAcyclic'
  <2>1. \A x \in Tasks : Present(x)' => Present(x) /\ deps'[x] \subseteq deps[x]
    BY <1>9 DEF RemoveDependency, Present, TypeOK
  <2> QED
    BY <2>1, FewerEdges
<1> QED
  BY <1>2, <1>3, <1>4, <1>5, <1>6, <1>7, <1>8, <1>9 DEF OperatorNext

LEMMA AcyclicVerdict ==
  ASSUME TypeOK, DependencyAcyclic, NEW c \in Calls, Verdict(c)
  PROVE  DependencyAcyclic'
<1>1. call[c].task \in Tasks /\ deps' = deps
  BY CallType, LifecycleAssumption DEF Verdict
<1>2. CASE VerdictPassed(c)
  <2>1. \A x \in Tasks : Present(x)' => Present(x)
    BY <1>1, <1>2, LegalShape DEF VerdictPassed, Move, Present, TypeOK
  <2> QED
    BY <1>1, <2>1, FewerEdges
<1>3. CASE ~VerdictPassed(c)
  <2>1. RowStep(call[c].task)
    BY <1>3, RowVerdict
  <2>2. status' = status \/ status[call[c].task] # "absent"
    BY <1>3 DEF Verdict, VerdictRetry, VerdictRejected, VerdictEscalated,
                VerdictError, VerdictUnrecorded, Move, Legal, Suspendable
  <2> QED
    BY <1>1, <2>1, <2>2, RowStepAcyclic, AcyclicSameRows
<1> QED
  BY <1>2, <1>3

(* Creation and add_dependency name only ids handed out; every other step keeps
   or drops edges, and no row goes back to being absent. *)
LEMMA BornStep ==
  ASSUME TypeOK, SuspensionOriginOK, DependenciesBorn, [Next]_vars
  PROVE  DependenciesBorn'
<1>1. ASSUME StaysBorn, deps' = deps
      PROVE  DependenciesBorn'
  BY <1>1 DEF DependenciesBorn, StaysBorn, TypeOK
<1>2. ASSUME NEW t \in Tasks, OperatorNext(t)
      PROVE  DependenciesBorn'
  <2>1. StaysBorn
    BY <1>2, RowOperator, RowStepBorn
  <2>2. ASSUME NEW birth \in BirthStatuses, NEW ds \in SUBSET Tasks,
               Create(t, birth, ds)
        PROVE  DependenciesBorn'
    BY <2>1, <2>2 DEF Create, DependenciesBorn, StaysBorn, TypeOK
  <2>3. ASSUME NEW force \in BOOLEAN, Delete(t, force)
        PROVE  DependenciesBorn'
    BY <2>1, <2>3 DEF Delete, DependenciesBorn, StaysBorn, TypeOK
  <2>4. ASSUME NEW d \in Tasks, AddDependency(t, d)
        PROVE  DependenciesBorn'
    BY <2>1, <2>4
       DEF AddDependency, Present, Statuses, DependenciesBorn, StaysBorn, TypeOK
  <2>5. ASSUME NEW d \in Tasks, RemoveDependency(t, d)
        PROVE  DependenciesBorn'
    BY <2>1, <2>5 DEF RemoveDependency, DependenciesBorn, StaysBorn, TypeOK
  <2>6. CASE deps' = deps
    BY <1>1, <2>1, <2>6
  <2> QED
    BY <1>2, <2>2, <2>3, <2>4, <2>5, <2>6
       DEF OperatorNext, Claim, UpdateStatus, Intervene, ApproveAgain
<1>3. ASSUME NEW t \in Tasks,
             CompletionNext(t) \/ SuspensionNext(t) \/ SchedulerNext(t)
      PROVE  DependenciesBorn'
  BY <1>1, <1>3, EdgesSame, RowStepBorn
<1>4. ASSUME NEW c \in Calls, Verdict(c)
      PROVE  DependenciesBorn'
  <2>1. call[c].task \in Tasks /\ deps' = deps
    BY <1>4, CallType, LifecycleAssumption DEF Verdict
  <2>2. CASE VerdictPassed(c)
    BY <1>1, <2>1, <2>2 DEF VerdictPassed, Move, StaysBorn, TypeOK
  <2>3. CASE ~VerdictPassed(c)
    BY <1>1, <1>4, <2>1, <2>3, RowVerdict, RowStepBorn
  <2> QED
    BY <2>2, <2>3
<1>5. CASE Restart \/ UNCHANGED vars
  BY <1>5 DEF Restart, vars, DependenciesBorn
<1> QED
  BY <1>2, <1>3, <1>4, <1>5 DEF Next

LEMMA AcyclicStep ==
  ASSUME TypeOK, SuspensionOriginOK, DependenciesBorn, DependencyAcyclic,
         [Next]_vars
  PROVE  DependencyAcyclic'
<1>1. ASSUME NEW t \in Tasks, OperatorNext(t)
      PROVE  DependencyAcyclic'
  BY <1>1, AcyclicOperator
<1>2. ASSUME NEW t \in Tasks,
             CompletionNext(t) \/ SuspensionNext(t) \/ SchedulerNext(t)
      PROVE  DependencyAcyclic'
  BY <1>2, EdgesSame, RowStepAcyclic, AcyclicSameRows
<1>3. ASSUME NEW c \in Calls, Verdict(c)
      PROVE  DependencyAcyclic'
  BY <1>3, AcyclicVerdict
<1>4. CASE Restart \/ UNCHANGED vars
  BY <1>4, AcyclicSameRows DEF Restart, vars
<1> QED
  BY <1>1, <1>2, <1>3, <1>4 DEF Next

(* depends_on never contains a cycle among existing rows. *)
THEOREM DependenciesSound == Spec => []DependencyAcyclic
<1>1. Init => DependenciesBorn /\ DependencyAcyclic
  BY DEF Init, DependenciesBorn, DependencyAcyclic, Present, Statuses
<1>2. /\ TypeOK /\ SuspensionOriginOK /\ DependenciesBorn /\ DependencyAcyclic
      /\ [Next]_vars
      => DependenciesBorn' /\ DependencyAcyclic'
  BY BornStep, AcyclicStep
<1> QED
  BY <1>1, <1>2, TypeCorrect, SuspensionSound, PTL DEF Spec
=============================================================================
