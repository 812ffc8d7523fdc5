----------------------- MODULE AsyncReflectionProofs -----------------------
(***************************************************************************)
(* Theorems about AsyncReflection, for every set of jobs and threads and   *)
(* every size of the queue, of the monitor and of the pool.                *)
(***************************************************************************)
EXTENDS AsyncReflection, FiniteSetTheorems, WellFoundedInduction, TLAPS

-----------------------------------------------------------------------------
(* The monitor: an eviction always finds a record to evict.                *)

(* The records are ordered by age: what is older than a record is known, is
   another record, and has only records older than that one before it. *)
Aged ==
  /\ \A k \in known : older[k] \subseteq known \ {k}
  /\ \A k \in known : \A i \in older[k] : older[i] \subseteq older[k]

(* The first record in insertion order exists. *)
LEMMA OldestExists ==
  ASSUME BackgroundTypeOK, Aged, known # {}
  PROVE  \E k \in known : older[k] \cap known = {}
<1> DEFINE Befores == {older[k] : k \in known}
           R == StrictSubsetOrdering(known)
           F == FiniteSubsetsOf(known)
<1>1. IsFiniteSet(known)
  BY FS_Subset, BackgroundAssumption DEF BackgroundTypeOK
<1>2. Befores \subseteq F
  <2> SUFFICES ASSUME NEW k \in known PROVE older[k] \in F
    OBVIOUS
  <2>1. older[k] \in SUBSET known
    BY DEF Aged
  <2>2. IsFiniteSet(older[k])
    BY <1>1, <2>1, FS_Subset
  <2> QED
    BY <2>1, <2>2 DEF FiniteSubsetsOf
<1>3. Befores # {}
  OBVIOUS
<1>4. IsWellFoundedOn(R, F)
  BY FS_StrictSubsetOrderingWellFounded
<1>5. PICK x \in Befores : \A y \in Befores : <<y, x>> \notin R
  <2> HIDE DEF R, F, Befores
  <2> QED
    BY <1>2, <1>3, <1>4, WFMin
<1>6. PICK k \in known : x = older[k]
  OBVIOUS
<1>7. ASSUME NEW i \in older[k] PROVE FALSE
  <2>1. i \in known /\ older[i] \subseteq older[k] /\ i \notin older[i]
    BY <1>7 DEF Aged
  <2>2. older[i] # older[k]
    BY <1>7, <2>1
  <2>3. older[k] \subseteq known /\ older[i] \subseteq known
    BY <2>1 DEF Aged
  <2>4. <<older[i], older[k]>> \in R
    BY <2>1, <2>2, <2>3 DEF StrictSubsetOrdering
  <2> QED
    BY <1>5, <1>6, <2>1, <2>4
<1> QED
  BY <1>6, <1>7

LEMMA AddedOne ==
  ASSUME NEW S, NEW x, IsFiniteSet(S)
  PROVE  /\ Cardinality(S \cup {x}) \in Nat
         /\ Cardinality(S \cup {x}) <= Cardinality(S) + 1
<1>1. Cardinality(S) \in Nat
  BY FS_CardinalityType
<1>2. Cardinality(S \cup {x})
        = IF x \in S THEN Cardinality(S) ELSE Cardinality(S) + 1
  BY FS_AddElement
<1> QED
  BY <1>1, <1>2

(* There is room for every new record. *)
LEMMA EvictionMakesRoom ==
  ASSUME BackgroundTypeOK, Aged, NEW j \in Jobs
  PROVE  Cardinality((known \ Evicted) \cup {j}) <= MaxRecords
<1> USE BackgroundAssumption
<1>1. IsFiniteSet(known) /\ Cardinality(known) \in Nat
  BY FS_Subset, FS_CardinalityType DEF BackgroundTypeOK
<1>2. IsFiniteSet(known \ Evicted) /\ Cardinality(known \ Evicted) \in Nat
  BY <1>1, FS_Subset, FS_CardinalityType
<1>3. Cardinality(known \ Evicted) < MaxRecords
  <2>1. CASE Cardinality(known) < MaxRecords
    BY <1>1, <2>1 DEF Evicted
  <2>2. CASE ~(Cardinality(known) < MaxRecords)
    <3>1. known # {}
      BY <1>1, <2>2, FS_EmptySet
    <3>2. PICK k \in known : older[k] \cap known = {}
      BY <3>1, OldestExists
    <3>3. known \ Evicted \in SUBSET known /\ known \ Evicted # known
      BY <2>2, <3>2 DEF Evicted
    <3> QED
      BY <1>1, <1>2, <3>3, FS_Subset DEF BackgroundTypeOK
  <2> QED
    BY <2>1, <2>2
<1>4. /\ Cardinality((known \ Evicted) \cup {j}) \in Nat
      /\ Cardinality((known \ Evicted) \cup {j})
           <= Cardinality(known \ Evicted) + 1
  BY <1>2, AddedOne
<1> QED
  BY <1>2, <1>3, <1>4

LEMMA RegisterKeeps ==
  ASSUME BackgroundTypeOK, Aged, NEW j \in Jobs, j \notin known, Register(j),
         UNCHANGED queueVars
  PROVE  BackgroundTypeOK' /\ Aged'
<1> DEFINE kept == known \ Evicted
<1>1. known' = kept \cup {j}
  BY DEF Register
<1>2. older' = [k \in Jobs |-> IF k = j THEN kept ELSE older[k] \ Evicted]
  BY DEF Register
<1>3. kept \subseteq Jobs /\ j \notin kept
  BY DEF BackgroundTypeOK
<1>4. Cardinality(known') <= MaxRecords
  BY <1>1, EvictionMakesRoom
<1>5. older' \in [Jobs -> SUBSET Jobs]
  BY <1>2, <1>3 DEF BackgroundTypeOK
<1>6. record' \in [Jobs -> Records]
  BY DEF Register, BackgroundTypeOK, Fresh, Records, RecordStatuses
<1>7. BackgroundTypeOK'
  BY <1>1, <1>3, <1>4, <1>5, <1>6, BackgroundAssumption
     DEF BackgroundTypeOK, Register, queueVars
<1>8. ASSUME NEW k \in known'
      PROVE  /\ older'[k] \subseteq known' \ {k}
             /\ \A i \in older'[k] : older'[i] \subseteq older'[k]
  <2>1. ASSUME NEW i \in kept PROVE older'[i] = older[i] \ Evicted
    BY <1>2, <1>3, <2>1
  <2>2. ASSUME NEW i \in kept PROVE older[i] \subseteq known \ {i}
    BY <2>2 DEF Aged
  <2>3. CASE k = j
    BY <1>1, <1>2, <1>3, <2>1, <2>2, <2>3
  <2>4. CASE k # j
    <3>1. k \in kept
      BY <1>1, <2>4
    <3>2. older'[k] \subseteq kept \ {k}
      BY <2>1, <2>2, <3>1
    <3>3. ASSUME NEW i \in older'[k] PROVE older'[i] \subseteq older'[k]
      BY <2>1, <3>1, <3>2, <3>3 DEF Aged
    <3> QED
      BY <1>1, <3>2, <3>3
  <2> QED
    BY <2>3, <2>4
<1> QED
  BY <1>7, <1>8 DEF Aged

LEMMA SetRecordKeeps ==
  ASSUME BackgroundTypeOK, Aged, NEW j \in Jobs, NEW r \in Records,
         SetRecord(j, r)
  PROVE  /\ known' = known /\ older' = older
         /\ record' \in [Jobs -> Records]
         /\ fails' \in 0..Threshold
         /\ breaker' \in {"closed", "open", "expired"}
<1>1. CASE j \in known
  <2>1. r.status \in RecordStatuses
    BY DEF Records
  <2>2. Count(r.status) /\ record' = [record EXCEPT ![j] = r]
    BY <1>1 DEF SetRecord, monitorVars
  <2>3. fails' \in 0..Threshold /\ breaker' \in {"closed", "open", "expired"}
    BY <2>1, <2>2, BackgroundAssumption
       DEF Count, AtMost, statsVars, BackgroundTypeOK, RecordStatuses
  <2> QED
    BY <1>1, <2>2, <2>3 DEF SetRecord, BackgroundTypeOK
<1>2. CASE j \notin known
  BY <1>2 DEF SetRecord, monitorVars, BackgroundTypeOK
<1> QED
  BY <1>1, <1>2

LEMMA UpdateStatusKeeps ==
  ASSUME BackgroundTypeOK, Aged, NEW j \in Jobs, NEW s \in RecordStatuses,
         UpdateStatus(j, s)
  PROVE  /\ known' = known /\ older' = older
         /\ record' \in [Jobs -> Records]
         /\ fails' \in 0..Threshold
         /\ breaker' \in {"closed", "open", "expired"}
<1>1. [record[j] EXCEPT !.status = s] \in Records
  BY DEF BackgroundTypeOK, Records
<1> QED
  BY <1>1, SetRecordKeeps DEF UpdateStatus

LEMMA PutKeeps ==
  ASSUME BackgroundTypeOK, NEW j \in Jobs, NEW p \in 0..3, Put(j, p)
  PROVE  /\ queued' \in SUBSET Jobs
         /\ level' \in [Jobs -> 0..3]
         /\ ahead' \in [Jobs -> SUBSET Jobs]
         /\ flagged' \in SUBSET Jobs
         /\ tracked' \in SUBSET Jobs
         /\ Cardinality(queued') <= Capacity
<1>1. IsFiniteSet(queued) /\ Cardinality(queued) \in Nat
  BY FS_Subset, FS_CardinalityType, BackgroundAssumption DEF BackgroundTypeOK
<1>2. Cardinality(queued') <= Capacity
  <2>1. queued' = queued \cup {j} /\ Cardinality(queued) < Capacity
    BY DEF Put, HasRoom
  <2>2. /\ Cardinality(queued') \in Nat
        /\ Cardinality(queued') <= Cardinality(queued) + 1
    BY <1>1, <2>1, AddedOne
  <2> QED
    BY <1>1, <2>1, <2>2, BackgroundAssumption
<1> QED
  BY <1>2 DEF Put, BackgroundTypeOK

LEMMA TakeKeeps ==
  ASSUME BackgroundTypeOK, NEW j \in Jobs, Take(j)
  PROVE  /\ queued' \in SUBSET Jobs
         /\ level' \in [Jobs -> 0..3]
         /\ ahead' \in [Jobs -> SUBSET Jobs]
         /\ flagged' \in SUBSET Jobs
         /\ tracked' \in SUBSET Jobs
         /\ Cardinality(queued') <= Capacity
<1>1. IsFiniteSet(queued) /\ Cardinality(queued) \in Nat
  BY FS_Subset, FS_CardinalityType, BackgroundAssumption DEF BackgroundTypeOK
<1>2. Cardinality(queued') <= Capacity
  <2>1. queued' \in SUBSET queued
    BY DEF Take
  <2>2. /\ Cardinality(queued') \in Nat
        /\ Cardinality(queued') <= Cardinality(queued)
    BY <1>1, <2>1, FS_Subset, FS_CardinalityType
  <2> QED
    BY <1>1, <2>2, BackgroundAssumption DEF BackgroundTypeOK
<1> QED
  BY <1>2 DEF Take, BackgroundTypeOK

LEMMA MirrorType ==
  ASSUME mirror \in [Jobs -> Mirrored], NEW j \in Jobs, NEW new \in Statuses,
         \/ SyncSubmission(j)
         \/ Syncs(j, new)
         \/ SyncRaises(j, new)
         \/ Interfere(j, new)
  PROVE  mirror' \in [Jobs -> Mirrored]
BY DEF Mirrored, Statuses, SyncSubmission, Syncs, SyncRaises, Interfere

-----------------------------------------------------------------------------
(* Type correctness.                                                       *)

(* A job whose caller has not begun has no record: an id is fresh. *)
Unregistered == \A j \in Jobs : caller[j] = "new" => j \notin known

Base == TypeOK /\ Aged /\ Unregistered

LEMMA BaseInit == Init => Base
<1> SUFFICES ASSUME Init PROVE Base
  OBVIOUS
<1> USE BackgroundAssumption, ReflectionAssumption DEF Init, BackgroundInit
<1>1. Cardinality(queued) = 0 /\ Cardinality(known) = 0
  BY FS_EmptySet
<1>2. BackgroundTypeOK
  BY <1>1 DEF BackgroundTypeOK, Fresh, Records, RecordStatuses
<1>3. TypeOK
  BY <1>2 DEF TypeOK, Mirrored
<1> QED
  BY <1>3 DEF Base, Aged, Unregistered

(* A worker outside of its loop's head has a job. *)
LEMMA InHandIsJob ==
  ASSUME TypeOK, NEW w \in Threads, phase[w] \notin {"off", "idle"}
  PROVE  job[w] \in Jobs /\ job[w] # NoJob
BY DEF TypeOK

(* The two ways a worker moves on. *)
LEMMA WorkerType ==
  ASSUME TypeOK, NEW w \in Threads,
         \/ Back(w)
         \/ \E p \in {"started", "wait", "retry", "completed", "failed",
                      "caught", "got"} :
              Goto(w, p) /\ phase[w] \notin {"off", "idle"}
         \/ Goto(w, "off") /\ phase[w] = "idle"
         \/ Goto(w, "idle") /\ phase[w] = "off"
  PROVE  /\ phase' \in [Threads -> {"off", "idle", "taken", "got", "started",
                              "wait", "retry", "completed", "failed", "caught"}]
         /\ job' \in [Threads -> Jobs \cup {NoJob}]
         /\ \A v \in Threads : (job'[v] = NoJob) <=> (phase'[v] \in {"off", "idle"})
BY DEF TypeOK, Back, Goto

LEMMA BaseSubmission ==
  ASSUME Base, NEW j \in Jobs, Submission(j)
  PROVE  Base'
<1> USE DEF Base, TypeOK, Unregistered, histories
<1>1. CASE SubmitRegister(j)
  <2>1. CASE Register(j)
    <3>1. BackgroundTypeOK' /\ Aged'
      BY <1>1, <2>1, RegisterKeeps DEF SubmitRegister
    <3>2. known' \subseteq known \cup {j}
      BY <2>1 DEF Register
    <3>3. caller' = [caller EXCEPT ![j] = "registered"]
      BY <1>1, <2>1 DEF SubmitRegister, Register
    <3> QED
      BY <1>1, <3>1, <3>2, <3>3 DEF SubmitRegister
  <2>2. CASE ~Register(j)
    BY <1>1, <2>2
       DEF SubmitRegister, monitorVars, queueVars, BackgroundTypeOK, Aged
  <2> QED
    BY <2>1, <2>2
<1>2. CASE SubmitPut(j)
  <2>1. CASE UNCHANGED monitorVars
    <3>1. Put(j, PriorityOf[j]) \/ UNCHANGED queueVars
      BY <1>2 DEF SubmitPut
    <3>2. PriorityOf[j] \in 0..3
      BY BackgroundAssumption
    <3>3. BackgroundTypeOK'
      BY <2>1, <3>1, <3>2, PutKeeps DEF BackgroundTypeOK, monitorVars, queueVars
    <3> QED
      BY <1>2, <2>1, <3>3 DEF SubmitPut, monitorVars, Aged
  <2>2. CASE UpdateStatus(j, "FAILED") /\ UNCHANGED queueVars
    <3>1. "FAILED" \in RecordStatuses
      BY DEF RecordStatuses
    <3>2. /\ known' = known /\ older' = older
          /\ BackgroundTypeOK'
      BY <2>2, <3>1, UpdateStatusKeeps DEF BackgroundTypeOK, queueVars
    <3> QED
      BY <1>2, <2>2, <3>2 DEF SubmitPut, Aged
  <2> QED
    BY <1>2, <2>1, <2>2 DEF SubmitPut
<1>3. CASE SubmitMark(j)
  <2>1. "PENDING" \in RecordStatuses
    BY DEF RecordStatuses
  <2>2. /\ known' = known /\ older' = older
        /\ BackgroundTypeOK'
    BY <1>3, <2>1, UpdateStatusKeeps
       DEF SubmitMark, BackgroundTypeOK, queueVars
  <2> QED
    BY <1>3, <2>2 DEF SubmitMark, Aged
<1>4. CASE SubmitSync(j)
  <2>1. mirror' \in [Jobs -> Mirrored]
    BY <1>4, MirrorType DEF SubmitSync, Statuses
  <2> QED
    BY <1>4, <2>1
       DEF SubmitSync, monitorVars, queueVars, BackgroundTypeOK, Aged
<1> QED
  BY <1>1, <1>2, <1>3, <1>4 DEF Submission

LEMMA BaseCancellation ==
  ASSUME Base, NEW j \in Jobs, Cancellation(j)
  PROVE  Base'
<1> USE DEF Base, TypeOK, Unregistered, histories
<1>1. CASE CancelCheck(j)
  BY <1>1 DEF CancelCheck, monitorVars, queueVars, BackgroundTypeOK, Aged
<1>2. CASE CancelRemove(j)
  BY <1>2
     DEF CancelRemove, Remove, Outruns, monitorVars, queueVars,
         BackgroundTypeOK, Aged
<1>3. CASE CancelMark(j)
  <2>1. "CANCELLED" \in RecordStatuses
    BY DEF RecordStatuses
  <2>2. /\ known' = known /\ older' = older
        /\ BackgroundTypeOK'
    BY <1>3, <2>1, UpdateStatusKeeps
       DEF CancelMark, BackgroundTypeOK, queueVars
  <2> QED
    BY <1>3, <2>2 DEF CancelMark, Aged
<1>4. CASE CancelSync(j)
  <2>1. mirror' \in [Jobs -> Mirrored]
    BY <1>4, MirrorType DEF CancelSync, Statuses
  <2> QED
    BY <1>4, <2>1
       DEF CancelSync, monitorVars, queueVars, BackgroundTypeOK, Aged
<1> QED
  BY <1>1, <1>2, <1>3, <1>4 DEF Cancellation

(* What is common to the steps that only give a record a status. *)
LEMMA StatusStep ==
  ASSUME Base, NEW j \in Jobs, NEW s \in RecordStatuses, UpdateStatus(j, s),
         UNCHANGED queueVars
  PROVE  known' = known /\ older' = older /\ BackgroundTypeOK' /\ Aged'
<1>1. BackgroundTypeOK /\ Aged
  BY DEF Base, TypeOK
<1>2. /\ known' = known /\ older' = older
      /\ BackgroundTypeOK'
  BY <1>1, UpdateStatusKeeps DEF BackgroundTypeOK, queueVars
<1> QED
  BY <1>1, <1>2 DEF Aged

LEMMA BaseWork ==
  ASSUME Base, NEW w \in Threads, Work(w)
  PROVE  Base'
<1> USE DEF Base, TypeOK, Unregistered, histories
<1>st. {"RUNNING", "COMPLETED", "FAILED", "PENDING"} \subseteq RecordStatuses
  BY DEF RecordStatuses
<1>1. ASSUME NEW j \in Jobs, Dequeue(w, j)
      PROVE  Base'
  <2>1. BackgroundTypeOK'
    BY <1>1, TakeKeeps DEF Dequeue, BackgroundTypeOK, monitorVars
  <2>2. j # NoJob
    BY ReflectionAssumption
  <2> QED
    BY <1>1, <2>1, <2>2 DEF Dequeue, Outruns, monitorVars, Aged
<1>2. CASE Quit(w)
  <2>1. Goto(w, "off") /\ phase[w] = "idle"
    BY <1>2 DEF Quit
  <2> QED
    BY <1>2, <2>1, WorkerType
       DEF Quit, monitorVars, queueVars, BackgroundTypeOK, Aged
<1>3. CASE FinishGet(w)
  <2>1. Goto(w, "got") /\ phase[w] = "taken"
    BY <1>3 DEF FinishGet
  <2> QED
    BY <1>3, <2>1, WorkerType
       DEF FinishGet, Untrack, monitorVars, BackgroundTypeOK, Aged
<1>4. CASE BeginJob(w)
  <2>1. phase[w] = "got" /\ job[w] \in Jobs
    BY <1>4, InHandIsJob DEF BeginJob
  <2>2. CASE Back(w) /\ UNCHANGED monitorVars
    BY <1>4, <2>2, WorkerType
       DEF BeginJob, monitorVars, queueVars, BackgroundTypeOK, Aged
  <2>3. CASE UpdateStatus(job[w], "RUNNING") /\ Goto(w, "started")
    <3>1. known' = known /\ older' = older /\ BackgroundTypeOK' /\ Aged'
      BY <1>4, <1>st, <2>1, <2>3, StatusStep DEF BeginJob
    <3> QED
      BY <1>4, <2>1, <2>3, <3>1, WorkerType DEF BeginJob
  <2> QED
    BY <1>4, <2>2, <2>3 DEF BeginJob
<1>5. CASE Delegate(w)
  <2>1. phase[w] = "started" /\ job[w] \in Jobs
    BY <1>5, InHandIsJob DEF Delegate
  <2>2. mirror' \in [Jobs -> Mirrored]
    BY <1>5, <2>1, MirrorType DEF Delegate, Statuses
  <2>3. Back(w) \/ Goto(w, "wait")
    BY <1>5 DEF Delegate
  <2>4. future' \in [Jobs -> {"none", "waiting", "running", "ok", "error"}]
    BY <1>5, <2>1 DEF Delegate
  <2> QED
    BY <1>5, <2>1, <2>2, <2>3, <2>4, WorkerType
       DEF Delegate, monitorVars, queueVars, BackgroundTypeOK, Aged
<1>6. CASE Collect(w)
  <2>1. phase[w] = "wait" /\ job[w] \in Jobs
    BY <1>6, InHandIsJob DEF Collect
  <2>2. /\ known' = known /\ older' = older
        /\ BackgroundTypeOK' /\ Aged'
    <3>1. CASE \E s \in {"COMPLETED", "FAILED"} : UpdateStatus(job[w], s)
      BY <1>6, <1>st, <2>1, <3>1, StatusStep DEF Collect
    <3>2. CASE SetRecord(job[w], [status |-> "PENDING",
                                  retries |-> record[job[w]].retries + 1])
      <4>1. [status |-> "PENDING", retries |-> record[job[w]].retries + 1]
              \in Records
        BY <1>st, <2>1 DEF BackgroundTypeOK, Records
      <4>2. /\ known' = known /\ older' = older
            /\ BackgroundTypeOK'
        BY <1>6, <2>1, <3>2, <4>1, SetRecordKeeps
           DEF Collect, BackgroundTypeOK, queueVars
      <4> QED
        BY <4>2 DEF Aged
    <3> QED
      BY <1>6, <3>1, <3>2 DEF Collect
  <2>3. \E p \in {"completed", "retry", "failed"} : Goto(w, p)
    BY <1>6 DEF Collect
  <2>4. future' \in [Jobs -> {"none", "waiting", "running", "ok", "error"}]
    BY <1>6, <2>1 DEF Collect
  <2> QED
    BY <1>6, <2>1, <2>2, <2>3, <2>4, WorkerType DEF Collect
<1>7. CASE TimeOut(w)
  <2>1. phase[w] = "wait" /\ job[w] \in Jobs
    BY <1>7, InHandIsJob DEF TimeOut
  <2>2. known' = known /\ older' = older /\ BackgroundTypeOK' /\ Aged'
    BY <1>7, <1>st, <2>1, StatusStep DEF TimeOut
  <2> QED
    BY <1>7, <2>1, <2>2, WorkerType DEF TimeOut
<1>8. CASE Requeue(w)
  <2>1. phase[w] = "retry" /\ job[w] \in Jobs
    BY <1>8, InHandIsJob DEF Requeue
  <2>2. AtMost(PriorityOf[job[w]] + 1, 3) \in 0..3
    BY <2>1, BackgroundAssumption DEF AtMost
  <2>3. BackgroundTypeOK'
    BY <1>8, <2>1, <2>2, PutKeeps
       DEF Requeue, BackgroundTypeOK, monitorVars, queueVars
  <2> QED
    BY <1>8, <2>1, <2>3, WorkerType DEF Requeue, monitorVars, Aged
<1>9. ASSUME NEW p \in {"completed", "failed"}, NEW new \in Statuses,
             Report(w, p, new)
      PROVE  Base'
  <2>1. phase[w] = p /\ job[w] \in Jobs
    BY <1>9, InHandIsJob DEF Report
  <2>2. mirror' \in [Jobs -> Mirrored]
    BY <1>9, <2>1, MirrorType DEF Report
  <2>3. CASE Back(w) /\ UNCHANGED monitorVars
    BY <1>9, <2>2, <2>3, WorkerType
       DEF Report, monitorVars, queueVars, BackgroundTypeOK, Aged
  <2>4. CASE UpdateStatus(job[w], "FAILED") /\ Goto(w, "caught")
    <3>1. known' = known /\ older' = older /\ BackgroundTypeOK' /\ Aged'
      BY <1>9, <1>st, <2>1, <2>4, StatusStep DEF Report
    <3> QED
      BY <1>9, <2>1, <2>2, <2>4, <3>1, WorkerType DEF Report
  <2> QED
    BY <1>9, <2>3, <2>4 DEF Report
<1>10. CASE ReportCompleted(w) \/ ReportFailed(w)
  BY <1>9, <1>10 DEF ReportCompleted, ReportFailed, Statuses
<1>11. CASE ReportCaught(w)
  <2>1. phase[w] = "caught" /\ job[w] \in Jobs
    BY <1>11, InHandIsJob DEF ReportCaught
  <2>2. mirror' \in [Jobs -> Mirrored]
    BY <1>11, <2>1, MirrorType DEF ReportCaught, Statuses
  <2> QED
    BY <1>11, <2>2, WorkerType
       DEF ReportCaught, monitorVars, queueVars, BackgroundTypeOK, Aged
<1>12. CASE LetGo(w)
  <2>1. phase[w] = "wait" /\ job[w] \in Jobs
    BY <1>12, InHandIsJob DEF LetGo
  <2>2. future' \in [Jobs -> {"none", "waiting", "running", "ok", "error"}]
    BY <1>12, <2>1 DEF LetGo
  <2> QED
    BY <1>12, <2>1, <2>2, WorkerType
       DEF LetGo, monitorVars, queueVars, BackgroundTypeOK, Aged
<1> QED
  BY <1>1, <1>2, <1>3, <1>4, <1>5, <1>6, <1>7, <1>8, <1>10, <1>11, <1>12
     DEF Work

LEMMA BasePool ==
  ASSUME Base, NEW j \in Jobs, PoolBegins(j) \/ PoolEnds(j)
  PROVE  Base'
BY DEF Base, TypeOK, Unregistered, PoolBegins, PoolEnds, histories,
       monitorVars, queueVars, BackgroundTypeOK, Aged

LEMMA BaseService ==
  ASSUME Base,
         \/ \E w \in Threads : StartWorker(w)
         \/ StopWorker
         \/ ShutDown
  PROVE  Base'
<1> USE DEF Base, TypeOK, Unregistered, histories, monitorVars, queueVars,
            BackgroundTypeOK, Aged
<1>1. ASSUME NEW w \in Threads, StartWorker(w)
      PROVE  Base'
  <2>1. Goto(w, "idle") /\ phase[w] = "off"
    BY <1>1 DEF StartWorker
  <2> QED
    BY <1>1, <2>1, WorkerType DEF StartWorker
<1>2. CASE StopWorker \/ ShutDown
  BY <1>2 DEF StopWorker, ShutDown
<1> QED
  BY <1>1, <1>2

LEMMA BaseHousekeeping ==
  ASSUME Base, Housekeeping
  PROVE  Base'
<1>1. mirror' \in [Jobs -> Mirrored]
  BY MirrorType, ReflectionAssumption DEF Base, TypeOK, Housekeeping
<1> QED
  BY <1>1
     DEF Base, TypeOK, Unregistered, Housekeeping, Cooldown, histories,
         monitorVars, queueVars, BackgroundTypeOK, Aged

LEMMA BaseStutter ==
  ASSUME Base, UNCHANGED vars
  PROVE  Base'
BY DEF Base, TypeOK, Unregistered, vars, histories, monitorVars, queueVars,
       BackgroundTypeOK, Aged

LEMMA BaseNext ==
  ASSUME Base, [Next]_vars
  PROVE  Base'
BY BaseSubmission, BaseCancellation, BaseWork, BasePool, BaseService,
   BaseHousekeeping, BaseStutter DEF Next

(* Types, and the capacities that put and register_task keep to. *)
THEOREM BaseHolds == Spec => []Base
BY BaseInit, BaseNext, PTL DEF Spec

(* Every variable has its type, the queue never exceeds its size nor the
   monitor its number of records: PriorityTaskQueue.put refuses in time, and
   register_task evicts a record whenever it has to. *)
THEOREM ReflectionTypes == Spec => []TypeOK
BY BaseHolds, PTL DEF Base

-----------------------------------------------------------------------------
(* Where a job may be.                                                     *)

Early == {"new", "registered"}
Chosen == {"started", "wait", "retry", "completed", "failed", "caught"}

(* A job is in the heap or in the hands of one worker. *)
OnePlace ==
  /\ \A v, w \in Threads : job[v] = job[w] /\ job[v] # NoJob => v = w
  /\ \A w \in Threads : job[w] \notin queued

(* Before its caller calls put, a job is nowhere. *)
EarlyIsNowhere ==
  \A j \in Jobs :
    caller[j] \in Early =>
      /\ j \notin queued \cup tracked \cup flagged
      /\ future[j] = "none"
      /\ executions[j] = 0
      /\ \A w \in Threads : job[w] # j

(* The index and the marks: an id in the index is in the heap or is being
   taken, and a marked job gets no further than the check of the mark. *)
IndexOK ==
  /\ \A j \in tracked : j \in queued \/ InHand(j, {"taken"})
  /\ tracked \cap flagged = {}
  /\ \A w \in Threads : phase[w] # "taken" => job[w] \notin tracked
  /\ \A w \in Threads : phase[w] \in Chosen => job[w] \notin flagged

(* A job that the pool has is nobody's, or its worker waits or gave up. *)
PoolOK ==
  \A j \in Jobs :
    future[j] # "none" =>
      /\ j \notin queued \cup tracked \cup flagged
      /\ \A w \in Threads : job[w] = j => phase[w] \in {"wait", "caught"}

Places == OnePlace /\ EarlyIsNowhere /\ IndexOK /\ PoolOK

LEMMA PlacesInit == Init => Places
<1> SUFFICES ASSUME Init PROVE Places
  OBVIOUS
<1> QED
  BY ReflectionAssumption
     DEF Init, BackgroundInit, Places, OnePlace, EarlyIsNowhere, IndexOK,
         PoolOK, Chosen

(* Nothing that Places speaks of changes. *)
PlaceVars == <<queued, tracked, flagged, caller, future, executions, phase, job>>

LEMMA PlacesSame ==
  ASSUME Places, UNCHANGED PlaceVars
  PROVE  Places'
BY DEF PlaceVars, Places, OnePlace, EarlyIsNowhere, IndexOK, PoolOK, InHand

LEMMA PlacesSubmission ==
  ASSUME Base, Places, NEW j \in Jobs, Submission(j)
  PROVE  Places'
<1> USE DEF Base, TypeOK, BackgroundTypeOK, Places, histories, queueVars
<1>1. CASE SubmitRegister(j)
  BY <1>1 DEF SubmitRegister, OnePlace, EarlyIsNowhere, IndexOK, PoolOK,
              InHand, Early
<1>2. CASE SubmitPut(j)
  <2>1. CASE Put(j, PriorityOf[j])
    <3>1. /\ queued' = queued \cup {j}
          /\ tracked' = tracked \cup {j}
          /\ UNCHANGED <<flagged, phase, job, future, executions>>
          /\ caller[j] = "registered"
      BY <1>2, <2>1 DEF SubmitPut, Put
    <3>2. caller' = [caller EXCEPT ![j] = "queued"]
                \/ caller' = [caller EXCEPT ![j] = "refused"]
      BY <1>2 DEF SubmitPut
    <3> QED
      BY <3>1, <3>2 DEF OnePlace, EarlyIsNowhere, IndexOK, PoolOK, InHand,
                        Early
  <2>2. CASE ~Put(j, PriorityOf[j])
    BY <1>2, <2>2 DEF SubmitPut, OnePlace, EarlyIsNowhere, IndexOK, PoolOK,
                      InHand, Early
  <2> QED
    BY <2>1, <2>2
<1>3. CASE SubmitMark(j)
  BY <1>3 DEF SubmitMark, OnePlace, EarlyIsNowhere, IndexOK, PoolOK, InHand,
              Early
<1>4. CASE SubmitSync(j)
  BY <1>4 DEF SubmitSync, OnePlace, EarlyIsNowhere, IndexOK, PoolOK, InHand,
              Early
<1> QED
  BY <1>1, <1>2, <1>3, <1>4 DEF Submission

LEMMA PlacesCancellation ==
  ASSUME Base, Places, NEW j \in Jobs, Cancellation(j)
  PROVE  Places'
<1> USE DEF histories, queueVars
<1>1. CASE CancelCheck(j) \/ CancelMark(j) \/ CancelSync(j)
  BY <1>1, PlacesSame DEF CancelCheck, CancelMark, CancelSync, PlaceVars
<1>2. CASE CancelRemove(j)
  <2>1. CASE Remove(j)
    <3>1. /\ j \in tracked
          /\ tracked' = tracked \ {j}
          /\ flagged' = flagged \cup {j}
          /\ UNCHANGED <<queued, phase, job, future, caller, executions>>
      BY <1>2, <2>1 DEF CancelRemove, Remove
    <3> QED
      BY <3>1 DEF Places, OnePlace, EarlyIsNowhere, IndexOK, PoolOK, InHand,
                  Chosen
  <2>2. CASE UNCHANGED queueVars
    BY <1>2, <2>2, PlacesSame DEF CancelRemove, PlaceVars
  <2> QED
    BY <1>2, <2>1, <2>2 DEF CancelRemove
<1> QED
  BY <1>1, <1>2 DEF Cancellation

(* A worker comes to another phase with the job it has. *)
LEMMA PlacesGoto ==
  ASSUME Base, Places, NEW w \in Threads, NEW p, Goto(w, p),
         phase[w] \notin {"off", "idle"},
         p \notin {"taken"},
         phase[w] = "taken" => job[w] \notin tracked',
         p \in Chosen => job[w] \notin flagged,
         UNCHANGED <<queued, flagged, caller, executions>>,
         tracked' \subseteq tracked,
         tracked \subseteq tracked' \cup {job[w]},
         future'[job[w]] # "none" =>
           /\ p \in {"wait", "caught"}
           /\ job[w] \notin tracked
           /\ job[w] \notin flagged,
         \A j \in Jobs : j # job[w] => future'[j] = future[j]
  PROVE  Places'
<1> DEFINE i == job[w]
<1> USE DEF Base, TypeOK, BackgroundTypeOK, Places
<1>1. i \in Jobs
  BY InHandIsJob
<1>2. /\ job' = job /\ phase' = [phase EXCEPT ![w] = p]
      /\ caller[i] \notin Early
      /\ \A v \in Threads : job[v] = i => v = w
      /\ i \notin queued
  BY <1>1, ReflectionAssumption DEF Goto, OnePlace, EarlyIsNowhere
<1>3. OnePlace'
  BY <1>2 DEF OnePlace
<1>4. EarlyIsNowhere'
  BY <1>1, <1>2 DEF EarlyIsNowhere
<1>5. IndexOK'
  <2>1. i \notin tracked'
    BY <1>2 DEF IndexOK
  <2>2. ASSUME NEW j \in tracked'
        PROVE  j \in queued' \/ InHand(j, {"taken"})'
    BY <1>2, <2>1, <2>2 DEF IndexOK, InHand
  <2> QED
    BY <1>2, <2>1, <2>2 DEF IndexOK
<1>6. PoolOK'
  BY <1>1, <1>2 DEF PoolOK
<1> QED
  BY <1>3, <1>4, <1>5, <1>6

(* A worker lets its job go. *)
LEMMA PlacesBack ==
  ASSUME Base, Places, NEW w \in Threads, Back(w),
         phase[w] \notin {"off", "idle", "taken"},
         UNCHANGED <<queued, tracked, flagged, caller, executions>>,
         future'[job[w]] # "none" =>
           job[w] \notin flagged /\ job[w] \notin tracked,
         \A j \in Jobs : j # job[w] => future'[j] = future[j]
  PROVE  Places'
<1> DEFINE i == job[w]
<1> USE DEF Base, TypeOK, BackgroundTypeOK, Places
<1>1. i \in Jobs /\ NoJob \notin Jobs
  BY InHandIsJob, ReflectionAssumption
<1>2. /\ job' = [job EXCEPT ![w] = NoJob] /\ phase' = [phase EXCEPT ![w] = "idle"]
      /\ caller[i] \notin Early
      /\ \A v \in Threads : job[v] = i => v = w
      /\ i \notin queued
  BY <1>1, ReflectionAssumption DEF Back, OnePlace, EarlyIsNowhere
<1>3. OnePlace'
  BY <1>1, <1>2 DEF OnePlace
<1>4. EarlyIsNowhere'
  BY <1>1, <1>2 DEF EarlyIsNowhere
<1>5. IndexOK'
  BY <1>1, <1>2 DEF IndexOK, InHand, Chosen
<1>6. PoolOK'
  BY <1>1, <1>2 DEF PoolOK
<1> QED
  BY <1>3, <1>4, <1>5, <1>6

LEMMA PlacesWork ==
  ASSUME Base, Places, NEW w \in Threads, Work(w)
  PROVE  Places'
<1> USE DEF histories, queueVars
<1>0. phase[w] \notin {"off", "idle"} =>
        /\ job[w] \in Jobs
        /\ phase[w] # "taken" => job[w] \notin tracked
        /\ phase[w] \in Chosen => job[w] \notin flagged
        /\ future[job[w]] # "none" => phase[w] \in {"wait", "caught"}
  BY InHandIsJob DEF Base, Places, IndexOK, PoolOK
<1>1. ASSUME NEW j \in Jobs, Dequeue(w, j)
      PROVE  Places'
  <2>1. /\ j \in queued /\ queued' = queued \ {j}
        /\ UNCHANGED <<flagged, tracked, caller, future, executions>>
        /\ phase[w] = "idle"
        /\ phase' = [phase EXCEPT ![w] = "taken"]
        /\ job' = [job EXCEPT ![w] = j]
    BY <1>1 DEF Dequeue, Take, IsNext
  <2>2. j # NoJob
    BY ReflectionAssumption
  <2> USE DEF Base, TypeOK, BackgroundTypeOK, Places
  <2>3. OnePlace'
    BY <2>1, <2>2 DEF OnePlace
  <2>4. EarlyIsNowhere'
    BY <2>1, <2>2 DEF EarlyIsNowhere
  <2>5. IndexOK'
    BY <2>1, <2>2 DEF IndexOK, InHand, Chosen
  <2>6. PoolOK'
    BY <2>1, <2>2 DEF PoolOK
  <2> QED
    BY <2>3, <2>4, <2>5, <2>6
<1>2. CASE Quit(w)
  <2>1. /\ phase[w] = "idle" /\ phase' = [phase EXCEPT ![w] = "off"]
        /\ job[w] = NoJob /\ NoJob \notin Jobs
        /\ UNCHANGED <<queued, flagged, tracked, caller, future, executions, job>>
    BY <1>2, ReflectionAssumption DEF Quit, Goto, Base, TypeOK
  <2> QED
    BY <2>1 DEF Base, TypeOK, BackgroundTypeOK, Places, OnePlace,
                EarlyIsNowhere, IndexOK, PoolOK, InHand, Chosen
<1>3. CASE FinishGet(w)
  <2>1. /\ phase[w] = "taken" /\ Goto(w, "got")
        /\ tracked' = tracked \ {job[w]}
        /\ UNCHANGED <<queued, flagged, caller, future, executions>>
    BY <1>3 DEF FinishGet, Untrack
  <2>2. future[job[w]] = "none"
    BY <1>0, <2>1
  <2> QED
    BY <1>0, <2>1, <2>2, PlacesGoto DEF Chosen
<1>4. CASE BeginJob(w)
  <2>1. /\ phase[w] = "got"
        /\ UNCHANGED <<queued, tracked, flagged, caller, future, executions>>
        /\ Back(w) \/ (Goto(w, "started") /\ job[w] \notin flagged)
    BY <1>4 DEF BeginJob
  <2>2. future[job[w]] = "none"
    BY <1>0, <2>1
  <2> QED
    BY <1>0, <2>1, <2>2, PlacesGoto, PlacesBack
<1>5. CASE Delegate(w)
  <2>1. /\ phase[w] = "started"
        /\ UNCHANGED <<queued, tracked, flagged, caller, executions>>
        /\ \/ Goto(w, "wait") /\ future' = [future EXCEPT ![job[w]] = "waiting"]
           \/ Back(w) /\ UNCHANGED future
    BY <1>5 DEF Delegate
  <2>2. future[job[w]] = "none"
    BY <1>0, <2>1
  <2>3. job[w] \notin flagged /\ job[w] \notin tracked
    BY <1>0, <2>1 DEF Chosen
  <2>4. \A j \in Jobs : j # job[w] => future'[j] = future[j]
    BY <2>1 DEF Base, TypeOK
  <2> QED
    BY <2>1, <2>2, <2>3, <2>4, PlacesGoto, PlacesBack
<1>6. CASE Collect(w)
  <2>1. /\ phase[w] = "wait"
        /\ UNCHANGED <<queued, tracked, flagged, caller, executions>>
        /\ future' = [future EXCEPT ![job[w]] = "none"]
        /\ Goto(w, "completed") \/ Goto(w, "retry") \/ Goto(w, "failed")
    BY <1>6 DEF Collect
  <2>2. future'[job[w]] = "none" /\ \A j \in Jobs : j # job[w] => future'[j] = future[j]
    BY <1>0, <2>1 DEF Base, TypeOK
  <2>3. job[w] \notin flagged /\ job[w] \notin tracked
    BY <1>0, <2>1 DEF Chosen
  <2> QED
    BY <2>1, <2>2, <2>3, PlacesGoto DEF Chosen
<1>7. CASE TimeOut(w) \/ Report(w, "completed", "done") \/ Report(w, "failed", "failed")
  <2>1. /\ phase[w] \in {"wait", "completed", "failed"}
        /\ UNCHANGED <<queued, tracked, flagged, caller, future, executions>>
        /\ Goto(w, "caught") \/ Back(w)
    BY <1>7 DEF TimeOut, Report
  <2>2. job[w] \notin flagged /\ job[w] \notin tracked
    BY <1>0, <2>1 DEF Chosen
  <2> QED
    BY <2>1, <2>2, PlacesGoto, PlacesBack
<1>8. CASE ReportCaught(w)
  <2>1. /\ phase[w] = "caught" /\ Back(w)
        /\ UNCHANGED <<queued, tracked, flagged, caller, future, executions>>
    BY <1>8 DEF ReportCaught
  <2>2. job[w] \notin flagged /\ job[w] \notin tracked
    BY <1>0, <2>1 DEF Chosen
  <2> QED
    BY <2>1, <2>2, PlacesBack
<1>9. CASE Requeue(w)
  <2>1. /\ phase[w] = "retry" /\ job[w] \in Jobs /\ Back(w)
        /\ job[w] \notin flagged
        /\ future[job[w]] = "none"
        /\ UNCHANGED <<flagged, caller, future, executions>>
    BY <1>0, <1>9 DEF Requeue, Put, Chosen
  <2>2. CASE UNCHANGED queueVars
    BY <1>0, <2>1, <2>2, PlacesBack
  <2>3. CASE /\ queued' = queued \cup {job[w]}
             /\ tracked' = tracked \cup {job[w]}
    <3> DEFINE i == job[w]
    <3> USE DEF Base, TypeOK, BackgroundTypeOK, Places
    <3>1. /\ i \in Jobs /\ NoJob \notin Jobs
          /\ job' = [job EXCEPT ![w] = NoJob]
          /\ phase' = [phase EXCEPT ![w] = "idle"]
          /\ caller[i] \notin Early
          /\ \A v \in Threads : job[v] = i => v = w
      BY <2>1, ReflectionAssumption DEF Back, OnePlace, EarlyIsNowhere
    <3>2. OnePlace'
      BY <2>3, <3>1 DEF OnePlace
    <3>3. EarlyIsNowhere'
      BY <2>1, <2>3, <3>1 DEF EarlyIsNowhere
    <3>4. IndexOK'
      BY <2>1, <2>3, <3>1 DEF IndexOK, InHand, Chosen
    <3>5. PoolOK'
      BY <2>1, <2>3, <3>1 DEF PoolOK
    <3> QED
      BY <3>2, <3>3, <3>4, <3>5
  <2> QED
    BY <1>9, <2>2, <2>3 DEF Requeue, Put
<1>10. CASE LetGo(w)
  <2>1. /\ phase[w] = "wait" /\ Back(w)
        /\ UNCHANGED <<queued, tracked, flagged, caller, executions>>
        /\ future' = [future EXCEPT ![job[w]] = "none"]
    BY <1>10 DEF LetGo
  <2>2. future'[job[w]] = "none" /\ \A j \in Jobs : j # job[w] => future'[j] = future[j]
    BY <1>0, <2>1 DEF Base, TypeOK
  <2> QED
    BY <2>1, <2>2, PlacesBack
<1> QED
  BY <1>1, <1>2, <1>3, <1>4, <1>5, <1>6, <1>7, <1>8, <1>9, <1>10
     DEF Work, ReportCompleted, ReportFailed

LEMMA PlacesPool ==
  ASSUME Base, Places, NEW j \in Jobs, PoolBegins(j) \/ PoolEnds(j)
  PROVE  Places'
<1>1. /\ future[j] # "none"
      /\ \A i \in Jobs : future'[i] # "none" => future[i] # "none"
      /\ \A i \in Jobs : future[i] = "none" => executions'[i] = executions[i]
      /\ UNCHANGED <<queued, tracked, flagged, caller, phase, job>>
  BY DEF PoolBegins, PoolEnds, Base, TypeOK, queueVars, histories
<1> QED
  BY <1>1 DEF Places, OnePlace, EarlyIsNowhere, IndexOK, PoolOK, InHand

LEMMA PlacesService ==
  ASSUME Base, Places,
         \/ \E w \in Threads : StartWorker(w)
         \/ StopWorker \/ ShutDown \/ Housekeeping
  PROVE  Places'
<1>1. ASSUME NEW w \in Threads, StartWorker(w)
      PROVE  Places'
  <2>1. /\ phase[w] = "off" /\ phase' = [phase EXCEPT ![w] = "idle"]
        /\ job[w] = NoJob /\ NoJob \notin Jobs
        /\ UNCHANGED <<queued, flagged, tracked, caller, future, executions, job>>
    BY <1>1, ReflectionAssumption
       DEF StartWorker, Goto, Base, TypeOK, queueVars, histories
  <2> QED
    BY <2>1 DEF Base, TypeOK, BackgroundTypeOK, Places, OnePlace,
                EarlyIsNowhere, IndexOK, PoolOK, InHand, Chosen
<1>2. CASE StopWorker \/ ShutDown \/ Housekeeping
  BY <1>2, PlacesSame
     DEF StopWorker, ShutDown, Housekeeping, PlaceVars, queueVars, histories
<1> QED
  BY <1>1, <1>2

LEMMA PlacesNext ==
  ASSUME Base, Places, [Next]_vars
  PROVE  Places'
<1>1. CASE UNCHANGED vars
  BY <1>1, PlacesSame DEF vars, PlaceVars, queueVars, histories
<1> QED
  BY <1>1, PlacesSubmission, PlacesCancellation, PlacesWork, PlacesPool,
     PlacesService DEF Next

(* With them, where every job is: in the queue, with a worker, or cancelled. *)
THEOREM PlacesHold == Spec => [](Base /\ Places)
BY BaseInit, BaseNext, PlacesInit, PlacesNext, PTL DEF Spec

(* The index cancel_task works on lists what is in the heap or being taken,
   and nothing that was cancelled: remove never answers True for a job that a
   worker is already past the check of. *)
THEOREM IndexAgrees == Spec => []TrackedIsQueued
<1>1. Places => TrackedIsQueued
  BY DEF Places, IndexOK, TrackedIsQueued
<1> QED
  BY <1>1, PlacesHold, PTL

(* A job for which cancel_task answered True is never reflected upon. *)
THEOREM CancellationHolds == Spec => CancelledNeverRuns
<1>1. ASSUME Base, Places, [Next]_vars
      PROVE  [\A j \in Jobs : executions'[j] > executions[j] => j \notin flagged]_vars
  <2>1. ASSUME NEW j \in Jobs, executions'[j] > executions[j]
        PROVE  j \notin flagged
    <3>1. executions' # executions
      BY <1>1, <2>1 DEF Base, TypeOK
    <3>2. PICK i \in Jobs : PoolBegins(i)
      BY <1>1, <3>1
         DEF Next, Submission, SubmitRegister, SubmitPut, SubmitMark, SubmitSync,
             Cancellation, CancelCheck, CancelRemove, CancelMark, CancelSync,
             PoolEnds, Work, Dequeue, Quit, FinishGet, BeginJob, Delegate,
             Collect, LetGo, TimeOut, Requeue, ReportCompleted, ReportFailed, Report,
             ReportCaught, StartWorker, StopWorker, ShutDown, Housekeeping,
             vars, histories
    <3>3. executions' = [executions EXCEPT ![i] = @ + 1] /\ future[i] = "waiting"
      BY <3>2 DEF PoolBegins
    <3>4. i = j
      BY <1>1, <2>1, <3>3 DEF Base, TypeOK
    <3> QED
      BY <3>3, <3>4, <1>1 DEF Places, PoolOK
  <2> QED
    BY <2>1
<1> QED
  BY <1>1, PlacesHold, PTL DEF Spec, CancelledNeverRuns

-----------------------------------------------------------------------------
(* The retry budget.                                                       *)

(* The retries a job has used up, all of them once its record is gone. *)
Used(j) == IF j \in known THEN record[j].retries ELSE MaxRetries

(* A job that may be executed without being retried before. *)
Ahead(j) ==
  \/ caller[j] \in Early
  \/ j \in queued
  \/ InHand(j, {"taken", "got", "started", "retry"})
  \/ future[j] = "waiting"

(* Each execution after the first one has used a retry up. *)
Budget ==
  \A j \in Jobs :
    /\ Used(j) <= MaxRetries
    /\ executions[j] <= Used(j) + 1
    /\ Ahead(j) => executions[j] <= Used(j)

LEMMA BudgetInit == Init => Budget
BY ReflectionAssumption
   DEF Init, BackgroundInit, Budget, Used, Ahead, Early

(* A step that executes nothing, uses nothing up and puts no job before its
   execution that was not there. *)
LEMMA BudgetSame ==
  ASSUME Base, Budget,
         UNCHANGED executions,
         \A j \in Jobs : Used(j)' = Used(j),
         \A j \in Jobs : Ahead(j)' => Ahead(j)
  PROVE  Budget'
BY DEF Budget

(* A status is no retry. *)
LEMMA UpdateUsesNothing ==
  ASSUME Base, NEW i \in Jobs, NEW s, UpdateStatus(i, s)
  PROVE  \A j \in Jobs : Used(j)' = Used(j)
<1>1. /\ known' = known
      /\ \A j \in known : record'[j].retries = record[j].retries
  BY DEF Base, TypeOK, BackgroundTypeOK, UpdateStatus, SetRecord, Records,
         monitorVars
<1> QED
  BY <1>1 DEF Used

LEMMA MonitorUsesNothing ==
  ASSUME UNCHANGED monitorVars
  PROVE  \A j \in Jobs : Used(j)' = Used(j)
BY DEF monitorVars, Used

LEMMA BudgetSubmission ==
  ASSUME Base, Places, Budget, NEW j \in Jobs, Submission(j)
  PROVE  Budget'
<1> USE DEF histories, queueVars
<1>1. CASE SubmitRegister(j) /\ Register(j)
  <2>1. /\ known' = (known \ Evicted) \cup {j}
        /\ \A k \in known' \ {j} : record'[k] = record[k]
        /\ record'[j] = Fresh
        /\ caller[j] = "new" /\ executions[j] = 0
        /\ \A k \in Jobs : caller'[k] \in Early => caller[k] \in Early
        /\ UNCHANGED <<queued, phase, job, future, executions>>
    BY <1>1 DEF SubmitRegister, Register, Early, Places, EarlyIsNowhere, Base,
                TypeOK, BackgroundTypeOK, monitorVars
  <2>2. ASSUME NEW k \in Jobs, k # j
        PROVE  /\ Used(k)' = Used(k) \/ Used(k)' = MaxRetries
               /\ Ahead(k)' => Ahead(k)
    BY <2>1, <2>2 DEF Used, Ahead, InHand
  <2>3. Used(j)' = 0
    BY <2>1 DEF Used, Fresh
  <2>4. ASSUME NEW k \in Jobs PROVE executions[k] \in Nat /\ Used(k) \in Nat
    BY ReflectionAssumption
       DEF Base, TypeOK, BackgroundTypeOK, Used, Records
  <2>5. \A k \in Jobs : executions'[k] = executions[k]
    BY <2>1
  <2> QED
    BY <2>1, <2>2, <2>3, <2>4, <2>5, ReflectionAssumption DEF Budget
<1>2. CASE SubmitRegister(j) /\ ~Register(j)
  <2>1. /\ UNCHANGED <<queued, phase, job, future, executions, monitorVars>>
        /\ \A k \in Jobs : caller'[k] \in Early => caller[k] \in Early
    BY <1>2 DEF SubmitRegister, Early, Base, TypeOK
  <2> QED
    BY <2>1, MonitorUsesNothing, BudgetSame DEF Ahead, InHand
<1>3. CASE SubmitPut(j)
  <2>1. /\ UNCHANGED <<phase, job, future, executions>>
        /\ caller[j] \in Early
        /\ queued' \subseteq queued \cup {j}
        /\ \A k \in Jobs : caller'[k] \in Early => caller[k] \in Early
    BY <1>3 DEF SubmitPut, Put, Early, Base, TypeOK
  <2>2. UNCHANGED monitorVars \/ UpdateStatus(j, "FAILED")
    BY <1>3 DEF SubmitPut
  <2>3. \A k \in Jobs : Used(k)' = Used(k)
    BY <2>2, MonitorUsesNothing, UpdateUsesNothing
  <2> QED
    BY <2>1, <2>3, BudgetSame DEF Ahead, InHand
<1>4. CASE SubmitMark(j) \/ SubmitSync(j)
  <2>1. /\ UNCHANGED <<queued, phase, job, future, executions>>
        /\ \A k \in Jobs : caller'[k] \in Early => caller[k] \in Early
    BY <1>4 DEF SubmitMark, SubmitSync, Early, Base, TypeOK
  <2>2. UNCHANGED monitorVars \/ UpdateStatus(j, "PENDING")
    BY <1>4 DEF SubmitMark, SubmitSync
  <2>3. \A k \in Jobs : Used(k)' = Used(k)
    BY <2>2, MonitorUsesNothing, UpdateUsesNothing
  <2> QED
    BY <2>1, <2>3, BudgetSame DEF Ahead, InHand
<1> QED
  BY <1>1, <1>2, <1>3, <1>4 DEF Submission

LEMMA BudgetCancellation ==
  ASSUME Base, Budget, NEW j \in Jobs, Cancellation(j)
  PROVE  Budget'
<1>1. /\ UNCHANGED <<queued, caller, phase, job, future, executions>>
      /\ UNCHANGED monitorVars \/ UpdateStatus(j, "CANCELLED")
  BY DEF Cancellation, CancelCheck, CancelRemove, CancelMark, CancelSync,
         Remove, queueVars, histories
<1>2. \A k \in Jobs : Used(k)' = Used(k)
  BY <1>1, MonitorUsesNothing, UpdateUsesNothing
<1> QED
  BY <1>1, <1>2, BudgetSame DEF Ahead, InHand

LEMMA BudgetCollect ==
  ASSUME Base, Places, Budget, NEW w \in Threads, Collect(w)
  PROVE  Budget'
<1>0. PICK i \in Jobs : job[w] = i
  BY InHandIsJob DEF Collect, Base
<1>1. /\ \A v \in Threads : job[v] = i => v = w
      /\ i \notin queued /\ caller[i] \notin Early
  BY <1>0, ReflectionAssumption DEF Base, Places, OnePlace, EarlyIsNowhere
<1>2. /\ UNCHANGED <<queued, caller, executions, job>>
      /\ future'[i] = "none"
      /\ \A k \in Jobs : k # i => future'[k] = future[k]
      /\ \A v \in Threads : v # w => phase'[v] = phase[v]
      /\ phase'[w] \in {"completed", "retry", "failed"}
  BY <1>0 DEF Collect, Goto, Base, TypeOK, queueVars, histories
<1>3. ASSUME NEW k \in Jobs, k # i
      PROVE  Ahead(k)' => Ahead(k)
  BY <1>0, <1>1, <1>2, <1>3 DEF Ahead, InHand
<1>4. ASSUME NEW k \in Jobs PROVE executions[k] \in Nat /\ Used(k) \in Nat
  BY ReflectionAssumption DEF Base, TypeOK, BackgroundTypeOK, Used, Records
<1>5. CASE phase'[w] # "retry"
  <2>1. UpdateStatus(i, "COMPLETED") \/ UpdateStatus(i, "FAILED")
    BY <1>0, <1>5 DEF Collect, Goto, Base, TypeOK
  <2>2. \A k \in Jobs : Used(k)' = Used(k)
    BY <1>1, <2>1, UpdateUsesNothing
  <2>3. ~Ahead(i)'
    BY <1>0, <1>1, <1>2, <1>5 DEF Ahead, InHand
  <2> QED
    BY <1>2, <1>3, <2>2, <2>3, BudgetSame
<1>6. CASE phase'[w] = "retry"
  <2>1. /\ i \in known /\ record[i].retries < MaxRetries
        /\ SetRecord(i, [status |-> "PENDING", retries |-> record[i].retries + 1])
    BY <1>0, <1>6 DEF Collect, CanRetry, Goto, Base, TypeOK
  <2>2. /\ known' = known
        /\ record' = [record EXCEPT ![i] = [status |-> "PENDING",
                                           retries |-> record[i].retries + 1]]
    BY <2>1 DEF SetRecord, monitorVars
  <2>3. Used(i)' = Used(i) + 1 /\ Used(i)' <= MaxRetries
    <3>1. Used(i) = record[i].retries /\ Used(i) \in Nat
      BY <1>1, <1>4, <2>1 DEF Used
    <3>2. Used(i)' = record'[i].retries
      BY <2>1, <2>2 DEF Used
    <3>3. record'[i].retries = record[i].retries + 1
      BY <1>1, <2>2 DEF Base, TypeOK, BackgroundTypeOK
    <3> QED
      BY <2>1, <3>1, <3>2, <3>3, ReflectionAssumption
  <2>4. \A k \in Jobs : k # i => Used(k)' = Used(k)
    BY <2>2 DEF Used, Base, TypeOK, BackgroundTypeOK
  <2>5. \A k \in Jobs : executions'[k] = executions[k]
    BY <1>2
  <2>6. ASSUME NEW k \in Jobs
        PROVE  /\ Used(k)' <= MaxRetries
               /\ executions'[k] <= Used(k)' + 1
               /\ Ahead(k)' => executions'[k] <= Used(k)'
    <3>1. CASE k = i
      <4>1. executions[i] <= Used(i) + 1
        BY <1>1 DEF Budget
      <4> QED
        BY <1>1, <1>4, <2>3, <2>5, <3>1, <4>1
    <3>2. CASE k # i
      BY <1>3, <2>4, <2>5, <3>2 DEF Budget
    <3> QED
      BY <3>1, <3>2
  <2> QED
    BY <2>6 DEF Budget
<1> QED
  BY <1>5, <1>6

LEMMA BudgetWork ==
  ASSUME Base, Places, Budget, NEW w \in Threads, Work(w)
  PROVE  Budget'
<1> USE DEF histories, queueVars
<1>0. /\ phase[w] \notin {"off", "idle"} => job[w] \in Jobs
      /\ NoJob \notin Jobs
  BY InHandIsJob, ReflectionAssumption DEF Base
<1>1. ASSUME NEW j \in Jobs, Dequeue(w, j)
      PROVE  Budget'
  <2>1. /\ UNCHANGED <<caller, future, executions, monitorVars>>
        /\ j \in queued /\ queued' \subseteq queued
        /\ job' = [job EXCEPT ![w] = j]
        /\ phase' = [phase EXCEPT ![w] = "taken"]
    BY <1>1 DEF Dequeue, Take, IsNext
  <2>2. \A k \in Jobs : Ahead(k)' => Ahead(k)
    BY <2>1 DEF Ahead, InHand, Base, TypeOK
  <2> QED
    BY <2>1, <2>2, MonitorUsesNothing, BudgetSame
<1>2. CASE Collect(w)
  BY <1>2, BudgetCollect
<1>3. CASE Requeue(w)
  <2>1. /\ UNCHANGED <<caller, future, executions, monitorVars>>
        /\ phase[w] = "retry"
        /\ queued' \subseteq queued \cup {job[w]}
        /\ job' = [job EXCEPT ![w] = NoJob]
        /\ phase' = [phase EXCEPT ![w] = "idle"]
    BY <1>3 DEF Requeue, Put, Back
  <2>2. \A k \in Jobs : Ahead(k)' => Ahead(k)
    BY <1>0, <2>1 DEF Ahead, InHand, Base, TypeOK
  <2> QED
    BY <2>1, <2>2, MonitorUsesNothing, BudgetSame
<1>4. CASE Delegate(w)
  <2>1. /\ UNCHANGED <<queued, caller, executions, monitorVars>>
        /\ phase[w] = "started" /\ job[w] \in Jobs
        /\ Back(w) \/ Goto(w, "wait")
        /\ \A k \in Jobs : k # job[w] => future'[k] = future[k]
    BY <1>0, <1>4 DEF Delegate, Base, TypeOK
  <2>2. \A k \in Jobs : Ahead(k)' => Ahead(k)
    BY <1>0, <2>1 DEF Ahead, InHand, Base, TypeOK, Back, Goto
  <2> QED
    BY <2>1, <2>2, MonitorUsesNothing, BudgetSame
<1>5. CASE \/ Quit(w) \/ FinishGet(w) \/ BeginJob(w) \/ TimeOut(w)
           \/ Report(w, "completed", "done") \/ Report(w, "failed", "failed")
           \/ ReportCaught(w)
  <2>1. /\ UNCHANGED <<queued, caller, future, executions>>
        /\ \/ Back(w)
           \/ Goto(w, "off")
           \/ Goto(w, "caught")
           \/ Goto(w, "got") /\ phase[w] = "taken"
           \/ Goto(w, "started") /\ phase[w] = "got"
    BY <1>5 DEF Quit, FinishGet, Untrack, BeginJob, TimeOut, Report,
                ReportCaught
  <2>2. \/ UNCHANGED monitorVars
        \/ job[w] \in Jobs /\ \E s \in {"RUNNING", "FAILED"} : UpdateStatus(job[w], s)
    BY <1>0, <1>5 DEF Quit, FinishGet, BeginJob, TimeOut, Report, ReportCaught
  <2>3. \A k \in Jobs : Ahead(k)' => Ahead(k)
    BY <1>0, <2>1 DEF Ahead, InHand, Base, TypeOK, Back, Goto
  <2>4. \A k \in Jobs : Used(k)' = Used(k)
    BY <2>2, MonitorUsesNothing, UpdateUsesNothing
  <2> QED
    BY <2>1, <2>3, <2>4, BudgetSame
<1>6. CASE LetGo(w)
  <2>1. /\ UNCHANGED <<queued, caller, executions, monitorVars>>
        /\ phase[w] = "wait" /\ job[w] \in Jobs
        /\ Back(w)
        /\ future' = [future EXCEPT ![job[w]] = "none"]
    BY <1>0, <1>6 DEF LetGo
  <2>2. \A k \in Jobs : Ahead(k)' => Ahead(k)
    BY <2>1 DEF Ahead, InHand, Base, TypeOK, Back
  <2> QED
    BY <2>1, <2>2, MonitorUsesNothing, BudgetSame
<1> QED
  BY <1>1, <1>2, <1>3, <1>4, <1>5, <1>6
     DEF Work, ReportCompleted, ReportFailed

LEMMA BudgetPool ==
  ASSUME Base, Places, Budget, NEW j \in Jobs, PoolBegins(j) \/ PoolEnds(j)
  PROVE  Budget'
<1>0. ASSUME NEW k \in Jobs PROVE executions[k] \in Nat /\ Used(k) \in Nat
  BY ReflectionAssumption DEF Base, TypeOK, BackgroundTypeOK, Used, Records
<1>1. /\ UNCHANGED <<queued, caller, phase, job, monitorVars>>
      /\ future'[j] # "waiting"
      /\ \A k \in Jobs : k # j => future'[k] = future[k]
  BY DEF PoolBegins, PoolEnds, queueVars, Base, TypeOK
<1>2. \A k \in Jobs : Used(k)' = Used(k)
  BY <1>1, MonitorUsesNothing
<1>3. \A k \in Jobs : Ahead(k)' => Ahead(k)
  BY <1>1 DEF Ahead, InHand
<1>4. CASE PoolBegins(j)
  <2>1. /\ executions' = [executions EXCEPT ![j] = @ + 1]
        /\ future[j] = "waiting"
    BY <1>4 DEF PoolBegins
  <2>2. ~Ahead(j)'
    BY <1>1, <2>1 DEF Ahead, InHand, Places, EarlyIsNowhere, PoolOK
  <2>3. Ahead(j)
    BY <2>1 DEF Ahead
  <2>4. /\ executions'[j] = executions[j] + 1
        /\ \A k \in Jobs : k # j => executions'[k] = executions[k]
    BY <2>1 DEF Base, TypeOK
  <2> QED
    BY <1>0, <1>2, <1>3, <2>2, <2>3, <2>4 DEF Budget
<1>5. CASE PoolEnds(j)
  BY <1>2, <1>3, <1>5, BudgetSame DEF PoolEnds, histories
<1> QED
  BY <1>4, <1>5

LEMMA BudgetService ==
  ASSUME Base, Budget,
         \/ \E w \in Threads : StartWorker(w)
         \/ StopWorker \/ ShutDown \/ Housekeeping \/ UNCHANGED vars
  PROVE  Budget'
<1>1. /\ UNCHANGED <<queued, caller, future, executions, job, known, record>>
      /\ UNCHANGED phase \/ \E w \in Threads : phase' = [phase EXCEPT ![w] = "idle"]
  BY DEF StartWorker, StopWorker, ShutDown, Housekeeping, Cooldown, Goto, vars,
         queueVars, monitorVars, histories
<1>2. \A k \in Jobs : Used(k)' = Used(k)
  BY <1>1 DEF Used
<1>3. \A k \in Jobs : Ahead(k)' => Ahead(k)
  BY <1>1 DEF Ahead, InHand, Base, TypeOK
<1> QED
  BY <1>1, <1>2, <1>3, BudgetSame

LEMMA BudgetNext ==
  ASSUME Base, Places, Budget, [Next]_vars
  PROVE  Budget'
BY BudgetSubmission, BudgetCancellation, BudgetWork, BudgetPool, BudgetService
   DEF Next

(* A job is reflected upon once and once more per retry: _worker_loop uses a
   retry up before it puts a job back, a record once evicted grants none, and
   an abandoned future is never joined by a second one. *)
THEOREM RetriesAreBounded == Spec => []RetryBudget
<1>1. Base /\ Budget => RetryBudget
  <2> SUFFICES ASSUME Base, Budget, NEW j \in Jobs
               PROVE  executions[j] <= MaxRetries + 1
    BY DEF RetryBudget
  <2>1. executions[j] \in Nat /\ Used(j) \in Nat /\ MaxRetries \in Nat
    BY ReflectionAssumption DEF Base, TypeOK, BackgroundTypeOK, Used, Records
  <2> QED
    BY <2>1 DEF Budget
<1> QED
  BY <1>1, BaseInit, BaseNext, PlacesInit, PlacesNext, BudgetInit, BudgetNext,
     PTL DEF Spec

-----------------------------------------------------------------------------
(* Records and rows.                                                       *)

Has(j, s) == j \in known /\ record[j].status = s

LEMMA UpdateSets ==
  ASSUME Base, NEW i \in Jobs, NEW s, UpdateStatus(i, s)
  PROVE  /\ known' = known
         /\ \A j \in known : j # i => record'[j] = record[j]
         /\ i \in known => record'[i].status = s
BY DEF Base, TypeOK, BackgroundTypeOK, UpdateStatus, SetRecord, Records,
       monitorVars

LEMMA RegisterSets ==
  ASSUME Base, NEW i \in Jobs, Register(i)
  PROVE  /\ known' \subseteq known \cup {i}
         /\ \A j \in known' : j # i => j \in known /\ record'[j] = record[j]
         /\ record'[i].status = "PENDING"
BY DEF Base, TypeOK, BackgroundTypeOK, Register, Fresh

(* A COMPLETED job has left the queue for good: its worker is about to tell
   the row, or the row has been told. *)
CompletedOK ==
  \A j \in Jobs :
    Has(j, "COMPLETED") =>
      /\ j \notin queued
      /\ caller[j] \notin Early
      /\ \/ \E w \in Threads : job[w] = j /\ phase[w] = "completed"
         \/ (\A w \in Threads : job[w] # j) /\ mirror[j] \in {"done", "archived"}

(* Whatever a step does to other jobs, this one keeps what CompletedOK says. *)
CompletedKept(j) ==
  Has(j, "COMPLETED")' =>
    /\ Has(j, "COMPLETED")
    /\ j \in queued' => j \in queued
    /\ caller'[j] \in Early => caller[j] \in Early
    /\ \A w \in Threads : job[w] = j /\ phase[w] = "completed"
          => job'[w] = j /\ phase'[w] = "completed"
    /\ \A w \in Threads : job'[w] = j => job[w] = j
    /\ mirror[j] \in {"done", "archived"} /\ (\A w \in Threads : job[w] # j)
          => mirror'[j] \in {"done", "archived"}

LEMMA CompletedByKept ==
  ASSUME CompletedOK, \A j \in Jobs : CompletedKept(j)
  PROVE  CompletedOK'
BY DEF CompletedOK, CompletedKept

(* The row of finished work can only be archived. *)
LEMMA DoneStays ==
  ASSUME mirror \in [Jobs -> Mirrored], NEW j \in Jobs, NEW i \in Jobs, NEW new,
         mirror[j] \in {"done", "archived"},
         \/ SyncSubmission(i)
         \/ Syncs(i, new) /\ (new = "cancelled" \/ i # j)
         \/ SyncRaises(i, new)
         \/ Interfere(i, new)
  PROVE  mirror'[j] \in {"done", "archived"}
BY DEF SyncSubmission, Syncs, SyncRaises, Interfere, Moves, Legal, RowStatus,
       MayBeNoise

LEMMA CompletedSubmission ==
  ASSUME Base, Places, CompletedOK, NEW j \in Jobs, Submission(j)
  PROVE  CompletedOK'
<1> USE DEF histories, queueVars
<1>1. CASE SubmitRegister(j)
  <2>1. /\ UNCHANGED <<queued, mirror, phase, job>>
        /\ \A k \in Jobs : caller'[k] \in Early => caller[k] \in Early
    BY <1>1 DEF SubmitRegister, Early, Base, TypeOK
  <2>2. Register(j) \/ UNCHANGED monitorVars
    BY <1>1 DEF SubmitRegister
  <2>3. \A k \in Jobs : Has(k, "COMPLETED")' => Has(k, "COMPLETED")
    BY <2>2, RegisterSets DEF Has, monitorVars
  <2> QED
    BY <2>1, <2>3, CompletedByKept DEF CompletedKept
<1>2. CASE SubmitPut(j)
  <2>1. /\ UNCHANGED <<mirror, phase, job>>
        /\ caller[j] \in Early
        /\ queued' \subseteq queued \cup {j}
        /\ \A k \in Jobs : caller'[k] \in Early => caller[k] \in Early
    BY <1>2 DEF SubmitPut, Put, Early, Base, TypeOK
  <2>2. UpdateStatus(j, "FAILED") \/ UNCHANGED monitorVars
    BY <1>2 DEF SubmitPut
  <2>3. \A k \in Jobs : Has(k, "COMPLETED")' => Has(k, "COMPLETED")
    BY <2>2, UpdateSets DEF Has, monitorVars
  <2>4. ~Has(j, "COMPLETED")
    BY <2>1 DEF CompletedOK
  <2> QED
    BY <2>1, <2>3, <2>4, CompletedByKept DEF CompletedKept
<1>3. CASE SubmitMark(j) \/ SubmitSync(j)
  <2>1. /\ UNCHANGED <<queued, phase, job>>
        /\ \A k \in Jobs : caller'[k] \in Early => caller[k] \in Early
    BY <1>3 DEF SubmitMark, SubmitSync, Early, Base, TypeOK
  <2>2. UpdateStatus(j, "PENDING") \/ UNCHANGED monitorVars
    BY <1>3 DEF SubmitMark, SubmitSync
  <2>3. \A k \in Jobs : Has(k, "COMPLETED")' => Has(k, "COMPLETED")
    BY <2>2, UpdateSets DEF Has, monitorVars
  <2>4. ASSUME NEW k \in Jobs, mirror[k] \in {"done", "archived"}
        PROVE  mirror'[k] \in {"done", "archived"}
    BY <1>3, <2>4, DoneStays DEF SubmitMark, SubmitSync, Base, TypeOK
  <2> QED
    BY <2>1, <2>3, <2>4, CompletedByKept DEF CompletedKept
<1> QED
  BY <1>1, <1>2, <1>3 DEF Submission

LEMMA CompletedCancellation ==
  ASSUME Base, CompletedOK, NEW j \in Jobs, Cancellation(j)
  PROVE  CompletedOK'
<1>1. /\ UNCHANGED <<queued, caller, phase, job>>
      /\ UpdateStatus(j, "CANCELLED") \/ UNCHANGED monitorVars
      /\ UNCHANGED mirror \/ Syncs(j, "cancelled") \/ SyncRaises(j, "cancelled")
  BY DEF Cancellation, CancelCheck, CancelRemove, CancelMark, CancelSync,
         Remove, queueVars, histories
<1>2. \A k \in Jobs : Has(k, "COMPLETED")' => Has(k, "COMPLETED")
  BY <1>1, UpdateSets DEF Has, monitorVars
<1>3. ASSUME NEW k \in Jobs, mirror[k] \in {"done", "archived"}
      PROVE  mirror'[k] \in {"done", "archived"}
  BY <1>1, <1>3, DoneStays DEF Base, TypeOK
<1> QED
  BY <1>1, <1>2, <1>3, CompletedByKept DEF CompletedKept

LEMMA CompletedCollect ==
  ASSUME Base, Places, CompletedOK, NEW w \in Threads, Collect(w)
  PROVE  CompletedOK'
<1>0. PICK i \in Jobs : job[w] = i
  BY InHandIsJob DEF Collect, Base
<1>1. /\ \A v \in Threads : job[v] = i => v = w
      /\ i \notin queued /\ caller[i] \notin Early
  BY <1>0, ReflectionAssumption DEF Base, Places, OnePlace, EarlyIsNowhere
<1>2. /\ UNCHANGED <<queued, caller, mirror, job>>
      /\ \A v \in Threads : v # w => phase'[v] = phase[v]
      /\ phase'[w] \in {"completed", "retry", "failed"}
      /\ \A k \in known' \ {i} : k \in known /\ record'[k] = record[k]
  BY <1>0 DEF Collect, UpdateStatus, SetRecord, Goto, Base, TypeOK,
              BackgroundTypeOK, queueVars, monitorVars
<1>3. ASSUME NEW k \in Jobs, k # i
      PROVE  CompletedKept(k)
  BY <1>0, <1>1, <1>2, <1>3 DEF CompletedKept, Has
<1>4. CASE phase'[w] = "completed"
  BY <1>0, <1>1, <1>2, <1>3, <1>4 DEF CompletedOK, CompletedKept
<1>5. CASE phase'[w] # "completed"
  <2>1. \/ SetRecord(i, [status |-> "PENDING", retries |-> record[i].retries + 1])
        \/ UpdateStatus(i, "FAILED")
    BY <1>0, <1>5 DEF Collect, Goto, Base, TypeOK
  <2>2. ~Has(i, "COMPLETED")'
    BY <2>1 DEF Has, UpdateStatus, SetRecord, Base, TypeOK,
                BackgroundTypeOK, Records, monitorVars
  <2> QED
    BY <1>3, <2>2, CompletedByKept DEF CompletedKept
<1> QED
  BY <1>4, <1>5

LEMMA CompletedWork ==
  ASSUME Base, Places, CompletedOK, NEW w \in Threads, Work(w)
  PROVE  CompletedOK'
<1> USE DEF histories, queueVars
<1>1. ASSUME NEW j \in Jobs, Dequeue(w, j)
      PROVE  CompletedOK'
  <2>1. /\ UNCHANGED <<caller, mirror, monitorVars>>
        /\ j \in queued /\ queued' \subseteq queued
        /\ phase[w] = "idle"
        /\ job' = [job EXCEPT ![w] = j]
        /\ phase' = [phase EXCEPT ![w] = "taken"]
    BY <1>1 DEF Dequeue, Take, IsNext
  <2>2. ASSUME NEW k \in Jobs PROVE CompletedKept(k)
    <3>1. k = j => ~Has(k, "COMPLETED")
      BY <2>1 DEF CompletedOK
    <3> QED
      BY <2>1, <3>1 DEF CompletedKept, Has, monitorVars, Base, TypeOK
  <2> QED
    BY <2>2, CompletedByKept
<1>2. CASE Quit(w)
  <2>1. /\ UNCHANGED <<queued, caller, mirror, monitorVars, job>>
        /\ phase[w] = "idle"
        /\ phase' = [phase EXCEPT ![w] = "off"]
    BY <1>2 DEF Quit, Goto
  <2>2. \A k \in Jobs : CompletedKept(k)
    BY <2>1 DEF CompletedKept, Has, monitorVars, Base, TypeOK
  <2> QED
    BY <2>2, CompletedByKept
<1>3. CASE Collect(w)
  BY <1>3, CompletedCollect
<1>4. CASE phase[w] \notin {"off", "idle", "completed"} /\ ~Collect(w)
  <2>0. PICK i \in Jobs : job[w] = i /\ i # NoJob
    BY <1>4, InHandIsJob DEF Base
  <2>1. \A v \in Threads : job[v] = i => v = w
    BY <2>0 DEF Places, OnePlace
  <2>2. ~Has(i, "COMPLETED")
    BY <1>4, <2>0, <2>1 DEF CompletedOK
  <2>3. /\ UNCHANGED caller
        /\ queued' \subseteq queued \cup {i}
        /\ \A v \in Threads : v # w => job'[v] = job[v] /\ phase'[v] = phase[v]
        /\ job'[w] \in {i, NoJob}
    BY <1>4, <2>0
       DEF Work, Dequeue, Quit, FinishGet, Untrack, BeginJob, Delegate,
           LetGo, TimeOut, Requeue, Put, ReportCompleted, ReportFailed,
           Report, ReportCaught, Back, Goto, Base, TypeOK
  <2>4. \/ UNCHANGED monitorVars
        \/ \E s \in {"RUNNING", "FAILED"} : UpdateStatus(i, s)
    BY <1>4, <2>0
       DEF Work, Dequeue, Quit, FinishGet, BeginJob, Delegate, LetGo,
           TimeOut, Requeue, ReportCompleted, ReportFailed, Report,
           ReportCaught
  <2>5. \A k \in Jobs : Has(k, "COMPLETED")' => Has(k, "COMPLETED")
    BY <2>4, UpdateSets DEF Has, monitorVars
  <2>6. UNCHANGED mirror \/ \E new \in Statuses : Syncs(i, new) \/ SyncRaises(i, new)
    BY <1>4, <2>0
       DEF Work, Dequeue, Quit, FinishGet, BeginJob, Delegate, LetGo,
           TimeOut, Requeue, ReportCompleted, ReportFailed, Report,
           ReportCaught, Statuses
  <2>7. ASSUME NEW k \in Jobs, k # i, mirror[k] \in {"done", "archived"}
        PROVE  mirror'[k] \in {"done", "archived"}
    BY <2>6, <2>7, DoneStays DEF Base, TypeOK
  <2>8. ASSUME NEW k \in Jobs PROVE CompletedKept(k)
    BY <2>0, <2>1, <2>2, <2>3, <2>5, <2>7, ReflectionAssumption
       DEF CompletedKept
  <2> QED
    BY <2>8, CompletedByKept
<1>5. CASE phase[w] = "completed"
  <2>0. PICK i \in Jobs : job[w] = i /\ i # NoJob
    BY <1>5, InHandIsJob DEF Base
  <2>1. /\ \A v \in Threads : job[v] = i => v = w
        /\ i \notin queued /\ caller[i] \notin Early
    BY <2>0 DEF Places, OnePlace, EarlyIsNowhere
  <2>2. Report(w, "completed", "done")
    BY <1>5 DEF Work, Dequeue, Quit, FinishGet, BeginJob, Delegate, Collect, LetGo,
                TimeOut, Requeue, ReportCompleted, ReportFailed, Report,
                ReportCaught
  <2>3. /\ UNCHANGED <<queued, caller>>
        /\ \A v \in Threads : v # w => job'[v] = job[v] /\ phase'[v] = phase[v]
        /\ job'[w] \in {i, NoJob}
    BY <2>0, <2>2 DEF Report, Back, Goto, Base, TypeOK
  <2>4. CASE Syncs(i, "done") /\ Back(w) /\ UNCHANGED monitorVars
    <3>1. mirror' = [mirror EXCEPT ![i] = "done"] /\ job'[w] = NoJob
      BY <2>4 DEF Syncs, Back, Base, TypeOK
    <3>2. ASSUME NEW k \in Jobs, k # i PROVE CompletedKept(k)
      <4>1. mirror'[k] = mirror[k] /\ k # NoJob
        BY <3>1, <3>2, ReflectionAssumption DEF Base, TypeOK
      <4> QED
        BY <2>0, <2>3, <2>4, <3>1, <3>2, <4>1
           DEF CompletedKept, Has, monitorVars
    <3>3. mirror'[i] = "done" /\ \A v \in Threads : job'[v] # i
      BY <2>0, <2>1, <2>3, <3>1, ReflectionAssumption DEF Base, TypeOK
    <3> QED
      BY <2>1, <2>3, <3>2, <3>3 DEF CompletedOK, CompletedKept
  <2>5. CASE SyncRaises(i, "done") /\ UpdateStatus(i, "FAILED")
    <3>1. UNCHANGED mirror
      BY <2>5 DEF SyncRaises
    <3>2. /\ \A k \in Jobs : Has(k, "COMPLETED")' => Has(k, "COMPLETED")
          /\ ~Has(i, "COMPLETED")'
      BY <2>5, UpdateSets DEF Has
    <3>3. ASSUME NEW k \in Jobs PROVE CompletedKept(k)
      BY <2>0, <2>3, <3>1, <3>2, ReflectionAssumption DEF CompletedKept
    <3> QED
      BY <3>3, CompletedByKept
  <2> QED
    BY <2>0, <2>2, <2>4, <2>5 DEF Report
<1>6. phase[w] = "idle" /\ Work(w) => Quit(w) \/ \E j \in Jobs : Dequeue(w, j)
  BY DEF Work, FinishGet, BeginJob, Delegate, Collect, LetGo, TimeOut, Requeue,
         ReportCompleted, ReportFailed, Report, ReportCaught
<1>7. phase[w] # "off"
  BY DEF Work, Dequeue, Quit, FinishGet, BeginJob, Delegate, Collect, LetGo, TimeOut,
         Requeue, ReportCompleted, ReportFailed, Report, ReportCaught
<1> QED
  BY <1>1, <1>2, <1>3, <1>4, <1>5, <1>6, <1>7

LEMMA CompletedRest ==
  ASSUME Base, CompletedOK,
         \/ \E j \in Jobs : PoolBegins(j) \/ PoolEnds(j)
         \/ \E w \in Threads : StartWorker(w)
         \/ StopWorker \/ ShutDown \/ Housekeeping \/ UNCHANGED vars
  PROVE  CompletedOK'
<1>1. /\ UNCHANGED <<queued, caller, job, known, record>>
      /\ UNCHANGED phase
           \/ \E w \in Threads : phase[w] = "off" /\ phase' = [phase EXCEPT ![w] = "idle"]
  BY DEF PoolBegins, PoolEnds, StartWorker, StopWorker, ShutDown,
         Housekeeping, Cooldown, Goto, vars, queueVars, monitorVars, histories
<1>2. UNCHANGED mirror \/ \E i \in Jobs, new \in Targets : Interfere(i, new)
  BY ReflectionAssumption
     DEF PoolBegins, PoolEnds, StartWorker, StopWorker, ShutDown,
         Housekeeping, vars
<1>3. ASSUME NEW k \in Jobs, mirror[k] \in {"done", "archived"}
      PROVE  mirror'[k] \in {"done", "archived"}
  BY <1>2, <1>3, DoneStays DEF Base, TypeOK
<1>4. ASSUME NEW k \in Jobs PROVE CompletedKept(k)
  BY <1>1, <1>3 DEF CompletedKept, Has, Base, TypeOK
<1> QED
  BY <1>4, CompletedByKept

LEMMA CompletedNext ==
  ASSUME Base, Places, CompletedOK, [Next]_vars
  PROVE  CompletedOK'
BY CompletedSubmission, CompletedCancellation, CompletedWork, CompletedRest
   DEF Next

(* A job the monitor calls COMPLETED has a row that says done once its worker
   is through with it, whatever operators and cancellations do to the row: a
   refused transition turns the job into a FAILED one. *)
THEOREM CompletedAgreesHolds == Spec => []CompletedAgrees
<1>1. Init => CompletedOK
  BY DEF Init, BackgroundInit, CompletedOK, Has
<1>2. Base /\ Places /\ CompletedOK => CompletedAgrees
  BY DEF CompletedOK, CompletedAgrees, Has, Base, TypeOK, BackgroundTypeOK
<1> QED
  BY <1>1, <1>2, BaseInit, BaseNext, PlacesInit, PlacesNext, CompletedNext,
     PTL DEF Spec

(* What PendingIsQueued says of one job... *)
Cared(j) ==
  \/ j \in tracked
  \/ InHand(j, {"taken", "got", "retry"})
  \/ cancel[j] = "removed"

(* ... and what keeps it so: a caller that was not overtaken marks a job that
   is in the queue, and a cancelled job stays PENDING only until cancel_task
   says otherwise. *)
PendingOK ==
  \A j \in Jobs \ stray :
    /\ Has(j, "PENDING") /\ caller[j] # "registered" => Cared(j)
    /\ Has(j, "PENDING") /\ j \in flagged => cancel[j] = "removed"
    /\ caller[j] = "queued" => j \in tracked /\ j \in queued

(* This job keeps what PendingOK says. *)
PendingKept(j) ==
  j \notin stray' =>
    /\ j \notin stray
    /\ Has(j, "PENDING")' => Has(j, "PENDING")
    /\ caller'[j] # "registered" => caller[j] # "registered"
    /\ Has(j, "PENDING")' /\ Cared(j) => Cared(j)'
    /\ j \in flagged' => j \in flagged
    /\ Has(j, "PENDING")' /\ cancel[j] = "removed" => cancel'[j] = "removed"
    /\ caller'[j] = "queued" => caller[j] = "queued"
    /\ caller'[j] = "queued" /\ j \in tracked /\ j \in queued
         => j \in tracked' /\ j \in queued'

LEMMA PendingByKept ==
  ASSUME PendingOK, \A j \in Jobs : PendingKept(j)
  PROVE  PendingOK'
BY DEF PendingOK, PendingKept

LEMMA PendingSubmission ==
  ASSUME Base, Places, PendingOK, NEW j \in Jobs, Submission(j)
  PROVE  PendingOK'
<1> USE DEF histories, queueVars
<1>1. CASE SubmitRegister(j)
  <2>1. /\ UNCHANGED <<queued, tracked, flagged, cancel, phase, job, stray>>
        /\ caller[j] = "new"
        /\ caller'[j] \in {"registered", "refused"}
        /\ \A k \in Jobs : k # j => caller'[k] = caller[k]
        /\ caller'[j] = "refused" => UNCHANGED monitorVars
    BY <1>1 DEF SubmitRegister, Base, TypeOK
  <2>2. j \notin known /\ j \notin flagged
    BY <2>1 DEF Base, Unregistered, Places, EarlyIsNowhere, Early
  <2>3. Register(j) \/ UNCHANGED monitorVars
    BY <1>1 DEF SubmitRegister
  <2>4. \A k \in Jobs : k # j /\ Has(k, "PENDING")' => Has(k, "PENDING")
    BY <2>3, RegisterSets DEF Has, monitorVars
  <2>5. \A k \in Jobs : Cared(k)' = Cared(k)
    BY <2>1 DEF Cared, InHand
  <2>6. caller'[j] = "refused" => ~Has(j, "PENDING")'
    BY <2>1, <2>2 DEF Has, monitorVars
  <2> QED
    BY <2>1, <2>2, <2>4, <2>5, <2>6 DEF PendingOK
<1>2. CASE SubmitPut(j)
  <2>1. /\ UNCHANGED <<flagged, cancel, phase, job, stray>>
        /\ caller[j] = "registered"
        /\ caller'[j] \in {"queued", "refused"}
        /\ \A k \in Jobs : k # j => caller'[k] = caller[k]
        /\ \/ /\ caller'[j] = "queued" /\ UNCHANGED monitorVars
              /\ queued' = queued \cup {j} /\ tracked' = tracked \cup {j}
           \/ /\ caller'[j] = "refused" /\ UpdateStatus(j, "FAILED")
              /\ UNCHANGED <<queued, tracked>>
    BY <1>2 DEF SubmitPut, Put, Base, TypeOK
  <2>2. j \notin flagged
    BY <2>1 DEF Places, EarlyIsNowhere, Early
  <2>3. \A k \in Jobs : Has(k, "PENDING")' => Has(k, "PENDING")
    BY <2>1, UpdateSets DEF Has, monitorVars
  <2>4. caller'[j] = "refused" => ~Has(j, "PENDING")'
    BY <2>1, UpdateSets DEF Has
  <2>5. \A k \in Jobs : Cared(k) => Cared(k)'
    BY <2>1 DEF Cared, InHand
  <2>6. caller'[j] = "queued" => Cared(j)'
    BY <2>1 DEF Cared
  <2> QED
    BY <2>1, <2>2, <2>3, <2>4, <2>5, <2>6 DEF PendingOK
<1>3. CASE SubmitMark(j)
  <2>1. /\ UNCHANGED <<queued, tracked, flagged, cancel, phase, job, stray>>
        /\ caller[j] = "queued" /\ caller'[j] = "marked"
        /\ \A k \in Jobs : k # j => caller'[k] = caller[k]
        /\ UpdateStatus(j, "PENDING")
    BY <1>3 DEF SubmitMark, Base, TypeOK
  <2>2. \A k \in Jobs : k # j /\ Has(k, "PENDING")' => Has(k, "PENDING")
    BY <2>1, UpdateSets DEF Has
  <2>3. j \notin stray => j \in tracked /\ j \notin flagged
    BY <2>1 DEF PendingOK, Places, IndexOK
  <2>4. \A k \in Jobs : Cared(k)' = Cared(k)
    BY <2>1 DEF Cared, InHand
  <2> QED
    BY <2>1, <2>2, <2>3, <2>4 DEF PendingOK, Cared
<1>4. CASE SubmitSync(j)
  <2>1. /\ UNCHANGED <<queued, tracked, flagged, cancel, phase, job, stray,
                       monitorVars>>
        /\ \A k \in Jobs : caller'[k] \in {caller[k], "returned"}
        /\ caller[j] = "marked"
        /\ \A k \in Jobs : k # j => caller'[k] = caller[k]
    BY <1>4 DEF SubmitSync, Base, TypeOK
  <2>2. \A k \in Jobs : PendingKept(k)
    BY <2>1 DEF PendingKept, Cared, InHand, Has, monitorVars
  <2> QED
    BY <2>2, PendingByKept
<1> QED
  BY <1>1, <1>2, <1>3, <1>4 DEF Submission

LEMMA PendingCancellation ==
  ASSUME Base, Places, PendingOK, NEW j \in Jobs, Cancellation(j)
  PROVE  PendingOK'
<1> USE DEF histories, queueVars
<1>1. CASE CancelCheck(j) \/ CancelSync(j)
  <2>1. /\ UNCHANGED <<queued, tracked, flagged, caller, phase, job, stray,
                       monitorVars>>
        /\ cancel[j] # "removed"
        /\ \A k \in Jobs : k # j => cancel'[k] = cancel[k]
    BY <1>1 DEF CancelCheck, CancelSync, Base, TypeOK
  <2>2. \A k \in Jobs : PendingKept(k)
    BY <2>1 DEF PendingKept, Cared, InHand, Has, monitorVars
  <2> QED
    BY <2>2, PendingByKept
<1>2. CASE CancelRemove(j)
  <2>1. /\ UNCHANGED <<queued, caller, phase, job, monitorVars>>
        /\ cancel[j] = "checked"
        /\ \A k \in Jobs : k # j => cancel'[k] = cancel[k]
    BY <1>2 DEF CancelRemove, Remove, Base, TypeOK
  <2>2. CASE Remove(j) /\ Outruns(j) /\ cancel' = [cancel EXCEPT ![j] = "removed"]
    <3>1. /\ tracked' = tracked \ {j} /\ flagged' = flagged \cup {j}
          /\ cancel'[j] = "removed"
          /\ stray \subseteq stray' /\ stray' \subseteq stray \cup {j}
          /\ caller[j] = "queued" => j \in stray'
      BY <2>2 DEF Remove, Outruns, Base, TypeOK
    <3>2. \A k \in Jobs : Cared(k) => Cared(k)'
      BY <2>1, <3>1 DEF Cared, InHand
    <3>3. \A k \in Jobs : Has(k, "PENDING")' => Has(k, "PENDING")
      BY <2>1 DEF Has, monitorVars
    <3> QED
      BY <2>1, <3>1, <3>2, <3>3 DEF PendingOK
  <2>3. CASE cancel' = [cancel EXCEPT ![j] = "none"] /\ UNCHANGED <<queueVars, stray>>
    <3>1. \A k \in Jobs : PendingKept(k)
      BY <2>1, <2>3 DEF PendingKept, Cared, InHand, Has, monitorVars
    <3> QED
      BY <3>1, PendingByKept
  <2> QED
    BY <1>2, <2>2, <2>3 DEF CancelRemove
<1>3. CASE CancelMark(j)
  <2>1. /\ UNCHANGED <<queued, tracked, flagged, caller, phase, job, stray>>
        /\ UpdateStatus(j, "CANCELLED")
        /\ \A k \in Jobs : k # j => cancel'[k] = cancel[k]
    BY <1>3 DEF CancelMark, Base, TypeOK
  <2>2. /\ \A k \in Jobs : Has(k, "PENDING")' => Has(k, "PENDING")
        /\ ~Has(j, "PENDING")'
    BY <2>1, UpdateSets DEF Has
  <2>3. \A k \in Jobs : PendingKept(k)
    BY <2>1, <2>2 DEF PendingKept, Cared, InHand
  <2> QED
    BY <2>3, PendingByKept
<1> QED
  BY <1>1, <1>2, <1>3 DEF Cancellation

LEMMA PendingWork ==
  ASSUME Base, Places, PendingOK, NEW w \in Threads, Work(w)
  PROVE  PendingOK'
<1> USE DEF histories, queueVars
<1>1. ASSUME NEW j \in Jobs, Dequeue(w, j)
      PROVE  PendingOK'
  <2>1. /\ UNCHANGED <<caller, cancel, flagged, tracked, monitorVars>>
        /\ j \in queued /\ queued' = queued \ {j}
        /\ phase[w] = "idle" /\ job[w] = NoJob
        /\ job' = [job EXCEPT ![w] = j]
        /\ phase' = [phase EXCEPT ![w] = "taken"]
        /\ stray \subseteq stray'
        /\ caller[j] = "queued" => j \in stray'
    BY <1>1 DEF Dequeue, Take, IsNext, Outruns, Base, TypeOK
  <2>2. \A k \in Jobs : Cared(k) => Cared(k)'
    BY <2>1 DEF Cared, InHand, Base, TypeOK
  <2>3. \A k \in Jobs : PendingKept(k)
    BY <2>1, <2>2 DEF PendingKept, Has, monitorVars
  <2> QED
    BY <2>3, PendingByKept
<1>2. CASE Quit(w)
  <2>1. /\ UNCHANGED <<caller, cancel, queued, flagged, tracked, monitorVars,
                       job, stray>>
        /\ phase[w] = "idle" /\ phase' = [phase EXCEPT ![w] = "off"]
    BY <1>2 DEF Quit, Goto
  <2>2. \A k \in Jobs : Cared(k) => Cared(k)'
    BY <2>1 DEF Cared, InHand, Base, TypeOK
  <2>3. \A k \in Jobs : PendingKept(k)
    BY <2>1, <2>2 DEF PendingKept, Has, monitorVars
  <2> QED
    BY <2>3, PendingByKept
<1>3. CASE phase[w] \notin {"off", "idle"}
  <2>0. PICK i \in Jobs : job[w] = i /\ i # NoJob
    BY <1>3, InHandIsJob DEF Base
  <2>1. \A v \in Threads : job[v] = i => v = w
    BY <2>0 DEF Places, OnePlace
  <2>2. i \notin queued
    BY <2>0 DEF Places, OnePlace
  <2>3. /\ UNCHANGED <<caller, cancel, flagged>>
        /\ stray \subseteq stray'
        /\ \A v \in Threads : v # w => job'[v] = job[v] /\ phase'[v] = phase[v]
        /\ \A k \in Jobs \ {i} : k \in tracked => k \in tracked'
        /\ \A k \in Jobs \ {i} : k \in queued => k \in queued'
    BY <1>3, <2>0
       DEF Work, Dequeue, Quit, FinishGet, Untrack, BeginJob, Delegate,
           Collect, LetGo, TimeOut, Requeue, Put, ReportCompleted, ReportFailed,
           Report, ReportCaught, Back, Goto, Base, TypeOK
  <2>4. ASSUME NEW k \in Jobs, k # i
        PROVE  k \in known' => k \in known /\ record'[k] = record[k]
    BY <1>3, <2>0, <2>4
       DEF Work, Dequeue, Quit, FinishGet, BeginJob, Delegate, Collect, LetGo,
           TimeOut, Requeue, ReportCompleted, ReportFailed, Report,
           ReportCaught, UpdateStatus, SetRecord, monitorVars, Base, TypeOK,
           BackgroundTypeOK
  <2>5. ASSUME NEW k \in Jobs, k # i
        PROVE  PendingKept(k)
    <3>1. Cared(k) => Cared(k)'
      BY <2>0, <2>3, <2>5 DEF Cared, InHand
    <3> QED
      BY <2>3, <2>4, <2>5, <3>1 DEF PendingKept, Has
  <2>6. ASSUME i \notin stray'
        PROVE  /\ Has(i, "PENDING")' /\ caller'[i] # "registered" => Cared(i)'
               /\ Has(i, "PENDING")' /\ i \in flagged' => cancel'[i] = "removed"
               /\ caller'[i] # "queued"
    <3>0. i \notin stray /\ caller'[i] # "queued"
      BY <2>2, <2>3, <2>6 DEF PendingOK
    <3>1. CASE FinishGet(w)
      <4>1. Has(i, "PENDING")' => Has(i, "PENDING")
        BY <3>1 DEF FinishGet, Has, monitorVars
      <4>2. Cared(i)'
        BY <2>0, <3>1 DEF FinishGet, Goto, Cared, InHand, Base, TypeOK
      <4> QED
        BY <2>3, <3>0, <4>1, <4>2 DEF PendingOK
    <3>2. CASE Collect(w) /\ phase'[w] = "retry"
      <4>1. Cared(i)' /\ i \notin flagged
        BY <2>0, <3>2
           DEF Collect, Goto, Cared, InHand, Places, IndexOK, Chosen
      <4> QED
        BY <2>3, <3>0, <4>1
    <3>3. CASE Requeue(w)
      <4>1. i \in tracked'
        BY <2>0, <2>6, <3>3 DEF Requeue, Put
      <4>2. Has(i, "PENDING")' => Has(i, "PENDING")
        BY <3>3 DEF Requeue, Has, monitorVars
      <4> QED
        BY <2>3, <3>0, <4>1, <4>2 DEF PendingOK, Cared
    <3>4. CASE \E s \in {"RUNNING", "COMPLETED", "FAILED"} : UpdateStatus(i, s)
      <4>1. ~Has(i, "PENDING")'
        BY <3>4, UpdateSets DEF Has
      <4> QED
        BY <3>0, <4>1
    <3>5. CASE /\ UNCHANGED <<monitorVars, tracked>>
               /\ phase[w] \in {"got", "started", "completed", "failed", "caught"}
               /\ phase[w] = "got" => i \in flagged
      <4>1. Has(i, "PENDING")' => Has(i, "PENDING")
        BY <3>5 DEF Has, monitorVars
      <4>2. Cared(i) /\ phase[w] # "got" => i \in tracked \/ cancel[i] = "removed"
        BY <2>0, <2>1, <3>5 DEF Cared, InHand
      <4>3. i \in tracked \/ cancel[i] = "removed" => Cared(i)'
        BY <2>3, <3>5 DEF Cared
      <4> QED
        BY <2>3, <3>0, <3>5, <4>1, <4>2, <4>3 DEF PendingOK
    <3>6. CASE LetGo(w)
      <4>1. ~Has(i, "PENDING")'
        BY <2>0, <3>6 DEF LetGo, Has, monitorVars
      <4> QED
        BY <3>0, <4>1
    <3>7. \/ FinishGet(w) \/ (Collect(w) /\ phase'[w] = "retry") \/ Requeue(w)
          \/ LetGo(w)
          \/ \E s \in {"RUNNING", "COMPLETED", "FAILED"} : UpdateStatus(i, s)
          \/ /\ UNCHANGED <<monitorVars, tracked>>
             /\ phase[w] \in {"got", "started", "completed", "failed", "caught"}
             /\ phase[w] = "got" => i \in flagged
      BY <1>3, <2>0
         DEF Work, Dequeue, Quit, BeginJob, Delegate, Collect, LetGo, TimeOut,
             ReportCompleted, ReportFailed, Report, ReportCaught, Goto, Base,
             TypeOK
    <3> QED
      BY <3>1, <3>2, <3>3, <3>4, <3>5, <3>6, <3>7
  <2> QED
    BY <2>5, <2>6 DEF PendingOK, PendingKept
<1>4. phase[w] = "idle" => Quit(w) \/ \E j \in Jobs : Dequeue(w, j)
  BY DEF Work, FinishGet, BeginJob, Delegate, Collect, LetGo, TimeOut, Requeue,
         ReportCompleted, ReportFailed, Report, ReportCaught
<1>5. phase[w] # "off"
  BY DEF Work, Dequeue, Quit, FinishGet, BeginJob, Delegate, Collect, LetGo, TimeOut,
         Requeue, ReportCompleted, ReportFailed, Report, ReportCaught
<1> QED
  BY <1>1, <1>2, <1>3, <1>4, <1>5

LEMMA PendingRest ==
  ASSUME Base, PendingOK,
         \/ \E j \in Jobs : PoolBegins(j) \/ PoolEnds(j)
         \/ \E w \in Threads : StartWorker(w)
         \/ StopWorker \/ ShutDown \/ Housekeeping \/ UNCHANGED vars
  PROVE  PendingOK'
<1>1. /\ UNCHANGED <<queued, tracked, flagged, caller, cancel, job, known,
                     record, stray>>
      /\ UNCHANGED phase
           \/ \E w \in Threads : phase[w] = "off" /\ phase' = [phase EXCEPT ![w] = "idle"]
  BY DEF PoolBegins, PoolEnds, StartWorker, StopWorker, ShutDown,
         Housekeeping, Cooldown, Goto, vars, queueVars, monitorVars, histories
<1>2. \A k \in Jobs : Cared(k) => Cared(k)'
  BY <1>1 DEF Cared, InHand, Base, TypeOK
<1>3. \A k \in Jobs : PendingKept(k)
  BY <1>1, <1>2 DEF PendingKept, Has
<1> QED
  BY <1>3, PendingByKept

LEMMA PendingNext ==
  ASSUME Base, Places, PendingOK, [Next]_vars
  PROVE  PendingOK'
BY PendingSubmission, PendingCancellation, PendingWork, PendingRest DEF Next

(* A record that says PENDING is that of a job that will be executed, but for
   the two ways in which the code leaves one behind. *)
THEOREM PendingHolds == Spec => []PendingIsQueued
<1>1. Init => PendingOK
  BY DEF Init, BackgroundInit, PendingOK, Has
<1>2. Base /\ PendingOK => PendingIsQueued
  BY DEF PendingOK, PendingIsQueued, Cared, Has, Base, TypeOK,
         BackgroundTypeOK
<1> QED
  BY <1>1, <1>2, BaseInit, BaseNext, PlacesInit, PlacesNext, PendingNext,
     PTL DEF Spec
=============================================================================
