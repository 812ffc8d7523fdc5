--------------------- MODULE MissionDecompositionProofs ---------------------
(***************************************************************************)
(* Theorems about the creation of tasks by key and the decomposition of a  *)
(* mission, for every number of processes, every plan and any mishaps.     *)
(***************************************************************************)
EXTENDS MissionDecomposition, TLAPS, FiniteSetTheorems, SequenceTheorems

-----------------------------------------------------------------------------
(* Types, with what a call and a decomposition carry.                      *)

RowStatuses == {"absent", "deleted", "assignment_pending"} \cup Dispatched
Living == RowStatuses \ {"absent", "deleted"}
Rows == [status : RowStatuses, deps : SUBSET Tasks]

(* A row has been written for t, and may have been deleted since. *)
Made(t) == row[t].status # "absent"

(* Places of a call; Within are those inside the lock, if it is inside. *)
Within == {"log", "heedLog", "shared", "heedShared", "write", "record",
           "share", "leave", "unlock"}
Places == Within \cup {"out", "lock", "answer", "routed"}
CreateCalls == [at : Places, key : Resources \cup {NoOne}, inside : BOOLEAN,
                task : Entries, copy : Rows]

CallOK(p) ==
  /\ create[p] \in CreateCalls
  /\ create[p].at # "out" => create[p].key \in Resources
  /\ create[p].task # NoTask =>
       create[p].task \in Tasks /\ KeyOf(create[p].task) = create[p].key
         /\ Made(create[p].task)
  /\ create[p].at \in {"heedLog", "heedShared", "record", "share", "routed"}
       => create[p].task # NoTask
  /\ create[p].at \in {"write", "record", "share", "leave", "unlock"}
       => create[p].inside

EntryOK(k, t) == t # NoTask => t \in Tasks /\ KeyOf(t) = k /\ Made(t)

Steps == 1..Len(Plan)
Missions == [ids : Seq(Tasks), done : BOOLEAN]

(* The ids a mission has begin with those of its first decomposition. *)
MissionOK(m) ==
  /\ m \in Missions
  /\ \A i \in 1..Len(m.ids) : Made(m.ids[i])
  /\ m.ids # <<>> => Len(m.ids) >= Len(Plan)
                     /\ \A i \in Steps : KeyOf(m.ids[i]) = Plan[i]

Jobs == [at : {"awaiting", "creating", "linking", "finishing"}, held : Missions,
         ids : Seq(Tasks), link : Nat]

JobShape(p) ==
  /\ job[p] \in Jobs
  /\ MissionOK(job[p].held)
  /\ Len(job[p].ids) <= Len(Plan)
  /\ \A i \in 1..Len(job[p].ids) :
       /\ KeyOf(job[p].ids[i]) = Plan[i]
       /\ Made(job[p].ids[i])
  /\ ~In(p, "out") => /\ Doing(p, "creating")
                      /\ Len(job[p].ids) < Len(Plan)
                      /\ create[p].key = Plan[Len(job[p].ids) + 1]
  /\ Doing(p, "awaiting") => job[p].ids = <<>>
  /\ job[p].at \in {"awaiting", "creating"} => job[p].link = 1
  /\ job[p].at \in {"linking", "finishing"} => Len(job[p].ids) = Len(Plan)
  /\ Doing(p, "linking") => job[p].link \in Steps

JobOK(p) == (job[p] = Resting /\ In(p, "out")) \/ JobShape(p)

RowsOK ==
  /\ row \in [Tasks -> Rows]
  /\ log \in [Resources -> Entries]
  /\ shared \in [Resources -> Entries]
  /\ \A k \in Resources : EntryOK(k, log[k]) /\ EntryOK(k, shared[k])

DeletingOK ==
  \/ deleting = NotDeleting
  \/ /\ deleting \in [task : Tasks, at : {"shared", "log"}]
     /\ mishaps["deletion"] > 0

ProcessOK(p) == CallOK(p) /\ JobOK(p)

Shapes ==
  /\ LockTypeOK
  /\ RowsOK
  /\ DeletingOK
  /\ MissionOK(mission)
  /\ DOMAIN create = Processes
  /\ DOMAIN job = Processes
  /\ create = [p \in Processes |-> create[p]]
  /\ job = [p \in Processes |-> job[p]]
  /\ \A p \in Processes : ProcessOK(p)
  /\ requests \in Nat

(* Rows are made and never unmade. *)
Grows == \A t \in Tasks : Made(t) => Made(t)'

LEMMA TaskKey ==
  /\ \A t \in Tasks : KeyOf(t) \in Resources
  /\ \A k \in Resources, n \in 1..MaxCopies : <<k, n>> \in Tasks /\ KeyOf(<<k, n>>) = k
BY DEF Tasks, KeyOf

LEMMA NoTaskIsNone == NoTask \notin Tasks
BY CreationAssumption

LEMMA ProcessIsOne == NoOne \notin Processes /\ Gone \notin Processes /\ Gone # NoOne
BY LockAssumption

(* What a process that does not move carries stays as it is. *)
LEMMA Bystander ==
  ASSUME Shapes, Grows, NEW q \in Processes, create'[q] = create[q], job'[q] = job[q]
  PROVE  ProcessOK(q)'
<1>1. CallOK(q)'
  BY DEF Shapes, ProcessOK, CallOK, Grows
<1>2. JobOK(q)'
  <2>1. CASE job[q] = Resting /\ In(q, "out")
    BY <2>1 DEF JobOK, In
  <2>2. CASE JobShape(q)
    <3>1. \A i \in 1..Len(job[q].ids) : job[q].ids[i] \in Tasks
      BY <2>2 DEF JobShape, Jobs
    <3>2. job[q].held.ids \in Seq(Tasks) /\ MissionOK(job[q].held)'
      BY <2>2 DEF JobShape, MissionOK, Missions, Grows
    <3> QED
      BY <2>2, <3>1, <3>2 DEF JobOK, JobShape, In, Doing, Grows
  <2> QED
    BY <2>1, <2>2 DEF Shapes, ProcessOK, JobOK
<1> QED
  BY <1>1, <1>2 DEF ProcessOK

LEMMA MissionStays ==
  ASSUME NEW m, MissionOK(m), Grows
  PROVE  MissionOK(m)'
BY DEF MissionOK, Missions, Grows

(* One process moves. *)
LEMMA ShapesStep ==
  ASSUME Shapes, Grows, NEW p \in Processes,
         LockTypeOK', RowsOK', DeletingOK', MissionOK(mission)', ProcessOK(p)',
         NEW c, create' = [create EXCEPT ![p] = c],
         NEW j, job' = [job EXCEPT ![p] = j],
         requests' \in Nat
  PROVE  Shapes'
<1>1. ASSUME NEW q \in Processes, q # p
      PROVE  ProcessOK(q)'
  BY <1>1, Bystander DEF Shapes
<1>2. \A q \in Processes : ProcessOK(q)'
  BY <1>1
<1> QED
  BY <1>2 DEF Shapes

LEMMA RowsStay ==
  ASSUME RowsOK, UNCHANGED <<row, log, shared>>
  PROVE  RowsOK' /\ Grows
BY DEF RowsOK, EntryOK, Made, Grows

(* A call goes on. *)
LEMMA CallStep ==
  ASSUME Shapes, Grows, NEW p \in Processes, ~In(p, "out"),
         create' = [create EXCEPT ![p] = create'[p]],
         create'[p].at # "out", create'[p].key = create[p].key, CallOK(p)',
         LockTypeOK', RowsOK', UNCHANGED <<deleting, mission, job, requests>>,
         mishaps'["deletion"] = mishaps["deletion"]
  PROVE  Shapes'
<1>1. MissionOK(mission)'
  BY MissionStays DEF Shapes
<1>2. JobShape(p)
  BY DEF Shapes, ProcessOK, JobOK
<1>3. JobOK(p)'
  <2>1. \A i \in 1..Len(job[p].ids) : job[p].ids[i] \in Tasks
    BY <1>2 DEF JobShape, Jobs
  <2>2. MissionOK(job[p].held)'
    BY <1>2, MissionStays DEF JobShape
  <2> QED
    BY <1>2, <2>1, <2>2 DEF JobOK, JobShape, In, Doing, Grows
<1>4. job' = [job EXCEPT ![p] = job[p]]
  BY DEF Shapes
<1> QED
  BY <1>1, <1>3, <1>4, ShapesStep DEF Shapes, DeletingOK, ProcessOK

LEMMA Moved ==
  ASSUME Shapes, NEW p \in Processes, NEW c, create' = [create EXCEPT ![p] = c]
  PROVE  create'[p] = c /\ create' = [create EXCEPT ![p] = create'[p]]
BY DEF Shapes

LEMMA InShape ==
  ASSUME Shapes, NEW p \in Processes
  PROVE  /\ CallOK(p)
         /\ create[p].at # "out" => create[p].key \in Resources
         /\ create[p].task \in Entries /\ create[p].copy \in Rows
         /\ p \in DOMAIN create
BY DEF Shapes, ProcessOK, CallOK, CreateCalls

LEMMA ShapesLookup ==
  ASSUME Shapes, NEW p \in Processes,
         ReadLog(p) \/ HeedLog(p) \/ ReadShared(p) \/ HeedShared(p),
         UNCHANGED <<mission, job, requests>>
  PROVE  Shapes' /\ Grows
<1> USE InShape
<1> DEFINE k == create[p].key
<1>0. k \in Resources /\ ~In(p, "out") /\ LockTypeOK' /\ row' = row /\ deleting' = deleting
      /\ mishaps' = mishaps
  BY DEF ReadLog, HeedLog, ReadShared, HeedShared, In, lockVars, Shapes, LockTypeOK
<1>1. Grows
  BY <1>0 DEF Grows, Made
<1>2. RowsOK'
  BY <1>0 DEF ReadLog, HeedLog, ReadShared, HeedShared, Shapes, RowsOK, EntryOK, Made,
              Entries
<1>3. \A t \in Tasks : row[t] \in Rows
  BY DEF Shapes, RowsOK
<1>4. /\ create' = [create EXCEPT ![p] = create'[p]]
      /\ create'[p].at # "out" /\ create'[p].key = k
  BY Moved DEF ReadLog, HeedLog, ReadShared, HeedShared, Answer, NextLookup, CallOK, CreateCalls, Places, Within
<1>5. CallOK(p)'
  <2>1. CASE ReadLog(p)
    <3>1. EntryOK(k, log[k]) /\ log[k] \in Entries
      BY <1>0 DEF Shapes, RowsOK
    <3> QED
      BY <1>0, <2>1, <3>1
         DEF ReadLog, CallOK, CreateCalls, EntryOK, Places, Within, Made, In
  <2>2. CASE HeedLog(p)
    BY <1>0, <1>3, <2>2
       DEF HeedLog, Answer, CallOK, CreateCalls, Places, Within, Made, Entries, In
  <2>3. CASE ReadShared(p)
    <3>1. EntryOK(k, shared[k]) /\ shared[k] \in Entries
      BY <1>0 DEF Shapes, RowsOK
    <3> QED
      BY <1>0, <2>3, <3>1
         DEF ReadShared, NextLookup, CallOK, CreateCalls, EntryOK, Places, Within, Made,
             Entries, In
  <2>4. CASE HeedShared(p)
    BY <1>0, <1>3, <2>4
       DEF HeedShared, Answer, NextLookup, CallOK, CreateCalls, Places, Within, Made,
           Entries, In
  <2> QED
    BY <2>1, <2>2, <2>3, <2>4
<1> QED
  BY <1>0, <1>1, <1>2, <1>4, <1>5, CallStep

LEMMA ShapesLocking ==
  ASSUME Shapes, NEW p \in Processes,
         Enter(p) \/ Leave(p) \/ Unlock(p),
         UNCHANGED <<mission, job, requests>>
  PROVE  Shapes' /\ Grows
<1> USE InShape
<1> DEFINE k == create[p].key
<1>0. /\ k \in Resources /\ ~In(p, "out") /\ UNCHANGED <<row, log, shared, deleting>>
      /\ mishaps'["deletion"] = mishaps["deletion"]
  BY DEF Enter, Leave, Unlock, In, lockVars, Acquire, Happens, Free, Shapes, LockTypeOK,
         MishapKinds
<1>1. RowsOK' /\ Grows
  BY <1>0, RowsStay DEF Shapes
<1>2. LockTypeOK'
  BY <1>0 DEF Enter, Leave, Unlock, lockVars, Acquire, Happens, Free, Shapes, LockTypeOK,
              MishapKinds
<1>3. /\ create' = [create EXCEPT ![p] = create'[p]]
      /\ create'[p].at # "out" /\ create'[p].key = k
  BY Moved DEF Enter, Leave, Unlock, Go, IsMine, CallOK, CreateCalls, Places, Within
<1>4. CallOK(p)'
  BY <1>0 DEF Enter, Leave, Unlock, Go, IsMine, CallOK, CreateCalls, Places, Within, Made,
              In
<1> QED
  BY <1>0, <1>1, <1>2, <1>3, <1>4, CallStep

LEMMA ShapesWrites ==
  ASSUME Shapes, NEW p \in Processes,
         WriteRow(p) \/ Record(p) \/ Share(p) \/ Route(p),
         UNCHANGED <<mission, job, requests>>
  PROVE  Shapes' /\ Grows
<1> USE InShape
<1> DEFINE k == create[p].key
           t == create[p].task
<1>0. /\ k \in Resources /\ ~In(p, "out") /\ deleting' = deleting
      /\ mishaps'["deletion"] = mishaps["deletion"] /\ LockTypeOK'
  <2>1. owner' = owner /\ deleting' = deleting /\ create[p].at # "out"
        /\ (mishaps' = mishaps \/ mishaps' = [mishaps EXCEPT !["unlogged"] = @ + 1])
    BY DEF WriteRow, Record, Share, Route, In, lockVars, Happens
  <2>2. mishaps' \in [MishapKinds -> Nat] /\ mishaps'["deletion"] = mishaps["deletion"]
    BY <2>1 DEF Shapes, LockTypeOK, MishapKinds
  <2> QED
    BY <2>1, <2>2 DEF In, Shapes, LockTypeOK
<1>1. /\ create' = [create EXCEPT ![p] = create'[p]]
      /\ create'[p].at # "out" /\ create'[p].key = k
  <2>1. \A s \in Places : Go(p, s) /\ s # "out" =>
          /\ create' = [create EXCEPT ![p] = create'[p]]
          /\ create'[p].at # "out" /\ create'[p].key = k
    <3>1. ASSUME NEW s \in Places, Go(p, s), s # "out"
          PROVE  /\ create' = [create EXCEPT ![p] = create'[p]]
                 /\ create'[p].at # "out" /\ create'[p].key = k
      <4>1. PICK c : c = [create[p] EXCEPT !.at = s]
        OBVIOUS
      <4>2. create' = [create EXCEPT ![p] = c]
        BY <3>1, <4>1 DEF Go
      <4>3. c.at = s /\ c.key = k
        BY <4>1 DEF CallOK, CreateCalls
      <4> QED
        BY <3>1, <4>2, <4>3, Moved
    <3> QED
      BY <3>1
  <2>2. CASE WriteRow(p)
    <3>1. ASSUME NEW u, create' = [create EXCEPT ![p].task = u, ![p].copy = NewRow,
                                                 ![p].at = "record"]
          PROVE  /\ create' = [create EXCEPT ![p] = create'[p]]
                 /\ create'[p].at # "out" /\ create'[p].key = k
      <4>1. PICK c : c = [create[p] EXCEPT !.task = u, !.copy = NewRow, !.at = "record"]
        OBVIOUS
      <4>2. create' = [create EXCEPT ![p] = c]
        BY <3>1, <4>1
      <4>3. c.at = "record" /\ c.key = k
        BY <4>1 DEF CallOK, CreateCalls
      <4> QED
        BY <4>2, <4>3, Moved
    <3>2. CASE Go(p, "leave")
      BY <2>1, <3>2 DEF Places, Within
    <3> QED
      BY <2>2, <3>1, <3>2 DEF WriteRow
  <2> QED
    BY <2>1, <2>2 DEF Record, Share, Route, Places, Within
<1>2. RowsOK' /\ Grows /\ CallOK(p)'
  <2>1. ASSUME NEW n \in 1..MaxCopies, row[<<k, n>>].status = "absent",
               row' = [row EXCEPT ![<<k, n>>] = NewRow],
               create' = [create EXCEPT ![p].task = <<k, n>>, ![p].copy = NewRow,
                                        ![p].at = "record"],
               In(p, "write"), UNCHANGED <<log, shared>>
        PROVE  RowsOK' /\ Grows /\ CallOK(p)'
    <3>1. PICK u : u = <<k, n>>
      OBVIOUS
    <3>2. u \in Tasks /\ KeyOf(u) = k
      BY <1>0, <3>1, TaskKey
    <3>3. NewRow \in Rows
      BY DEF NewRow, Rows, RowStatuses
    <3>4. row' = [row EXCEPT ![u] = NewRow] /\ NewRow.status # "absent"
      BY <2>1, <3>1 DEF NewRow
    <3>6. row \in [Tasks -> Rows] /\ row' \in [Tasks -> Rows]
      BY <3>2, <3>3, <3>4 DEF Shapes, RowsOK
    <3>7. Grows /\ Made(u)'
      BY <3>2, <3>4, <3>6 DEF Made, Grows
    <3>5. RowsOK' /\ Grows /\ Made(u)'
      BY <2>1, <3>6, <3>7 DEF Shapes, RowsOK, EntryOK, Grows
    <3> QED
      BY <1>0, <2>1, <3>1, <3>2, <3>3, <3>5, NoTaskIsNone
         DEF CallOK, CreateCalls, Places, Within, In, Entries
  <2>2. CASE In(p, "write") /\ Go(p, "leave") /\ UNCHANGED <<row, log, shared>>
    BY <2>2, RowsStay
       DEF Shapes, CallOK, CreateCalls, Places, Within, In, Go, Made
  <2>3. CASE Record(p)
    <3>1. t \in Tasks /\ KeyOf(t) = k /\ Made(t)
      BY <2>3 DEF Record, In, CallOK
    <3>2. RowsOK' /\ Grows
      BY <1>0, <2>3, <3>1 DEF Record, Shapes, RowsOK, EntryOK, Made, Grows, Entries
    <3> QED
      BY <2>3, <3>2 DEF Record, CallOK, CreateCalls, Places, Within, In, Go, Made
  <2>4. CASE Share(p)
    <3>1. t \in Tasks /\ KeyOf(t) = k /\ Made(t)
      BY <2>4 DEF Share, In, CallOK
    <3>2. RowsOK' /\ Grows
      BY <1>0, <2>4, <3>1 DEF Share, Shapes, RowsOK, EntryOK, Made, Grows, Entries
    <3> QED
      BY <2>4, <3>2 DEF Share, CallOK, CreateCalls, Places, Within, In, Go, Made
  <2>5. CASE Route(p)
    <3>1. t \in Tasks /\ KeyOf(t) = k /\ Made(t)
      BY <2>5 DEF Route, CallOK
    <3>2. [create[p].copy EXCEPT !.status = "queued"] \in Rows
      BY DEF Rows, RowStatuses, Dispatched
    <3>3. [create[p].copy EXCEPT !.status = "queued"].status = "queued"
      BY DEF Rows
    <3>4. RowsOK' /\ Grows
      BY <1>0, <2>5, <3>1, <3>2, <3>3 DEF Route, Shapes, RowsOK, EntryOK, Made, Grows
    <3> QED
      BY <2>5, <3>1, <3>4, NoTaskIsNone
         DEF Route, CallOK, CreateCalls, Places, Within, In, Go, Grows
  <2> QED
    BY <2>1, <2>2, <2>3, <2>4, <2>5 DEF WriteRow
<1> QED
  BY <1>0, <1>1, <1>2, CallStep

(* What a decomposition is about. *)
LEMMA JobKinds ==
  ASSUME Shapes, NEW p \in Processes
  PROVE  /\ job[p] = Resting => In(p, "out") /\ ~JobShape(p)
         /\ job[p] # Resting => JobShape(p)
         /\ ~In(p, "out") => JobShape(p)
         /\ JobShape(p) => job[p] # Resting
         /\ \A s \in {"awaiting", "creating", "linking", "finishing"} :
              Doing(p, s) => JobShape(p)
<1>1. JobOK(p)
  BY DEF Shapes, ProcessOK
<1>2. JobShape(p) => job[p].at \in {"awaiting", "creating", "linking", "finishing"}
  BY DEF JobShape, Jobs
<1>3. Resting.at = "none"
  BY DEF Resting
<1> QED
  BY <1>1, <1>2, <1>3 DEF JobOK, Doing

(* Joined to what leads the plan already, or to nothing, ids lead it. *)
LEMMA JoinedLead ==
  ASSUME NEW h \in Seq(Tasks), NEW d \in Seq(Tasks), NEW n \in Nat,
         Len(d) = n, h # <<>> => Len(h) >= n /\ \A i \in 1..n : KeyOf(h[i]) = Plan[i],
         \A i \in 1..n : KeyOf(d[i]) = Plan[i]
  PROVE  /\ h \o d \in Seq(Tasks)
         /\ Len(h \o d) = Len(h) + Len(d)
         /\ \A i \in 1..Len(h \o d) :
              \/ i \in 1..Len(h) /\ (h \o d)[i] = h[i]
              \/ i - Len(h) \in 1..n /\ (h \o d)[i] = d[i - Len(h)]
         /\ \A i \in 1..n : KeyOf((h \o d)[i]) = Plan[i]
<1>1. /\ h \o d \in Seq(Tasks)
      /\ Len(h \o d) = Len(h) + Len(d)
      /\ \A i \in 1..Len(h) + Len(d) :
           (h \o d)[i] = IF i <= Len(h) THEN h[i] ELSE d[i - Len(h)]
  BY ConcatProperties
<1>2. Len(h) \in Nat /\ (h = <<>> => Len(h) = 0)
  OBVIOUS
<1>3. ASSUME NEW i \in 1..n
      PROVE  KeyOf((h \o d)[i]) = Plan[i]
  <2>1. i \in 1..Len(h) + Len(d)
    BY <1>2
  <2>2. CASE h = <<>>
    <3>1. i - Len(h) = i /\ ~(i <= Len(h))
      BY <1>2, <2>2
    <3>2. (h \o d)[i] = d[i]
      BY <1>1, <2>1, <3>1
    <3> QED
      BY <3>2
  <2>3. CASE h # <<>>
    BY <1>1, <1>2, <2>1, <2>3
  <2> QED
    BY <2>2, <2>3
<1> QED
  BY <1>1, <1>2, <1>3

LEMMA AllIdsLead ==
  ASSUME NEW p \in Processes, JobShape(p), Len(job[p].ids) = Len(Plan)
  PROVE  /\ AllIds(p) \in Seq(Tasks)
         /\ Len(AllIds(p)) >= Len(Plan)
         /\ \A i \in 1..Len(AllIds(p)) : AllIds(p)[i] \in Tasks /\ Made(AllIds(p)[i])
         /\ \A i \in Steps : KeyOf(AllIds(p)[i]) = Plan[i]
<1>1. PICK h, d : h = job[p].held.ids /\ d = job[p].ids
  OBVIOUS
<1>2. /\ h \in Seq(Tasks) /\ d \in Seq(Tasks)
      /\ \A i \in 1..Len(h) : Made(h[i])
      /\ \A i \in 1..Len(d) : Made(d[i]) /\ KeyOf(d[i]) = Plan[i]
      /\ h # <<>> => Len(h) >= Len(Plan) /\ \A i \in Steps : KeyOf(h[i]) = Plan[i]
  BY <1>1 DEF JobShape, Jobs, Missions, MissionOK
<1>3. Len(Plan) \in Nat /\ Len(d) = Len(Plan)
  BY <1>1, MissionAssumption
<1>4. /\ h \o d \in Seq(Tasks)
      /\ Len(h \o d) = Len(h) + Len(d)
      /\ \A i \in 1..Len(h \o d) :
           \/ i \in 1..Len(h) /\ (h \o d)[i] = h[i]
           \/ i - Len(h) \in 1..Len(Plan) /\ (h \o d)[i] = d[i - Len(h)]
      /\ \A i \in 1..Len(Plan) : KeyOf((h \o d)[i]) = Plan[i]
  <2>1. h # <<>> => Len(h) >= Len(Plan) /\ \A i \in 1..Len(Plan) : KeyOf(h[i]) = Plan[i]
    BY <1>2 DEF Steps
  <2>2. \A i \in 1..Len(Plan) : KeyOf(d[i]) = Plan[i]
    BY <1>2, <1>3
  <2> HIDE DEF Steps
  <2> QED
    BY <1>2, <1>3, <2>1, <2>2, JoinedLead
<1>5. Len(h) \in Nat
  BY <1>2
<1>6. AllIds(p) = h \o d
  BY <1>1 DEF AllIds
<1>7. PICK x : x = h \o d
  OBVIOUS
<1>8. Len(x) >= Len(Plan)
  BY <1>3, <1>4, <1>5, <1>7
<1>9. ASSUME NEW i \in 1..Len(x)
      PROVE  x[i] \in Tasks /\ Made(x[i])
  <2>1. CASE i \in 1..Len(h) /\ x[i] = h[i]
    BY <1>2, <2>1
  <2>2. CASE i - Len(h) \in 1..Len(Plan) /\ x[i] = d[i - Len(h)]
    BY <1>2, <1>3, <2>2
  <2> QED
    BY <1>4, <1>7, <2>1, <2>2
<1> QED
  BY <1>4, <1>6, <1>7, <1>8, <1>9 DEF Steps

LEMMA LinksAreSteps ==
  ASSUME NEW p \in Processes, JobShape(p), Len(job[p].ids) = Len(Plan), NEW k \in Resources
  PROVE  /\ Links(p, k) \subseteq Tasks
         /\ {KeyOf(d) : d \in Links(p, k)} = Needs[k]
<1>1. ASSUME NEW n \in Needs[k]
      PROVE  IdOf(p, n) \in Tasks /\ KeyOf(IdOf(p, n)) = n
  <2>1. \E i \in 1..Len(Plan) : Plan[i] = n
    BY MissionAssumption
  <2>2. PICK i : i = CHOOSE j \in 1..Len(Plan) : Plan[j] = n
    OBVIOUS
  <2>3. i \in 1..Len(Plan) /\ Plan[i] = n
    BY <2>1, <2>2
  <2>4. job[p].ids \in Seq(Tasks) /\ KeyOf(job[p].ids[i]) = n
    BY <2>3 DEF JobShape, Jobs
  <2> QED
    BY <2>2, <2>3, <2>4 DEF IdOf
<1> QED
  BY <1>1 DEF Links

(* No process moves. *)
LEMMA StillStep ==
  ASSUME Shapes, Grows, LockTypeOK', RowsOK', DeletingOK',
         UNCHANGED <<mission, create, job, requests>>
  PROVE  Shapes'
<1>1. \A q \in Processes : ProcessOK(q)'
  BY Bystander
<1>2. MissionOK(mission)'
  BY MissionStays DEF Shapes
<1> QED
  BY <1>1, <1>2 DEF Shapes

(* The decomposition ends, and with it the call. *)
LEMMA EndStep ==
  ASSUME Shapes, Grows, NEW p \in Processes, End(p),
         create' = [create EXCEPT ![p] = Out] \/ (create' = create /\ In(p, "out")),
         LockTypeOK', RowsOK', DeletingOK', MissionOK(mission)',
         requests' = requests
  PROVE  Shapes'
<1>1. Out \in CreateCalls /\ Out.at = "out" /\ Out.task = NoTask
  BY DEF Out, CreateCalls, Places, Within, Entries, NoRow, Rows, RowStatuses
<1>2. CallOK(p)'
  <2>1. CASE create' = [create EXCEPT ![p] = Out]
    BY <1>1, <2>1 DEF CallOK, Shapes
  <2>2. CASE create' = create
    BY <2>2 DEF Shapes, ProcessOK, CallOK, Grows
  <2> QED
    BY <2>1, <2>2
<1>3. JobOK(p)'
  BY <1>1 DEF JobOK, End, In, Shapes
<1>4. create' = [create EXCEPT ![p] = create'[p]]
  BY DEF Shapes
<1> QED
  BY <1>2, <1>3, <1>4, ShapesStep DEF End, ProcessOK, Shapes

LEMMA ShapesBegin ==
  ASSUME Shapes, NEW p \in Processes, Begin(p)
  PROVE  Shapes' /\ Grows
<1>1. RowsOK' /\ Grows /\ LockTypeOK' /\ DeletingOK' /\ create' = create
  BY RowsStay DEF Begin, creationVars, lockVars, Shapes, LockTypeOK, DeletingOK
<1>2. MissionOK(mission)'
  BY <1>1, MissionStays DEF Shapes, Begin
<1>3. In(p, "out") /\ CallOK(p)
  BY JobKinds DEF Begin, Shapes, ProcessOK
<1>4. CallOK(p)'
  BY <1>1, <1>3 DEF CallOK, Grows
<1>j. PICK j : j = [at |-> "awaiting", held |-> mission, ids |-> <<>>, link |-> 1]
  OBVIOUS
<1>5. job' = [job EXCEPT ![p] = j] /\ job'[p] = j
  BY <1>j DEF Begin, Shapes
<1>6. j \in Jobs
  BY <1>j DEF Jobs, Shapes, MissionOK
<1>7. j.held = mission /\ Len(j.ids) = 0 /\ j.ids = <<>>
      /\ j.at = "awaiting" /\ j.link = 1
  BY <1>j
<1>8. JobOK(p)'
  <2>1. MissionOK(j.held)'
    BY <1>1, <1>7, MissionStays DEF Shapes
  <2> QED
    BY <1>1, <1>3, <1>5, <1>6, <1>7, <2>1, MissionAssumption
       DEF JobOK, JobShape, In, Doing
<1>9. requests' \in Nat
  BY DEF Begin, Shapes
<1>10. create' = [create EXCEPT ![p] = create[p]]
  BY <1>1 DEF Shapes
<1>11. ProcessOK(p)'
  BY <1>4, <1>8 DEF ProcessOK
<1> QED
  BY <1>1, <1>2, <1>5, <1>9, <1>10, <1>11, ShapesStep

LEMMA ShapesCreateStep ==
  ASSUME Shapes, NEW p \in Processes, CreateStep(p)
  PROVE  Shapes' /\ Grows
<1>1. RowsOK' /\ Grows /\ LockTypeOK' /\ DeletingOK' /\ mission' = mission
  BY RowsStay DEF CreateStep, Call, lockVars, Shapes, LockTypeOK, DeletingOK
<1>2. MissionOK(mission)'
  BY <1>1, MissionStays DEF Shapes
<1>3. JobShape(p) /\ In(p, "out")
  BY JobKinds DEF CreateStep, Call, Doing
<1>4. PICK i : i = Len(job[p].ids) + 1
  OBVIOUS
<1>5. i <= Len(Plan) /\ Call(p, Plan[i])
  BY <1>4 DEF CreateStep
<1>6. Plan[i] \in Resources /\ Len(job[p].ids) \in Nat /\ Len(Plan) \in Nat
  BY <1>3, <1>4, <1>5, MissionAssumption DEF JobShape, Jobs
<1>c. PICK c : c = [at |-> "log", key |-> Plan[i], inside |-> FALSE, task |-> NoTask,
                    copy |-> NoRow]
  OBVIOUS
<1>7. create' = [create EXCEPT ![p] = c] /\ create'[p] = c
  BY <1>5, <1>c DEF Call, Shapes
<1>11. c \in CreateCalls /\ c.at = "log" /\ c.key = Plan[i] /\ c.task = NoTask
  BY <1>6, <1>c DEF CreateCalls, Places, Within, Entries, NoRow, Rows, RowStatuses
<1>8. CallOK(p)'
  BY <1>6, <1>7, <1>11 DEF CallOK
<1>9. job' = [job EXCEPT ![p] = job'[p]] /\ job'[p] = [job[p] EXCEPT !.at = "creating"]
  BY DEF CreateStep, Shapes
<1>10. JobOK(p)'
  <2>1. \A n \in 1..Len(job[p].ids) : job[p].ids[n] \in Tasks
    BY <1>3 DEF JobShape, Jobs
  <2>5. PICK h : h = job[p].held
    OBVIOUS
  <2>2. MissionOK(h)'
    BY <1>1, <1>3, <2>5, MissionStays DEF JobShape
  <2>3. /\ job'[p] \in Jobs /\ job'[p].at = "creating"
        /\ job'[p].held = job[p].held /\ job'[p].ids = job[p].ids
        /\ job'[p].link = job[p].link
    BY <1>3, <1>9 DEF JobShape, Jobs
  <2>4. job[p].link = 1
    BY <1>3 DEF CreateStep, JobShape
  <2> QED
    BY <1>1, <1>3, <1>4, <1>5, <1>6, <1>7, <1>11, <2>1, <2>2, <2>3, <2>4, <2>5
       DEF JobOK, JobShape, In, Doing, Grows
<1> QED
  BY <1>1, <1>2, <1>7, <1>8, <1>9, <1>10, ShapesStep DEF CreateStep, Shapes, ProcessOK

LEMMA ShapesEnd ==
  ASSUME Shapes, NEW p \in Processes,
         NoPlan(p) \/ Finish(p) \/ CreateRaised(p) \/ Interrupted(p)
  PROVE  Shapes' /\ Grows
<1>1. RowsOK' /\ Grows /\ row' = row
  BY RowsStay DEF NoPlan, Finish, CreateRaised, Interrupted, Die, creationVars, Shapes
<1>2. LockTypeOK'
  <2>1. CASE Interrupted(p)
    BY <2>1 DEF Interrupted, Die, Abandon, Happens, Shapes, LockTypeOK, MishapKinds
  <2>2. CASE CreateRaised(p)
    BY <2>2 DEF CreateRaised, Raise, Shapes, LockTypeOK, MishapKinds
  <2> QED
    BY <2>1, <2>2 DEF NoPlan, Finish, creationVars, lockVars, Shapes, LockTypeOK
<1>3. DeletingOK'
  <2>1. deleting' = deleting
    BY DEF NoPlan, Finish, CreateRaised, Interrupted, Die, creationVars
  <2>2. mishaps'["deletion"] = mishaps["deletion"]
    BY DEF NoPlan, Finish, CreateRaised, Interrupted, Die, creationVars, lockVars, Raise,
           Happens, Shapes, LockTypeOK, MishapKinds
  <2> QED
    BY <2>1, <2>2 DEF Shapes, DeletingOK
<1>4. MissionOK(mission)'
  <2>1. CASE NoPlan(p)
    <3>1. PICK h : h = job[p].held
      OBVIOUS
    <3>2. MissionOK(h)
      BY <2>1, <3>1, JobKinds DEF NoPlan, JobShape
    <3>3. mission' = [h EXCEPT !.done = FALSE] /\ h \in Missions
      BY <2>1, <3>1, <3>2 DEF NoPlan, MissionOK
    <3>4. mission' \in Missions /\ mission'.ids = h.ids
      BY <3>3 DEF Missions
    <3>5. MissionOK(h)'
      BY <1>1, <3>2, MissionStays
    <3> QED
      BY <3>4, <3>5 DEF MissionOK
  <2>2. CASE Finish(p)
    <3>1. JobShape(p) /\ Len(job[p].ids) = Len(Plan)
      BY <2>2, JobKinds DEF Finish, Doing, JobShape
    <3>2. PICK x : x = AllIds(p)
      OBVIOUS
    <3>3. /\ x \in Seq(Tasks) /\ Len(x) >= Len(Plan)
          /\ \A i \in 1..Len(x) : Made(x[i])
          /\ \A i \in Steps : KeyOf(x[i]) = Plan[i]
      BY <3>1, <3>2, AllIdsLead
    <3>4. mission' = [ids |-> x, done |-> TRUE]
      BY <2>2, <3>2 DEF Finish
    <3> QED
      BY <1>1, <3>3, <3>4 DEF MissionOK, Missions, Made
  <2>3. CASE CreateRaised(p) \/ Interrupted(p)
    BY <1>1, <2>3, MissionStays DEF CreateRaised, Interrupted, Shapes
  <2> QED
    BY <2>1, <2>2, <2>3
<1>5. \/ create' = [create EXCEPT ![p] = Out]
      \/ create' = create /\ In(p, "out")
  <2>1. CASE NoPlan(p) \/ Finish(p)
    BY <2>1, JobKinds DEF NoPlan, Finish, creationVars, Doing, JobShape
  <2> QED
    BY <2>1 DEF CreateRaised, Interrupted, Die
<1>6. End(p) /\ requests' = requests
  BY DEF NoPlan, Finish, CreateRaised, Interrupted, Raise
<1> QED
  BY <1>1, <1>2, <1>3, <1>4, <1>5, <1>6, EndStep

LEMMA ShapesReadBack ==
  ASSUME Shapes, NEW p \in Processes, ReadBack(p)
  PROVE  Shapes' /\ Grows
<1>1. RowsOK' /\ Grows /\ row' = row
  BY RowsStay DEF ReadBack, Shapes
<1>2. LockTypeOK' /\ mishaps'["deletion"] = mishaps["deletion"]
  <2>1. owner' = owner
        /\ (mishaps' = mishaps \/ mishaps' = [mishaps EXCEPT !["raise"] = @ + 1])
    BY DEF ReadBack, Raise
  <2>2. mishaps' \in [MishapKinds -> Nat] /\ mishaps'["deletion"] = mishaps["deletion"]
    BY <2>1 DEF Shapes, LockTypeOK, MishapKinds
  <2> QED
    BY <2>1, <2>2 DEF Shapes, LockTypeOK
<1>3. DeletingOK' /\ MissionOK(mission)' /\ requests' = requests
  BY <1>1, <1>2, MissionStays DEF ReadBack, Shapes, DeletingOK
<1>4. create' = [create EXCEPT ![p] = Out] /\ ~In(p, "out")
  BY DEF ReadBack, In
<1>5. CASE Raise(p)
  BY <1>1, <1>2, <1>3, <1>4, <1>5, EndStep DEF Raise
<1>6. CASE ~Raise(p)
  <2>1. PICK t : t = create[p].task
    OBVIOUS
  <2>2. HasRow(t) /\ t \in Tasks /\ KeyOf(t) = create[p].key /\ Made(t)
    BY <1>6, <2>1 DEF ReadBack, HasRow, Shapes, ProcessOK, CallOK
  <2>3. JobShape(p) /\ Doing(p, "creating") /\ Len(job[p].ids) < Len(Plan)
        /\ KeyOf(t) = Plan[Len(job[p].ids) + 1] /\ job[p].link = 1
    BY <1>4, <2>2, JobKinds DEF JobShape, Doing
  <2>5. PICK a : a = IF Len(job[p].ids) + 1 = Len(Plan) THEN "linking" ELSE "creating"
    OBVIOUS
  <2>6. PICK d : d = Append(job[p].ids, t)
    OBVIOUS
  <2>7. PICK j : j = [job[p] EXCEPT !.ids = d, !.at = a]
    OBVIOUS
  <2>8. job' = [job EXCEPT ![p] = j]
    BY <1>6, <2>1, <2>2, <2>3, <2>5, <2>6, <2>7 DEF ReadBack, Doing
  <2>9. job[p].ids \in Seq(Tasks) /\ job[p] \in Jobs
    BY <2>3 DEF JobShape, Jobs
  <2>10. /\ d \in Seq(Tasks) /\ Len(d) = Len(job[p].ids) + 1
         /\ \A i \in 1..Len(job[p].ids) : d[i] = job[p].ids[i]
         /\ d[Len(job[p].ids) + 1] = t
    BY <2>2, <2>6, <2>9, AppendProperties
  <2>13. j \in Jobs
    BY <2>5, <2>7, <2>9, <2>10 DEF Jobs
  <2>14. j.ids = d /\ j.at = a /\ j.held = job[p].held /\ j.link = 1
    BY <2>3, <2>7, <2>9 DEF Jobs
  <2>15. Len(job[p].ids) \in Nat /\ Len(Plan) \in Nat
    BY <2>9, MissionAssumption
  <2>16. \A i \in 1..Len(d) : KeyOf(d[i]) = Plan[i] /\ Made(d[i])
    <3>1. ASSUME NEW i \in 1..Len(job[p].ids)
          PROVE  KeyOf(d[i]) = Plan[i] /\ Made(d[i])
      BY <2>3, <2>10 DEF JobShape
    <3> QED
      BY <2>2, <2>3, <2>10, <2>15, <3>1
  <2>17. PICK h : h = job[p].held
    OBVIOUS
  <2>18. MissionOK(h)'
    BY <1>1, <2>3, <2>17, MissionStays DEF JobShape
  <2>19. job'[p] = j /\ create'[p] = Out
    BY <1>4, <2>8 DEF Shapes
  <2>20. Out \in CreateCalls /\ Out.at = "out" /\ Out.task = NoTask
    BY DEF Out, CreateCalls, Places, Within, Entries, NoRow, Rows, RowStatuses
  <2>21. JobShape(p)'
    <3>1. \A i \in 1..Len(d) : Made(d[i])'
      BY <1>1, <2>16 DEF Made
    <3>2. a = "linking" => Len(d) = Len(Plan) /\ j.link \in Steps
      BY <2>5, <2>10, <2>14, <2>15 DEF Steps
    <3>3. a \in {"linking", "creating"} /\ Len(d) <= Len(Plan)
      BY <2>3, <2>5, <2>10, <2>15
    <3> QED
      BY <2>13, <2>14, <2>16, <2>17, <2>18, <2>19, <2>20, <3>1, <3>2, <3>3
         DEF JobShape, In, Doing
  <2>22. ProcessOK(p)'
    BY <2>19, <2>20, <2>21 DEF ProcessOK, CallOK, JobOK
  <2> QED
    BY <1>1, <1>2, <1>3, <1>4, <2>8, <2>22, ShapesStep DEF Shapes
<1> QED
  BY <1>5, <1>6

(* What a step of pass 2 writes. *)
LEMMA LinkWrites ==
  ASSUME Shapes, NEW p \in Processes, Link(p)
  PROVE  \E i \in Steps, t \in Tasks :
           /\ JobShape(p) /\ In(p, "out") /\ Len(job[p].ids) = Len(Plan)
           /\ job[p].link = i /\ t = AllIds(p)[i]
           /\ Made(t) /\ KeyOf(t) = Plan[i]
           /\ \/ /\ \E s \in Living, D \in SUBSET Tasks :
                      /\ D = Links(p, Plan[i])
                      /\ s \in Dispatched
                      /\ row' = [row EXCEPT ![t] = [status |-> s, deps |-> D]]
                 /\ job' = [job EXCEPT ![p].link = i + 1, ![p].at = NextIs(p)]
                 /\ mishaps' = mishaps
              \/ Raise(p) /\ row' = row
<1>1. JobShape(p) /\ Doing(p, "linking") /\ In(p, "out")
      /\ Len(job[p].ids) = Len(Plan) /\ job[p].link \in Steps
  BY JobKinds DEF Link, JobShape, Doing
<1>2. PICK i : i = job[p].link
  OBVIOUS
<1>3. PICK t : t = AllIds(p)[i]
  OBVIOUS
<1>4. t \in Tasks /\ Made(t) /\ KeyOf(t) = Plan[i] /\ i \in Steps
  BY <1>1, <1>2, <1>3, AllIdsLead, MissionAssumption DEF Steps
<1>5. Plan[i] \in Resources
  BY <1>4, MissionAssumption DEF Steps
<1>6. Links(p, Plan[i]) \in SUBSET Tasks
  BY <1>1, <1>5, LinksAreSteps
<1>7. \A s \in Dispatched : s \in Living
  BY DEF Living, RowStatuses, Dispatched
<1>8. \/ /\ \E s \in Dispatched :
              row' = [row EXCEPT ![t] = [status |-> s, deps |-> Links(p, Plan[i])]]
         /\ job' = [job EXCEPT ![p].link = i + 1, ![p].at = NextIs(p)]
         /\ mishaps' = mishaps
      \/ Raise(p) /\ row' = row
  BY <1>2, <1>3 DEF Link
<1>9. CASE Raise(p) /\ row' = row
  BY <1>1, <1>2, <1>3, <1>4, <1>9
<1>10. ASSUME NEW s \in Dispatched,
              row' = [row EXCEPT ![t] = [status |-> s, deps |-> Links(p, Plan[i])]],
              job' = [job EXCEPT ![p].link = i + 1, ![p].at = NextIs(p)],
              mishaps' = mishaps
       PROVE  \E u \in Living, D \in SUBSET Tasks :
                /\ D = Links(p, Plan[i])
                /\ u \in Dispatched
                /\ row' = [row EXCEPT ![t] = [status |-> u, deps |-> D]]
  BY <1>6, <1>7, <1>10
<1>11. CASE /\ \E s \in Dispatched :
                 row' = [row EXCEPT ![t] = [status |-> s, deps |-> Links(p, Plan[i])]]
            /\ job' = [job EXCEPT ![p].link = i + 1, ![p].at = NextIs(p)]
            /\ mishaps' = mishaps
  <2>1. \E u \in Living, D \in SUBSET Tasks :
          /\ D = Links(p, Plan[i])
          /\ u \in Dispatched
          /\ row' = [row EXCEPT ![t] = [status |-> u, deps |-> D]]
    BY <1>10, <1>11
  <2> QED
    BY <1>1, <1>2, <1>3, <1>4, <1>11, <2>1
<1> QED
  BY <1>8, <1>9, <1>11

LEMMA ShapesLink ==
  ASSUME Shapes, NEW p \in Processes, Link(p)
  PROVE  Shapes' /\ Grows
<1>1. PICK i \in Steps, t \in Tasks :
        /\ JobShape(p) /\ In(p, "out") /\ Len(job[p].ids) = Len(Plan)
        /\ job[p].link = i /\ t = AllIds(p)[i]
        /\ Made(t) /\ KeyOf(t) = Plan[i]
        /\ \/ /\ \E s \in Living, D \in SUBSET Tasks :
                   /\ D = Links(p, Plan[i])
                   /\ s \in Dispatched
                   /\ row' = [row EXCEPT ![t] = [status |-> s, deps |-> D]]
              /\ job' = [job EXCEPT ![p].link = i + 1, ![p].at = NextIs(p)]
              /\ mishaps' = mishaps
           \/ Raise(p) /\ row' = row
  BY LinkWrites
<1>2. UNCHANGED <<owner, log, shared, create, deleting, mission, requests>>
  BY DEF Link
<1>3. LockTypeOK' /\ mishaps'["deletion"] = mishaps["deletion"]
  <2>1. mishaps' = mishaps \/ mishaps' = [mishaps EXCEPT !["raise"] = @ + 1]
    BY <1>1 DEF Raise
  <2>2. mishaps' \in [MishapKinds -> Nat] /\ mishaps'["deletion"] = mishaps["deletion"]
    BY <2>1 DEF Shapes, LockTypeOK, MishapKinds
  <2> QED
    BY <1>2, <2>2 DEF Shapes, LockTypeOK
<1>4. CASE Raise(p) /\ row' = row
  <2>1. RowsOK' /\ Grows
    BY <1>2, <1>4, RowsStay DEF Shapes
  <2> QED
    BY <1>1, <1>2, <1>3, <1>4, <2>1, EndStep, MissionStays DEF Raise, Shapes, DeletingOK
<1>5. ASSUME NEW s \in Living, NEW D \in SUBSET Tasks,
             row' = [row EXCEPT ![t] = [status |-> s, deps |-> D]],
             job' = [job EXCEPT ![p].link = i + 1, ![p].at = NextIs(p)]
      PROVE  Shapes' /\ Grows
  <2>1. PICK x : x = [status |-> s, deps |-> D]
    OBVIOUS
  <2>2. x \in Rows /\ x.status # "absent"
    BY <2>1 DEF Rows, Living
  <2>3. row' = [row EXCEPT ![t] = x]
    BY <1>5, <2>1
  <2>4. row \in [Tasks -> Rows] /\ row' \in [Tasks -> Rows]
    BY <2>2, <2>3 DEF Shapes, RowsOK
  <2>5. Grows
    BY <2>2, <2>3, <2>4 DEF Grows, Made
  <2>6. RowsOK'
    BY <1>2, <2>4, <2>5 DEF Shapes, RowsOK, EntryOK, Grows
  <2>7. PICK j : j = [job[p] EXCEPT !.link = i + 1, !.at = NextIs(p)]
    OBVIOUS
  <2>8. job' = [job EXCEPT ![p] = j] /\ job'[p] = j
    BY <1>5, <2>7 DEF Shapes
  <2>9. job[p] \in Jobs /\ i \in Nat /\ Len(Plan) \in Nat
    BY <1>1, MissionAssumption DEF JobShape, Steps
  <2>10. /\ NextIs(p) \in {"linking", "finishing"}
         /\ NextIs(p) = "linking" => i + 1 \in Steps
    BY <1>1, <2>9 DEF NextIs, Steps
  <2>11. /\ j \in Jobs /\ j.ids = job[p].ids
         /\ j.held = job[p].held /\ j.at = NextIs(p) /\ j.link = i + 1
    <3>1. PICK a : a = NextIs(p)
      OBVIOUS
    <3>2. j = [job[p] EXCEPT !.link = i + 1, !.at = a]
      BY <2>7, <3>1
    <3>3. a \in {"linking", "finishing"}
      BY <2>10, <3>1
    <3>4. i + 1 \in Nat
      BY <2>9
    <3>5. PICK n : n = i + 1
      OBVIOUS
    <3>6. j \in Jobs
      BY <2>9, <3>2, <3>3, <3>4, <3>5 DEF Jobs
    <3>7. /\ j.ids = job[p].ids /\ j.held = job[p].held
          /\ j.at = a /\ j.link = n
      BY <2>9, <3>2, <3>5 DEF Jobs
    <3> QED
      BY <3>1, <3>5, <3>6, <3>7
  <2>12. PICK h : h = job[p].held
    OBVIOUS
  <2>13. MissionOK(h)'
    BY <1>1, <2>5, <2>12, MissionStays DEF JobShape
  <2>14. \A n \in 1..Len(job[p].ids) : job[p].ids[n] \in Tasks
    BY <2>9 DEF Jobs
  <2>15. JobShape(p)'
    <3>1. /\ job'[p] \in Jobs /\ job'[p].held = h /\ job'[p].ids = job[p].ids
          /\ job'[p].at \in {"linking", "finishing"}
          /\ job'[p].at = "linking" => job'[p].link \in Steps
      BY <2>8, <2>10, <2>11, <2>12
    <3>2. \A n \in 1..Len(job[p].ids) : Made(job[p].ids[n])'
      <4>1. ASSUME NEW n \in 1..Len(job[p].ids), NEW u, u = job[p].ids[n]
            PROVE  Made(u)'
        BY <1>1, <2>5, <2>14, <4>1 DEF JobShape, Grows
      <4> QED
        BY <3>1, <4>1
    <3>3. In(p, "out")'
      BY <1>1, <1>2 DEF In
    <3>4. /\ Len(job[p].ids) = Len(Plan)
          /\ \A n \in 1..Len(job[p].ids) : KeyOf(job[p].ids[n]) = Plan[n]
      BY <1>1 DEF JobShape
    <3>5. MissionOK(job[p].held)'
      BY <2>13, <3>1
    <3>6. /\ Len(job'[p].ids) = Len(Plan)
          /\ Len(job'[p].ids) <= Len(Plan)
      BY <2>9, <3>1, <3>4
    <3>7. \A n \in 1..Len(job'[p].ids) :
            /\ KeyOf(job'[p].ids[n]) = Plan[n]
            /\ Made(job[p].ids[n])'
      BY <3>1, <3>2, <3>4
    <3> QED
      BY <3>1, <3>3, <3>5, <3>6, <3>7 DEF JobShape, Doing
  <2>16. CallOK(p)'
    BY <1>2, <2>5 DEF Shapes, ProcessOK, CallOK, Grows
  <2>17. create' = [create EXCEPT ![p] = create[p]]
    BY <1>2 DEF Shapes
  <2>18. ProcessOK(p)' /\ MissionOK(mission)' /\ DeletingOK'
    BY <1>2, <1>3, <2>5, <2>15, <2>16, MissionStays DEF ProcessOK, JobOK, Shapes, DeletingOK
  <2>19. requests' \in Nat
    BY <1>2 DEF Shapes
  <2> QED
    BY <1>3, <2>5, <2>6, <2>8, <2>17, <2>18, <2>19, ShapesStep
<1> QED
  BY <1>1, <1>4, <1>5

(* What the worker, operators and time do. *)
LEMMA ShapesAround ==
  ASSUME Shapes, (\E t \in Tasks : Claim(t) \/ Settle(t)) \/ Elsewhere
  PROVE  Shapes' /\ Grows
<1>1. ASSUME NEW t \in Tasks, NEW x \in Rows, x.status # "absent", 
             row' = [row EXCEPT ![t] = x], UNCHANGED <<log, shared>>
      PROVE  RowsOK' /\ Grows
  <2>1. row \in [Tasks -> Rows] /\ row' \in [Tasks -> Rows]
    BY <1>1 DEF Shapes, RowsOK
  <2>2. Grows
    BY <1>1, <2>1 DEF Grows, Made
  <2> QED
    BY <1>1, <2>1, <2>2 DEF Shapes, RowsOK, EntryOK, Grows
<1>2. ASSUME NEW t \in Tasks, Claim(t) \/ Settle(t)
      PROVE  Shapes' /\ Grows
  <2>1. PICK s \in Dispatched : row' = [row EXCEPT ![t].status = s]
    BY <1>2 DEF Claim, Settle, Dispatched
  <2>2. PICK x : x = [row[t] EXCEPT !.status = s]
    OBVIOUS
  <2>3. x \in Rows /\ x.status # "absent" /\ row' = [row EXCEPT ![t] = x]
    BY <2>1, <2>2 DEF Shapes, RowsOK, Rows, RowStatuses, Dispatched
  <2>4. UNCHANGED <<lockVars, log, shared, create, deleting, mission, job, requests>>
    BY <1>2 DEF Claim, Settle, Shapes
  <2>5. RowsOK' /\ Grows
    BY <1>1, <2>3, <2>4
  <2>6. LockTypeOK' /\ DeletingOK'
    BY <2>4 DEF lockVars, Shapes, LockTypeOK, DeletingOK
  <2> QED
    BY <2>4, <2>5, <2>6, StillStep
<1>3. CASE Elsewhere
  <2>1. UNCHANGED <<mission, create, job, requests>>
    BY <1>3 DEF Elsewhere, DeleteRow, DeleteShared, DeleteLog, Forget, ExpireLock
  <2>2. LockTypeOK'
    BY <1>3 DEF Elsewhere, DeleteRow, DeleteShared, DeleteLog, Forget, ExpireLock,
                Expire, Happens, lockVars, Shapes, LockTypeOK, MishapKinds
  <2>3. mishaps'["deletion"] >= mishaps["deletion"]
    BY <1>3 DEF Elsewhere, DeleteRow, DeleteShared, DeleteLog, Forget, ExpireLock,
                Expire, Happens, lockVars, Shapes, LockTypeOK, MishapKinds
  <2>4. DeletingOK' /\ RowsOK' /\ Grows
    <3>1. ASSUME NEW t \in Tasks, NEW force \in BOOLEAN, DeleteRow(t, force)
          PROVE  DeletingOK' /\ RowsOK' /\ Grows
      <4>1. PICK x : x = [status |-> "deleted", deps |-> {}]
        OBVIOUS
      <4>2. x \in Rows /\ x.status # "absent"
        BY <4>1 DEF Rows, RowStatuses
      <4>3. RowsOK' /\ Grows
        BY <1>1, <3>1, <4>1, <4>2 DEF DeleteRow
      <4>4. mishaps'["deletion"] > 0
        BY <3>1 DEF DeleteRow, Happens, Shapes, LockTypeOK, MishapKinds
      <4> QED
        BY <3>1, <4>3, <4>4 DEF DeleteRow, DeletingOK
    <3>2. CASE DeleteShared \/ DeleteLog
      <4>1. deleting # NotDeleting
        BY <3>2 DEF DeleteShared, DeleteLog, NotDeleting
      <4>2. deleting \in [task : Tasks, at : {"shared", "log"}] /\ mishaps["deletion"] > 0
        BY <4>1 DEF Shapes, DeletingOK
      <4>3. DeletingOK'
        BY <3>2, <4>2 DEF DeleteShared, DeleteLog, DeletingOK, lockVars
      <4>4. RowsOK'
        BY <3>2 DEF DeleteShared, DeleteLog, Shapes, RowsOK, EntryOK, Entries, Made
      <4> QED
        BY <3>2, <4>3, <4>4 DEF DeleteShared, DeleteLog, Grows, Made
    <3>3. ASSUME NEW k \in Resources, Forget(k) \/ ExpireLock(k)
          PROVE  DeletingOK' /\ RowsOK' /\ Grows
      <4>1. DeletingOK'
        BY <2>2, <2>3, <3>3 DEF Forget, ExpireLock, Shapes, DeletingOK, LockTypeOK, MishapKinds
      <4>2. RowsOK'
        BY <3>3 DEF Forget, ExpireLock, Shapes, RowsOK, EntryOK, Entries, Made
      <4> QED
        BY <3>3, <4>1, <4>2 DEF Forget, ExpireLock, Grows, Made
    <3> QED
      BY <1>3, <3>1, <3>2, <3>3 DEF Elsewhere
  <2> QED
    BY <2>1, <2>2, <2>4, StillStep DEF Shapes
<1> QED
  BY <1>2, <1>3

LEMMA ShapesInit ==
  ASSUME MissionInit
  PROVE  Shapes
<1>1. NoRow \in Rows /\ Out \in CreateCalls /\ Out.at = "out" /\ Out.task = NoTask
  BY DEF NoRow, Rows, RowStatuses, Out, CreateCalls, Places, Within, Entries
<1>2. LockTypeOK /\ RowsOK /\ DeletingOK
  BY <1>1 DEF MissionInit, CreationInit, LockInit, LockTypeOK, RowsOK, DeletingOK, EntryOK,
              Entries
<1>3. MissionOK(mission)
  BY DEF MissionInit, MissionOK, Missions
<1> QED
  BY <1>1, <1>2, <1>3
     DEF MissionInit, CreationInit, Shapes, ProcessOK, CallOK, JobOK, In

LEMMA ShapesNext ==
  ASSUME Shapes, [MissionNext]_missionVars
  PROVE  Shapes' /\ Grows
<1>1. CASE UNCHANGED missionVars
  <2>1. RowsOK' /\ Grows
    BY <1>1, RowsStay DEF missionVars, creationVars, Shapes
  <2> QED
    BY <1>1, <2>1, StillStep
       DEF missionVars, creationVars, lockVars, Shapes, LockTypeOK, DeletingOK
<1>2. ASSUME NEW p \in Processes, Begin(p) \/ Decomposing(p) \/ Interrupted(p)
      PROVE  Shapes' /\ Grows
  <2>1. CASE Creating(p) /\ UNCHANGED <<mission, job, requests>>
    BY <2>1, ShapesLookup, ShapesLocking, ShapesWrites DEF Creating
  <2>2. CASE Route(p)
    BY <2>2, ShapesWrites DEF Route
  <2> QED
    BY <1>2, <2>1, <2>2, ShapesBegin, ShapesCreateStep, ShapesEnd, ShapesReadBack, ShapesLink
       DEF Decomposing
<1> QED
  BY <1>1, <1>2, ShapesAround DEF MissionNext

(* Types, and what a call of create_task and a decomposition carry about. *)
THEOREM ShapesHold == MissionSpec => []Shapes
<1>1. MissionInit => Shapes
  BY ShapesInit
<1>2. Shapes /\ [MissionNext]_missionVars => Shapes'
  BY ShapesNext
<1> QED
  BY <1>1, <1>2, PTL DEF MissionSpec

(* Every variable of creation and decomposition keeps its type, entries lead
   to tasks of their own key that were made, and no two results of a step of
   the plan are mixed up: for any number of processes and any plan. *)
THEOREM MissionTypes == MissionSpec => []MissionTypeOK
<1>1. Shapes => MissionTypeOK
  <2> SUFFICES ASSUME Shapes PROVE MissionTypeOK
    OBVIOUS
  <2>1. \A t \in Tasks : row[t].deps \subseteq Tasks /\ (Made(t) => row[t] # NoRow)
    BY DEF Shapes, RowsOK, Rows, Made, NoRow
  <2>2. \A k \in Resources : {log[k], shared[k]} \subseteq
                               {t \in Tasks : KeyOf(t) = k /\ row[t] # NoRow} \cup {NoTask}
    <3>1. TAKE k \in Resources
    <3>2. EntryOK(k, log[k]) /\ EntryOK(k, shared[k])
      BY DEF Shapes, RowsOK
    <3>3. ASSUME NEW t, EntryOK(k, t), t # NoTask
          PROVE  t \in Tasks /\ KeyOf(t) = k /\ row[t] # NoRow
      BY <2>1, <3>3 DEF EntryOK
    <3> QED
      BY <3>2, <3>3
  <2>3. \A p \in Processes : create[p].task \in Entries
    BY InShape
  <2>4. ASSUME NEW p \in Processes, job[p] # Resting
        PROVE  /\ Len(job[p].ids) <= Len(Plan)
               /\ In(p, "out") \/ Doing(p, "creating")
    BY <2>4, JobKinds DEF JobShape
  <2>5. mission.ids \in Seq(Tasks)
    BY DEF Shapes, MissionOK, Missions
  <2> QED
    BY <2>1, <2>2, <2>3, <2>4, <2>5 DEF MissionTypeOK, CreationTypeOK, Shapes
<1> QED
  BY <1>1, ShapesHold, PTL

-----------------------------------------------------------------------------
(* Where a step of create_task leaves the call.                            *)

Now(p, at, inside, task, copy) ==
  /\ create'[p].at = at
  /\ create'[p].key = create[p].key
  /\ create'[p].inside = inside
  /\ create'[p].task = task
  /\ create'[p].copy = copy
  /\ \A q \in Processes \ {p} : create'[q] = create[q]

LEMMA CallChanges ==
  ASSUME Shapes, NEW p \in Processes, NEW s, NEW t, NEW c, NEW i
  PROVE  /\ create' = [create EXCEPT ![p].at = s] =>
              Now(p, s, create[p].inside, create[p].task, create[p].copy)
         /\ create' = [create EXCEPT ![p].at = s, ![p].inside = i] =>
              Now(p, s, i, create[p].task, create[p].copy)
         /\ create' = [create EXCEPT ![p].task = t, ![p].at = s] =>
              Now(p, s, create[p].inside, t, create[p].copy)
         /\ create' = [create EXCEPT ![p].copy = c, ![p].at = s] =>
              Now(p, s, create[p].inside, create[p].task, c)
         /\ create' = [create EXCEPT ![p].task = t, ![p].copy = c, ![p].at = s] =>
              Now(p, s, create[p].inside, t, c)
<1>1. create[p] \in CreateCalls /\ p \in DOMAIN create
  BY InShape DEF CallOK
<1>2. ASSUME NEW x, create' = [create EXCEPT ![p] = x], x.key = create[p].key
      PROVE  Now(p, x.at, x.inside, x.task, x.copy)
  BY <1>1, <1>2 DEF Now, Shapes
<1>3. ASSUME create' = [create EXCEPT ![p].at = s]
      PROVE  Now(p, s, create[p].inside, create[p].task, create[p].copy)
  <2>1. PICK x : x = [create[p] EXCEPT !.at = s]
    OBVIOUS
  <2>2. x.at = s /\ x.key = create[p].key /\ x.inside = create[p].inside
        /\ x.task = create[p].task /\ x.copy = create[p].copy
    BY <1>1, <2>1 DEF CreateCalls
  <2>3. create' = [create EXCEPT ![p] = x]
    BY <1>3, <2>1
  <2>4. Now(p, x.at, x.inside, x.task, x.copy)
    BY <1>2, <2>2, <2>3
  <2> QED
    BY <2>2, <2>4
<1>4. ASSUME create' = [create EXCEPT ![p].at = s, ![p].inside = i]
      PROVE  Now(p, s, i, create[p].task, create[p].copy)
  <2>1. PICK x : x = [create[p] EXCEPT !.at = s, !.inside = i]
    OBVIOUS
  <2>2. x.at = s /\ x.key = create[p].key /\ x.inside = i
        /\ x.task = create[p].task /\ x.copy = create[p].copy
    BY <1>1, <2>1 DEF CreateCalls
  <2>3. create' = [create EXCEPT ![p] = x]
    BY <1>4, <2>1
  <2>4. Now(p, x.at, x.inside, x.task, x.copy)
    BY <1>2, <2>2, <2>3
  <2> QED
    BY <2>2, <2>4
<1>5. ASSUME create' = [create EXCEPT ![p].task = t, ![p].at = s]
      PROVE  Now(p, s, create[p].inside, t, create[p].copy)
  <2>1. PICK x : x = [create[p] EXCEPT !.task = t, !.at = s]
    OBVIOUS
  <2>2. x.at = s /\ x.key = create[p].key /\ x.inside = create[p].inside
        /\ x.task = t /\ x.copy = create[p].copy
    BY <1>1, <2>1 DEF CreateCalls
  <2>3. create' = [create EXCEPT ![p] = x]
    BY <1>5, <2>1
  <2>4. Now(p, x.at, x.inside, x.task, x.copy)
    BY <1>2, <2>2, <2>3
  <2> QED
    BY <2>2, <2>4
<1>6. ASSUME create' = [create EXCEPT ![p].copy = c, ![p].at = s]
      PROVE  Now(p, s, create[p].inside, create[p].task, c)
  <2>1. PICK x : x = [create[p] EXCEPT !.copy = c, !.at = s]
    OBVIOUS
  <2>2. x.at = s /\ x.key = create[p].key /\ x.inside = create[p].inside
        /\ x.task = create[p].task /\ x.copy = c
    BY <1>1, <2>1 DEF CreateCalls
  <2>3. create' = [create EXCEPT ![p] = x]
    BY <1>6, <2>1
  <2>4. Now(p, x.at, x.inside, x.task, x.copy)
    BY <1>2, <2>2, <2>3
  <2> QED
    BY <2>2, <2>4
<1>7. ASSUME create' = [create EXCEPT ![p].task = t, ![p].copy = c, ![p].at = s]
      PROVE  Now(p, s, create[p].inside, t, c)
  <2>1. PICK x : x = [create[p] EXCEPT !.task = t, !.copy = c, !.at = s]
    OBVIOUS
  <2>2. x.at = s /\ x.key = create[p].key /\ x.inside = create[p].inside
        /\ x.task = t /\ x.copy = c
    BY <1>1, <2>1 DEF CreateCalls
  <2>3. create' = [create EXCEPT ![p] = x]
    BY <1>7, <2>1
  <2>4. Now(p, x.at, x.inside, x.task, x.copy)
    BY <1>2, <2>2, <2>3
  <2> QED
    BY <2>2, <2>4
<1> QED
  BY <1>3, <1>4, <1>5, <1>6, <1>7

LEMMA CreatingMoves ==
  ASSUME Shapes, NEW p \in Processes,
         NEW k, k = create[p].key, NEW t, t = create[p].task,
         NEW in, in = create[p].inside, NEW c, c = create[p].copy
  PROVE
    /\ ReadLog(p) => Now(p, IF log[k] = NoTask THEN "shared" ELSE "heedLog", in, log[k], c)
    /\ HeedLog(p) => IF HasRow(t)
                     THEN Now(p, IF in THEN "leave" ELSE "answer", in, t, row[t])
                     ELSE Now(p, "shared", in, NoTask, c)
    /\ ReadShared(p) => IF shared[k] = NoTask
                        THEN Now(p, IF in THEN "write" ELSE "lock", in, NoTask, c)
                        ELSE Now(p, "heedShared", in, shared[k], c)
    /\ HeedShared(p) => IF HasRow(t)
                        THEN Now(p, IF in THEN "leave" ELSE "answer", in, t, row[t])
                        ELSE Now(p, IF in THEN "write" ELSE "lock", in, NoTask, c)
    /\ Enter(p) => Now(p, "log", TRUE, t, c)
    /\ Record(p) => Now(p, "share", in, t, c)
    /\ Share(p) => Now(p, "leave", in, t, c)
    /\ Leave(p) => Now(p, IF IsMine(p, k) THEN "unlock" ELSE "answer", in, t, c)
    /\ Unlock(p) => Now(p, "answer", in, t, c)
    /\ Route(p) => Now(p, "routed", in, t, c)
<1> USE CallChanges
<1>1. ReadLog(p) => Now(p, IF log[k] = NoTask THEN "shared" ELSE "heedLog", in, log[k], c)
  BY DEF ReadLog
<1>2. HeedLog(p) => IF HasRow(t)
                    THEN Now(p, IF in THEN "leave" ELSE "answer", in, t, row[t])
                    ELSE Now(p, "shared", in, NoTask, c)
  BY DEF HeedLog, Answer
<1>3. ReadShared(p) => IF shared[k] = NoTask
                       THEN Now(p, IF in THEN "write" ELSE "lock", in, NoTask, c)
                       ELSE Now(p, "heedShared", in, shared[k], c)
  BY DEF ReadShared, NextLookup
<1>4. HeedShared(p) => IF HasRow(t)
                       THEN Now(p, IF in THEN "leave" ELSE "answer", in, t, row[t])
                       ELSE Now(p, IF in THEN "write" ELSE "lock", in, NoTask, c)
  BY DEF HeedShared, Answer, NextLookup
<1>5. Enter(p) => Now(p, "log", TRUE, t, c)
  BY DEF Enter
<1>6. Record(p) => Now(p, "share", in, t, c)
  BY DEF Record, Go
<1>7. Share(p) => Now(p, "leave", in, t, c)
  BY DEF Share, Go
<1>8. Leave(p) => Now(p, IF IsMine(p, k) THEN "unlock" ELSE "answer", in, t, c)
  BY DEF Leave, Go
<1>9. Unlock(p) => Now(p, "answer", in, t, c)
  BY DEF Unlock, Go
<1>10. Route(p) => Now(p, "routed", in, t, c)
  BY DEF Route, Go
<1> QED
  BY <1>1, <1>2, <1>3, <1>4, <1>5, <1>6, <1>7, <1>8, <1>9, <1>10

LEMMA WriteRowMoves ==
  ASSUME Shapes, NEW p \in Processes, WriteRow(p)
  PROVE  \/ /\ \E u \in Tasks :
                 /\ KeyOf(u) = create[p].key /\ row[u].status = "absent"
                 /\ row' = [row EXCEPT ![u] = NewRow]
                 /\ Now(p, "record", create[p].inside, u, NewRow)
         \/ /\ row' = row
            /\ Now(p, "leave", create[p].inside, create[p].task, create[p].copy)
<1>1. create[p].key \in Resources
  BY InShape DEF WriteRow, In
<1>2. CASE Go(p, "leave") /\ row' = row
  BY <1>2, CallChanges DEF Go
<1>3. ASSUME NEW n \in 1..MaxCopies, row[<<create[p].key, n>>].status = "absent",
             row' = [row EXCEPT ![<<create[p].key, n>>] = NewRow],
             create' = [create EXCEPT ![p].task = <<create[p].key, n>>, ![p].copy = NewRow,
                                      ![p].at = "record"]
      PROVE  \E u \in Tasks :
               /\ KeyOf(u) = create[p].key /\ row[u].status = "absent"
               /\ row' = [row EXCEPT ![u] = NewRow]
               /\ Now(p, "record", create[p].inside, u, NewRow)
  <2>1. PICK u : u = <<create[p].key, n>>
    OBVIOUS
  <2>2. u \in Tasks /\ KeyOf(u) = create[p].key
    BY <1>1, <2>1, TaskKey
  <2>3. create' = [create EXCEPT ![p].task = u, ![p].copy = NewRow, ![p].at = "record"]
    BY <1>3, <2>1
  <2>4. Now(p, "record", create[p].inside, u, NewRow)
    BY <2>3, CallChanges
  <2> QED
    BY <1>3, <2>1, <2>2, <2>4
<1> QED
  BY <1>2, <1>3 DEF WriteRow

-----------------------------------------------------------------------------
(* The lock.                                                               *)

Inside(p, k) == create[p].key = k /\ create[p].inside /\ create[p].at \in Within

HolderInside == \A p \in Processes, k \in Resources : owner[k] = p => Inside(p, k)

LEMMA HolderStep ==
  ASSUME HolderInside, NEW p \in Processes,
         \A q \in Processes \ {p} : create'[q] = create[q],
         \A k \in Resources : owner'[k] \in Processes \ {p} => owner'[k] = owner[k],
         \A k \in Resources : owner'[k] = p => Inside(p, k)'
  PROVE  HolderInside'
BY DEF HolderInside, Inside

LEMMA HolderCreating ==
  ASSUME Shapes, HolderInside, NEW p \in Processes, Creating(p)
  PROVE  HolderInside'
<1>k. PICK k : k = create[p].key
  OBVIOUS
<1>i. PICK in : in = create[p].inside
  OBVIOUS
<1>c. PICK t, c : t = create[p].task /\ c = create[p].copy
  OBVIOUS
<1>0. k \in Resources /\ p # NoOne
  BY <1>k, InShape, ProcessIsOne
     DEF Creating, ReadLog, HeedLog, ReadShared, HeedShared, Enter, WriteRow, Record,
         Share, Leave, Unlock, In
<1>2. \A x \in Resources : owner[x] = p => x = k /\ in /\ create[p].at \in Within
  BY <1>k, <1>i DEF HolderInside, Inside
<1>3. ASSUME NEW s, NEW u, NEW d, Now(p, s, in, u, d), owner' = owner,
             in => s \in Within \/ owner[k] # p
      PROVE  HolderInside'
  BY <1>k, <1>2, <1>3, HolderStep DEF Now, Inside
<1>m. in \in BOOLEAN
  BY <1>i, InShape DEF CallOK, CreateCalls
<1> HIDE DEF Within
<1>w. {"log", "heedLog", "shared", "heedShared", "write", "record", "share", "leave",
       "unlock"} \subseteq Within
  BY DEF Within
<1>5. CASE ReadLog(p)
  <2>1. Now(p, IF log[k] = NoTask THEN "shared" ELSE "heedLog", in, log[k], c)
    BY <1>k, <1>i, <1>c, <1>5, CreatingMoves
  <2>2. owner' = owner
    BY <1>5 DEF ReadLog, lockVars
  <2> QED
    BY <1>m, <1>w, <1>3, <2>1, <2>2
<1>6. CASE HeedLog(p)
  <2>1. \/ Now(p, IF in THEN "leave" ELSE "answer", in, t, row[t])
        \/ Now(p, "shared", in, NoTask, c)
    BY <1>k, <1>i, <1>c, <1>6, CreatingMoves
  <2>2. owner' = owner
    BY <1>6 DEF HeedLog, lockVars
  <2> QED
    BY <1>m, <1>w, <1>3, <2>1, <2>2
<1>7. CASE ReadShared(p)
  <2>1. \/ Now(p, IF in THEN "write" ELSE "lock", in, NoTask, c)
        \/ Now(p, "heedShared", in, shared[k], c)
    BY <1>k, <1>i, <1>c, <1>7, CreatingMoves
  <2>2. owner' = owner
    BY <1>7 DEF ReadShared, lockVars
  <2> QED
    BY <1>m, <1>w, <1>3, <2>1, <2>2
<1>8. CASE HeedShared(p)
  <2>1. \/ Now(p, IF in THEN "leave" ELSE "answer", in, t, row[t])
        \/ Now(p, IF in THEN "write" ELSE "lock", in, NoTask, c)
    BY <1>k, <1>i, <1>c, <1>8, CreatingMoves
  <2>2. owner' = owner
    BY <1>8 DEF HeedShared, lockVars
  <2> QED
    BY <1>m, <1>w, <1>3, <2>1, <2>2
<1>9. CASE WriteRow(p)
  <2>1. owner' = owner
    BY <1>9 DEF WriteRow, lockVars
  <2>2. \/ \E u \in Tasks : Now(p, "record", in, u, NewRow)
        \/ Now(p, "leave", in, t, c)
    BY <1>i, <1>c, <1>9, WriteRowMoves
  <2> QED
    BY <1>w, <1>3, <2>1, <2>2
<1>10. CASE Record(p)
  <2>1. Now(p, "share", in, t, c)
    BY <1>k, <1>i, <1>c, <1>10, CreatingMoves
  <2>2. owner' = owner
    BY <1>10 DEF Record
  <2> QED
    BY <1>m, <1>w, <1>3, <2>1, <2>2
<1>11. CASE Share(p)
  <2>1. Now(p, "leave", in, t, c)
    BY <1>k, <1>i, <1>c, <1>11, CreatingMoves
  <2>2. owner' = owner
    BY <1>11 DEF Share, lockVars
  <2> QED
    BY <1>m, <1>w, <1>3, <2>1, <2>2
<1>12. CASE Enter(p)
  <2>0. Now(p, "log", TRUE, t, c)
    BY <1>k, <1>i, <1>c, <1>12, CreatingMoves
  <2>1. Inside(p, k)' /\ \A q \in Processes \ {p} : create'[q] = create[q]
    BY <1>k, <1>w, <2>0 DEF Now, Inside
  <2>2. \A x \in Resources : owner'[x] # owner[x] => x = k /\ owner'[x] = p
    BY <1>0, <1>12, <1>k DEF Enter, Acquire, Shapes, LockTypeOK
  <2>3. \A x \in Resources : owner[x] # p
    BY <1>2, <1>12 DEF Enter, In, Within
  <2> QED
    BY <2>1, <2>2, <2>3, HolderStep
<1>13. CASE Leave(p)
  <2>1. owner' = owner
    BY <1>13 DEF Leave, lockVars
  <2>3. Now(p, IF IsMine(p, k) THEN "unlock" ELSE "answer", in, t, c)
    BY <1>k, <1>i, <1>c, <1>13, CreatingMoves
  <2> QED
    BY <1>w, <1>3, <2>1, <2>3 DEF IsMine
<1>14. CASE Unlock(p)
  <2>1. owner' = [owner EXCEPT ![k] = NoOne]
    BY <1>k, <1>14 DEF Unlock, Free
  <2>0. Now(p, "answer", in, t, c)
    BY <1>k, <1>i, <1>c, <1>14, CreatingMoves
  <2>2. \A q \in Processes \ {p} : create'[q] = create[q]
    BY <2>0 DEF Now
  <2> QED
    BY <1>0, <1>2, <2>1, <2>2, HolderStep, ProcessIsOne DEF Shapes, LockTypeOK
<1> QED
  BY <1>5, <1>6, <1>7, <1>8, <1>9, <1>10, <1>11, <1>12, <1>13, <1>14 DEF Creating

LEMMA HolderNext ==
  ASSUME Shapes, HolderInside, [MissionNext]_missionVars
  PROVE  HolderInside'
<1>1. ASSUME owner' = owner, create' = create
      PROVE  HolderInside'
  BY <1>1 DEF HolderInside, Inside
<1>2. ASSUME NEW p \in Processes, create[p].at \notin Within, owner' = owner,
             \A q \in Processes \ {p} : create'[q] = create[q]
      PROVE  HolderInside'
  <2>1. \A x \in Resources : owner[x] # p
    BY <1>2 DEF HolderInside, Inside
  <2> QED
    BY <1>2, <2>1, HolderStep
<1>3. ASSUME NEW p \in Processes, Begin(p) \/ Decomposing(p)
      PROVE  HolderInside'
  <2>1. CASE Begin(p) \/ NoPlan(p) \/ Link(p) \/ Finish(p)
    BY <1>1, <2>1 DEF Begin, NoPlan, Link, Finish, creationVars, lockVars
  <2>2. CASE CreateStep(p) \/ Route(p) \/ ReadBack(p) \/ CreateRaised(p)
    <3>1. create[p].at \notin Within /\ owner' = owner
          /\ \A q \in Processes \ {p} : create'[q] = create[q]
      BY <2>2 DEF CreateStep, Call, Route, ReadBack, CreateRaised, In, Go, Within,
                  lockVars, Shapes
    <3> QED
      BY <1>2, <3>1
  <2> QED
    BY <1>3, <2>1, <2>2, HolderCreating DEF Decomposing
<1>4. ASSUME NEW p \in Processes, Interrupted(p)
      PROVE  HolderInside'
  <2>1. \A k \in Resources : /\ owner'[k] # p
                             /\ owner'[k] \in Processes => owner'[k] = owner[k]
    BY <1>4, ProcessIsOne DEF Interrupted, Die, Abandon
  <2>2. \A q \in Processes \ {p} : create'[q] = create[q]
    BY <1>4 DEF Interrupted, Die, Shapes
  <2> QED
    BY <2>1, <2>2, HolderStep
<1>5. ASSUME NEW t \in Tasks, Claim(t) \/ Settle(t)
      PROVE  HolderInside'
  BY <1>1, <1>5 DEF Claim, Settle, lockVars
<1>6. CASE Elsewhere
  <2>1. \A k \in Resources : owner'[k] \in Processes => owner'[k] = owner[k]
    BY <1>6, ProcessIsOne
       DEF Elsewhere, DeleteRow, DeleteShared, DeleteLog, Forget, ExpireLock, Expire,
           lockVars, Shapes, LockTypeOK
  <2>2. create' = create
    BY <1>6 DEF Elsewhere, DeleteRow, DeleteShared, DeleteLog, Forget, ExpireLock
  <2> QED
    BY <2>1, <2>2 DEF HolderInside, Inside
<1>7. CASE UNCHANGED missionVars
  BY <1>1, <1>7 DEF missionVars, creationVars, lockVars
<1> QED
  BY <1>3, <1>4, <1>5, <1>6, <1>7 DEF MissionNext

(* Who is on record as the owner of a lock is inside it: create_task leaves by
   __exit__ on every path. *)
THEOREM HoldersAreInside == MissionSpec => []HolderInside
<1>1. MissionInit => HolderInside
  BY ProcessIsOne DEF MissionInit, CreationInit, LockInit, HolderInside
<1>2. Shapes /\ HolderInside /\ [MissionNext]_missionVars => HolderInside'
  BY HolderNext
<1> QED
  BY <1>1, <1>2, ShapesHold, PTL DEF MissionSpec

(* A lock that is not free names a call inside it, or a process that died:
   for any number of processes, any timeouts, expiries and deletions of
   somebody else's lock. *)
THEOREM LocksAreReleased == MissionSpec => []LockReleased
<1>1. Shapes /\ HolderInside => LockReleased
  BY DEF HolderInside, Inside, LockReleased, Using, Shapes, LockTypeOK
<1> QED
  BY <1>1, ShapesHold, HoldersAreInside, PTL

-----------------------------------------------------------------------------
(* One task for a key.                                                     *)

Clean ==
  /\ \A m \in {"lapse", "tear", "deletion"} : mishaps[m] = 0
  /\ \E m \in {"unlogged", "expiry"} : mishaps[m] = 0

Held(p) == create[p].inside /\ create[p].at \in Within

(* The lookup inside the lock has found nothing in the table. *)
Searching(p) == create[p].inside /\ create[p].at \in {"shared", "heedShared", "write"}

Writing(t, s) == \E p \in Processes : In(p, s) /\ create[p].task = t

(* A row can be found: the table names it or will, or, once an insert into the
   table has failed, the shared store does or will. *)
Known(t) ==
  \/ log[KeyOf(t)] = t
  \/ Writing(t, "record")
  \/ mishaps["unlogged"] > 0 /\ (shared[KeyOf(t)] = t \/ Writing(t, "share"))

(* As long as nothing costly happened: no row is deleted, who is inside the
   lock has it, a key has one row, which can be found, who searches inside the
   lock has seen that the table has no entry, which only he could have made
   since, and who is about to write a row has none to find. *)
Uniqueness ==
  /\ \A t \in Tasks : row[t].status # "deleted"
  /\ \A p \in Processes : Held(p) => owner[create[p].key] = p
  /\ \A t, u \in Tasks : Made(t) /\ Made(u) /\ KeyOf(t) = KeyOf(u) => t = u
  /\ \A t \in Tasks : Made(t) => Known(t)
  /\ \A p \in Processes : Searching(p) => log[create[p].key] = NoTask
  /\ \A p \in Processes : In(p, "write") =>
       \A t \in Tasks : Made(t) => KeyOf(t) # create[p].key

SameRows == \A t \in Tasks : (Made(t)' <=> Made(t)) /\ row'[t].status # "deleted"

MoreMishaps == \A m \in MishapKinds : mishaps'[m] \in Nat /\ mishaps'[m] >= mishaps[m]

LEMMA UnloggedStays ==
  ASSUME Shapes, MoreMishaps, mishaps["unlogged"] > 0
  PROVE  mishaps'["unlogged"] > 0
BY DEF MoreMishaps, MishapKinds, Shapes, LockTypeOK

LEMMA UniqueStep ==
  ASSUME Shapes, Uniqueness, MoreMishaps, NEW p \in Processes, SameRows,
         UNCHANGED <<log, shared>>,
         \A q \in Processes \ {p} : create'[q] = create[q],
         \A q \in Processes \ {p} : Held(q) => owner'[create[q].key] = q,
         Held(p)' => owner'[create'[p].key] = p,
         create[p].at \notin {"record", "share"},
         Searching(p)' => log[create'[p].key] = NoTask,
         In(p, "write")' => \A t \in Tasks : Made(t) => KeyOf(t) # create'[p].key
  PROVE  Uniqueness'
<1>1. \A q \in Processes : Held(q)' => owner'[create'[q].key] = q
  BY DEF Held
<1>2. ASSUME NEW t \in Tasks, Made(t)
      PROVE  Known(t)'
  <2>1. \A s \in {"record", "share"} : Writing(t, s) => Writing(t, s)'
    BY DEF Writing, In
  <2>2. mishaps["unlogged"] > 0 => mishaps'["unlogged"] > 0
    BY UnloggedStays
  <2> QED
    BY <1>2, <2>1, <2>2 DEF Uniqueness, Known
<1>3. \A q \in Processes : Searching(q)' => log'[create'[q].key] = NoTask
  BY DEF Uniqueness, Searching
<1>4. \A q \in Processes : In(q, "write")' =>
        \A t \in Tasks : Made(t) => KeyOf(t) # create'[q].key
  BY DEF Uniqueness, In
<1> QED
  BY <1>1, <1>2, <1>3, <1>4 DEF Uniqueness, SameRows

(* Nobody moves. *)
LEMMA UniqueStill ==
  ASSUME Shapes, Uniqueness, MoreMishaps, SameRows, UNCHANGED <<log, create>>,
         shared' = shared \/ mishaps["unlogged"] = 0,
         \A q \in Processes : Held(q) => owner'[create[q].key] = q
  PROVE  Uniqueness'
<1>1. ASSUME NEW t \in Tasks, Made(t)
      PROVE  Known(t)'
  <2>1. \A s \in {"record", "share"} : Writing(t, s)' <=> Writing(t, s)
    BY DEF Writing, In
  <2>2. mishaps["unlogged"] > 0 => mishaps'["unlogged"] > 0 /\ shared' = shared
    BY UnloggedStays
  <2> QED
    BY <1>1, <2>1, <2>2 DEF Uniqueness, Known
<1>2. \A q \in Processes : Searching(q)' => log'[create'[q].key] = NoTask
  BY DEF Uniqueness, Searching
<1>3. \A q \in Processes : In(q, "write")' =>
        \A t \in Tasks : Made(t) => KeyOf(t) # create'[q].key
  BY DEF Uniqueness, In
<1> QED
  BY <1>1, <1>2, <1>3 DEF Uniqueness, SameRows, Held

(* Two processes are not inside the lock of one key. *)
LEMMA OneInside ==
  ASSUME Uniqueness, NEW p \in Processes, NEW q \in Processes,
         Held(p), Held(q), create[p].key = create[q].key
  PROVE  p = q
BY DEF Uniqueness

LEMMA RecordIsHeld ==
  ASSUME Shapes, NEW p \in Processes, create[p].at \in {"write", "record", "share"}
  PROVE  Held(p)
BY InShape DEF CallOK, Held, Within

(* Who is about to write an entry for a task is inside the lock of its key. *)
LEMMA WriterIsHeld ==
  ASSUME Shapes, NEW p \in Processes, NEW s \in {"record", "share"}, NEW t \in Tasks,
         In(p, s), create[p].task = t
  PROVE  Held(p) /\ create[p].key = KeyOf(t)
BY RecordIsHeld, InShape, NoTaskIsNone DEF In, CallOK

(* An entry names the only row of its key. *)
LEMMA EntryIsRow ==
  ASSUME Shapes, Uniqueness, NEW k \in Resources, NEW t \in Tasks, Made(t), KeyOf(t) = k
  PROVE  (log[k] = NoTask \/ log[k] = t) /\ (shared[k] = NoTask \/ shared[k] = t)
BY DEF Shapes, RowsOK, EntryOK, Uniqueness

LEMMA UniqueCreating ==
  ASSUME Shapes, Uniqueness, MoreMishaps, NEW p \in Processes, Creating(p), Clean'
  PROVE  Uniqueness'
<1>k. PICK k : k = create[p].key
  OBVIOUS
<1>i. PICK in : in = create[p].inside
  OBVIOUS
<1>c. PICK t, c : t = create[p].task /\ c = create[p].copy
  OBVIOUS
<1>0. k \in Resources /\ in \in BOOLEAN
  BY <1>k, <1>i, InShape
     DEF Creating, ReadLog, HeedLog, ReadShared, HeedShared, Enter, WriteRow, Record,
         Share, Leave, Unlock, In, CallOK, CreateCalls
<1>h. \A q \in Processes : Held(q) => owner[create[q].key] = q
  BY DEF Uniqueness
<1>s. Searching(p) => log[k] = NoTask
  BY <1>k DEF Uniqueness
<1>f. t # NoTask => HasRow(t) /\ t \in Tasks /\ KeyOf(t) = k
  BY <1>c, <1>k, InShape DEF CallOK, HasRow, Made, Uniqueness
<1>r. row' = row => SameRows
  BY DEF SameRows, Uniqueness, Made
<1>1. ASSUME NEW s, NEW u, NEW d, Now(p, s, in, u, d),
             UNCHANGED <<owner, log, shared>>, SameRows,
             in /\ s \in Within => Held(p),
             create[p].at \notin {"record", "share"},
             in /\ s \in {"shared", "heedShared", "write"} => log[k] = NoTask,
             s = "write" => \A x \in Tasks : Made(x) => KeyOf(x) # k
      PROVE  Uniqueness'
  <2>1. Held(p)' => owner'[create'[p].key] = p
    BY <1>1, <1>i, <1>k, <1>h DEF Held, Now
  <2>2. Searching(p)' => log[create'[p].key] = NoTask
    BY <1>1, <1>i, <1>k DEF Searching, Now
  <2>3. \A q \in Processes \ {p} : create'[q] = create[q]
    BY <1>1 DEF Now
  <2>4. In(p, "write")' => \A x \in Tasks : Made(x) => KeyOf(x) # create'[p].key
    BY <1>1, <1>k DEF Now, In
  <2> QED
    BY <1>1, <1>h, <2>1, <2>2, <2>3, <2>4, UniqueStep
<1>2. CASE ReadLog(p)
  <2>1. /\ UNCHANGED <<owner, log, shared, row>> /\ create[p].at = "log"
    BY <1>2 DEF ReadLog, lockVars, In
  <2>2. Now(p, IF log[k] = NoTask THEN "shared" ELSE "heedLog", in, log[k], c)
    BY <1>k, <1>i, <1>c, <1>2, CreatingMoves
  <2>3. in => Held(p)
    BY <1>i, <2>1 DEF Held, Within
  <2>5. CASE log[k] = NoTask
    BY <1>1, <1>r, <2>1, <2>2, <2>3, <2>5
  <2>6. CASE log[k] # NoTask
    BY <1>1, <1>r, <2>1, <2>2, <2>3, <2>6
  <2> QED
    BY <2>5, <2>6
<1>3. CASE HeedLog(p) \/ HeedShared(p)
  <2>1. create[p].at \in {"heedLog", "heedShared"}
    BY <1>3 DEF HeedLog, HeedShared, In
  <2>2. t # NoTask
    BY <1>c, <2>1, InShape DEF CallOK
  <2>3. UNCHANGED <<owner, log, shared, row>>
    BY <1>3, <1>c, <1>f, <2>2 DEF HeedLog, HeedShared, lockVars
  <2>4. Now(p, IF in THEN "leave" ELSE "answer", in, t, row[t])
    BY <1>k, <1>i, <1>c, <1>3, <1>f, <2>2, CreatingMoves
  <2>5. in => Held(p)
    BY <1>i, <2>1 DEF Held, Within
  <2>6. CASE in
    <3>1. Now(p, "leave", in, t, row[t]) /\ Held(p) /\ SameRows
      BY <1>r, <2>3, <2>4, <2>5, <2>6
    <3> QED
      BY <1>1, <2>1, <2>3, <3>1
  <2>7. CASE ~in
    <3>1. Now(p, "answer", in, t, row[t]) /\ SameRows
      BY <1>r, <2>3, <2>4, <2>7
    <3> QED
      BY <1>1, <2>1, <2>3, <2>7, <3>1
  <2> QED
    BY <2>6, <2>7
<1>4. CASE ReadShared(p)
  <2>1. UNCHANGED <<owner, log, shared, row>> /\ create[p].at = "shared"
    BY <1>4 DEF ReadShared, lockVars, In
  <2>2. /\ shared[k] = NoTask => Now(p, IF in THEN "write" ELSE "lock", in, NoTask, c)
        /\ shared[k] # NoTask => Now(p, "heedShared", in, shared[k], c)
    BY <1>k, <1>i, <1>c, <1>4, CreatingMoves
  <2>3. in => Held(p) /\ log[k] = NoTask
    BY <1>i, <1>s, <2>1 DEF Held, Within, Searching
  <2>4. in /\ shared[k] = NoTask => \A x \in Tasks : Made(x) => KeyOf(x) # k
    <3>1. SUFFICES ASSUME in, shared[k] = NoTask, NEW x \in Tasks, Made(x), KeyOf(x) = k
                   PROVE  FALSE
      OBVIOUS
    <3>2. PICK q \in Processes, s \in {"record", "share"} : In(q, s) /\ create[q].task = x
      BY <2>3, <3>1, NoTaskIsNone DEF Uniqueness, Known, Writing
    <3>3. q = p
      BY <1>k, <2>3, <3>1, <3>2, WriterIsHeld, OneInside
    <3> QED
      BY <2>1, <3>2, <3>3 DEF In
  <2>5. CASE shared[k] # NoTask
    BY <1>1, <1>r, <2>1, <2>2, <2>3, <2>5
  <2>6. CASE shared[k] = NoTask /\ in
    BY <1>1, <1>r, <2>1, <2>2, <2>3, <2>4, <2>6
  <2>7. CASE shared[k] = NoTask /\ ~in
    BY <1>1, <1>r, <2>1, <2>2, <2>7
  <2> QED
    BY <1>0, <2>5, <2>6, <2>7
<1>5. CASE Enter(p)
  <2>1. UNCHANGED <<log, shared, row>> /\ create[p].at = "lock"
    BY <1>5 DEF Enter, In
  <2>2. Now(p, "log", TRUE, t, c)
    BY <1>k, <1>i, <1>c, <1>5, CreatingMoves
  <2>3. owner[k] = NoOne /\ owner' = [owner EXCEPT ![k] = p]
    BY <1>k, <1>5 DEF Enter, Acquire, Happens, Clean, Shapes, LockTypeOK, MishapKinds
  <2>4. /\ \A q \in Processes \ {p} : create'[q] = create[q]
        /\ create'[p].at = "log" /\ create'[p].key = k
    BY <1>k, <2>2 DEF Now
  <2>5. \A q \in Processes \ {p} : Held(q) => owner'[create[q].key] = q
    <3>1. SUFFICES ASSUME NEW q \in Processes, Held(q), q # p
                   PROVE  owner'[create[q].key] = q
      OBVIOUS
    <3>2. create[q].key \in Resources /\ owner[create[q].key] = q
      BY <1>h, <3>1, InShape DEF Held, Within
    <3> QED
      BY <2>3, <3>2, ProcessIsOne DEF Shapes, LockTypeOK
  <2>6. owner'[k] = p
    BY <1>0, <2>3 DEF Shapes, LockTypeOK
  <2>7. ~Searching(p)' /\ ~In(p, "write")'
    BY <2>4 DEF Searching, In
  <2> QED
    BY <1>r, <2>1, <2>4, <2>5, <2>6, <2>7, UniqueStep
<1>6. CASE Leave(p)
  <2>1. UNCHANGED <<owner, log, shared, row>> /\ create[p].at = "leave"
    BY <1>6 DEF Leave, lockVars, In
  <2>2. PICK s \in {"unlock", "answer"} : Now(p, s, in, t, c)
    BY <1>k, <1>i, <1>c, <1>6, CreatingMoves
  <2>3. in => Held(p)
    BY <1>i, <2>1 DEF Held, Within
  <2> QED
    BY <1>1, <1>r, <2>1, <2>2, <2>3
<1>7. CASE Unlock(p)
  <2>1. /\ UNCHANGED <<log, shared, row>> /\ create[p].at = "unlock"
        /\ owner' = [owner EXCEPT ![k] = NoOne]
    BY <1>k, <1>7 DEF Unlock, Free, In
  <2>2. Now(p, "answer", in, t, c)
    BY <1>k, <1>i, <1>c, <1>7, CreatingMoves
  <2>3. Held(p)
    BY <2>1, InShape DEF CallOK, Held, Within
  <2>4. /\ \A q \in Processes \ {p} : create'[q] = create[q]
        /\ create'[p].at = "answer"
    BY <2>2 DEF Now
  <2>5. \A q \in Processes \ {p} : Held(q) => owner'[create[q].key] = q
    <3>1. SUFFICES ASSUME NEW q \in Processes, Held(q), q # p
                   PROVE  owner'[create[q].key] = q
      OBVIOUS
    <3>2. create[q].key \in Resources /\ owner[create[q].key] = q /\ create[q].key # k
      BY <1>h, <1>k, <2>3, <3>1, InShape DEF Held, Within
    <3> QED
      BY <2>1, <3>2 DEF Shapes, LockTypeOK
  <2>6. ~Held(p)' /\ ~Searching(p)' /\ ~In(p, "write")'
    BY <2>4 DEF Held, Searching, Within, In
  <2> QED
    BY <1>r, <2>1, <2>4, <2>5, <2>6, UniqueStep
<1>8. CASE WriteRow(p)
  <2>1. UNCHANGED <<owner, log, shared>> /\ create[p].at = "write"
    BY <1>8 DEF WriteRow, lockVars, In
  <2>2. /\ Held(p) /\ in
        /\ \A x \in Tasks : Made(x) => KeyOf(x) # k
    BY <1>i, <1>k, <2>1, RecordIsHeld, InShape DEF CallOK, Uniqueness, In
  <2>3. CASE row' = row /\ Now(p, "leave", in, t, c)
    BY <1>1, <1>r, <2>1, <2>2, <2>3
  <2>4. ASSUME NEW u \in Tasks, KeyOf(u) = k, row[u].status = "absent",
               row' = [row EXCEPT ![u] = NewRow], Now(p, "record", in, u, NewRow)
        PROVE  Uniqueness'
    <3>1. NewRow.status = "assignment_pending"
      BY DEF NewRow
    <3>2. row' \in [Tasks -> {row[x] : x \in Tasks} \cup {NewRow}]
          /\ \A x \in Tasks : row'[x] = IF x = u THEN NewRow ELSE row[x]
      BY <2>4 DEF Shapes, RowsOK
    <3>3. \A x \in Tasks : Made(x)' <=> Made(x) \/ x = u
      BY <3>1, <3>2 DEF Made
    <3>4. \A x \in Tasks : row'[x].status # "deleted"
      BY <3>1, <3>2 DEF Uniqueness
    <3>5. /\ create'[p].at = "record" /\ create'[p].key = k /\ create'[p].task = u
          /\ \A q \in Processes \ {p} : create'[q] = create[q]
      BY <1>k, <2>4 DEF Now
    <3>6. \A q \in Processes \ {p} : Held(q) => create[q].key # k
      BY <1>k, <2>2, OneInside
    <3>7. \A q \in Processes : Held(q)' => owner'[create'[q].key] = q
      BY <1>h, <1>k, <2>1, <2>2, <3>5 DEF Held
    <3>8. ASSUME NEW x \in Tasks, Made(x)'
          PROVE  Known(x)'
      <4>1. CASE x = u
        BY <3>5, <4>1 DEF Known, Writing, In
      <4>2. CASE Made(x)
        <5>1. \A s \in {"record", "share"} : Writing(x, s) => Writing(x, s)'
          BY <2>1, <3>5 DEF Writing, In
        <5>2. mishaps["unlogged"] > 0 => mishaps'["unlogged"] > 0
          BY UnloggedStays
        <5> QED
          BY <2>1, <4>2, <5>1, <5>2 DEF Uniqueness, Known
      <4> QED
        BY <3>3, <3>8, <4>1, <4>2
    <3>9. \A x, y \in Tasks : Made(x)' /\ Made(y)' /\ KeyOf(x) = KeyOf(y) => x = y
      BY <2>2, <2>4, <3>3 DEF Uniqueness
    <3>10. \A q \in Processes : Searching(q)' => log'[create'[q].key] = NoTask
      BY <2>1, <3>5 DEF Searching, Uniqueness
    <3>11. ASSUME NEW q \in Processes, In(q, "write")'
           PROVE  \A x \in Tasks : Made(x)' => KeyOf(x) # create'[q].key
      <4>1. q # p /\ create'[q] = create[q] /\ In(q, "write")
        BY <3>5, <3>11 DEF In
      <4>2. create[q].key # k
        BY <3>6, <4>1, RecordIsHeld DEF In
      <4> QED
        BY <2>4, <3>3, <4>1, <4>2 DEF Uniqueness
    <3> QED
      BY <3>4, <3>7, <3>8, <3>9, <3>10, <3>11 DEF Uniqueness
  <2>5. \/ \E u \in Tasks : /\ KeyOf(u) = k /\ row[u].status = "absent"
                            /\ row' = [row EXCEPT ![u] = NewRow]
                            /\ Now(p, "record", in, u, NewRow)
        \/ row' = row /\ Now(p, "leave", in, t, c)
    BY <1>8, <1>k, <1>i, <1>c, WriteRowMoves
  <2> QED
    BY <2>3, <2>4, <2>5
<1>9. CASE Record(p) \/ Share(p)
  <2>1. UNCHANGED <<owner, row>> /\ create[p].at \in {"record", "share"}
    BY <1>9 DEF Record, Share, lockVars, In
  <2>2. Held(p) /\ t # NoTask /\ t \in Tasks /\ KeyOf(t) = k /\ Made(t)
    BY <1>c, <1>k, <2>1, RecordIsHeld, InShape DEF CallOK
  <2>3. /\ \A x \in Tasks : Made(x) /\ KeyOf(x) = k => x = t
        /\ log[k] \in {NoTask, t} /\ shared[k] \in {NoTask, t}
    BY <1>0, <2>2, EntryIsRow DEF Uniqueness
  <2>4. PICK s \in {"share", "leave"} : Now(p, s, in, t, c) /\ (Record(p) => s = "share")
    BY <1>9, <1>k, <1>i, <1>c, CreatingMoves
  <2>5. /\ create'[p].at = s /\ create'[p].key = k /\ create'[p].task = t
        /\ \A q \in Processes \ {p} : create'[q] = create[q]
    BY <1>k, <2>4 DEF Now
  <2>6. \A x \in Resources : x # k => log'[x] = log[x] /\ shared'[x] = shared[x]
    BY <1>0, <1>9, <1>k DEF Record, Share, Shapes, RowsOK
  <2>7. \A q \in Processes : Held(q)' => owner'[create'[q].key] = q
    BY <1>h, <1>k, <2>1, <2>2, <2>5 DEF Held
  <2>8. \A x \in Tasks : (Made(x)' <=> Made(x)) /\ row'[x].status # "deleted"
    BY <1>r, <2>1 DEF SameRows
  <2>9. Known(t)'
    <3>1. CASE Record(p)
      <4>1. log' = [log EXCEPT ![k] = t] \/ Happens("unlogged")
        BY <1>c, <1>k, <2>3, <3>1 DEF Record
      <4>2. log' = [log EXCEPT ![k] = t] => log'[k] = t
        BY <1>0 DEF Shapes, RowsOK
      <4>3. Happens("unlogged") => mishaps'["unlogged"] > 0
        BY DEF Happens, Shapes, LockTypeOK, MishapKinds
      <4>4. Writing(t, "share")'
        BY <2>4, <2>5, <3>1 DEF Writing, In
      <4> QED
        BY <2>2, <4>1, <4>2, <4>3, <4>4 DEF Known
    <3>2. CASE Share(p)
      <4>1. log' = log /\ shared' = [shared EXCEPT ![k] = t] /\ create[p].at = "share"
        BY <1>c, <1>k, <3>2 DEF Share, In
      <4>2. shared'[k] = t
        BY <1>0, <4>1 DEF Shapes, RowsOK
      <4>3. mishaps["unlogged"] > 0 => mishaps'["unlogged"] > 0
        BY UnloggedStays
      <4>4. ~Writing(t, "record")
        <5>1. ASSUME NEW q \in Processes, In(q, "record"), create[q].task = t
              PROVE  FALSE
          <6>1. q = p
            BY <1>k, <2>2, <5>1, WriterIsHeld, OneInside
          <6> QED
            BY <4>1, <5>1, <6>1 DEF In
        <5> QED
          BY <5>1 DEF Writing
      <4> QED
        BY <2>2, <4>1, <4>2, <4>3, <4>4 DEF Uniqueness, Known
    <3> QED
      BY <1>9, <3>1, <3>2
  <2>10. ASSUME NEW x \in Tasks, Made(x)
         PROVE  Known(x)'
    <3>1. CASE KeyOf(x) = k
      BY <2>3, <2>9, <2>10, <3>1
    <3>2. CASE KeyOf(x) # k
      <4>1. ASSUME NEW z \in {"record", "share"}, Writing(x, z)
            PROVE  Writing(x, z)'
        <5>1. PICK q \in Processes : In(q, z) /\ create[q].task = x
          BY <4>1 DEF Writing
        <5>2. q # p
          BY <1>c, <2>2, <3>2, <5>1
        <5> QED
          BY <2>5, <5>1, <5>2 DEF Writing, In
      <4>2. mishaps["unlogged"] > 0 => mishaps'["unlogged"] > 0
        BY UnloggedStays
      <4> QED
        BY <2>6, <2>10, <3>2, <4>1, <4>2, TaskKey DEF Uniqueness, Known
    <3> QED
      BY <3>1, <3>2
  <2>11. ASSUME NEW q \in Processes, Searching(q)'
         PROVE  log'[create'[q].key] = NoTask
    <3>1. q # p /\ create'[q] = create[q] /\ Searching(q)
      <4>1. q # p
        BY <2>4, <2>5, <2>11 DEF Searching
      <4> QED
        BY <2>5, <2>11, <4>1 DEF Searching
    <3>2. create[q].key \in Resources \ {k}
      BY <1>k, <2>2, <3>1, OneInside, InShape DEF Searching, Held, Within
    <3> QED
      BY <2>6, <3>1, <3>2 DEF Uniqueness
  <2>12. \A q \in Processes : In(q, "write")' =>
           \A x \in Tasks : Made(x) => KeyOf(x) # create'[q].key
    BY <2>4, <2>5 DEF Uniqueness, In
  <2> QED
    BY <2>7, <2>8, <2>10, <2>11, <2>12 DEF Uniqueness
<1> QED
  BY <1>2, <1>3, <1>4, <1>5, <1>6, <1>7, <1>8, <1>9 DEF Creating

(* A row that was made is written again. *)
LEMMA Rewritten ==
  ASSUME Shapes, Uniqueness, NEW t \in Tasks, Made(t), NEW x,
         row' = [row EXCEPT ![t] = x], x.status \in Living
  PROVE  SameRows
<1>1. \A u \in Tasks : row'[u] = IF u = t THEN x ELSE row[u]
  BY DEF Shapes, RowsOK
<1> QED
  BY <1>1 DEF SameRows, Made, Living, Uniqueness

LEMMA UniqueDecomposing ==
  ASSUME Shapes, Uniqueness, MoreMishaps, NEW p \in Processes, Clean',
         Begin(p) \/ Decomposing(p) \/ Interrupted(p)
  PROVE  Uniqueness'
<1>h. \A q \in Processes : Held(q) => owner[create[q].key] = q
  BY DEF Uniqueness
<1>r. row' = row => SameRows
  BY DEF SameRows, Uniqueness, Made
<1>1. ASSUME UNCHANGED <<owner, log, shared>>, SameRows, NEW s, create'[p].at = s,
             \A q \in Processes \ {p} : create'[q] = create[q],
             s \in {"answer", "routed", "out"} \/ (s = "log" /\ ~create'[p].inside),
             create[p].at \notin {"record", "share"}
      PROVE  Uniqueness'
  <2>1. ~Held(p)' /\ ~Searching(p)' /\ ~In(p, "write")'
    BY <1>1 DEF Held, Searching, Within, In
  <2> QED
    BY <1>1, <1>h, <2>1, UniqueStep
<1>2. CASE Begin(p) \/ NoPlan(p) \/ Finish(p)
  BY <1>2, <1>h, <1>r, UniqueStill DEF Begin, NoPlan, Finish, creationVars, lockVars
<1>3. CASE Link(p)
  <2>1. SameRows
    <3>1. PICK i \in Steps, t \in Tasks :
            /\ JobShape(p) /\ In(p, "out") /\ Len(job[p].ids) = Len(Plan)
            /\ job[p].link = i /\ t = AllIds(p)[i]
            /\ Made(t) /\ KeyOf(t) = Plan[i]
            /\ \/ /\ \E s \in Living, D \in SUBSET Tasks :
                       /\ D = Links(p, Plan[i])
                       /\ s \in Dispatched
                       /\ row' = [row EXCEPT ![t] = [status |-> s, deps |-> D]]
                  /\ job' = [job EXCEPT ![p].link = i + 1, ![p].at = NextIs(p)]
                  /\ mishaps' = mishaps
               \/ Raise(p) /\ row' = row
      BY <1>3, LinkWrites
    <3>2. ASSUME NEW s \in Living, NEW D \in SUBSET Tasks,
                 row' = [row EXCEPT ![t] = [status |-> s, deps |-> D]]
          PROVE  SameRows
      <4>1. PICK x : x = [status |-> s, deps |-> D]
        OBVIOUS
      <4>2. row' = [row EXCEPT ![t] = x] /\ x.status \in Living
        BY <3>2, <4>1
      <4> QED
        BY <3>1, <4>2, Rewritten
    <3> QED
      BY <1>r, <3>1, <3>2
  <2> QED
    BY <1>3, <1>h, <2>1, UniqueStill DEF Link
<1>4. CASE CreateStep(p)
  <2>1. UNCHANGED <<owner, log, shared, row>> /\ create[p].at = "out"
    BY <1>4 DEF CreateStep, Call, lockVars, In
  <2>2. /\ create'[p].at = "log" /\ ~create'[p].inside
        /\ \A q \in Processes \ {p} : create'[q] = create[q]
    BY <1>4 DEF CreateStep, Call, Shapes
  <2> QED
    BY <1>1, <1>r, <2>1, <2>2
<1>5. CASE Route(p)
  <2>1. UNCHANGED <<owner, log, shared>> /\ create[p].at = "answer"
    BY <1>5 DEF Route, lockVars, In
  <2>0. \E in, t, c : Now(p, "routed", in, t, c)
    BY <1>5, CreatingMoves
  <2>2. /\ create'[p].at = "routed"
        /\ \A q \in Processes \ {p} : create'[q] = create[q]
    BY <2>0 DEF Now
  <2>3. create[p].task \in Tasks /\ Made(create[p].task)
    BY <1>5, InShape DEF Route, CallOK
  <2>4. PICK x : x = [create[p].copy EXCEPT !.status = "queued"]
    OBVIOUS
  <2>5. row' = [row EXCEPT ![create[p].task] = x] /\ x.status \in Living
    BY <1>5, <2>4, InShape DEF Route, Rows, Living, RowStatuses, Dispatched
  <2>6. SameRows
    BY <2>3, <2>5, Rewritten
  <2> QED
    BY <1>1, <2>1, <2>2, <2>6
<1>6. CASE ReadBack(p) \/ CreateRaised(p)
  <2>1. UNCHANGED <<owner, log, shared, row>> /\ create[p].at \in {"answer", "routed"}
    BY <1>6 DEF ReadBack, CreateRaised, In
  <2>2. /\ create'[p].at = "out"
        /\ \A q \in Processes \ {p} : create'[q] = create[q]
    BY <1>6 DEF ReadBack, CreateRaised, Out, Shapes
  <2> QED
    BY <1>1, <1>r, <2>1, <2>2
<1>7. CASE Interrupted(p)
  <2>1. UNCHANGED <<log, shared, row>> /\ ~Tears(p)
    BY <1>7 DEF Interrupted, Die, Happens, Clean, Shapes, LockTypeOK, MishapKinds
  <2>2. /\ create'[p].at = "out"
        /\ \A q \in Processes \ {p} : create'[q] = create[q]
    BY <1>7 DEF Interrupted, Die, Out, Shapes
  <2>3. \A q \in Processes \ {p} : Held(q) => owner'[create[q].key] = q
    <3>1. SUFFICES ASSUME NEW q \in Processes, Held(q), q # p
                   PROVE  owner'[create[q].key] = q
      OBVIOUS
    <3>2. create[q].key \in Resources /\ owner[create[q].key] = q
      BY <1>h, <3>1, InShape DEF Held, Within
    <3> QED
      BY <1>7, <3>1, <3>2 DEF Interrupted, Die, Abandon
  <2>4. ASSUME NEW x \in Tasks, Made(x)
        PROVE  Known(x)'
    <3>1. ASSUME NEW q \in Processes, NEW s \in {"record", "share"}, In(q, s),
                 create[q].task = x
          PROVE  log[KeyOf(x)] = x \/ Writing(x, s)'
      <4>1. CASE q = p
        <5>1. In(p, "share") /\ log[KeyOf(x)] # NoTask
          BY <2>1, <3>1, <4>1, WriterIsHeld DEF Tears, In
        <5> QED
          BY <2>4, <5>1, EntryIsRow, TaskKey
      <4>2. CASE q # p
        BY <2>2, <3>1, <4>2 DEF Writing, In
      <4> QED
        BY <4>1, <4>2
    <3>2. mishaps["unlogged"] > 0 => mishaps'["unlogged"] > 0
      BY UnloggedStays
    <3> QED
      BY <2>1, <2>4, <3>1, <3>2 DEF Uniqueness, Known, Writing
  <2>5. \A q \in Processes : Held(q)' => owner'[create'[q].key] = q
    BY <2>2, <2>3 DEF Held, Within
  <2>6. \A q \in Processes : Searching(q)' => log'[create'[q].key] = NoTask
    BY <2>1, <2>2 DEF Searching, Uniqueness
  <2>7. \A q \in Processes : In(q, "write")' =>
          \A x \in Tasks : Made(x) => KeyOf(x) # create'[q].key
    BY <2>2 DEF In, Uniqueness
  <2> QED
    BY <1>r, <2>1, <2>4, <2>5, <2>6, <2>7 DEF Uniqueness, SameRows
<1> QED
  BY <1>2, <1>3, <1>4, <1>5, <1>6, <1>7, UniqueCreating DEF Decomposing

LEMMA UniqueNext ==
  ASSUME Shapes, Uniqueness, MoreMishaps, Clean', [MissionNext]_missionVars
  PROVE  Uniqueness'
<1>h. \A q \in Processes : Held(q) => owner[create[q].key] = q
  BY DEF Uniqueness
<1>r. row' = row => SameRows
  BY DEF SameRows, Uniqueness, Made
<1>1. CASE UNCHANGED missionVars
  BY <1>1, <1>h, <1>r, UniqueStill DEF missionVars, creationVars, lockVars
<1>2. ASSUME NEW t \in Tasks, Claim(t) \/ Settle(t)
      PROVE  Uniqueness'
  <2>1. PICK s \in Dispatched : row' = [row EXCEPT ![t].status = s]
    BY <1>2 DEF Claim, Settle, Dispatched
  <2>2. PICK x : x = [row[t] EXCEPT !.status = s]
    OBVIOUS
  <2>3. Made(t) /\ x.status \in Living /\ row' = [row EXCEPT ![t] = x]
    BY <1>2, <2>1, <2>2 DEF Claim, Settle, Made, Shapes, RowsOK, Rows, Living,
                              RowStatuses, Dispatched
  <2>4. SameRows
    BY <2>3, Rewritten
  <2> QED
    BY <1>2, <1>h, <2>4, UniqueStill DEF Claim, Settle, lockVars
<1>3. CASE Elsewhere
  <2>1. deleting = NotDeleting
    <3>1. mishaps["deletion"] = 0
      BY <1>3 DEF Elsewhere, DeleteRow, DeleteShared, DeleteLog, Forget, ExpireLock,
                  Expire, Happens, lockVars, Shapes, LockTypeOK, MishapKinds, Clean
    <3> QED
      BY <3>1 DEF Shapes, DeletingOK
  <2>2. ~DeleteShared /\ ~DeleteLog
    BY <2>1 DEF DeleteShared, DeleteLog, NotDeleting
  <2>3. \A t \in Tasks, force \in BOOLEAN : ~DeleteRow(t, force)
    BY DEF DeleteRow, Happens, Clean, Shapes, LockTypeOK, MishapKinds
  <2>4. ASSUME NEW k \in Resources, Forget(k)
        PROVE  Uniqueness'
    <3>1. mishaps["unlogged"] = 0
      BY <2>4 DEF Forget, Happens, Clean, Shapes, LockTypeOK, MishapKinds
    <3> QED
      BY <1>h, <1>r, <2>4, <3>1, UniqueStill DEF Forget
  <2>5. ASSUME NEW k \in Resources, ExpireLock(k)
        PROVE  Uniqueness'
    <3>1. ~Using(k) /\ owner' = [owner EXCEPT ![k] = NoOne]
      BY <2>5 DEF ExpireLock, Expire, Happens, Clean, Shapes, LockTypeOK, MishapKinds
    <3>2. \A q \in Processes : Held(q) => owner'[create[q].key] = q
      <4>1. SUFFICES ASSUME NEW q \in Processes, Held(q)
                     PROVE  owner'[create[q].key] = q
        OBVIOUS
      <4>2. create[q].key \in Resources /\ owner[create[q].key] = q
        BY <1>h, <4>1, InShape DEF Held, Within
      <4>3. create[q].key # k
        BY <3>1, <4>1, <4>2 DEF Using, Held
      <4> QED
        BY <3>1, <4>2, <4>3 DEF Shapes, LockTypeOK
    <3> QED
      BY <1>r, <2>5, <3>2, UniqueStill DEF ExpireLock
  <2> QED
    BY <1>3, <2>2, <2>3, <2>4, <2>5 DEF Elsewhere
<1> QED
  BY <1>1, <1>2, <1>3, UniqueDecomposing DEF MissionNext

(* What went wrong stays so. *)
LEMMA MishapsGrow ==
  ASSUME Shapes, [MissionNext]_missionVars
  PROVE  MoreMishaps
<1>1. ASSUME NEW m \in MishapKinds, Happens(m)
      PROVE  MoreMishaps
  BY <1>1 DEF Happens, MoreMishaps, Shapes, LockTypeOK
<1>2. ASSUME NEW p \in Processes, Raise(p)
      PROVE  MoreMishaps
  BY <1>2 DEF Raise, MoreMishaps, Shapes, LockTypeOK, MishapKinds
<1>3. mishaps' = mishaps => MoreMishaps
  BY DEF MoreMishaps, Shapes, LockTypeOK
<1>4. ASSUME NEW p \in Processes, Creating(p)
      PROVE  mishaps' = mishaps \/ \E m \in MishapKinds : Happens(m)
  BY <1>4 DEF Creating, ReadLog, HeedLog, ReadShared, HeedShared, Enter, WriteRow, Record,
              Share, Leave, Unlock, Acquire, Free, lockVars, MishapKinds
<1>5. ASSUME NEW p \in Processes, Begin(p) \/ Decomposing(p) \/ Interrupted(p)
      PROVE  mishaps' = mishaps \/ Raise(p) \/ \E m \in MishapKinds : Happens(m)
  <2>1. CASE Interrupted(p)
    BY <2>1 DEF Interrupted, Die, MishapKinds
  <2>2. CASE ReadBack(p) \/ CreateRaised(p) \/ Link(p)
    BY <2>2 DEF ReadBack, CreateRaised, Link
  <2> QED
    BY <1>4, <1>5, <2>1, <2>2
       DEF Begin, Decomposing, NoPlan, CreateStep, Call, Route, Finish, creationVars, lockVars
<1>6. Elsewhere => mishaps' = mishaps \/ \E m \in MishapKinds : Happens(m)
  BY DEF Elsewhere, DeleteRow, DeleteShared, DeleteLog, Forget, ExpireLock, Expire,
         lockVars, MishapKinds
<1>7. mishaps' = mishaps \/ (\E p \in Processes : Raise(p)) \/ \E m \in MishapKinds : Happens(m)
  BY <1>5, <1>6 DEF MissionNext, Claim, Settle, missionVars, creationVars, lockVars
<1> QED
  BY <1>1, <1>2, <1>3, <1>7

LEMMA CleanBefore ==
  ASSUME Shapes, MoreMishaps, Clean'
  PROVE  Clean
BY DEF MoreMishaps, Clean, Shapes, LockTypeOK, MishapKinds

(* A key has one task, for any number of processes that create it, look it
   up, die, raise or start again in any order, as long as no lock lapsed,
   nobody died between a row and its entries, nothing was deleted, and not
   both entries of a key got lost, the table's in a failed insert and the
   shared one by its expiry. *)
THEOREM KeysAreUnique == MissionSpec => []OneTaskPerKey
<1> DEFINE Inv == Clean => Uniqueness
<1>1. MissionInit => Inv
  BY DEF MissionInit, CreationInit, Uniqueness, Out, NoRow, Made, Held, Searching, In, Within
<1>2. Shapes /\ Inv /\ [MissionNext]_missionVars => Inv'
  BY UniqueNext, CleanBefore, MishapsGrow
<1>3. Shapes /\ Inv => OneTaskPerKey
  BY DEF Uniqueness, OneTaskPerKey, HasRow, Made, Clean
<1> QED
  BY <1>1, <1>2, <1>3, ShapesHold, PTL DEF MissionSpec

=============================================================================
