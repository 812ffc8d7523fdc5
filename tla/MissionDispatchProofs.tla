----------------------- MODULE MissionDispatchProofs -----------------------
(***************************************************************************)
(* A decomposed mission is linked: for every number of processes, every    *)
(* plan and whatever the worker does with the subtasks meanwhile.          *)
(***************************************************************************)
EXTENDS MissionDecompositionProofs

-----------------------------------------------------------------------------
(* What a decomposed mission is made of.                                   *)

Sent(t) == row[t].status \in Dispatched
Linked(t) == {KeyOf(d) : d \in row[t].deps} = Needs[KeyOf(t)]

(* No decomposition was cut off, and no subtask deleted. *)
Whole == \A m \in {"tear", "crash", "raise", "deletion"} : mishaps[m] = 0

(* A process that has QUEUED a subtask, or met it, will link it in pass 2. *)
WillLink(p, t) ==
  \/ In(p, "routed") /\ create[p].task = t
  \/ /\ job[p].at \in {"creating", "linking"}
     /\ \E i \in job[p].link..Len(job[p].ids) : job[p].ids[i] = t

(* The mission is done with subtasks that were dispatched, or has none. *)
MissionWhole ==
  /\ ~mission.done => mission.ids = <<>>
  /\ mission.done => Len(mission.ids) = Len(Plan)
                     /\ \A i \in Steps : Sent(mission.ids[i])

(* A decomposition was begun with a mission that had none, and what it has
   made was dispatched. *)
JobWhole(p) ==
  job[p] # Resting =>
    /\ job[p].held.ids = <<>>
    /\ ~job[p].held.done
    /\ \A i \in 1..Len(job[p].ids) : Sent(job[p].ids[i])

(* A call has no copy of a row while it looks for one; the one it answers
   with is to be dispatched, or was. *)
Lookups == {"log", "heedLog", "shared", "heedShared", "lock", "write"}
Answers == {"record", "share", "leave", "unlock", "answer", "routed"}

CallWhole(p) ==
  /\ create[p].at \in Lookups => create[p].copy.status = "absent"
  /\ In(p, "write") => create[p].task = NoTask
  /\ create[p].at \in Answers /\ create[p].task # NoTask =>
       \/ create[p].copy.status = "assignment_pending"
       \/ create[p].copy.status \in Dispatched /\ Sent(create[p].task)
  /\ In(p, "routed") => Sent(create[p].task)

(* Whoever wrote a subtask without its links, or over them, links it again. *)
Linking == \A t \in Tasks : Sent(t) => Linked(t) \/ \E p \in Processes : WillLink(p, t)

Pairing ==
  /\ MissionWhole
  /\ \A p \in Processes : JobWhole(p) /\ CallWhole(p)
  /\ Linking


(* What was dispatched stays so. *)
Lasting == \A t \in Tasks : Sent(t) => Sent(t)'

LEMMA MissionLasts ==
  ASSUME Shapes, MissionWhole, Lasting, mission' = mission
  PROVE  MissionWhole'
<1>1. mission.ids \in Seq(Tasks) /\ Len(Plan) \in Nat
  BY MissionAssumption DEF Shapes, MissionOK, Missions
<1>2. ASSUME mission.done, NEW i \in Steps
      PROVE  Sent(mission.ids[i])'
  <2>1. mission.ids[i] \in Tasks /\ Sent(mission.ids[i])
    BY <1>1, <1>2 DEF MissionWhole, Steps
  <2>2. PICK t : t = mission.ids[i]
    OBVIOUS
  <2>3. Sent(t)'
    BY <2>1, <2>2 DEF Lasting
  <2> QED
    BY <2>2, <2>3
<1> QED
  BY <1>2 DEF MissionWhole

LEMMA WholeStays ==
  ASSUME Shapes, Lasting, NEW q \in Processes, JobWhole(q), job'[q] = job[q]
  PROVE  JobWhole(q)'
<1>1. ASSUME job[q] # Resting, NEW i \in 1..Len(job[q].ids)
      PROVE  Sent(job[q].ids[i])'
  <2>1. job[q].ids \in Seq(Tasks)
    BY <1>1, JobKinds DEF JobShape, Jobs
  <2>2. PICK t : t = job[q].ids[i]
    OBVIOUS
  <2>3. t \in Tasks /\ Sent(t)
    BY <1>1, <2>1, <2>2 DEF JobWhole
  <2>4. Sent(t)'
    BY <2>3 DEF Lasting
  <2> QED
    BY <2>2, <2>4
<1> QED
  BY <1>1 DEF JobWhole

LEMMA CallStays ==
  ASSUME Shapes, Lasting, NEW q \in Processes, CallWhole(q), create'[q] = create[q]
  PROVE  CallWhole(q)'
<1>1. PICK t : t = create[q].task
  OBVIOUS
<1>2. t \in Tasks \/ t = NoTask
  BY <1>1, InShape DEF Entries
<1>3. In(q, "routed") => t # NoTask
  BY <1>1, InShape DEF CallOK, In
<1>4. t # NoTask /\ Sent(t) => Sent(t)'
  BY <1>2 DEF Lasting
<1> QED
  BY <1>1, <1>3, <1>4 DEF CallWhole, In

(* One process moves.  What it writes it links, or will. *)
LEMMA PairingStep ==
  ASSUME Shapes, Pairing, Lasting, NEW p \in Processes,
         \A q \in Processes \ {p} : create'[q] = create[q] /\ job'[q] = job[q],
         MissionWhole', JobWhole(p)', CallWhole(p)',
         \A t \in Tasks : Sent(t)' => \/ Linked(t)'
                                      \/ WillLink(p, t)'
                                      \/ Sent(t) /\ row'[t].deps = row[t].deps,
         \A t \in Tasks : WillLink(p, t) => WillLink(p, t)' \/ Linked(t)'
  PROVE  Pairing'
<1>1. \A q \in Processes : JobWhole(q)' /\ CallWhole(q)'
  BY WholeStays, CallStays DEF Pairing
<1>2. ASSUME NEW t \in Tasks, NEW q \in Processes, WillLink(q, t), q # p
      PROVE  WillLink(q, t)'
  BY <1>2 DEF WillLink, In
<1>3. ASSUME NEW t \in Tasks, Sent(t)', ~Linked(t)'
      PROVE  \E q \in Processes : WillLink(q, t)'
  <2>1. CASE Sent(t) /\ row'[t].deps = row[t].deps
    <3>1. ~Linked(t)
      BY <1>3, <2>1 DEF Linked
    <3>2. PICK q \in Processes : WillLink(q, t)
      BY <2>1, <3>1 DEF Pairing, Linking
    <3> QED
      BY <1>2, <1>3, <3>2
  <2> QED
    BY <1>3, <2>1
<1> QED
  BY <1>1, <1>3 DEF Pairing, Linking

(* Nobody moves. *)
LEMMA PairingStill ==
  ASSUME Shapes, Pairing, Lasting, UNCHANGED <<create, job, mission>>,
         \A t \in Tasks : Sent(t)' => Sent(t) /\ row'[t].deps = row[t].deps
  PROVE  Pairing'
<1>1. \A q \in Processes : JobWhole(q)' /\ CallWhole(q)'
  BY WholeStays, CallStays DEF Pairing
<1>2. MissionWhole'
  BY MissionLasts DEF Pairing
<1>3. ASSUME NEW t \in Tasks, Sent(t)', ~Linked(t)'
      PROVE  \E q \in Processes : WillLink(q, t)'
  <2>1. Sent(t) /\ ~Linked(t)
    BY <1>3 DEF Linked
  <2>2. PICK q \in Processes : WillLink(q, t)
    BY <2>1 DEF Pairing, Linking
  <2>3. WillLink(q, t)'
    BY <2>2 DEF WillLink, In
  <2> QED
    BY <2>3
<1> QED
  BY <1>1, <1>2, <1>3 DEF Pairing, Linking

(* A call moves alone. *)
LEMMA OthersCalls ==
  ASSUME Shapes, NEW p \in Processes, Creating(p)
  PROVE  \A q \in Processes \ {p} : create'[q] = create[q]
<1>1. DOMAIN create = Processes
  BY DEF Shapes
<1>2. CASE ReadLog(p) \/ HeedLog(p)
  BY <1>1, <1>2 DEF ReadLog, HeedLog, Answer
<1>3. CASE ReadShared(p) \/ HeedShared(p)
  BY <1>1, <1>3 DEF ReadShared, HeedShared, Answer, NextLookup
<1>4. CASE Enter(p) \/ WriteRow(p)
  BY <1>1, <1>4 DEF Enter, WriteRow, Go
<1>5. CASE Record(p) \/ Share(p) \/ Leave(p) \/ Unlock(p)
  BY <1>1, <1>5 DEF Record, Share, Leave, Unlock, Go
<1> QED
  BY <1>2, <1>3, <1>4, <1>5 DEF Creating

LEMMA PairingCalls ==
  ASSUME Shapes, Pairing, NEW p \in Processes, Creating(p), UNCHANGED <<mission, job>>
  PROVE  Pairing'
<1>1. \A q \in Processes \ {p} : create'[q] = create[q]
  BY OthersCalls
<1>2. PICK t, k, in, c : /\ k = create[p].key /\ t = create[p].task
                         /\ in = create[p].inside /\ c = create[p].copy
  OBVIOUS
<1>3. CallWhole(p) /\ t \in Entries
  BY <1>2, InShape DEF Pairing
<1>4. \A u \in Tasks : HasRow(u) => row[u].status = "assignment_pending" \/ Sent(u)
  BY DEF HasRow, Sent, Dispatched, Shapes, RowsOK, Rows, RowStatuses
<1>5. HasRow(t) => t \in Tasks
  BY <1>3 DEF HasRow, Entries
<1>6. ~In(p, "routed")
  BY DEF Creating, ReadLog, HeedLog, ReadShared, HeedShared, Enter, WriteRow, Record,
         Share, Leave, Unlock, In
<1>7. \A u \in Tasks : WillLink(p, u) => WillLink(p, u)'
  BY <1>6 DEF WillLink
<1>8. ASSUME row' = row, CallWhole(p)'
      PROVE  Pairing'
  <2>1. Lasting
    BY <1>8 DEF Lasting, Sent
  <2>2. \A u \in Tasks : Sent(u)' => Sent(u) /\ row'[u].deps = row[u].deps
    BY <1>8 DEF Sent
  <2>3. MissionWhole' /\ JobWhole(p)'
    BY <2>1, MissionLasts, WholeStays DEF Pairing
  <2> QED
    BY <1>1, <1>7, <1>8, <2>1, <2>2, <2>3, PairingStep
<1>9. CASE ReadLog(p)
  <2>1. row' = row /\ In(p, "log")
    BY <1>9 DEF ReadLog
  <2>2. Now(p, IF log[k] = NoTask THEN "shared" ELSE "heedLog", in, log[k], c)
    BY <1>2, <1>9, CreatingMoves
  <2>3. CallWhole(p)'
    BY <1>2, <1>3, <2>1, <2>2 DEF Now, CallWhole, In, Lookups, Answers
  <2> QED
    BY <1>8, <2>1, <2>3
<1>10. CASE HeedLog(p)
  <2>1. row' = row /\ In(p, "heedLog")
    BY <1>10 DEF HeedLog
  <2>2. IF HasRow(t) THEN Now(p, IF in THEN "leave" ELSE "answer", in, t, row[t])
        ELSE Now(p, "shared", in, NoTask, c)
    BY <1>2, <1>10, CreatingMoves
  <2>3. CallWhole(p)'
    BY <1>2, <1>3, <1>4, <1>5, <2>1, <2>2 DEF Now, CallWhole, In, Lookups, Answers, Sent
  <2> QED
    BY <1>8, <2>1, <2>3
<1>11. CASE ReadShared(p)
  <2>1. row' = row /\ In(p, "shared")
    BY <1>11 DEF ReadShared
  <2>2. IF shared[k] = NoTask THEN Now(p, IF in THEN "write" ELSE "lock", in, NoTask, c)
        ELSE Now(p, "heedShared", in, shared[k], c)
    BY <1>2, <1>11, CreatingMoves
  <2>3. CallWhole(p)'
    BY <1>2, <1>3, <2>1, <2>2 DEF Now, CallWhole, In, Lookups, Answers
  <2> QED
    BY <1>8, <2>1, <2>3
<1>12. CASE HeedShared(p)
  <2>1. row' = row /\ In(p, "heedShared")
    BY <1>12 DEF HeedShared
  <2>2. IF HasRow(t) THEN Now(p, IF in THEN "leave" ELSE "answer", in, t, row[t])
        ELSE Now(p, IF in THEN "write" ELSE "lock", in, NoTask, c)
    BY <1>2, <1>12, CreatingMoves
  <2>3. CallWhole(p)'
    BY <1>2, <1>3, <1>4, <1>5, <2>1, <2>2 DEF Now, CallWhole, In, Lookups, Answers, Sent
  <2> QED
    BY <1>8, <2>1, <2>3
<1>13. CASE Enter(p)
  <2>1. row' = row /\ In(p, "lock")
    BY <1>13 DEF Enter
  <2>2. Now(p, "log", TRUE, t, c)
    BY <1>2, <1>13, CreatingMoves
  <2>3. CallWhole(p)'
    BY <1>2, <1>3, <2>1, <2>2 DEF Now, CallWhole, In, Lookups, Answers
  <2> QED
    BY <1>8, <2>1, <2>3
<1>14. CASE Record(p) \/ Share(p) \/ Leave(p) \/ Unlock(p)
  <2>1. row' = row /\ create[p].at \in {"record", "share", "leave", "unlock"}
    BY <1>14 DEF Record, Share, Leave, Unlock, In
  <2>2. \E s \in {"share", "leave", "unlock", "answer"} : Now(p, s, in, t, c)
    <3>1. CASE Record(p)
      BY <1>2, <3>1, CreatingMoves
    <3>2. CASE Share(p)
      BY <1>2, <3>2, CreatingMoves
    <3>3. CASE Leave(p)
      BY <1>2, <3>3, CreatingMoves
    <3>4. CASE Unlock(p)
      BY <1>2, <3>4, CreatingMoves
    <3> QED
      BY <1>14, <3>1, <3>2, <3>3, <3>4
  <2>3. CallWhole(p)'
    BY <1>2, <1>3, <2>1, <2>2 DEF Now, CallWhole, In, Lookups, Answers, Sent
  <2> QED
    BY <1>8, <2>1, <2>3
<1>15. CASE WriteRow(p)
  <2>1. In(p, "write")
    BY <1>15 DEF WriteRow
  <2>2. ASSUME row' = row, Now(p, "leave", create[p].inside, create[p].task, create[p].copy)
        PROVE  Pairing'
    <3>1. CallWhole(p)'
      BY <1>3, <2>1, <2>2 DEF Now, CallWhole, In, Lookups, Answers
    <3> QED
      BY <1>8, <2>2, <3>1
  <2>3. ASSUME NEW u \in Tasks, row[u].status = "absent", row' = [row EXCEPT ![u] = NewRow],
               Now(p, "record", create[p].inside, u, NewRow)
        PROVE  Pairing'
    <3>1. NewRow.status = "assignment_pending"
      BY DEF NewRow
    <3>2. \A v \in Tasks : row'[v] = IF v = u THEN NewRow ELSE row[v]
      BY <2>3 DEF Shapes, RowsOK
    <3>3. Lasting
      BY <2>3, <3>2 DEF Lasting, Sent, Dispatched
    <3>4. \A v \in Tasks : Sent(v)' => Sent(v) /\ row'[v].deps = row[v].deps
      BY <3>1, <3>2 DEF Sent, Dispatched
    <3>5. CallWhole(p)'
      BY <2>3, <3>1 DEF Now, CallWhole, In, Lookups, Answers
    <3>6. MissionWhole' /\ JobWhole(p)'
      BY <3>3, MissionLasts, WholeStays DEF Pairing
    <3> QED
      BY <1>1, <1>7, <3>3, <3>4, <3>5, <3>6, PairingStep
  <2> QED
    BY <1>15, <2>2, <2>3, WriteRowMoves
<1> QED
  BY <1>9, <1>10, <1>11, <1>12, <1>13, <1>14, <1>15 DEF Creating


LEMMA NotCutOff ==
  ASSUME Shapes, Whole', NEW p \in Processes
  PROVE  ~Raise(p) /\ \A m \in {"tear", "crash", "deletion"} : ~Happens(m)
BY DEF Whole, Raise, Happens, Shapes, LockTypeOK, MishapKinds

(* No step before this one went wrong either. *)
LEMMA WholeBefore ==
  ASSUME Shapes, [MissionNext]_missionVars, Whole'
  PROVE  Whole
BY MishapsGrow DEF MoreMishaps, Whole, Shapes, LockTypeOK, MishapKinds

(* A row is written anew. *)
LEMMA RowWritten ==
  ASSUME Shapes, NEW t \in Tasks, NEW x, row' = [row EXCEPT ![t] = x],
         x.status \in Dispatched
  PROVE  /\ Lasting
         /\ row'[t] = x
         /\ \A u \in Tasks : u # t /\ Sent(u)' => Sent(u) /\ row'[u].deps = row[u].deps
<1>1. \A u \in Tasks : row'[u] = IF u = t THEN x ELSE row[u]
  BY DEF Shapes, RowsOK
<1> QED
  BY <1>1 DEF Lasting, Sent

LEMMA PairingRoute ==
  ASSUME Shapes, Pairing, NEW p \in Processes, Route(p)
  PROVE  Pairing'
<1>1. PICK t, c : t = create[p].task /\ c = create[p].copy
  OBVIOUS
<1>2. t \in Tasks /\ c \in Rows /\ c.status = "assignment_pending"
  BY <1>1, InShape DEF Route, CallOK
<1>3. PICK x : x = [c EXCEPT !.status = "queued"]
  OBVIOUS
<1>4. row' = [row EXCEPT ![t] = x] /\ x.status \in Dispatched
  BY <1>1, <1>2, <1>3 DEF Route, Rows, Dispatched
<1>5. UNCHANGED <<job, mission>> /\ In(p, "answer")
  BY DEF Route
<1>6. \E in : Now(p, "routed", in, t, c)
  BY <1>1, CreatingMoves
<1>7. /\ create'[p].at = "routed" /\ create'[p].task = t /\ create'[p].copy = c
      /\ \A q \in Processes \ {p} : create'[q] = create[q]
  BY <1>6 DEF Now
<1>8. /\ Lasting /\ row'[t] = x
      /\ \A u \in Tasks : u # t /\ Sent(u)' => Sent(u) /\ row'[u].deps = row[u].deps
  BY <1>2, <1>4, RowWritten
<1>9. WillLink(p, t)'
  BY <1>7 DEF WillLink, In
<1>10. \A u \in Tasks : WillLink(p, u) => WillLink(p, u)'
  BY <1>5 DEF WillLink, In
<1>11. MissionWhole' /\ JobWhole(p)'
  BY <1>5, <1>8, MissionLasts, WholeStays DEF Pairing
<1>12. CallWhole(p)'
  BY <1>2, <1>4, <1>7, <1>8 DEF CallWhole, In, Lookups, Answers, Sent
<1>13. \A u \in Tasks : Sent(u)' => \/ WillLink(p, u)'
                                    \/ Sent(u) /\ row'[u].deps = row[u].deps
  BY <1>8, <1>9
<1> QED
  BY <1>5, <1>7, <1>8, <1>10, <1>11, <1>12, <1>13, PairingStep

LEMMA PairingReadBack ==
  ASSUME Shapes, Pairing, NEW p \in Processes, ReadBack(p), Whole'
  PROVE  Pairing'
<1>1. UNCHANGED <<row, mission>> /\ create' = [create EXCEPT ![p] = Out]
      /\ ~In(p, "out") /\ ~Raise(p)
  BY NotCutOff DEF ReadBack, In
<1>2. PICK t : t = create[p].task
  OBVIOUS
<1>3. HasRow(t) /\ t \in Tasks
  BY <1>1, <1>2, InShape DEF ReadBack, HasRow, Entries
<1>4. Sent(t)
  <2>1. CASE In(p, "routed")
    BY <1>2, <2>1 DEF Pairing, CallWhole
  <2>2. CASE In(p, "answer") /\ create[p].copy.status # "assignment_pending"
    <3>1. t # NoTask
      BY <1>3 DEF HasRow
    <3> QED
      BY <1>2, <2>2, <3>1 DEF Pairing, CallWhole, In, Answers
  <2> QED
    BY <2>1, <2>2 DEF ReadBack
<1>5. JobShape(p) /\ Doing(p, "creating") /\ job[p].link = 1
  BY <1>1, JobKinds DEF JobShape, Doing
<1>7. PICK a : a = IF Len(job[p].ids) + 1 = Len(Plan) THEN "linking" ELSE job[p].at
  OBVIOUS
<1>8. job' = [job EXCEPT ![p].ids = Append(@, t), ![p].at = a]
  BY <1>1, <1>2, <1>7 DEF ReadBack
<1>9. PICK d : d = Append(job[p].ids, t)
  OBVIOUS
<1>10. PICK j : j = [job[p] EXCEPT !.ids = d, !.at = a]
  OBVIOUS
<1>11. /\ job'[p] = j /\ job' = [job EXCEPT ![p] = j]
       /\ \A q \in Processes \ {p} : job'[q] = job[q]
  BY <1>8, <1>9, <1>10 DEF Shapes
<1>12. j.ids = d /\ j.at = a /\ j.held = job[p].held /\ j.link = 1
  BY <1>5, <1>10 DEF JobShape, Jobs
<1>13. PICK n : n = Len(job[p].ids)
  OBVIOUS
<1>14. /\ n \in Nat /\ Len(d) = n + 1 /\ d[n + 1] = t
       /\ \A i \in 1..n : d[i] = job[p].ids[i]
  <2>1. job[p].ids \in Seq(Tasks)
    BY <1>5 DEF JobShape, Jobs
  <2> QED
    BY <1>3, <1>9, <1>13, <2>1, AppendProperties
<1>15. Lasting /\ MissionWhole'
  <2>1. Lasting
    BY <1>1 DEF Lasting, Sent
  <2> QED
    BY <1>1, <2>1, MissionLasts DEF Pairing
<1>16. JobWhole(p)'
  <2>1. job[p] # Resting
    BY <1>5, JobKinds
  <2>2. job[p].held.ids = <<>> /\ ~job[p].held.done
        /\ \A i \in 1..n : Sent(job[p].ids[i])
    BY <1>13, <2>1 DEF Pairing, JobWhole
  <2>3. ASSUME NEW i \in 1..(n + 1)
        PROVE  Sent(d[i])'
    <3>1. Sent(d[i])
      <4>1. CASE i \in 1..n
        BY <1>14, <2>2, <4>1
      <4>2. CASE i = n + 1
        BY <1>4, <1>14, <4>2 DEF Sent
      <4> QED
        BY <1>14, <2>3, <4>1, <4>2
    <3> QED
      BY <1>1, <3>1 DEF Sent
  <2> QED
    BY <1>11, <1>12, <1>14, <2>2, <2>3 DEF JobWhole
<1>17. create'[p] = Out /\ \A q \in Processes \ {p} : create'[q] = create[q]
  BY <1>1 DEF Shapes
<1>18. CallWhole(p)'
  BY <1>17 DEF CallWhole, Out, In, Lookups, Answers
<1>19. a \in {"creating", "linking"}
  BY <1>5, <1>7 DEF Doing
<1>20. ASSUME NEW u \in Tasks, WillLink(p, u)
       PROVE  WillLink(p, u)'
  <2>1. \E i \in 1..(n + 1) : d[i] = u
    <3>1. CASE In(p, "routed") /\ create[p].task = u
      BY <1>2, <1>14, <3>1
    <3>2. CASE \E i \in job[p].link..Len(job[p].ids) : job[p].ids[i] = u
      <4>1. PICK i \in 1..n : job[p].ids[i] = u
        BY <1>5, <1>13, <3>2
      <4>2. i \in 1..(n + 1) /\ d[i] = u
        BY <1>14, <4>1
      <4> QED
        BY <4>2
    <3> QED
      BY <1>20, <3>1, <3>2 DEF WillLink
  <2> QED
    BY <1>11, <1>12, <1>14, <1>19, <2>1 DEF WillLink
<1>21. \A u \in Tasks : Sent(u)' => Sent(u) /\ row'[u].deps = row[u].deps
  BY <1>1 DEF Sent
<1> QED
  BY <1>11, <1>15, <1>16, <1>17, <1>18, <1>20, <1>21, PairingStep


LEMMA PairingLink ==
  ASSUME Shapes, Pairing, NEW p \in Processes, Link(p), Whole'
  PROVE  Pairing'
<1>1. PICK i \in Steps, t \in Tasks :
        /\ JobShape(p) /\ In(p, "out") /\ Len(job[p].ids) = Len(Plan)
        /\ job[p].link = i /\ t = AllIds(p)[i]
        /\ Made(t) /\ KeyOf(t) = Plan[i]
        /\ \/ /\ \E s \in Living, D \in SUBSET Tasks :
                   /\ D = Links(p, Plan[i])
                   /\ s \in Dispatched
                   /\ row' = [row EXCEPT ![t] = [status |-> s, deps |-> D]]
              /\ job' = [job EXCEPT ![p].link = i + 1, ![p].at = NextIs(p)]
              /\ mishaps' = mishaps
           \/ Raise(p) /\ row' = row
  BY LinkWrites
<1>2. UNCHANGED <<create, mission>> /\ Doing(p, "linking") /\ ~Raise(p)
  BY NotCutOff DEF Link
<1>3. /\ Len(Plan) \in Nat /\ i \in Nat /\ 1 <= i /\ i <= Len(Plan)
      /\ Plan[i] \in Resources
  BY MissionAssumption DEF Steps
<1>4. /\ job[p].held.ids = <<>> /\ job[p].ids \in Seq(Tasks)
      /\ \A n \in Steps : Sent(job[p].ids[n])
  BY <1>1, JobKinds DEF Pairing, JobWhole, JobShape, Jobs, Steps
<1>5. AllIds(p) = job[p].ids
  BY <1>4 DEF AllIds
<1>6. t = job[p].ids[i] /\ Sent(t)
  BY <1>1, <1>4, <1>5
<1>7. PICK s \in Dispatched, D \in SUBSET Tasks :
        /\ D = Links(p, Plan[i])
        /\ row' = [row EXCEPT ![t] = [status |-> s, deps |-> D]]
  BY <1>1, <1>2
<1>9. PICK x : x = [status |-> s, deps |-> D]
  OBVIOUS
<1>10. /\ Lasting /\ row'[t] = x
       /\ \A u \in Tasks : u # t /\ Sent(u)' => Sent(u) /\ row'[u].deps = row[u].deps
  <2>1. row' = [row EXCEPT ![t] = x] /\ x.status \in Dispatched
    BY <1>7, <1>9
  <2> QED
    BY <2>1, RowWritten
<1>11. Linked(t)'
  <2>1. {KeyOf(d) : d \in D} = Needs[Plan[i]]
    BY <1>1, <1>3, <1>7, LinksAreSteps
  <2>2. row'[t].deps = D
    BY <1>9, <1>10
  <2> QED
    BY <1>1, <2>1, <2>2 DEF Linked
<1>12. PICK a : a = NextIs(p)
  OBVIOUS
<1>13. a = IF i = Len(Plan) THEN "finishing" ELSE "linking"
  BY <1>1, <1>12 DEF NextIs
<1>14. PICK n : n = i + 1
  OBVIOUS
<1>15. PICK j : j = [job[p] EXCEPT !.link = n, !.at = a]
  OBVIOUS
<1>16. job' = [job EXCEPT ![p] = j]
  BY <1>1, <1>2, <1>12, <1>14, <1>15
<1>17. job'[p] = j /\ \A q \in Processes \ {p} : job'[q] = job[q]
  BY <1>16 DEF Shapes
<1>18. /\ j.ids = job[p].ids /\ j.held = job[p].held
       /\ j.at = a /\ j.link = n
  BY <1>1, <1>15 DEF JobShape, Jobs
<1>19. MissionWhole' /\ CallWhole(p)'
  BY <1>2, <1>10, MissionLasts, CallStays DEF Pairing
<1>20. JobWhole(p)'
  <2>1. ASSUME NEW m \in 1..Len(job[p].ids)
        PROVE  row'[job[p].ids[m]].status \in Dispatched
    <3>1. PICK u : u = job[p].ids[m]
      OBVIOUS
    <3>2. u \in Tasks /\ Sent(u)
      BY <1>1, <1>4, <3>1 DEF Steps
    <3>3. row'[u].status \in Dispatched
      BY <1>10, <3>2 DEF Lasting, Sent
    <3> QED
      BY <3>1, <3>2, <3>3
  <2>2. job[p] # Resting
    BY <1>1, JobKinds
  <2> QED
    BY <1>17, <1>18, <2>1, <2>2 DEF Pairing, JobWhole, Sent
<1>21. ASSUME NEW u \in Tasks, WillLink(p, u)
       PROVE  WillLink(p, u)' \/ Linked(u)'
  <2>1. PICK m \in i..Len(Plan) : job[p].ids[m] = u
    BY <1>1, <1>21 DEF WillLink, In
  <2>2. CASE m = i
    BY <1>6, <1>11, <2>1, <2>2
  <2>3. CASE m # i
    <3>1. m \in n..Len(Plan) /\ a = "linking"
      BY <1>3, <1>13, <1>14, <2>1, <2>3
    <3>2. \E l \in job'[p].link..Len(job'[p].ids) : job'[p].ids[l] = u
      BY <1>1, <1>17, <1>18, <2>1, <3>1
    <3> QED
      BY <1>17, <1>18, <3>1, <3>2 DEF WillLink
  <2> QED
    BY <2>2, <2>3
<1>22. \A u \in Tasks : Sent(u)' => Linked(u)' \/ (Sent(u) /\ row'[u].deps = row[u].deps)
  BY <1>10, <1>11
<1> QED
  BY <1>2, <1>10, <1>17, <1>19, <1>20, <1>21, <1>22, PairingStep

(* A process begins, goes on to the next step, or ends, and writes no row. *)
LEMMA PairingUnwritten ==
  ASSUME Shapes, Pairing, NEW p \in Processes, row' = row,
         \A q \in Processes \ {p} : create'[q] = create[q] /\ job'[q] = job[q],
         MissionWhole', JobWhole(p)', CallWhole(p)',
         \A t \in Tasks : WillLink(p, t) => WillLink(p, t)'
  PROVE  Pairing'
<1>1. Lasting
  BY DEF Lasting, Sent
<1>2. \A t \in Tasks : Sent(t)' => Sent(t) /\ row'[t].deps = row[t].deps
  BY DEF Sent
<1> QED
  BY <1>1, <1>2, PairingStep

LEMMA PairingDecomposing ==
  ASSUME Shapes, Pairing, NEW p \in Processes, Whole',
         Begin(p) \/ Decomposing(p) \/ Interrupted(p)
  PROVE  Pairing'
<1>l. row' = row => Lasting
  BY DEF Lasting, Sent
<1>1. CASE Begin(p)
  <2>1. UNCHANGED <<row, create, mission>> /\ job[p] = Resting /\ In(p, "out")
    BY <1>1, JobKinds DEF Begin, creationVars
  <2>2. ~mission.done
    <3>1. SUFFICES ASSUME mission.done
                   PROVE  Decomposed
      BY <1>1 DEF Begin
    <3>2. Len(mission.ids) = Len(Plan) /\ \A i \in Steps : Sent(mission.ids[i])
      BY <3>1 DEF Pairing, MissionWhole
    <3>3. ASSUME NEW i \in 1..Len(mission.ids)
          PROVE  HasRow(mission.ids[i])
      <4>1. mission.ids[i] \in Tasks /\ Sent(mission.ids[i])
        BY <3>2 DEF Steps, Shapes, MissionOK, Missions
      <4> QED
        BY <4>1, NoTaskIsNone DEF HasRow, Sent, Dispatched
    <3> QED
      BY <3>1, <3>3 DEF Decomposed
  <2>3. PICK j : j = [at |-> "awaiting", held |-> mission, ids |-> <<>>, link |-> 1]
    OBVIOUS
  <2>4. job'[p] = j /\ \A q \in Processes \ {p} : job'[q] = job[q]
    BY <1>1, <2>3 DEF Begin, Shapes
  <2>5. MissionWhole' /\ CallWhole(p)'
    BY <1>l, <2>1, MissionLasts, CallStays DEF Pairing
  <2>6. JobWhole(p)'
    BY <2>2, <2>3, <2>4 DEF JobWhole, Pairing, MissionWhole
  <2>7. \A t \in Tasks : ~WillLink(p, t)
    BY <2>1 DEF WillLink, In, Resting
  <2> QED
    BY <2>1, <2>4, <2>5, <2>6, <2>7, PairingUnwritten
<1>2. CASE NoPlan(p) \/ Finish(p)
  <2>1. UNCHANGED <<row, create>> /\ End(p) /\ job[p].at \in {"awaiting", "finishing"}
    BY <1>2 DEF NoPlan, Finish, creationVars, Doing
  <2>2. JobShape(p) /\ job[p] # Resting
    BY <1>2, JobKinds DEF NoPlan, Finish
  <2>3. In(p, "out")
    BY <2>1, <2>2 DEF JobShape, Doing
  <2>4. job'[p] = Resting /\ \A q \in Processes \ {p} : job'[q] = job[q]
    BY <2>1 DEF End, Shapes
  <2>5. \A t \in Tasks : ~WillLink(p, t)
    BY <2>1, <2>3 DEF WillLink, In
  <2>6. JobWhole(p)' /\ CallWhole(p)'
    BY <1>l, <2>1, <2>4, CallStays DEF Pairing, JobWhole
  <2>7. /\ job[p].held.ids = <<>> /\ job[p].ids \in Seq(Tasks)
        /\ \A i \in 1..Len(job[p].ids) : Sent(job[p].ids[i])
    BY <2>2 DEF Pairing, JobWhole, JobShape, Jobs
  <2>8. MissionWhole'
    <3>1. CASE NoPlan(p)
      <4>1. PICK h : h = job[p].held
        OBVIOUS
      <4>2. h \in Missions /\ h.ids = <<>>
        BY <2>2, <2>7, <4>1 DEF JobShape, Jobs
      <4>3. mission' = [h EXCEPT !.done = FALSE]
        BY <3>1, <4>1 DEF NoPlan
      <4>4. mission'.ids = <<>> /\ ~mission'.done
        BY <4>2, <4>3 DEF Missions
      <4> QED
        BY <4>4 DEF MissionWhole
    <3>2. CASE Finish(p)
      <4>1. AllIds(p) = job[p].ids
        BY <2>7 DEF AllIds
      <4>2. mission'.ids = job[p].ids /\ mission'.done
        BY <3>2, <4>1 DEF Finish
      <4>3. Len(job[p].ids) = Len(Plan)
        BY <2>2, <3>2 DEF JobShape, Finish, Doing
      <4>4. ASSUME NEW i \in Steps
            PROVE  row'[job[p].ids[i]].status \in Dispatched
        BY <2>1, <2>7, <4>3 DEF Steps, Sent
      <4> QED
        BY <4>2, <4>3, <4>4 DEF MissionWhole, Sent
    <3> QED
      BY <1>2, <3>1, <3>2
  <2> QED
    BY <2>1, <2>4, <2>5, <2>6, <2>8, PairingUnwritten
<1>3. CASE CreateStep(p)
  <2>1. UNCHANGED <<row, mission>> /\ In(p, "out")
        /\ job[p].at \in {"awaiting", "creating"}
    BY <1>3 DEF CreateStep, Call
  <2>2. JobShape(p) /\ job[p] # Resting
    BY <2>1, JobKinds DEF Doing
  <2>3. PICK j : j = [job[p] EXCEPT !.at = "creating"]
    OBVIOUS
  <2>4. /\ job'[p] = j /\ j.ids = job[p].ids
        /\ j.held = job[p].held /\ j.at = "creating" /\ j.link = job[p].link
        /\ \A q \in Processes \ {p} : job'[q] = job[q]
    BY <1>3, <2>2, <2>3 DEF CreateStep, JobShape, Jobs, Shapes
  <2>5. /\ create'[p].at = "log" /\ create'[p].copy = NoRow
        /\ \A q \in Processes \ {p} : create'[q] = create[q]
    BY <1>3 DEF CreateStep, Call, Shapes
  <2>6. MissionWhole'
    BY <1>l, <2>1, MissionLasts DEF Pairing
  <2>7. CallWhole(p)'
    BY <2>5 DEF CallWhole, In, Lookups, Answers, NoRow
  <2>8. JobWhole(p)'
    BY <2>1, <2>2, <2>4 DEF Pairing, JobWhole, Sent
  <2>9. \A t \in Tasks : WillLink(p, t) => WillLink(p, t)'
    BY <2>1, <2>4 DEF WillLink, In
  <2> QED
    BY <2>1, <2>4, <2>5, <2>6, <2>7, <2>8, <2>9, PairingUnwritten
<1>4. ~CreateRaised(p) /\ ~Interrupted(p)
  BY NotCutOff DEF CreateRaised, Interrupted, Die
<1> QED
  BY <1>1, <1>2, <1>3, <1>4, PairingCalls, PairingRoute, PairingReadBack, PairingLink
     DEF Decomposing

LEMMA PairingNext ==
  ASSUME Shapes, Pairing, Whole', [MissionNext]_missionVars
  PROVE  Pairing'
<1>1. ASSUME UNCHANGED <<row, create, job, mission>>
      PROVE  Pairing'
  BY <1>1, PairingStill DEF Lasting, Sent
<1>2. CASE UNCHANGED missionVars
  BY <1>1, <1>2 DEF missionVars, creationVars
<1>3. ASSUME NEW t \in Tasks, Claim(t) \/ Settle(t)
      PROVE  Pairing'
  <2>1. Sent(t) /\ UNCHANGED <<create, job, mission>>
    BY <1>3 DEF Claim, Settle, Sent, Dispatched
  <2>2. PICK s \in Dispatched : row' = [row EXCEPT ![t].status = s]
    BY <1>3 DEF Claim, Settle, Dispatched
  <2>3. PICK x : x = [row[t] EXCEPT !.status = s]
    OBVIOUS
  <2>4. x.status = s /\ x.deps = row[t].deps /\ row' = [row EXCEPT ![t] = x]
    BY <2>2, <2>3 DEF Shapes, RowsOK, Rows
  <2>5. /\ Lasting /\ row'[t] = x
        /\ \A u \in Tasks : u # t /\ Sent(u)' => Sent(u) /\ row'[u].deps = row[u].deps
    BY <2>2, <2>4, RowWritten
  <2>6. \A u \in Tasks : Sent(u)' => Sent(u) /\ row'[u].deps = row[u].deps
    BY <2>1, <2>4, <2>5
  <2> QED
    BY <2>1, <2>5, <2>6, PairingStill
<1>4. CASE Elsewhere
  <2>1. UNCHANGED <<mission, create, job>>
    BY <1>4 DEF Elsewhere, DeleteRow, DeleteShared, DeleteLog, Forget, ExpireLock
  <2>2. \A t \in Tasks, force \in BOOLEAN : ~DeleteRow(t, force)
    BY DEF DeleteRow, Happens, Whole, Shapes, LockTypeOK, MishapKinds
  <2>3. row' = row
    BY <1>4, <2>2 DEF Elsewhere, DeleteShared, DeleteLog, Forget, ExpireLock
  <2> QED
    BY <1>1, <2>1, <2>3
<1> QED
  BY <1>2, <1>3, <1>4, PairingDecomposing DEF MissionNext

(* A mission that says it is decomposed, with no decomposition of it under
   way or cut off and no subtask deleted, names for every step of its plan a
   subtask of that step that was dispatched and waits for the steps it needs:
   for any number of processes that decompose it at once, any plan, whatever
   the worker makes of the subtasks meanwhile, and locks that lapse or entries
   that fail or are forgotten. *)
THEOREM DecomposedMissionsAreLinked == MissionSpec => []DecomposedIsLinked
<1> DEFINE Inv == Whole => Pairing
<1>1. MissionInit => Inv
  <2> SUFFICES ASSUME MissionInit PROVE Pairing
    OBVIOUS
  <2>1. MissionWhole
    BY DEF MissionInit, MissionWhole
  <2>2. \A p \in Processes : JobWhole(p) /\ CallWhole(p)
    BY DEF MissionInit, CreationInit, JobWhole, CallWhole, Out, In, Lookups, Answers
  <2>3. \A t \in Tasks : ~Sent(t)
    BY DEF MissionInit, CreationInit, NoRow, Sent, Dispatched
  <2> QED
    BY <2>1, <2>2, <2>3 DEF Pairing, Linking
<1>2. Shapes /\ Inv /\ [MissionNext]_missionVars => Inv'
  BY PairingNext, WholeBefore
<1>3. Shapes /\ Inv => DecomposedIsLinked
  <2> SUFFICES ASSUME Shapes, Inv, mission.done, Quiet, NoneCutOff,
                      mishaps["deletion"] = 0, NEW i \in 1..Len(Plan)
               PROVE  /\ row[mission.ids[i]].status \in Dispatched
                      /\ {KeyOf(d) : d \in row[mission.ids[i]].deps} = Needs[Plan[i]]
    BY DEF DecomposedIsLinked, Dispatched
  <2>1. Pairing
    BY DEF Whole, NoneCutOff
  <2>2. PICK t : t = mission.ids[i]
    OBVIOUS
  <2>3. Len(mission.ids) = Len(Plan) /\ Sent(t)
    BY <2>1, <2>2 DEF Pairing, MissionWhole, Steps
  <2>4. t \in Tasks /\ KeyOf(t) = Plan[i]
    <3>1. mission.ids \in Seq(Tasks) /\ MissionOK(mission)
      BY DEF Shapes, MissionOK, Missions
    <3>2. mission.ids # <<>>
      BY <2>3, <3>1, MissionAssumption
    <3> QED
      BY <2>2, <2>3, <3>1, <3>2 DEF MissionOK, Steps
  <2>5. ASSUME NEW p \in Processes
        PROVE  ~WillLink(p, t)
    <3>1. job[p] = Resting /\ In(p, "out")
      BY JobKinds DEF Quiet
    <3> QED
      BY <3>1 DEF WillLink, In, Resting
  <2>6. Linked(t)
    BY <2>1, <2>3, <2>4, <2>5 DEF Pairing, Linking
  <2> QED
    BY <2>2, <2>3, <2>4, <2>6 DEF Linked, Sent
<1> QED
  BY <1>1, <1>2, <1>3, ShapesHold, PTL DEF MissionSpec
=============================================================================
