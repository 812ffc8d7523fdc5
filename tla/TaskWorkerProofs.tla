-------------------------- MODULE TaskWorkerProofs --------------------------
(***************************************************************************)
(* Theorems about TaskWorker, for every set of tasks, workers and handlers *)
(* and every bound.                                                        *)
(***************************************************************************)
EXTENDS TaskWorker, FiniteSetTheorems, SequenceTheorems, WellFoundedInduction,
        TLAPS

-----------------------------------------------------------------------------
(* The k-th smallest number of a set.                                      *)

Families(S) == SUBSET (SUBSET S)

(* A nonempty family of subsets of a finite set has a minimal member. *)
LEMMA MinimalMember ==
  ASSUME NEW S, IsFiniteSet(S), NEW Family \in Families(S), Family # {}
  PROVE  \E x \in Family : \A y \in Family : y \subseteq x => y = x
<1> DEFINE R == StrictSubsetOrdering(S)
           F == FiniteSubsetsOf(S)
<1>1. Family \subseteq F
  BY FS_FiniteSubsetsOfFinite DEF Families
<1>2. IsWellFoundedOn(R, F)
  BY FS_StrictSubsetOrderingWellFounded
<1>3. PICK x \in Family : \A y \in Family : <<y, x>> \notin R
  <2> HIDE DEF R, F
  <2> QED
    BY <1>1, <1>2, WFMin
<1>4. ASSUME NEW y \in Family, y \subseteq x PROVE y = x
  <2>1. x \in SUBSET S /\ y \in SUBSET S
    BY DEF Families
  <2>2. <<y, x>> \notin R
    BY <1>3
  <2> QED
    BY <1>4, <2>1, <2>2 DEF StrictSubsetOrdering
<1> QED
  BY <1>4

LEMMA IndicesAreFinite ==
  ASSUME NEW N \in Nat, NEW S, S \subseteq 1..N
  PROVE  IsFiniteSet(S) /\ Cardinality(S) \in Nat /\ \A i \in S : i \in Int
<1> DEFINE D == 1..N
<1>1. IsFiniteSet(D) /\ S \in SUBSET D
  BY FS_Interval
<1>2. IsFiniteSet(S) /\ Cardinality(S) \in Nat
  <2> HIDE DEF D
  <2> QED
    BY <1>1, FS_Subset, FS_CardinalityType
<1> QED
  BY <1>2

LEMMA GreatestExists ==
  ASSUME NEW N \in Nat, NEW S, S \subseteq 1..N, S # {}
  PROVE  \E m \in S : \A j \in S : j <= m
<1> DEFINE Above(i) == {j \in S : j > i}
           Family == {Above(i) : i \in S}
<1>1. IsFiniteSet(S) /\ \A i \in S : i \in Int
  BY IndicesAreFinite
<1>2. Family \in Families(S) /\ Family # {}
  BY DEF Families
<1>3. PICK x \in Family : \A y \in Family : y \subseteq x => y = x
  <2> HIDE DEF Family
  <2> QED
    BY <1>1, <1>2, MinimalMember
<1>4. PICK m \in S : x = Above(m)
  OBVIOUS
<1>5. ASSUME NEW j \in S, j > m PROVE FALSE
  <2>1. j \in Int /\ m \in Int
    BY <1>1
  <2>2. ASSUME NEW n \in Above(j) PROVE n \in Above(m)
    <3>1. n \in Int /\ n > j /\ n \in S
      BY <1>1
    <3> QED
      BY <1>5, <2>1, <3>1
  <2>3. j \in Above(m) /\ j \notin Above(j)
    BY <1>5, <2>1
  <2> QED
    BY <1>3, <1>4, <2>2, <2>3
<1> QED
  BY <1>5

LEMMA RankedIsMember ==
  ASSUME NEW N \in Nat, NEW S, S \subseteq 1..N, NEW k \in 1..Cardinality(S)
  PROVE  Ranked(S, k) \in S /\ Cardinality({j \in S : j <= Ranked(S, k)}) = k
<1> DEFINE Upto(i) == {j \in S : j <= i}
           Late == {i \in S : Cardinality(Upto(i)) >= k}
           Family == {Upto(i) : i \in Late}
<1>1. IsFiniteSet(S) /\ Cardinality(S) \in Nat /\ \A i \in S : i \in Int
  BY IndicesAreFinite
<1>2. ASSUME NEW T \in SUBSET S
      PROVE  IsFiniteSet(T) /\ Cardinality(T) \in Nat
  BY <1>1, <1>2, FS_Subset, FS_CardinalityType
<1>3. Late # {}
  <2>1. S # {}
    BY <1>1, FS_EmptySet
  <2>2. PICK m \in S : \A j \in S : j <= m
    BY <2>1, GreatestExists
  <2>3. Upto(m) = S
    BY <2>2
  <2> QED
    BY <1>1, <2>2, <2>3
<1>4. Family \in Families(S) /\ Family # {}
  BY <1>3 DEF Families
<1>5. PICK x \in Family : \A y \in Family : y \subseteq x => y = x
  <2> HIDE DEF Family
  <2> QED
    BY <1>1, <1>4, MinimalMember
<1>6. PICK i \in Late : x = Upto(i)
  OBVIOUS
<1>7. Cardinality(Upto(i)) = k
  <2> SUFFICES ASSUME Cardinality(Upto(i)) # k PROVE FALSE
    OBVIOUS
  <2> DEFINE Below == Upto(i) \ {i}
  <2>1. Cardinality(Upto(i)) \in Nat /\ IsFiniteSet(Upto(i)) /\ i \in Upto(i)
    BY <1>2
  <2>2. Cardinality(Below) = Cardinality(Upto(i)) - 1
    <3> HIDE DEF Upto
    <3> QED
      BY <2>1, FS_RemoveElement
  <2>3. Cardinality(Below) >= k /\ Below # {}
    <3>1. Cardinality(Below) >= k
      BY <2>1, <2>2
    <3>2. Cardinality(Below) # 0
      BY <3>1, <2>1, <2>2
    <3> QED
      BY <3>1, <3>2, FS_EmptySet
  <2>4. PICK m \in Below : \A j \in Below : j <= m
    BY <2>3, GreatestExists
  <2>5. Upto(m) = Below
    <3>1. m \in Int /\ i \in Int /\ m <= i /\ m # i
      BY <1>1, <2>4
    <3>2. ASSUME NEW n \in S PROVE n <= m <=> n \in Below
      <4>1. n \in Int
        BY <1>1
      <4>2. CASE n \in Below
        BY <2>4, <4>2
      <4>3. CASE n <= m
        BY <3>1, <4>1, <4>3
      <4> QED
        BY <4>2, <4>3
    <3> QED
      BY <3>2
  <2>6. m \in Late /\ Upto(m) \subseteq Upto(i) /\ i \notin Upto(m)
    BY <2>3, <2>4, <2>5
  <2> QED
    BY <1>5, <1>6, <2>1, <2>6
<1> QED
  BY <1>7 DEF Ranked

-----------------------------------------------------------------------------
(* What a batch holds.                                                     *)

(* The rows that may be executed: attempts are left, as listed, and what the
   task depends on has been finished before. *)
Granted ==
  {s \in Snapshots : HasBudget(s) /\ DependsOn[s.task] \subseteq finished}

Chosen == {"process", "busy", "record"}

Tables ==
  /\ row \in [Tasks -> Rows]
  /\ phase \in [Workers -> {"idle", "list", "screen", "process", "busy",
                            "record"}]
  /\ agenda \in [Workers -> Seq(Snapshots)]
  /\ ready \in [Workers -> Seq(Snapshots)]
  /\ handler \in [Overlapping -> {<<>>} \cup (Snapshots \X Targets)]
  /\ runs \in [Tasks -> Nat]
  /\ relisted \in SUBSET Tasks
  /\ finished \in SUBSET Tasks
  /\ crashes \in 0..MaxCrashes
  /\ cuts \in 0..MaxCuts

(* Rows become ready in the screening only, and from then on everything a
   worker has on its list may be executed. *)
BatchOK(w) ==
  /\ ready[w] \in Seq(Granted)
  /\ phase[w] # "screen" => ready[w] = <<>>
  /\ phase[w] = "idle" => agenda[w] = <<>>
  /\ phase[w] \in Chosen => agenda[w] \in Seq(Granted)
  /\ phase[w] \in {"busy", "record"} => agenda[w] # <<>>
  /\ Len(agenda[w]) + Len(ready[w]) <= BatchSize

DoneIsFinished == \A t \in Tasks : row[t].status = "done" => t \in finished

WorkerInv == Tables /\ (\A w \in Workers : BatchOK(w)) /\ DoneIsFinished

LEMMA FetchedType ==
  ASSUME Tables, NEW s, NEW limit \in Nat
  PROVE  Fetched(s, limit) \in Seq(Snapshots) /\ Len(Fetched(s, limit)) <= limit
<1> DEFINE all == {i \in DOMAIN FetchOrder : row[FetchOrder[i]].status = s}
           n == IF Cardinality(all) < limit THEN Cardinality(all) ELSE limit
<1>1. /\ Len(FetchOrder) \in Nat
      /\ DOMAIN FetchOrder = 1..Len(FetchOrder)
      /\ \A i \in DOMAIN FetchOrder : FetchOrder[i] \in Tasks
  BY WorkerAssumption
<1>2. Cardinality(all) \in Nat
  BY <1>1, IndicesAreFinite
<1>3. n \in Nat /\ n <= limit /\ n <= Cardinality(all)
  BY <1>2
<1>4. ASSUME NEW k \in 1..n
      PROVE  Listed(FetchOrder[Ranked(all, k)]) \in Snapshots
  <2>1. k \in 1..Cardinality(all) /\ all \subseteq 1..Len(FetchOrder)
    BY <1>1, <1>2, <1>3
  <2>2. Ranked(all, k) \in all
    <3> HIDE DEF all
    <3> QED
      BY <1>1, <2>1, RankedIsMember
  <2>3. FetchOrder[Ranked(all, k)] \in Tasks
    BY <1>1, <2>2
  <2> QED
    BY <2>3 DEF Listed, Snapshots, Tables
<1>5. Fetched(s, limit) = [k \in 1..n |-> Listed(FetchOrder[Ranked(all, k)])]
  BY DEF Fetched
<1> HIDE DEF all, n
<1> QED
  BY <1>3, <1>4, <1>5

(* What has been granted stays so. *)
LEMMA GrantedStays ==
  ASSUME finished \subseteq finished', NEW q \in Seq(Granted)
  PROVE  q \in Seq(Granted')
BY SeqMonotonic DEF Granted

LEMMA BatchOKSame ==
  ASSUME NEW w \in Workers, BatchOK(w), finished \subseteq finished',
         agenda'[w] = agenda[w], ready'[w] = ready[w], phase'[w] = phase[w]
  PROVE  BatchOK(w)'
BY GrantedStays DEF BatchOK

(* The head of a list, and the list without it. *)
LEMMA HeadAndTail ==
  ASSUME NEW S, NEW q \in Seq(S), q # <<>>
  PROVE  /\ Head(q) \in S
         /\ Tail(q) \in Seq(S)
         /\ Len(Tail(q)) = Len(q) - 1 /\ Len(q) \in Nat
BY HeadTailProperties

-----------------------------------------------------------------------------
(* The invariant.                                                          *)

LEMMA WorkerInit == Init => WorkerInv
<1> SUFFICES ASSUME Init PROVE WorkerInv
  OBVIOUS
<1>1. <<>> \in Seq(Snapshots) /\ <<>> \in Seq(Granted)
  OBVIOUS
<1>2. \A t \in Tasks : row[t] \in Rows /\ row[t].status \in Unstarted
  <2> TAKE t \in Tasks
  <2>1. row[t] \in [status : Unstarted, attempts : {0}, lease : {"none"},
                    mark : {FALSE}]
    BY DEF Init
  <2>2. 0 \in 0..MaxAttempts /\ FALSE \in BOOLEAN
    BY WorkerAssumption
  <2> QED
    BY <2>1, <2>2 DEF Rows, Statuses, Leases, Unstarted
<1>3. Tables
  BY <1>1, <1>2, WorkerAssumption DEF Init, Tables
<1>4. \A w \in Workers : BatchOK(w)
  BY <1>1, WorkerAssumption DEF Init, BatchOK, Chosen
<1>5. DoneIsFinished
  BY <1>2 DEF DoneIsFinished, Unstarted
<1> QED
  BY <1>3, <1>4, <1>5 DEF WorkerInv

(* What the history takes down. *)
LEMMA NotedOK ==
  ASSUME WorkerInv, Noted, row' \in [Tasks -> Rows]
  PROVE  /\ finished \subseteq finished'
         /\ finished' \in SUBSET Tasks
         /\ DoneIsFinished'
BY DEF WorkerInv, Tables, Noted, DoneIsFinished

(* The row a busy worker has in hand. *)
LEMMA InHand ==
  ASSUME WorkerInv, NEW w \in Workers, phase[w] \in Chosen, agenda[w] # <<>>
  PROVE  /\ Current(w) \in Granted
         /\ Current(w).task \in Tasks
         /\ Current(w).row \in Rows
         /\ Tail(agenda[w]) \in Seq(Granted)
         /\ Len(Tail(agenda[w])) = Len(agenda[w]) - 1
         /\ Len(agenda[w]) \in Nat
         /\ Len(agenda[w]) <= BatchSize
         /\ ready[w] = <<>>
<1>1. BatchOK(w) /\ agenda[w] \in Seq(Granted)
  BY DEF WorkerInv, BatchOK
<1>2. /\ Head(agenda[w]) \in Granted
      /\ Tail(agenda[w]) \in Seq(Granted)
      /\ Len(Tail(agenda[w])) = Len(agenda[w]) - 1 /\ Len(agenda[w]) \in Nat
  BY <1>1, HeadAndTail
<1>3. ready[w] = <<>>
  BY <1>1 DEF BatchOK, Chosen
<1>4. Len(agenda[w]) <= BatchSize
  BY <1>1, <1>2, <1>3, WorkerAssumption DEF BatchOK
<1> QED
  BY <1>2, <1>3, <1>4 DEF Current, Granted, Snapshots

(* A step that touches the batch of one worker at most. *)
LEMMA OthersSame ==
  ASSUME WorkerInv, finished \subseteq finished', NEW w \in Workers,
         \A v \in Workers \ {w} : /\ agenda'[v] = agenda[v]
                                   /\ ready'[v] = ready[v]
                                   /\ phase'[v] = phase[v],
         BatchOK(w)'
  PROVE  \A v \in Workers : BatchOK(v)'
<1> TAKE v \in Workers
<1>1. CASE v = w
  BY <1>1
<1>2. CASE v # w
  BY <1>2, BatchOKSame DEF WorkerInv
<1> QED
  BY <1>1, <1>2

LEMMA AllSame ==
  ASSUME WorkerInv, finished \subseteq finished',
         UNCHANGED <<phase, agenda, ready>>
  PROVE  \A v \in Workers : BatchOK(v)'
BY BatchOKSame DEF WorkerInv

(* The end of a task, whatever was written to its row. *)
LEMMA LeaveOK ==
  ASSUME WorkerInv, NEW w \in Workers, phase[w] \in {"busy", "record"},
         Leave(w), Noted, row' \in [Tasks -> Rows]
  PROVE  WorkerInv'
<1>1. agenda[w] # <<>> /\ phase[w] \in Chosen
  BY DEF WorkerInv, BatchOK, Chosen
<1>2. /\ finished \subseteq finished'
      /\ finished' \in SUBSET Tasks
      /\ DoneIsFinished'
  BY NotedOK
<1>3. /\ Tail(agenda[w]) \in Seq(Granted)
      /\ Len(Tail(agenda[w])) = Len(agenda[w]) - 1
      /\ Len(agenda[w]) \in Nat
      /\ Len(agenda[w]) <= BatchSize
      /\ ready[w] = <<>>
  BY <1>1, InHand
<1>4. Tail(agenda[w]) \in Seq(Snapshots) /\ Tail(agenda[w]) \in Seq(Granted')
  BY <1>2, <1>3, GrantedStays, SeqMonotonic DEF Granted
<1>5. Tables'
  BY <1>2, <1>4 DEF WorkerInv, Tables, Leave, bounds
<1>6. /\ agenda'[w] = Tail(agenda[w])
      /\ ready'[w] = <<>>
      /\ phase'[w] = "process"
  BY <1>3 DEF WorkerInv, Tables, Leave
<1>7. <<>> \in Seq(Granted')
  OBVIOUS
<1>8. BatchOK(w)'
  BY <1>3, <1>4, <1>6, <1>7, WorkerAssumption DEF BatchOK, Chosen
<1>9. \A v \in Workers : BatchOK(v)'
  <2>1. \A v \in Workers \ {w} : /\ agenda'[v] = agenda[v]
                                  /\ ready'[v] = ready[v]
                                  /\ phase'[v] = phase[v]
    BY DEF WorkerInv, Tables, Leave
  <2> QED
    BY <1>2, <1>8, <2>1, OthersSame
<1> QED
  BY <1>2, <1>5, <1>9 DEF WorkerInv

-----------------------------------------------------------------------------
(* One lemma per kind of step.                                             *)

(* A step that writes rows and leaves every batch alone. *)
LEMMA RowsOnlyOK ==
  ASSUME WorkerInv, Noted, row' \in [Tasks -> Rows],
         UNCHANGED <<phase, agenda, ready, runs, relisted, crashes>>,
         handler' \in [Overlapping -> {<<>>} \cup (Snapshots \X Targets)],
         cuts' \in 0..MaxCuts
  PROVE  WorkerInv'
<1>1. /\ finished \subseteq finished'
      /\ finished' \in SUBSET Tasks
      /\ DoneIsFinished'
  BY NotedOK
<1>2. \A v \in Workers : BatchOK(v)'
  BY <1>1, AllSame
<1>3. Tables'
  BY <1>1 DEF WorkerInv, Tables
<1> QED
  BY <1>1, <1>2, <1>3 DEF WorkerInv

LEMMA ListQueuedOK ==
  ASSUME WorkerInv, NEW w \in Workers, ListQueued(w), Noted
  PROVE  WorkerInv'
<1>1. row' \in [Tasks -> Rows]
  BY DEF WorkerInv, Tables, ListQueued
<1>2. /\ finished \subseteq finished'
      /\ finished' \in SUBSET Tasks
      /\ DoneIsFinished'
  BY <1>1, NotedOK
<1>3. PICK q : q = Fetched("queued", BatchSize)
  OBVIOUS
<1>4. q \in Seq(Snapshots) /\ Len(q) <= BatchSize /\ Len(q) \in Nat
  BY <1>3, FetchedType, WorkerAssumption DEF WorkerInv
<1>5. /\ agenda' = [agenda EXCEPT ![w] = q]
      /\ phase' = [phase EXCEPT ![w] = "list"]
      /\ UNCHANGED <<row, ready, handler, runs, relisted, bounds>>
  BY <1>3 DEF ListQueued
<1>6. Tables'
  BY <1>2, <1>4, <1>5 DEF WorkerInv, Tables, bounds
<1>7. ready[w] = <<>>
  BY DEF WorkerInv, BatchOK, ListQueued
<1>8. /\ agenda'[w] = q
      /\ ready'[w] = <<>>
      /\ phase'[w] = "list"
  BY <1>5, <1>7 DEF WorkerInv, Tables
<1>9. BatchOK(w)'
  BY <1>4, <1>8, WorkerAssumption DEF BatchOK, Chosen
<1>10. \A v \in Workers : BatchOK(v)'
  <2>1. \A v \in Workers \ {w} : /\ agenda'[v] = agenda[v]
                                  /\ ready'[v] = ready[v]
                                  /\ phase'[v] = phase[v]
    BY <1>5 DEF WorkerInv, Tables
  <2> QED
    BY <1>2, <1>9, <2>1, OthersSame
<1> QED
  BY <1>2, <1>6, <1>10 DEF WorkerInv

LEMMA ListTodoOK ==
  ASSUME WorkerInv, NEW w \in Workers, ListTodo(w), Noted
  PROVE  WorkerInv'
<1>1. row' \in [Tasks -> Rows]
  BY DEF WorkerInv, Tables, ListTodo
<1>2. /\ finished \subseteq finished'
      /\ finished' \in SUBSET Tasks
      /\ DoneIsFinished'
  BY <1>1, NotedOK
<1>3. PICK q : q = agenda[w]
  OBVIOUS
<1>4. PICK r : r = Fetched("todo", BatchSize - Len(q))
  OBVIOUS
<1>5. ready[w] = <<>> /\ q \in Seq(Snapshots) /\ Len(q) <= BatchSize
      /\ Len(q) \in Nat
  BY <1>3, WorkerAssumption DEF WorkerInv, Tables, BatchOK, ListTodo
<1>6. BatchSize - Len(q) \in Nat
  BY <1>5, WorkerAssumption
<1>7. r \in Seq(Snapshots) /\ Len(r) <= BatchSize - Len(q) /\ Len(r) \in Nat
  BY <1>4, <1>6, FetchedType DEF WorkerInv
<1>8. q \o r \in Seq(Snapshots) /\ Len(q \o r) <= BatchSize
  BY <1>5, <1>7, WorkerAssumption
<1>9. /\ agenda' = [agenda EXCEPT ![w] = q \o r]
      /\ phase' = [phase EXCEPT ![w] = "screen"]
      /\ UNCHANGED <<row, ready, handler, runs, bounds>>
      /\ relisted' \in SUBSET Tasks
  BY <1>3, <1>4 DEF ListTodo, WorkerInv, Tables
<1>10. Tables'
  BY <1>2, <1>8, <1>9 DEF WorkerInv, Tables, bounds
<1>11. /\ agenda'[w] = q \o r
       /\ ready'[w] = <<>>
       /\ phase'[w] = "screen"
  BY <1>5, <1>9 DEF WorkerInv, Tables
<1>12. BatchOK(w)'
  <2>1. Len(q \o r) \in Nat
    BY <1>8
  <2> QED
    BY <1>8, <1>11, <2>1, WorkerAssumption DEF BatchOK, Chosen
<1>13. \A v \in Workers : BatchOK(v)'
  <2>1. \A v \in Workers \ {w} : /\ agenda'[v] = agenda[v]
                                  /\ ready'[v] = ready[v]
                                  /\ phase'[v] = phase[v]
    BY <1>9 DEF WorkerInv, Tables
  <2> QED
    BY <1>2, <1>12, <2>1, OthersSame
<1> QED
  BY <1>2, <1>10, <1>13 DEF WorkerInv

LEMMA BatchSizeIsNat == BatchSize \in Nat
BY WorkerAssumption

(* A status, a lease and a mark written to a row. *)
LEMMA WrittenType ==
  ASSUME NEW R \in [Tasks -> Rows], NEW t \in Tasks, NEW new \in Statuses,
         NEW lease \in Leases, NEW mark \in BOOLEAN
  PROVE  [R EXCEPT ![t].status = new, ![t].lease = lease, ![t].mark = mark]
           \in [Tasks -> Rows]
<1>1. PICK r \in Rows : r = R[t]
  OBVIOUS
<1>2. [r EXCEPT !.status = new, !.lease = lease, !.mark = mark] \in Rows
  BY DEF Rows
<1>3. [R EXCEPT ![t].status = new, ![t].lease = lease, ![t].mark = mark]
        = [R EXCEPT ![t] = [r EXCEPT !.status = new, !.lease = lease,
                                     !.mark = mark]]
  BY <1>1
<1> QED
  BY <1>2, <1>3

LEMMA RewriteType ==
  ASSUME WorkerInv, NEW s, s.task \in Tasks, s.row \in Rows,
         NEW new \in Statuses, NEW lease \in Leases, Rewrite(s, new, lease)
  PROVE  row' \in [Tasks -> Rows]
<1>1. row \in [Tasks -> Rows] /\ s.row.mark \in BOOLEAN
  BY DEF WorkerInv, Tables, Rows
<1> QED
  BY <1>1, WrittenType DEF Rewrite

(* A row passes the screening with attempts left and its dependencies DONE. *)
LEMMA ScreenOK ==
  ASSUME WorkerInv, NEW w \in Workers, Screen(w), Noted
  PROVE  WorkerInv'
<1>1. agenda[w] # <<>> /\ agenda[w] \in Seq(Snapshots) /\ BatchOK(w)
      /\ phase[w] = "screen"
  BY DEF Screen, WorkerInv, Tables
<1>2. PICK q : q = Tail(agenda[w])
  OBVIOUS
<1>3. PICK s \in Snapshots : s = Current(w)
  BY <1>1, HeadAndTail DEF Current
<1>4. q \in Seq(Snapshots) /\ Len(q) = Len(agenda[w]) - 1
      /\ Len(agenda[w]) \in Nat
  BY <1>1, <1>2, HeadAndTail
<1>5. s.task \in Tasks /\ s.row \in Rows
  BY DEF Snapshots
<1>6. \/ /\ Rewrite(s, "blocked", s.row.lease)
         /\ UNCHANGED ready
      \/ /\ ready' = IF HasBudget(s) /\ DependenciesDone(s.task)
                     THEN [ready EXCEPT ![w] = Append(@, s)] ELSE ready
         /\ UNCHANGED row
  BY <1>3 DEF Screen
<1>7. row' \in [Tasks -> Rows]
  <2>1. CASE Rewrite(s, "blocked", s.row.lease)
    <3>1. s.row.lease \in Leases /\ "blocked" \in Statuses
      BY <1>5 DEF Rows, Statuses
    <3> QED
      BY <1>5, <2>1, <3>1, RewriteType
  <2>2. CASE UNCHANGED row
    BY <2>2 DEF WorkerInv, Tables
  <2> QED
    BY <1>6, <2>1, <2>2
<1>8. /\ finished \subseteq finished'
      /\ finished' \in SUBSET Tasks
      /\ DoneIsFinished'
  BY <1>7, NotedOK
<1>9. PICK r : r = IF ready' = ready THEN ready[w] ELSE Append(ready[w], s)
  OBVIOUS
<1>10. ASSUME HasBudget(s), DependenciesDone(s.task) PROVE s \in Granted
  BY <1>5, <1>10, WorkerAssumption
     DEF Granted, DependenciesDone, WorkerInv, DoneIsFinished
<1>11. /\ r \in Seq(Granted)
       /\ Len(r) \in Nat /\ Len(r) <= Len(ready[w]) + 1
       /\ Len(ready[w]) \in Nat
       /\ ready' = [ready EXCEPT ![w] = r]
  <2>1. ready[w] \in Seq(Granted) /\ Len(ready[w]) \in Nat
    BY <1>1 DEF BatchOK
  <2>2. CASE ready' = ready
    BY <1>9, <2>1, <2>2 DEF WorkerInv, Tables
  <2>3. CASE ready' # ready
    <3>1. s \in Granted /\ ready' = [ready EXCEPT ![w] = Append(@, s)]
      BY <1>6, <1>10, <2>3
    <3>2. Append(ready[w], s) \in Seq(Granted)
          /\ Len(Append(ready[w], s)) = Len(ready[w]) + 1
      BY <2>1, <3>1, AppendProperties
    <3>3. r = Append(ready[w], s)
      BY <1>9, <2>3
    <3>4. ready' = [ready EXCEPT ![w] = r]
      BY <3>1, <3>3
    <3>5. Len(r) = Len(ready[w]) + 1 /\ r \in Seq(Granted)
      BY <3>2, <3>3
    <3> QED
      BY <2>1, <3>4, <3>5
  <2> QED
    BY <2>2, <2>3
<1>12. /\ agenda' = [agenda EXCEPT ![w] = q]
       /\ UNCHANGED <<phase, handler, runs, relisted, bounds>>
  BY <1>2 DEF Screen
<1>13. Tables'
  <2>1. r \in Seq(Snapshots)
    BY <1>11, SeqMonotonic DEF Granted
  <2> QED
    BY <1>4, <1>7, <1>8, <1>11, <1>12, <2>1 DEF WorkerInv, Tables, bounds
<1>14. agenda'[w] = q /\ ready'[w] = r /\ phase'[w] = "screen"
  BY <1>1, <1>11, <1>12 DEF WorkerInv, Tables
<1>15. BatchOK(w)'
  <2>1. r \in Seq(Granted')
    BY <1>8, <1>11, GrantedStays
  <2>2. Len(q) + Len(r) <= BatchSize
    <3>1. Len(agenda[w]) + Len(ready[w]) <= BatchSize
      BY <1>1 DEF BatchOK
    <3>2. \A a, b, c, d \in Int :
            c = a - 1 /\ d <= b + 1 /\ a + b <= BatchSize => c + d <= BatchSize
      BY BatchSizeIsNat
    <3>3. /\ Len(agenda[w]) \in Int /\ Len(ready[w]) \in Int
          /\ Len(q) \in Int /\ Len(r) \in Int
      BY <1>4, <1>11
    <3>4. Len(q) = Len(agenda[w]) - 1 /\ Len(r) <= Len(ready[w]) + 1
      BY <1>4, <1>11
    <3> QED
      BY <3>1, <3>2, <3>3, <3>4
  <2> QED
    BY <1>14, <2>1, <2>2 DEF BatchOK, Chosen
<1>16. \A v \in Workers : BatchOK(v)'
  <2>1. \A v \in Workers \ {w} : /\ agenda'[v] = agenda[v]
                                  /\ ready'[v] = ready[v]
                                  /\ phase'[v] = phase[v]
    BY <1>11, <1>12 DEF WorkerInv, Tables
  <2> QED
    BY <1>8, <1>15, <2>1, OthersSame
<1> QED
  BY <1>8, <1>13, <1>16 DEF WorkerInv

LEMMA StartBatchOK ==
  ASSUME WorkerInv, NEW w \in Workers, StartBatch(w), Noted
  PROVE  WorkerInv'
<1>1. row' \in [Tasks -> Rows]
  BY DEF WorkerInv, Tables, StartBatch
<1>2. /\ finished \subseteq finished'
      /\ finished' \in SUBSET Tasks
      /\ DoneIsFinished'
  BY <1>1, NotedOK
<1>3. ready[w] \in Seq(Granted) /\ Len(ready[w]) <= BatchSize
      /\ Len(ready[w]) \in Nat
  <2>1. /\ ready[w] \in Seq(Granted)
        /\ Len(agenda[w]) + Len(ready[w]) <= BatchSize
        /\ agenda[w] = <<>>
    BY DEF WorkerInv, BatchOK, StartBatch
  <2>2. Len(agenda[w]) = 0 /\ Len(ready[w]) \in Nat
    BY <2>1
  <2> QED
    BY <2>1, <2>2, BatchSizeIsNat
<1>4. ready[w] \in Seq(Snapshots) /\ <<>> \in Seq(Snapshots)
  BY DEF WorkerInv, Tables
<1>5. Tables'
  BY <1>2, <1>4 DEF WorkerInv, Tables, StartBatch, bounds
<1>6. /\ agenda'[w] = ready[w]
      /\ ready'[w] = <<>>
      /\ phase'[w] = "process"
  BY DEF StartBatch, WorkerInv, Tables
<1>7. BatchOK(w)'
  <2>1. ready[w] \in Seq(Granted') /\ <<>> \in Seq(Granted')
    BY <1>2, <1>3, GrantedStays
  <2> QED
    BY <1>3, <1>6, <2>1, WorkerAssumption DEF BatchOK, Chosen
<1>8. \A v \in Workers : BatchOK(v)'
  <2>1. \A v \in Workers \ {w} : /\ agenda'[v] = agenda[v]
                                  /\ ready'[v] = ready[v]
                                  /\ phase'[v] = phase[v]
    BY DEF StartBatch, WorkerInv, Tables
  <2> QED
    BY <1>2, <1>7, <2>1, OthersSame
<1> QED
  BY <1>2, <1>5, <1>8 DEF WorkerInv

(* A step that keeps the batch of a worker and moves it on. *)
LEMMA KeepingBatchOK ==
  ASSUME WorkerInv, NEW w \in Workers, NEW next \in {"busy", "record"},
         phase[w] \in Chosen, agenda[w] # <<>>,
         phase' = [phase EXCEPT ![w] = next],
         UNCHANGED <<agenda, ready, handler, relisted, bounds>>,
         row' \in [Tasks -> Rows], runs' \in [Tasks -> Nat], Noted
  PROVE  WorkerInv'
<1>1. /\ finished \subseteq finished'
      /\ finished' \in SUBSET Tasks
      /\ DoneIsFinished'
  BY NotedOK
<1>2. Tables'
  BY <1>1 DEF WorkerInv, Tables, bounds
<1>3. agenda'[w] = agenda[w] /\ ready'[w] = ready[w] /\ phase'[w] = next
  BY DEF WorkerInv, Tables
<1>4. BatchOK(w)'
  <2>1. BatchOK(w) /\ ready[w] \in Seq(Granted) /\ agenda[w] \in Seq(Granted)
    BY DEF WorkerInv, BatchOK
  <2>2. ready[w] \in Seq(Granted') /\ agenda[w] \in Seq(Granted')
    BY <1>1, <2>1, GrantedStays
  <2> QED
    BY <1>3, <2>1, <2>2 DEF BatchOK, Chosen
<1>5. \A v \in Workers : BatchOK(v)'
  <2>1. \A v \in Workers \ {w} : /\ agenda'[v] = agenda[v]
                                  /\ ready'[v] = ready[v]
                                  /\ phase'[v] = phase[v]
    BY DEF WorkerInv, Tables
  <2> QED
    BY <1>1, <1>4, <2>1, OthersSame
<1> QED
  BY <1>1, <1>2, <1>5 DEF WorkerInv

(* A granted row has an attempt left to count. *)
LEMMA BeginOK ==
  ASSUME WorkerInv, NEW w \in Workers, Begin(w), Noted
  PROVE  WorkerInv'
<1>1. phase[w] \in Chosen /\ agenda[w] # <<>>
  BY DEF Begin, Chosen
<1>2. PICK s \in Granted : s = Current(w)
  BY <1>1, InHand
<1>3. s.task \in Tasks /\ s.row \in Rows /\ s.row.attempts < MaxAttempts
  BY <1>2 DEF Granted, Snapshots, HasBudget
<1>4. s.row.attempts + 1 \in 0..MaxAttempts /\ s.row.mark \in BOOLEAN
  BY <1>3, WorkerAssumption DEF Rows
<1>5. row' \in [Tasks -> Rows]
  BY <1>2, <1>3, <1>4 DEF Begin, WorkerInv, Tables, Rows, Statuses, Leases
<1>6. runs' \in [Tasks -> Nat]
  BY <1>2, <1>3 DEF Begin, WorkerInv, Tables
<1>7. /\ phase' = [phase EXCEPT ![w] = "busy"]
      /\ UNCHANGED <<agenda, ready, handler, relisted, bounds>>
  BY DEF Begin
<1> QED
  BY <1>1, <1>5, <1>6, <1>7, KeepingBatchOK

LEMMA SucceedOK ==
  ASSUME WorkerInv, NEW w \in Workers, Succeed(w), Noted
  PROVE  WorkerInv'
<1>1. phase[w] \in Chosen /\ agenda[w] # <<>>
  BY DEF Succeed, Chosen, WorkerInv, BatchOK
<1>2. row' \in [Tasks -> Rows]
  <2>1. /\ row \in [Tasks -> Rows] /\ Current(w).task \in Tasks
        /\ "done" \in Statuses /\ "none" \in Leases /\ FALSE \in BOOLEAN
    BY <1>1, InHand DEF WorkerInv, Tables, Statuses, Leases
  <2> QED
    BY <2>1, WrittenType DEF Succeed
<1>3. /\ phase' = [phase EXCEPT ![w] = "record"]
      /\ UNCHANGED <<agenda, ready, handler, runs, relisted, bounds>>
  BY DEF Succeed
<1>4. runs' \in [Tasks -> Nat]
  BY <1>3 DEF WorkerInv, Tables
<1> QED
  BY <1>1, <1>2, <1>3, <1>4, KeepingBatchOK

(* The ways out of a task. *)
LEMMA LeavingOK ==
  ASSUME WorkerInv, NEW w \in Workers, Noted,
         \/ RecordOutcome(w) \/ RetryLater(w) \/ Block(w) \/ Fail(w)
         \/ SucceedOutside(w) \/ FailOutside(w)
  PROVE  WorkerInv'
<1>1. phase[w] \in {"busy", "record"} /\ Leave(w)
  BY DEF RecordOutcome, RetryLater, Block, Fail, SucceedOutside, FailOutside
<1>2. agenda[w] # <<>> /\ phase[w] \in Chosen
  BY <1>1 DEF WorkerInv, BatchOK, Chosen
<1>3. PICK s : s = Current(w)
  OBVIOUS
<1>4. s.task \in Tasks /\ s.row \in Rows
  BY <1>2, <1>3, InHand
<1>5. /\ row \in [Tasks -> Rows]
      /\ {"todo", "blocked", "failed", "done", "in_progress"} \subseteq Statuses
      /\ "none" \in Leases /\ TRUE \in BOOLEAN
  BY DEF WorkerInv, Tables, Statuses, Leases
<1>6. row' \in [Tasks -> Rows]
  <2>1. CASE RecordOutcome(w)
    BY <1>5, <2>1 DEF RecordOutcome
  <2>2. CASE RetryLater(w)
    BY <1>3, <1>4, <1>5, <2>2, RewriteType DEF RetryLater
  <2>3. CASE Block(w)
    BY <1>3, <1>4, <1>5, <2>3, RewriteType DEF Block
  <2>4. CASE Fail(w)
    <3>1. row' = [row EXCEPT ![s.task].status = "failed", ![s.task].lease = "none",
                             ![s.task].mark = TRUE]
      BY <1>3, <2>4 DEF Fail
    <3> QED
      BY <1>4, <1>5, <3>1, WrittenType
  <2>5. CASE SucceedOutside(w)
    <3>1. PICK new \in Statuses : row' = [row EXCEPT ![s.task].status = new]
      BY <1>3, <1>5, <2>5 DEF SucceedOutside
    <3> QED
      BY <1>4, <1>5, <3>1 DEF Rows
  <2>6. CASE FailOutside(w)
    BY <1>3, <1>4, <1>5, <2>6 DEF FailOutside, Rows
  <2> QED
    BY <2>1, <2>2, <2>3, <2>4, <2>5, <2>6
<1> QED
  BY <1>1, <1>6, LeaveOK

LEMMA RecoverOK ==
  ASSUME WorkerInv, NEW w \in Workers, Recover(w), Noted
  PROVE  WorkerInv'
<1>1. \A t \in Tasks : Recovered(t) \in Statuses
  BY DEF Recovered, WorkerInv, Tables, Rows, Statuses
<1>2. row' \in [Tasks -> Rows]
  <2>1. \A t \in Tasks :
          row[t] \in Rows /\ [row[t] EXCEPT !.status = Recovered(t)] \in Rows
    BY <1>1 DEF WorkerInv, Tables, Rows
  <2> QED
    BY <2>1 DEF Recover
<1>3. /\ finished \subseteq finished'
      /\ finished' \in SUBSET Tasks
      /\ DoneIsFinished'
  BY <1>2, NotedOK
<1>4. Tables'
  BY <1>2, <1>3 DEF WorkerInv, Tables, Recover, bounds
<1>5. agenda'[w] = <<>> /\ ready'[w] = ready[w] /\ phase'[w] = "idle"
  BY DEF WorkerInv, Tables, Recover
<1>6. BatchOK(w)'
  <2>1. ready[w] = <<>> /\ ready[w] \in Seq(Granted')
        /\ Len(agenda[w]) + Len(ready[w]) <= BatchSize /\ agenda[w] = <<>>
    BY <1>3, GrantedStays DEF WorkerInv, BatchOK, Recover
  <2> QED
    BY <1>5, <2>1 DEF BatchOK, Chosen
<1>7. \A v \in Workers : BatchOK(v)'
  <2>1. \A v \in Workers \ {w} : /\ agenda'[v] = agenda[v]
                                  /\ ready'[v] = ready[v]
                                  /\ phase'[v] = phase[v]
    BY DEF Recover, WorkerInv, Tables
  <2> QED
    BY <1>3, <1>6, <2>1, OthersSame
<1> QED
  BY <1>3, <1>4, <1>7 DEF WorkerInv

LEMMA OperatorOK ==
  ASSUME WorkerInv, OperatorStep
  PROVE  WorkerInv'
<1>1. /\ row \in [Tasks -> Rows]
      /\ handler \in [Overlapping -> {<<>>} \cup (Snapshots \X Targets)]
      /\ cuts \in 0..MaxCuts
      /\ Targets \subseteq Statuses
      /\ Noted
  BY WorkerAssumption DEF WorkerInv, Tables, OperatorStep
<1>2. CASE \E t \in Tasks, new \in Targets : Update(t, new)
  <2>1. PICK t \in Tasks, new \in Targets : Update(t, new)
    BY <1>2
  <2>2. row' \in [Tasks -> Rows]
    BY <1>1, <2>1 DEF Update, Rows
  <2>3. UNCHANGED <<phase, agenda, ready, runs, relisted, crashes>>
        /\ handler' = handler /\ cuts' = cuts
    BY <2>1 DEF Update, bounds
  <2> QED
    BY <1>1, <2>2, <2>3, RowsOnlyOK
<1>3. CASE \E o \in Overlapping, t \in Tasks, new \in Targets : Read(o, t, new)
  <2>1. PICK o \in Overlapping, t \in Tasks, new \in Targets : Read(o, t, new)
    BY <1>3
  <2>2. Listed(t) \in Snapshots
    BY <1>1 DEF Listed, Snapshots
  <2>3. handler' \in [Overlapping -> {<<>>} \cup (Snapshots \X Targets)]
    BY <1>1, <2>1, <2>2 DEF Read
  <2>4. cuts' \in 0..MaxCuts
    <3>1. MaxCuts \in Nat
      BY WorkerAssumption
    <3> QED
      BY <1>1, <2>1, <3>1 DEF Read
  <2>5. UNCHANGED <<row, phase, agenda, ready, runs, relisted, crashes>>
    BY <2>1 DEF Read
  <2> QED
    BY <1>1, <2>3, <2>4, <2>5, RowsOnlyOK
<1>4. CASE \E o \in Overlapping : Write(o)
  <2>1. PICK o \in Overlapping : Write(o)
    BY <1>4
  <2>2. PICK h \in Snapshots \X Targets : h = handler[o]
    BY <1>1, <2>1 DEF Write
  <2>3. PICK s \in Snapshots, new \in Statuses : s = h[1] /\ new = h[2]
    BY <1>1
  <2>4. s.task \in Tasks /\ s.row \in Rows
    BY DEF Snapshots
  <2>5. [s.row EXCEPT !.status = new] \in Rows
    BY <2>4 DEF Rows
  <2>6. row' = [row EXCEPT ![s.task] = [s.row EXCEPT !.status = new]]
    BY <2>1, <2>2, <2>3 DEF Write
  <2>7. row' \in [Tasks -> Rows]
    BY <1>1, <2>4, <2>5, <2>6
  <2>8. handler' \in [Overlapping -> {<<>>} \cup (Snapshots \X Targets)]
    BY <1>1, <2>1 DEF Write
  <2>9. UNCHANGED <<phase, agenda, ready, runs, relisted, crashes>>
        /\ cuts' = cuts
    BY <2>1 DEF Write, bounds
  <2> QED
    BY <1>1, <2>7, <2>8, <2>9, RowsOnlyOK
<1> QED
  BY <1>2, <1>3, <1>4 DEF OperatorStep

LEMMA AgeOK ==
  ASSUME WorkerInv, NEW t \in Tasks, Age(t)
  PROVE  WorkerInv'
<1>1. row' \in [Tasks -> Rows]
  BY DEF Age, WorkerInv, Tables, Rows, Leases
<1>2. \A u \in Tasks : row'[u].status = row[u].status
  BY DEF Age, WorkerInv, Tables, Rows
<1>3. /\ UNCHANGED <<phase, agenda, ready, handler, runs, relisted, finished,
                     crashes, cuts>>
  BY DEF Age, bounds
<1>4. DoneIsFinished'
  BY <1>2, <1>3 DEF WorkerInv, DoneIsFinished
<1>5. \A v \in Workers : BatchOK(v)'
  BY <1>3, AllSame
<1>6. Tables'
  BY <1>1, <1>3 DEF WorkerInv, Tables
<1> QED
  BY <1>4, <1>5, <1>6 DEF WorkerInv

LEMMA CrashOK ==
  ASSUME WorkerInv, NEW w \in Workers, Crash(w)
  PROVE  WorkerInv'
<1>1. /\ phase' = [phase EXCEPT ![w] = "idle"]
      /\ agenda' = [agenda EXCEPT ![w] = <<>>]
      /\ ready' = [ready EXCEPT ![w] = <<>>]
      /\ UNCHANGED <<row, handler, runs, relisted, finished, cuts>>
  BY DEF Crash
<1>2. crashes' \in 0..MaxCrashes
  <2>1. MaxCrashes \in Nat
    BY WorkerAssumption
  <2> QED
    BY <2>1 DEF Crash, WorkerInv, Tables
<1>3. <<>> \in Seq(Snapshots) /\ <<>> \in Seq(Granted')
  OBVIOUS
<1>4. Tables'
  BY <1>1, <1>2, <1>3 DEF WorkerInv, Tables
<1>5. agenda'[w] = <<>> /\ ready'[w] = <<>> /\ phase'[w] = "idle"
  BY <1>1 DEF WorkerInv, Tables
<1>6. BatchOK(w)'
  BY <1>3, <1>5, BatchSizeIsNat DEF BatchOK, Chosen
<1>7. \A v \in Workers : BatchOK(v)'
  <2>1. \A v \in Workers \ {w} : /\ agenda'[v] = agenda[v]
                                  /\ ready'[v] = ready[v]
                                  /\ phase'[v] = phase[v]
    BY <1>1 DEF WorkerInv, Tables
  <2> QED
    BY <1>1, <1>6, <2>1, OthersSame
<1>8. DoneIsFinished'
  BY <1>1 DEF WorkerInv, DoneIsFinished
<1> QED
  BY <1>4, <1>7, <1>8 DEF WorkerInv

LEMMA WorkerNext ==
  ASSUME WorkerInv, [Next]_vars
  PROVE  WorkerInv'
<1>1. CASE \E w \in Workers : WorkerStep(w)
  <2>1. PICK w \in Workers : WorkerStep(w)
    BY <1>1
  <2>2. CASE ListQueued(w) \/ ListTodo(w) \/ Screen(w) \/ StartBatch(w)
    BY <2>1, <2>2, ListQueuedOK, ListTodoOK, ScreenOK, StartBatchOK
       DEF WorkerStep
  <2>3. CASE Begin(w) \/ Succeed(w) \/ Recover(w)
    BY <2>1, <2>3, BeginOK, SucceedOK, RecoverOK DEF WorkerStep
  <2>4. CASE \/ RecordOutcome(w) \/ RetryLater(w) \/ Block(w) \/ Fail(w)
             \/ SucceedOutside(w) \/ FailOutside(w)
    BY <2>1, <2>4, LeavingOK DEF WorkerStep
  <2> QED
    BY <2>1, <2>2, <2>3, <2>4 DEF WorkerStep
<1>2. CASE \E w \in Workers : Crash(w)
  BY <1>2, CrashOK
<1>3. CASE OperatorStep
  BY <1>3, OperatorOK
<1>4. CASE \E t \in Tasks : Age(t)
  BY <1>4, AgeOK
<1>5. CASE UNCHANGED vars
  <2>1. UNCHANGED <<row, phase, agenda, ready, handler, runs, relisted,
                    finished, crashes, cuts>>
    BY <1>5 DEF vars
  <2> QED
    BY <2>1, AllSame DEF WorkerInv, Tables, DoneIsFinished
<1> QED
  BY <1>1, <1>2, <1>3, <1>4, <1>5 DEF Next

-----------------------------------------------------------------------------
(* The theorems.                                                           *)

(* The invariant holds in every reachable state. *)
THEOREM WorkerInvHolds == Spec => []WorkerInv
<1>1. WorkerInv /\ [Next]_vars => WorkerInv'
  BY WorkerNext
<1> QED
  BY <1>1, WorkerInit, PTL DEF Spec

(* Every variable has its type, every attempt count stays within the budget,
   and no worker's batch exceeds its size. *)
THEOREM WorkerTypes == Spec => []TypeOK
<1>1. WorkerInv => TypeOK
  <2> SUFFICES ASSUME WorkerInv PROVE TypeOK
    OBVIOUS
  <2>1. ASSUME NEW w \in Workers
        PROVE  /\ Len(agenda[w]) + Len(ready[w]) <= BatchSize
               /\ \A i \in DOMAIN agenda[w] : agenda[w][i] \in Snapshots
               /\ \A i \in DOMAIN ready[w] : ready[w][i] \in Snapshots
               /\ phase[w] \in {"busy", "record"} => agenda[w] # <<>>
    <3>1. agenda[w] \in Seq(Snapshots) /\ ready[w] \in Seq(Snapshots)
      BY DEF WorkerInv, Tables
    <3>2. BatchOK(w)
      BY DEF WorkerInv
    <3>3. \A q \in Seq(Snapshots) : \A i \in DOMAIN q : q[i] \in Snapshots
      OBVIOUS
    <3>4. /\ \A i \in DOMAIN agenda[w] : agenda[w][i] \in Snapshots
          /\ \A i \in DOMAIN ready[w] : ready[w][i] \in Snapshots
      BY <3>1, <3>3
    <3> QED
      BY <3>2, <3>4 DEF BatchOK
  <2> QED
    BY <2>1 DEF TypeOK, WorkerInv, Tables
<1> QED
  BY <1>1, WorkerInvHolds, PTL

(* No task is executed before everything it depends on has been DONE, however
   many workers share the table, whoever writes it and whatever crashes. *)
THEOREM DependenciesComeFirst == Spec => []DependenciesFirst
<1>1. WorkerInv => DependenciesFirst
  <2> SUFFICES ASSUME WorkerInv, NEW w \in Workers, NEW t \in Tasks,
                      Executes(w, t)
               PROVE  DependsOn[t] \subseteq finished
    BY DEF DependenciesFirst
  <2>1. phase[w] \in Chosen /\ agenda[w] # <<>>
    BY DEF Executes, WorkerInv, BatchOK, Chosen
  <2>2. Current(w) \in Granted
    BY <2>1, InHand
  <2> QED
    BY <2>2 DEF Granted, Executes
<1> QED
  BY <1>1, WorkerInvHolds, PTL
=============================================================================
