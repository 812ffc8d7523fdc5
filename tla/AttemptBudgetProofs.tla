------------------------- MODULE AttemptBudgetProofs -------------------------
(***************************************************************************)
(* The attempt budget of TaskWorker, for every set of tasks and handlers   *)
(* and every bound, when one scheduler thread uses the table.              *)
(***************************************************************************)
EXTENDS TaskWorkerProofs

Alone == \A v, w \in Workers : v = w

-----------------------------------------------------------------------------
(* The inductive invariant.                                                *)

(* Handlers that are cut and have not written yet: the others used up what
   their cut allows. *)
Pending == {o \in Overlapping : handler[o] # <<>>}
Written == cuts - Cardinality(Pending)
Paid == MaxAttempts * Written
Twice(t) == IF t \in relisted THEN 1 ELSE 0

(* A row with so many attempts accounts for the executions of its task, and
   for one more. *)
Fits(t, attempts) == runs[t] <= attempts + Paid + Twice(t)
Spare(t, attempts) == runs[t] < attempts + Paid + Twice(t)

(* The copies a worker may still begin an execution with. *)
Due(w) == IF phase[w] \in {"busy", "record"} THEN Tail(agenda[w])
          ELSE ready[w] \o agenda[w]

(* A task has two copies in a batch at most, and when it has two, each of them
   accounts for the execution of the other. *)
CopiesOK(d) ==
  /\ \A i \in DOMAIN d : Fits(d[i].task, d[i].row.attempts)
  /\ \A i, j \in DOMAIN d : i # j /\ d[i].task = d[j].task =>
       /\ Spare(d[i].task, d[i].row.attempts)
       /\ \A k \in DOMAIN d : k # i /\ k # j => d[k].task # d[i].task

(* The rows listed as QUEUED are listed once, and for the first time. *)
Fresh(d) ==
  /\ \A i \in DOMAIN d : d[i].task \notin relisted
  /\ \A i, j \in DOMAIN d : d[i].task = d[j].task => i = j

(* A row is QUEUED from its creation on, or never. *)
Early == {"split_required", "assignment_pending"}
NeverRequeued ==
  /\ \A t \in Tasks : row[t].status \notin Early
  /\ \A t \in relisted : row[t].status # "queued"
  /\ \A o \in Pending : handler[o][2] \notin Early \cup {"queued"}

BudgetInv ==
  /\ \A t \in Tasks : Fits(t, row[t].attempts)
  /\ \A w \in Workers : CopiesOK(Due(w)) /\ (phase[w] = "list" => Fresh(agenda[w]))
  /\ NeverRequeued
  /\ IsFiniteSet(Pending)
  /\ Written \in Nat

-----------------------------------------------------------------------------
(* What the two queries return.                                            *)

LEMMA FetchedRows ==
  ASSUME Tables, NEW s, NEW limit \in Nat, NEW f, f = Fetched(s, limit)
  PROVE  /\ \A i \in DOMAIN f : f[i] = Listed(f[i].task) /\ f[i].task \in Tasks
                                /\ row[f[i].task].status = s
         /\ \A i, j \in DOMAIN f : f[i].task = f[j].task => i = j
<1> DEFINE all == {i \in DOMAIN FetchOrder : row[FetchOrder[i]].status = s}
           n == IF Cardinality(all) < limit THEN Cardinality(all) ELSE limit
           rank(k) == Ranked(all, k)
<1>1. /\ Len(FetchOrder) \in Nat
      /\ DOMAIN FetchOrder = 1..Len(FetchOrder)
      /\ \A i \in DOMAIN FetchOrder : FetchOrder[i] \in Tasks
      /\ \A i, j \in DOMAIN FetchOrder : FetchOrder[i] = FetchOrder[j] => i = j
  BY WorkerAssumption
<1>2. Cardinality(all) \in Nat
  BY <1>1, IndicesAreFinite
<1>3. ASSUME NEW k \in 1..n
      PROVE  rank(k) \in all /\ Cardinality({j \in all : j <= rank(k)}) = k
  <2>1. k \in 1..Cardinality(all) /\ all \subseteq 1..Len(FetchOrder)
    BY <1>1, <1>2
  <2> HIDE DEF all
  <2> QED
    BY <1>1, <2>1, RankedIsMember
<1>4. f = [k \in 1..n |-> Listed(FetchOrder[rank(k)])]
  BY DEF Fetched
<1>5. ASSUME NEW k \in 1..n
      PROVE  /\ f[k] = Listed(FetchOrder[rank(k)]) /\ f[k].task = FetchOrder[rank(k)]
             /\ f[k].task \in Tasks /\ row[f[k].task].status = s
  <2>1. f[k] = Listed(FetchOrder[rank(k)])
    <3> HIDE DEF rank, n
    <3> QED
      BY <1>4
  <2>2. f[k].task = FetchOrder[rank(k)]
    BY <2>1 DEF Listed
  <2>3. rank(k) \in DOMAIN FetchOrder /\ row[FetchOrder[rank(k)]].status = s
    BY <1>3
  <2> QED
    BY <1>1, <2>1, <2>2, <2>3
<1>6. DOMAIN f = 1..n
  <2> HIDE DEF rank, n
  <2> QED
    BY <1>4
<1>7. ASSUME NEW i \in 1..n, NEW j \in 1..n, f[i].task = f[j].task
      PROVE  i = j
  <2>1. rank(i) = rank(j)
    <3>1. rank(i) \in DOMAIN FetchOrder /\ rank(j) \in DOMAIN FetchOrder
      BY <1>3
    <3>2. FetchOrder[rank(i)] = FetchOrder[rank(j)]
      BY <1>5, <1>7
    <3> HIDE DEF rank
    <3> QED
      BY <1>1, <3>1, <3>2
  <2>2. /\ Cardinality({m \in all : m <= rank(i)}) = i
        /\ Cardinality({m \in all : m <= rank(j)}) = j
    BY <1>3
  <2> HIDE DEF rank, all
  <2> QED
    BY <2>1, <2>2
<1>8. \A k \in 1..n : f[k] = Listed(f[k].task)
  <2> HIDE DEF rank, n
  <2> QED
    BY <1>5
<1> HIDE DEF rank, n, all
<1> QED
  BY <1>5, <1>6, <1>7, <1>8

-----------------------------------------------------------------------------
(* Lists with fewer copies, and budgets that grow.                         *)

Thins(e, d) ==
  \E f \in [DOMAIN e -> DOMAIN d] :
    /\ \A i \in DOMAIN e : e[i] = d[f[i]]
    /\ \A i, j \in DOMAIN e : f[i] = f[j] => i = j

LEMMA ThinCopies ==
  ASSUME NEW d, NEW e, CopiesOK(d), Thins(e, d)
  PROVE  CopiesOK(e)
<1>1. PICK f \in [DOMAIN e -> DOMAIN d] :
        /\ \A i \in DOMAIN e : e[i] = d[f[i]]
        /\ \A i, j \in DOMAIN e : f[i] = f[j] => i = j
  BY DEF Thins
<1>2. ASSUME NEW i \in DOMAIN e PROVE Fits(e[i].task, e[i].row.attempts)
  BY <1>1 DEF CopiesOK
<1>3. ASSUME NEW i \in DOMAIN e, NEW j \in DOMAIN e, i # j, e[i].task = e[j].task
      PROVE  /\ Spare(e[i].task, e[i].row.attempts)
             /\ \A k \in DOMAIN e : k # i /\ k # j => e[k].task # e[i].task
  <2>1. f[i] # f[j] /\ f[i] \in DOMAIN d /\ f[j] \in DOMAIN d
        /\ d[f[i]].task = d[f[j]].task
    BY <1>1, <1>3
  <2>2. /\ Spare(d[f[i]].task, d[f[i]].row.attempts)
        /\ \A k \in DOMAIN d : k # f[i] /\ k # f[j] => d[k].task # d[f[i]].task
    BY <2>1 DEF CopiesOK
  <2>3. ASSUME NEW k \in DOMAIN e, k # i, k # j PROVE e[k].task # e[i].task
    <3>1. f[k] # f[i] /\ f[k] # f[j] /\ f[k] \in DOMAIN d
      BY <1>1, <2>3
    <3> QED
      BY <1>1, <2>2, <3>1
  <2> QED
    BY <1>1, <2>2, <2>3
<1> QED
  BY <1>2, <1>3 DEF CopiesOK

LEMMA SameThins ==
  ASSUME NEW d
  PROVE  Thins(d, d)
<1> DEFINE same == [i \in DOMAIN d |-> i]
<1>1. same \in [DOMAIN d -> DOMAIN d]
  OBVIOUS
<1>2. \A i \in DOMAIN d : same[i] = i
  OBVIOUS
<1> QED
  BY <1>1, <1>2 DEF Thins

LEMMA NothingThins ==
  ASSUME NEW e, NEW d, e = <<>>
  PROVE  Thins(e, d)
<1> DEFINE none == [i \in {} |-> i]
<1>1. none \in [DOMAIN e -> DOMAIN d] /\ DOMAIN e = {}
  OBVIOUS
<1> QED
  BY <1>1 DEF Thins

LEMMA TailThins ==
  ASSUME NEW d \in Seq(Snapshots), d # <<>>
  PROVE  /\ Thins(Tail(d), d)
         /\ DOMAIN Tail(d) = 1..(Len(d) - 1) /\ Len(d) \in Nat \ {0}
         /\ DOMAIN d = 1..Len(d)
         /\ Head(d) = d[1]
         /\ \A i \in DOMAIN Tail(d) : Tail(d)[i] = d[i + 1]
<1> DEFINE next == [i \in DOMAIN Tail(d) |-> i + 1]
<1>1. /\ DOMAIN Tail(d) = 1..(Len(d) - 1) /\ Len(d) \in Nat \ {0}
      /\ DOMAIN d = 1..Len(d)
      /\ Head(d) = d[1]
      /\ \A i \in DOMAIN Tail(d) : Tail(d)[i] = d[i + 1]
  OBVIOUS
<1>2. next \in [DOMAIN Tail(d) -> DOMAIN d]
  BY <1>1
<1>3. \A i, j \in DOMAIN Tail(d) : next[i] = next[j] => i = j
  BY <1>1
<1> QED
  BY <1>1, <1>2, <1>3 DEF Thins

(* A row that does not pass the screening is dropped from between the rows
   that did and those still listed; one that does stays in its place. *)
LEMMA ScreenedThins ==
  ASSUME NEW r \in Seq(Snapshots), NEW q \in Seq(Snapshots), q # <<>>
  PROVE  /\ Thins(r \o Tail(q), r \o q)
         /\ Append(r, Head(q)) \o Tail(q) = r \o q
<1> DEFINE e == r \o Tail(q)
           d == r \o q
           place == [i \in DOMAIN e |-> IF i <= Len(r) THEN i ELSE i + 1]
<1>1. /\ Len(r) \in Nat /\ Len(q) \in Nat \ {0}
      /\ Len(Tail(q)) = Len(q) - 1
      /\ DOMAIN d = 1..(Len(r) + Len(q)) /\ DOMAIN e = 1..(Len(r) + Len(q) - 1)
      /\ \A i \in DOMAIN d : d[i] = IF i <= Len(r) THEN r[i] ELSE q[i - Len(r)]
  OBVIOUS
<1>2. \A i \in DOMAIN e : e[i] = IF i <= Len(r) THEN r[i] ELSE q[i + 1 - Len(r)]
  OBVIOUS
<1>3. place \in [DOMAIN e -> DOMAIN d]
  BY <1>1
<1>4. \A i \in DOMAIN e : e[i] = d[place[i]]
  BY <1>1, <1>2, <1>3
<1>5. \A i, j \in DOMAIN e : place[i] = place[j] => i = j
  BY <1>1
<1>6. Append(r, Head(q)) \o Tail(q) = r \o q
  OBVIOUS
<1> QED
  BY <1>3, <1>4, <1>5, <1>6 DEF Thins

LEMMA PaidType ==
  /\ Written \in Nat => Paid \in Nat
  /\ MaxAttempts \in Nat \ {0}
  /\ \A t : Twice(t) \in {0, 1}
<1>1. MaxAttempts \in Nat
  BY WorkerAssumption
<1>2. \A n \in Nat : MaxAttempts * n \in Nat
  BY <1>1
<1> QED
  BY <1>2, WorkerAssumption DEF Paid, Twice

LEMMA PaidGrows ==
  ASSUME Written \in Nat, Written' \in Nat, Written <= Written'
  PROVE  /\ Paid \in Nat /\ Paid' \in Nat /\ Paid <= Paid'
         /\ Written' = Written + 1 => Paid' = Paid + MaxAttempts
<1>1. MaxAttempts \in Nat
  BY WorkerAssumption
<1>2. \A m, n \in Nat : m <= n => MaxAttempts * m <= MaxAttempts * n
  <2> SUFFICES ASSUME NEW m \in Nat, NEW n \in Nat, m <= n
               PROVE  MaxAttempts * m <= MaxAttempts * n
    OBVIOUS
  <2>1. PICK k \in Nat : n = m + k
    <3>1. n - m \in Nat /\ n = m + (n - m)
      OBVIOUS
    <3> QED
      BY <3>1
  <2>2. MaxAttempts * n = MaxAttempts * m + MaxAttempts * k
    BY <1>1, <2>1
  <2>3. MaxAttempts * m \in Nat /\ MaxAttempts * k \in Nat
    BY <1>1
  <2> QED
    BY <2>2, <2>3
<1>3. \A m \in Nat : MaxAttempts * m \in Nat /\ MaxAttempts * (m + 1) = MaxAttempts * m + MaxAttempts
  BY <1>1
<1> QED
  BY <1>2, <1>3 DEF Paid

(* No execution begins, and more is allowed or as much. *)
Loosens ==
  /\ runs' = runs
  /\ relisted \subseteq relisted'
  /\ Written' \in Nat /\ Written <= Written'

LEMMA FitsStill ==
  ASSUME WorkerInv, BudgetInv, Loosens, NEW t \in Tasks, NEW a \in Nat
  PROVE  /\ Fits(t, a) => Fits(t, a)'
         /\ Spare(t, a) => Spare(t, a)'
<1>1. Paid \in Nat /\ Paid' \in Nat /\ Paid <= Paid'
  BY PaidGrows DEF BudgetInv, Loosens
<1>2. Twice(t) \in Nat /\ Twice(t)' \in Nat /\ Twice(t) <= Twice(t)'
  BY DEF Twice, Loosens
<1>3. runs[t] \in Nat /\ runs'[t] = runs[t]
  BY DEF WorkerInv, Tables, Loosens
<1> QED
  BY <1>1, <1>2, <1>3 DEF Fits, Spare

LEMMA SnapshotTypes ==
  ASSUME NEW d \in Seq(Snapshots), NEW i \in DOMAIN d
  PROVE  d[i] \in Snapshots /\ d[i].task \in Tasks /\ d[i].row \in Rows
         /\ d[i].row.attempts \in Nat /\ d[i].row.attempts <= MaxAttempts
<1>1. d[i] \in Snapshots
  OBVIOUS
<1>2. d[i].row.attempts \in 0..MaxAttempts
  BY <1>1 DEF Snapshots, Rows
<1> QED
  BY <1>1, <1>2, PaidType DEF Snapshots

LEMMA CopiesStill ==
  ASSUME WorkerInv, BudgetInv, Loosens, NEW d \in Seq(Snapshots), CopiesOK(d)
  PROVE  CopiesOK(d)'
<1>1. \A i \in DOMAIN d : /\ Fits(d[i].task, d[i].row.attempts)
                               => Fits(d[i].task, d[i].row.attempts)'
                          /\ Spare(d[i].task, d[i].row.attempts)
                               => Spare(d[i].task, d[i].row.attempts)'
  BY SnapshotTypes, FitsStill
<1> QED
  BY <1>1 DEF CopiesOK

LEMMA DueType == WorkerInv => \A w \in Workers : Due(w) \in Seq(Snapshots)
<1> SUFFICES ASSUME WorkerInv, NEW w \in Workers PROVE Due(w) \in Seq(Snapshots)
  OBVIOUS
<1>1. agenda[w] \in Seq(Snapshots) /\ ready[w] \in Seq(Snapshots)
  BY DEF WorkerInv, Tables
<1>2. phase[w] \in {"busy", "record"} => agenda[w] # <<>>
  BY DEF WorkerInv, BatchOK
<1> QED
  BY <1>1, <1>2, HeadAndTail DEF Due

LEMMA DueTypeNext == WorkerInv' => \A w \in Workers : Due(w)' \in Seq(Snapshots)
<1>1. (WorkerInv => \A w \in Workers : Due(w) \in Seq(Snapshots))'
  BY DueType, PTL
<1> QED
  BY <1>1

LEMMA RowTypes ==
  ASSUME WorkerInv, NEW t \in Tasks
  PROVE  row[t] \in Rows /\ row[t].attempts \in Nat /\ row[t].attempts <= MaxAttempts
<1>1. row[t] \in Rows
  BY DEF WorkerInv, Tables
<1>2. row[t].attempts \in 0..MaxAttempts
  BY <1>1 DEF Rows
<1> QED
  BY <1>1, <1>2, PaidType

-----------------------------------------------------------------------------
(* Steps that begin no execution and count none back.                      *)

(* Attempts stay as they are, and no row becomes QUEUED. *)
MildRows ==
  \A t \in Tasks : /\ row'[t].attempts = row[t].attempts
                   /\ \/ row'[t].status = row[t].status
                      \/ row'[t].status \notin Early \cup {"queued"}

(* Batches only lose copies. *)
MildBatch(v) ==
  /\ \E d, e : d = Due(v) /\ e = Due(v)' /\ Thins(e, d)
  /\ phase'[v] = "list" => phase[v] = "list" /\ agenda'[v] = agenda[v]

LEMMA MildStep ==
  ASSUME WorkerInv, BudgetInv, runs' = runs, relisted' = relisted,
         Written' \in Nat, Written <= Written', IsFiniteSet(Pending'),
         \A o \in Pending' : handler'[o][2] \notin Early \cup {"queued"},
         WorkerInv', MildRows, \A v \in Workers : MildBatch(v)
  PROVE  BudgetInv'
<1>1. Loosens
  BY DEF Loosens
<1>2. \A t \in Tasks : Fits(t, row[t].attempts)'
  <2>1. ASSUME NEW t \in Tasks, NEW a \in Nat, a = row[t].attempts
        PROVE  Fits(t, a)'
    BY <1>1, <2>1, FitsStill DEF BudgetInv
  <2>2. ASSUME NEW t \in Tasks PROVE runs'[t] <= row[t].attempts + Paid' + Twice(t)'
    BY <2>1, RowTypes DEF Fits
  <2> QED
    BY <2>2 DEF Fits, MildRows
<1>3. ASSUME NEW v \in Workers PROVE CopiesOK(Due(v))'
  <2>1. PICK d, e : d = Due(v) /\ e = Due(v)' /\ Thins(e, d)
    BY <1>3 DEF MildBatch
  <2>2. CopiesOK(d) /\ d \in Seq(Snapshots)
    BY <2>1, DueType DEF BudgetInv
  <2>3. CopiesOK(e) /\ e \in Seq(Snapshots)
    BY <2>1, <2>2, ThinCopies, DueTypeNext
  <2>4. CopiesOK(e)'
    BY <1>1, <2>3, CopiesStill
  <2> QED
    BY <2>1, <2>4 DEF CopiesOK
<1>4. \A v \in Workers : phase'[v] = "list" => Fresh(agenda[v])'
  BY DEF MildBatch, BudgetInv, Fresh
<1>5. NeverRequeued'
  <2>1. relisted \subseteq Tasks
    BY DEF WorkerInv, Tables
  <2> QED
    BY <2>1 DEF BudgetInv, NeverRequeued, MildRows
<1> QED
  BY <1>2, <1>3, <1>4, <1>5 DEF BudgetInv

LEMMA MildWrite ==
  ASSUME WorkerInv, NEW t \in Tasks, NEW r, row' = [row EXCEPT ![t] = r],
         r.attempts = row[t].attempts,
         r.status = row[t].status \/ r.status \notin Early \cup {"queued"}
  PROVE  MildRows
<1>1. \A u \in Tasks : row'[u] = IF u = t THEN r ELSE row[u]
  BY DEF WorkerInv, Tables
<1> QED
  BY <1>1 DEF MildRows

LEMMA MildFields ==
  ASSUME WorkerInv, NEW t \in Tasks, NEW s, s \notin Early \cup {"queued"}, NEW l, NEW m,
         row' = [row EXCEPT ![t].status = s, ![t].lease = l, ![t].mark = m]
  PROVE  MildRows
<1>1. PICK r : r = [row[t] EXCEPT !.status = s, !.lease = l, !.mark = m]
  OBVIOUS
<1>2. r.status = s /\ r.attempts = row[t].attempts
  BY <1>1, RowTypes DEF Rows
<1>3. row' = [row EXCEPT ![t] = r]
  BY <1>1
<1> QED
  BY <1>2, <1>3, MildWrite

LEMMA MildStatus ==
  ASSUME WorkerInv, NEW t \in Tasks, NEW s, s \notin Early \cup {"queued"},
         row' = [row EXCEPT ![t].status = s]
  PROVE  MildRows
<1>1. PICK r : r = [row[t] EXCEPT !.status = s]
  OBVIOUS
<1>2. r.status = s /\ r.attempts = row[t].attempts
  BY <1>1, RowTypes DEF Rows
<1>3. row' = [row EXCEPT ![t] = r]
  BY <1>1
<1> QED
  BY <1>2, <1>3, MildWrite

LEMMA MildSame == row' = row => MildRows
BY DEF MildRows

LEMMA SameBatch ==
  ASSUME NEW v \in Workers, phase'[v] = phase[v], agenda'[v] = agenda[v],
         ready'[v] = ready[v]
  PROVE  MildBatch(v)
<1>1. PICK d : d = Due(v)
  OBVIOUS
<1>2. d = Due(v)' /\ Thins(d, d)
  BY <1>1, SameThins DEF Due
<1> QED
  BY <1>1, <1>2 DEF MildBatch

LEMMA OneBatch ==
  ASSUME WorkerInv, NEW w \in Workers, NEW p, NEW q, NEW r,
         phase' = [phase EXCEPT ![w] = p], agenda' = [agenda EXCEPT ![w] = q],
         ready' = [ready EXCEPT ![w] = r], p # "list",
         NEW d, d = Due(w), NEW e, Thins(e, d),
         e = IF p \in {"busy", "record"} THEN Tail(q) ELSE r \o q
  PROVE  \A v \in Workers : MildBatch(v)
<1>1. phase'[w] = p /\ agenda'[w] = q /\ ready'[w] = r
  BY DEF WorkerInv, Tables
<1>2. MildBatch(w)
  BY <1>1 DEF MildBatch, Due
<1>3. ASSUME NEW v \in Workers, v # w PROVE MildBatch(v)
  BY <1>3, SameBatch DEF WorkerInv, Tables
<1> QED
  BY <1>2, <1>3

(* No handler reads or writes. *)
LEMMA HandlersStill ==
  ASSUME BudgetInv, handler' = handler, cuts' = cuts
  PROVE  /\ Written' \in Nat /\ Written <= Written' /\ IsFiniteSet(Pending')
         /\ \A o \in Pending' : handler'[o][2] \notin Early \cup {"queued"}
<1>1. Pending' = Pending /\ Written' = Written
  BY DEF Pending, Written
<1> QED
  BY <1>1 DEF BudgetInv, NeverRequeued

LEMMA EmptyJoins == \A q \in Seq(Snapshots) : q \o <<>> = q /\ <<>> \o q = q
OBVIOUS

LEMMA BudgetScreening ==
  ASSUME WorkerInv, BudgetInv, WorkerInv', NEW w \in Workers,
         Screen(w) \/ StartBatch(w)
  PROVE  BudgetInv'
<1>1. /\ phase[w] = "screen"
      /\ agenda[w] \in Seq(Snapshots) /\ ready[w] \in Seq(Snapshots)
  BY DEF Screen, StartBatch, WorkerInv, Tables
<1>2. PICK q, r : q = agenda[w] /\ r = ready[w]
  OBVIOUS
<1>3. r \o q = Due(w)
  BY <1>1, <1>2 DEF Due
<1>4. CASE Screen(w)
  <2>1. q # <<>> /\ Current(w) \in Snapshots
    BY <1>1, <1>2, <1>4, HeadAndTail DEF Screen, Current
  <2>2. PICK s \in Snapshots : s = Head(q)
    BY <1>2, <2>1 DEF Current
  <2>3. MildRows
    <3>1. CASE row' = row
      BY <3>1, MildSame
    <3>2. CASE Rewrite(s, "blocked", s.row.lease)
      BY <3>2, MildFields DEF Rewrite, Snapshots, Early
    <3> QED
      BY <1>2, <1>4, <2>2, <3>1, <3>2 DEF Screen, Current
  <2>4. phase' = [phase EXCEPT ![w] = "screen"] /\ agenda' = [agenda EXCEPT ![w] = Tail(q)]
    BY <1>1, <1>2, <1>4 DEF Screen, WorkerInv, Tables
  <2>5. CASE ready' = ready
    <3>1. ready' = [ready EXCEPT ![w] = r]
      BY <1>2, <2>5 DEF WorkerInv, Tables
    <3>2. Thins(r \o Tail(q), r \o q)
      BY <1>1, <1>2, <2>1, ScreenedThins
    <3>3. \A v \in Workers : MildBatch(v)
      BY <1>3, <2>4, <3>1, <3>2, OneBatch
    <3> QED
      BY <1>4, <2>3, <3>3, HandlersStill, MildStep DEF Screen, bounds
  <2>6. CASE ready' = [ready EXCEPT ![w] = Append(r, s)]
    <3>1. Thins(Append(r, s) \o Tail(q), r \o q)
      BY <1>1, <1>2, <2>1, <2>2, ScreenedThins, SameThins
    <3>2. \A v \in Workers : MildBatch(v)
      BY <1>3, <2>4, <2>6, <3>1, OneBatch
    <3> QED
      BY <1>4, <2>3, <3>2, HandlersStill, MildStep DEF Screen, bounds
  <2> QED
    BY <1>2, <1>4, <2>2, <2>5, <2>6 DEF Screen, Current
<1>5. CASE StartBatch(w)
  <2>1. /\ phase' = [phase EXCEPT ![w] = "process"]
        /\ agenda' = [agenda EXCEPT ![w] = r] /\ ready' = [ready EXCEPT ![w] = <<>>]
        /\ q = <<>>
    BY <1>2, <1>5 DEF StartBatch
  <2>2. Thins(<<>> \o r, r \o q)
    BY <1>1, <1>2, <2>1, EmptyJoins, SameThins
  <2>3. \A v \in Workers : MildBatch(v)
    BY <1>3, <2>1, <2>2, OneBatch
  <2> QED
    BY <1>5, <2>3, MildSame, HandlersStill, MildStep DEF StartBatch, bounds
<1> QED
  BY <1>4, <1>5

LEMMA BudgetLeaving ==
  ASSUME WorkerInv, BudgetInv, WorkerInv', NEW w \in Workers,
         \/ Succeed(w)
         \/ RecordOutcome(w) \/ RetryLater(w) \/ Block(w) \/ Fail(w)
         \/ SucceedOutside(w) \/ FailOutside(w)
  PROVE  BudgetInv'
<1>1. phase[w] \in {"busy", "record"} /\ agenda[w] # <<>>
  BY DEF Succeed, RecordOutcome, RetryLater, Block, Fail, SucceedOutside, FailOutside,
         WorkerInv, BatchOK
<1>2. /\ Current(w).task \in Tasks /\ ready[w] = <<>>
      /\ Tail(agenda[w]) \in Seq(Snapshots)
  <2>1. phase[w] \in Chosen /\ agenda[w] \in Seq(Snapshots)
    BY <1>1 DEF Chosen, WorkerInv, Tables
  <2> QED
    BY <1>1, <2>1, InHand, HeadAndTail
<1>3. PICK q, a : q = Tail(agenda[w]) /\ a = agenda[w]
  OBVIOUS
<1>4. q = Due(w) /\ Thins(q, q) /\ <<>> \o q = q
  BY <1>1, <1>2, <1>3, SameThins, EmptyJoins DEF Due
<1>5. MildRows
  <2>1. CASE RecordOutcome(w)
    BY <2>1, MildSame DEF RecordOutcome
  <2>2. CASE Succeed(w)
    BY <1>2, <2>2, MildFields DEF Succeed, Early
  <2>3. CASE RetryLater(w)
    BY <1>2, <2>3, MildFields DEF RetryLater, Rewrite, Early
  <2>4. CASE Block(w)
    BY <1>2, <2>4, MildFields DEF Block, Rewrite, Early
  <2>5. CASE Fail(w)
    BY <1>2, <2>5, MildFields DEF Fail, Early
  <2>6. CASE SucceedOutside(w)
    <3>1. PICK new \in {"done", "in_progress"} : row' = [row EXCEPT ![Current(w).task].status = new]
      BY <2>6 DEF SucceedOutside
    <3> QED
      BY <1>2, <3>1, MildStatus DEF Early
  <2>7. CASE FailOutside(w)
    <3>1. PICK new \in {"failed"} : row' = [row EXCEPT ![Current(w).task].status = new]
      BY <2>7 DEF FailOutside
    <3> QED
      BY <1>2, <3>1, MildStatus DEF Early
  <2> QED
    BY <2>1, <2>2, <2>3, <2>4, <2>5, <2>6, <2>7
<1>6. CASE Succeed(w)
  <2>1. /\ phase' = [phase EXCEPT ![w] = "record"]
        /\ agenda' = [agenda EXCEPT ![w] = a] /\ ready' = [ready EXCEPT ![w] = <<>>]
    BY <1>2, <1>3, <1>6 DEF Succeed, WorkerInv, Tables
  <2>2. \A v \in Workers : MildBatch(v)
    BY <1>3, <1>4, <2>1, OneBatch
  <2> QED
    BY <1>5, <1>6, <2>2, HandlersStill, MildStep DEF Succeed, bounds
<1>7. CASE Leave(w)
  <2>1. /\ phase' = [phase EXCEPT ![w] = "process"]
        /\ agenda' = [agenda EXCEPT ![w] = q] /\ ready' = [ready EXCEPT ![w] = <<>>]
    BY <1>2, <1>3, <1>7 DEF Leave, WorkerInv, Tables
  <2>2. \A v \in Workers : MildBatch(v)
    BY <1>4, <2>1, OneBatch
  <2> QED
    BY <1>5, <1>7, <2>2, HandlersStill, MildStep DEF Leave, bounds
<1> QED
  BY <1>6, <1>7 DEF RecordOutcome, RetryLater, Block, Fail, SucceedOutside, FailOutside

LEMMA BudgetRestarting ==
  ASSUME WorkerInv, BudgetInv, WorkerInv', NEW w \in Workers, Recover(w) \/ Crash(w)
  PROVE  BudgetInv'
<1>1. MildRows
  <2>1. CASE Recover(w)
    <3>1. \A t \in Tasks : /\ row'[t].attempts = row[t].attempts
                           /\ row'[t].status = Recovered(t)
      BY <2>1, RowTypes DEF Recover, Rows
    <3>2. \A t \in Tasks : \/ Recovered(t) = row[t].status
                           \/ Recovered(t) \in {"in_progress", "todo", "failed", "blocked"}
      BY DEF Recovered
    <3> QED
      BY <3>1, <3>2 DEF MildRows, Early
  <2> QED
    BY <2>1, MildSame DEF Crash
<1>2. /\ phase' = [phase EXCEPT ![w] = "idle"]
      /\ agenda' = [agenda EXCEPT ![w] = <<>>] /\ ready' = [ready EXCEPT ![w] = <<>>]
  BY DEF Recover, Crash, WorkerInv, Tables, BatchOK
<1>3. PICK d : d = Due(w)
  OBVIOUS
<1>4. <<>> \o <<>> = <<>> /\ Thins(<<>>, d)
  BY NothingThins
<1>5. \A v \in Workers : MildBatch(v)
  BY <1>2, <1>3, <1>4, OneBatch
<1> QED
  BY <1>1, <1>5, HandlersStill, MildStep DEF Recover, Crash, bounds

LEMMA LegalLater ==
  ASSUME NEW old, NEW new, old \notin Early, Legal(old, new)
  PROVE  new \notin Early \cup {"queued"}
BY DEF Legal, Early

LEMMA BudgetOperators ==
  ASSUME WorkerInv, BudgetInv, WorkerInv',
         \/ \E t \in Tasks : Age(t)
         \/ \E t \in Tasks, new \in Targets : Update(t, new)
         \/ \E o \in Overlapping, t \in Tasks, new \in Targets : Read(o, t, new)
  PROVE  BudgetInv'
<1>1. \A v \in Workers : MildBatch(v)
  BY SameBatch DEF Age, Update, Read
<1>2. CASE \E t \in Tasks : Age(t)
  <2>1. PICK t \in Tasks : Age(t)
    BY <1>2
  <2>2. PICK r : r = [row[t] EXCEPT !.lease = "overdue"]
    OBVIOUS
  <2>3. row' = [row EXCEPT ![t] = r]
    BY <2>1, <2>2 DEF Age
  <2>4. r.attempts = row[t].attempts /\ r.status = row[t].status
    BY <2>2, RowTypes DEF Rows
  <2>5. MildRows
    BY <2>3, <2>4, MildWrite
  <2> QED
    BY <1>1, <2>1, <2>5, HandlersStill, MildStep DEF Age, bounds
<1>3. CASE \E t \in Tasks, new \in Targets : Update(t, new)
  <2>1. PICK t \in Tasks, new \in Targets : Update(t, new)
    BY <1>3
  <2>2. new \notin Early \cup {"queued"}
    BY <2>1, LegalLater DEF Update, BudgetInv, NeverRequeued
  <2>3. MildRows
    BY <2>1, <2>2, MildStatus DEF Update
  <2> QED
    BY <1>1, <2>1, <2>3, HandlersStill, MildStep DEF Update, bounds
<1>4. CASE \E o \in Overlapping, t \in Tasks, new \in Targets : Read(o, t, new)
  <2>1. PICK o \in Overlapping, t \in Tasks, new \in Targets : Read(o, t, new)
    BY <1>4
  <2>2. new \notin Early \cup {"queued"}
    BY <2>1, LegalLater DEF Read, BudgetInv, NeverRequeued
  <2>3. \A p \in Overlapping : handler'[p] = IF p = o THEN <<Listed(t), new>> ELSE handler[p]
    BY <2>1 DEF Read, WorkerInv, Tables
  <2>4. Pending' = Pending \cup {o} /\ o \notin Pending
    <3>1. handler[o] = <<>> /\ <<Listed(t), new>> # <<>>
      BY <2>1 DEF Read
    <3> QED
      BY <2>3, <3>1 DEF Pending
  <2>5. IsFiniteSet(Pending') /\ Cardinality(Pending') = Cardinality(Pending) + 1
    BY <2>4, FS_AddElement DEF BudgetInv
  <2>6. Cardinality(Pending) \in Nat /\ cuts \in Nat /\ cuts' = cuts + 1
    BY <2>1, FS_CardinalityType DEF Read, BudgetInv, WorkerInv, Tables
  <2>7. Written' = Written /\ Written \in Nat
    BY <2>5, <2>6 DEF Written, BudgetInv
  <2>8. \A p \in Pending' : handler'[p][2] \notin Early \cup {"queued"}
    BY <2>2, <2>3, <2>4 DEF BudgetInv, NeverRequeued, Pending
  <2>9. MildRows /\ runs' = runs /\ relisted' = relisted
    BY <2>1, MildSame DEF Read
  <2> QED
    BY <1>1, <2>5, <2>7, <2>8, <2>9, MildStep
<1> QED
  BY <1>2, <1>3, <1>4

-----------------------------------------------------------------------------
(* The steps that list, begin and write back.                              *)

(* What stays as it is when an action touches one worker. *)
LEMMA OtherCopies ==
  ASSUME WorkerInv, BudgetInv, WorkerInv', Loosens, NEW w \in Workers,
         NEW v \in Workers, v # w, phase'[v] = phase[v], agenda'[v] = agenda[v],
         ready'[v] = ready[v]
  PROVE  CopiesOK(Due(v))'
<1>1. PICK d : d = Due(v)
  OBVIOUS
<1>2. d = Due(v)' /\ d \in Seq(Snapshots) /\ CopiesOK(d)
  BY <1>1, DueType DEF Due, BudgetInv
<1>3. CopiesOK(d)'
  BY <1>2, CopiesStill
<1> QED
  BY <1>2, <1>3 DEF CopiesOK

LEMMA RowsFitStill ==
  ASSUME WorkerInv, BudgetInv, Loosens, row' = row
  PROVE  \A t \in Tasks : Fits(t, row[t].attempts)'
<1>1. ASSUME NEW t \in Tasks, NEW a \in Nat, a = row[t].attempts
      PROVE  Fits(t, a)'
  BY <1>1, FitsStill DEF BudgetInv
<1>2. \A t \in Tasks : runs'[t] <= row[t].attempts + Paid' + Twice(t)'
  BY <1>1, RowTypes DEF Fits
<1> QED
  BY <1>2 DEF Fits

LEMMA BudgetListQueued ==
  ASSUME WorkerInv, BudgetInv, WorkerInv', NEW w \in Workers, ListQueued(w)
  PROVE  BudgetInv'
<1>1. PICK f : f = Fetched("queued", BatchSize)
  OBVIOUS
<1>2. /\ \A i \in DOMAIN f : f[i] = Listed(f[i].task) /\ f[i].task \in Tasks
                              /\ row[f[i].task].status = "queued"
      /\ \A i, j \in DOMAIN f : f[i].task = f[j].task => i = j
  BY <1>1, FetchedRows, BatchSizeIsNat DEF WorkerInv
<1>3. f \in Seq(Snapshots)
  BY <1>1, FetchedType, BatchSizeIsNat DEF WorkerInv
<1>4. /\ phase' = [phase EXCEPT ![w] = "list"] /\ agenda' = [agenda EXCEPT ![w] = f]
      /\ UNCHANGED <<row, ready, handler, runs, relisted, cuts>>
      /\ ready[w] = <<>>
  BY <1>1 DEF ListQueued, bounds, WorkerInv, BatchOK
<1>5. phase'[w] = "list" /\ agenda'[w] = f /\ ready'[w] = <<>>
  BY <1>4 DEF WorkerInv, Tables
<1>6. f = Due(w)'
  BY <1>3, <1>5, EmptyJoins DEF Due
<1>7. ASSUME NEW i \in DOMAIN f PROVE Fits(f[i].task, f[i].row.attempts)
  <2>1. f[i].row = row[f[i].task]
    BY <1>2 DEF Listed
  <2> QED
    BY <1>2, <2>1 DEF BudgetInv
<1>8. CopiesOK(f)
  BY <1>2, <1>7 DEF CopiesOK
<1>9. Loosens /\ IsFiniteSet(Pending')
      /\ \A o \in Pending' : handler'[o][2] \notin Early \cup {"queued"}
  BY <1>4, HandlersStill DEF Loosens
<1>10. CopiesOK(f)'
  BY <1>3, <1>8, <1>9, CopiesStill
<1>11. \A v \in Workers : CopiesOK(Due(v))'
  <2>1. CopiesOK(Due(w))'
    BY <1>6, <1>10 DEF CopiesOK
  <2>2. ASSUME NEW v \in Workers, v # w PROVE CopiesOK(Due(v))'
    BY <1>4, <1>9, <2>2, OtherCopies DEF WorkerInv, Tables
  <2> QED
    BY <2>1, <2>2
<1>12. Fresh(f)
  BY <1>2 DEF Fresh, BudgetInv, NeverRequeued
<1>13. ASSUME NEW v \in Workers, phase'[v] = "list" PROVE Fresh(agenda[v])'
  <2>1. CASE v = w
    BY <1>4, <1>5, <1>12, <2>1 DEF Fresh
  <2>2. CASE v # w
    <3>1. phase[v] = "list" /\ agenda'[v] = agenda[v]
      BY <1>4, <1>13, <2>2 DEF WorkerInv, Tables
    <3> QED
      BY <1>4, <3>1 DEF BudgetInv, Fresh
  <2> QED
    BY <2>1, <2>2
<1>14. NeverRequeued'
  BY <1>4, <1>9 DEF NeverRequeued, BudgetInv
<1>15. \A t \in Tasks : Fits(t, row[t].attempts)'
  BY <1>4, <1>9, RowsFitStill
<1> QED
  BY <1>9, <1>11, <1>13, <1>14, <1>15 DEF BudgetInv, Loosens

(* A row that is listed twice was QUEUED a moment ago and is TODO: it will not
   be QUEUED again, and its second copy is allowed for from now on. *)
LEMMA BudgetListTodo ==
  ASSUME Alone, WorkerInv, BudgetInv, WorkerInv', NEW w \in Workers, ListTodo(w)
  PROVE  BudgetInv'
<1>1. PICK q : q = agenda[w]
  OBVIOUS
<1>2. PICK f : f = Fetched("todo", BatchSize - Len(q))
  OBVIOUS
<1>3. /\ q \in Seq(Snapshots) /\ ready[w] = <<>> /\ phase[w] = "list"
      /\ BatchSize - Len(q) \in Nat
  <2>1. /\ q \in Seq(Snapshots) /\ ready[w] = <<>> /\ phase[w] = "list"
        /\ Len(agenda[w]) + Len(ready[w]) <= BatchSize
    BY <1>1 DEF WorkerInv, Tables, BatchOK, ListTodo
  <2>2. Len(q) \in Nat /\ Len(q) <= BatchSize
    BY <1>1, <2>1
  <2> QED
    BY <2>1, <2>2, BatchSizeIsNat
<1>4. /\ \A i \in DOMAIN f : f[i] = Listed(f[i].task) /\ f[i].task \in Tasks
                              /\ row[f[i].task].status = "todo"
      /\ \A i, j \in DOMAIN f : f[i].task = f[j].task => i = j
  BY <1>2, <1>3, FetchedRows DEF WorkerInv
<1>5. f \in Seq(Snapshots)
  BY <1>2, <1>3, FetchedType DEF WorkerInv
<1>6. /\ phase' = [phase EXCEPT ![w] = "screen"] /\ agenda' = [agenda EXCEPT ![w] = q \o f]
      /\ relisted' = relisted \cup {t \in Tasks :
                       \E i \in DOMAIN q, j \in DOMAIN f : q[i].task = t /\ f[j].task = t}
      /\ UNCHANGED <<row, ready, handler, runs, cuts>>
  BY <1>1, <1>2 DEF ListTodo, bounds
<1>7. Loosens /\ IsFiniteSet(Pending')
      /\ \A o \in Pending' : handler'[o][2] \notin Early \cup {"queued"}
  BY <1>6, HandlersStill DEF Loosens
<1>8. PICK d : d = q \o f
  OBVIOUS
<1>9. d \in Seq(Snapshots) /\ d = Due(w)' /\ q = Due(w)
  <2>1. agenda'[w] = d /\ ready'[w] = <<>> /\ phase'[w] = "screen"
    BY <1>3, <1>6, <1>8 DEF WorkerInv, Tables
  <2>2. d \in Seq(Snapshots)
    BY <1>3, <1>5, <1>8
  <2> QED
    BY <1>1, <1>3, <2>1, <2>2, EmptyJoins DEF Due
<1>10. CopiesOK(q) /\ Fresh(q)
  BY <1>1, <1>3, <1>9 DEF BudgetInv
<1>   DEFINE old(i) == i \in DOMAIN q
<1>12. /\ Len(q) \in Nat
       /\ DOMAIN d = 1..(Len(q) + Len(f)) /\ DOMAIN q = 1..Len(q) /\ DOMAIN f = 1..Len(f)
       /\ \A i \in DOMAIN q : d[i] = q[i]
       /\ \A i \in DOMAIN d : ~old(i) => i - Len(q) \in DOMAIN f /\ d[i] = f[i - Len(q)]
  BY <1>3, <1>5, <1>8
<1>13. \A i \in DOMAIN d : d[i].task \in Tasks /\ d[i].row.attempts \in Nat
  BY <1>9, SnapshotTypes
<1>14. ASSUME NEW i \in DOMAIN d PROVE Fits(d[i].task, d[i].row.attempts)
  <2>1. CASE old(i)
    BY <1>10, <1>12, <2>1 DEF CopiesOK
  <2>2. CASE ~old(i)
    <3>1. d[i] = Listed(d[i].task)
      BY <1>4, <1>12, <2>2
    <3>2. d[i].row = row[d[i].task]
      BY <3>1 DEF Listed
    <3> QED
      BY <1>13, <3>2 DEF BudgetInv
  <2> QED
    BY <2>1, <2>2
<1>15. ASSUME NEW i \in DOMAIN d, NEW j \in DOMAIN d, d[i].task = d[j].task,
              old(i) <=> old(j)
       PROVE  i = j
  <2>1. CASE old(i)
    BY <1>10, <1>12, <1>15, <2>1 DEF Fresh
  <2>2. CASE ~old(i)
    <3>1. i - Len(q) = j - Len(q)
      BY <1>4, <1>12, <1>15, <2>2
    <3> QED
      BY <1>12, <3>1
  <2> QED
    BY <2>1, <2>2
<1>16. ASSUME NEW i \in DOMAIN d, NEW j \in DOMAIN d, i # j, d[i].task = d[j].task
       PROVE  /\ Spare(d[i].task, d[i].row.attempts)'
              /\ \A k \in DOMAIN d : k # i /\ k # j => d[k].task # d[i].task
  <2>1. old(i) # old(j)
    BY <1>15, <1>16
  <2>2. d[i].task \notin relisted /\ d[i].task \in relisted'
    <3>1. \E m \in DOMAIN q, n \in DOMAIN f : q[m].task = d[i].task /\ f[n].task = d[i].task
      BY <1>12, <1>16, <2>1
    <3> QED
      BY <1>6, <1>10, <1>13, <3>1 DEF Fresh
  <2>3. Twice(d[i].task) = 0 /\ Twice(d[i].task)' = 1
    BY <2>2 DEF Twice
  <2>4. Paid \in Nat /\ Paid' = Paid /\ runs'[d[i].task] = runs[d[i].task]
        /\ runs[d[i].task] \in Nat
    BY <1>6, <1>13, PaidType DEF Paid, Written, Pending, BudgetInv, WorkerInv, Tables
  <2>5. Spare(d[i].task, d[i].row.attempts)'
    BY <1>13, <1>14, <2>3, <2>4 DEF Fits, Spare
  <2>6. \A k \in DOMAIN d : k # i /\ k # j => d[k].task # d[i].task
    BY <1>15, <1>16, <2>1
  <2> QED
    BY <2>5, <2>6
<1>17. CopiesOK(d)'
  <2>1. \A i \in DOMAIN d : Fits(d[i].task, d[i].row.attempts)'
    BY <1>7, <1>13, <1>14, FitsStill
  <2> QED
    BY <1>16, <2>1 DEF CopiesOK
<1>18. ASSUME NEW v \in Workers PROVE CopiesOK(Due(v))' /\ phase'[v] # "list"
  <2>1. v = w
    BY DEF Alone
  <2> QED
    BY <1>6, <1>9, <1>17, <2>1 DEF CopiesOK, WorkerInv, Tables
<1>19. NeverRequeued'
  <2>1. \A t \in relisted' : row[t].status # "queued"
    BY <1>4, <1>6 DEF BudgetInv, NeverRequeued
  <2> QED
    BY <1>6, <1>7, <2>1 DEF BudgetInv, NeverRequeued
<1>20. \A t \in Tasks : Fits(t, row[t].attempts)'
  BY <1>6, <1>7, RowsFitStill
<1> QED
  BY <1>7, <1>18, <1>19, <1>20 DEF BudgetInv, Loosens

(* The execution is counted with the copy it begins with, so another copy of
   the task has used up what it allowed for. *)
LEMMA BudgetBegin ==
  ASSUME Alone, WorkerInv, BudgetInv, WorkerInv', NEW w \in Workers, Begin(w)
  PROVE  BudgetInv'
<1>1. PICK d : d = agenda[w]
  OBVIOUS
<1>2. /\ d \in Seq(Snapshots) /\ d # <<>> /\ ready[w] = <<>> /\ d = Due(w)
      /\ Tail(d) \in Seq(Snapshots)
  <2>1. d \in Seq(Snapshots) /\ d # <<>> /\ ready[w] = <<>>
    BY <1>1 DEF Begin, WorkerInv, Tables, BatchOK
  <2> QED
    BY <1>1, <2>1, EmptyJoins, HeadAndTail DEF Due, Begin
<1>3. PICK s \in Snapshots : s = d[1] /\ s = Current(w)
  BY <1>1, <1>2, HeadAndTail, TailThins DEF Current
<1>4. PICK t \in Tasks, a \in Nat : t = s.task /\ a = s.row.attempts
  <2>1. s.task \in Tasks /\ s.row.attempts \in 0..MaxAttempts
    BY DEF Snapshots, Rows
  <2> QED
    BY <2>1, PaidType
<1>5. /\ \A u \in Tasks : row'[u] = IF u = t
                                    THEN [status |-> "in_progress", attempts |-> a + 1,
                                          lease |-> "live", mark |-> s.row.mark]
                                    ELSE row[u]
      /\ \A u \in Tasks : runs'[u] = IF u = t THEN runs[u] + 1 ELSE runs[u]
      /\ phase' = [phase EXCEPT ![w] = "busy"]
      /\ UNCHANGED <<agenda, ready, handler, relisted, cuts>>
  BY <1>3, <1>4 DEF Begin, bounds, WorkerInv, Tables
<1>6. /\ Paid' = Paid /\ Paid \in Nat /\ \A u \in Tasks : Twice(u)' = Twice(u)
      /\ \A u \in Tasks : Twice(u) \in Nat /\ runs[u] \in Nat
      /\ Written' = Written /\ Pending' = Pending
  BY <1>5, PaidType DEF Paid, Written, Pending, Twice, BudgetInv, WorkerInv, Tables
<1>7. CopiesOK(d) /\ Fits(t, a)
  <2>1. 1 \in DOMAIN d /\ d[1].task = t /\ d[1].row.attempts = a
    BY <1>2, <1>3, <1>4, TailThins
  <2>2. CopiesOK(d)
    BY <1>2 DEF BudgetInv
  <2> QED
    BY <2>1, <2>2 DEF CopiesOK
<1>8. \A u \in Tasks : Fits(u, row[u].attempts)'
  BY <1>5, <1>6, <1>7, RowTypes DEF Fits, BudgetInv
<1>9. PICK e : e = Tail(d)
  OBVIOUS
<1>10. /\ e = Due(w)' /\ e \in Seq(Snapshots)
       /\ DOMAIN e = 1..(Len(d) - 1) /\ DOMAIN d = 1..Len(d) /\ Len(d) \in Nat \ {0}
       /\ \A i \in DOMAIN e : e[i] = d[i + 1]
       /\ CopiesOK(e)
  BY <1>1, <1>2, <1>5, <1>7, <1>9, TailThins, ThinCopies DEF Due, WorkerInv, Tables
<1>11. \A i \in DOMAIN e : e[i].task \in Tasks /\ e[i].row.attempts \in Nat
  BY <1>10, SnapshotTypes
<1>12. ASSUME NEW i \in DOMAIN e, e[i].task = t
       PROVE  /\ Spare(e[i].task, e[i].row.attempts)
              /\ \A j \in DOMAIN e : j # i => e[j].task # e[i].task
  <2>1. /\ 1 \in DOMAIN d /\ i + 1 \in DOMAIN d /\ i + 1 # 1
        /\ d[1].task = t /\ d[i + 1] = e[i] /\ d[i + 1].task = d[1].task
    BY <1>3, <1>4, <1>10, <1>12
  <2>2. /\ Spare(d[i + 1].task, d[i + 1].row.attempts)
        /\ \A k \in DOMAIN d : k # i + 1 /\ k # 1 => d[k].task # d[i + 1].task
    BY <1>7, <2>1 DEF CopiesOK
  <2>3. ASSUME NEW j \in DOMAIN e, j # i PROVE e[j].task # e[i].task
    <3>1. j + 1 \in DOMAIN d /\ j + 1 # i + 1 /\ j + 1 # 1 /\ e[j] = d[j + 1]
      BY <1>10, <2>3
    <3> QED
      BY <2>1, <2>2, <3>1
  <2> QED
    BY <2>1, <2>2, <2>3
<1>13. ASSUME NEW i \in DOMAIN e PROVE Fits(e[i].task, e[i].row.attempts)'
  <2>1. CASE e[i].task = t
    BY <1>5, <1>6, <1>11, <1>12, <2>1 DEF Fits, Spare
  <2>2. CASE e[i].task # t
    <3>1. Fits(e[i].task, e[i].row.attempts)
      BY <1>10 DEF CopiesOK
    <3> QED
      BY <1>5, <1>6, <1>11, <2>2, <3>1 DEF Fits
  <2> QED
    BY <2>1, <2>2
<1>14. ASSUME NEW i \in DOMAIN e, NEW j \in DOMAIN e, i # j, e[i].task = e[j].task
       PROVE  /\ Spare(e[i].task, e[i].row.attempts)'
              /\ \A k \in DOMAIN e : k # i /\ k # j => e[k].task # e[i].task
  <2>1. e[i].task # t
    BY <1>12, <1>14
  <2>2. /\ Spare(e[i].task, e[i].row.attempts)
        /\ \A k \in DOMAIN e : k # i /\ k # j => e[k].task # e[i].task
    BY <1>10, <1>14 DEF CopiesOK
  <2> QED
    BY <1>5, <1>6, <1>11, <2>1, <2>2 DEF Spare
<1>15. CopiesOK(e)'
  BY <1>13, <1>14 DEF CopiesOK
<1>16. ASSUME NEW v \in Workers PROVE CopiesOK(Due(v))' /\ phase'[v] # "list"
  <2>1. v = w
    BY DEF Alone
  <2> QED
    BY <1>5, <1>10, <1>15, <2>1 DEF CopiesOK, WorkerInv, Tables
<1>17. NeverRequeued'
  <2>1. \A u \in Tasks : \/ row'[u].status = row[u].status
                         \/ row'[u].status = "in_progress"
    BY <1>5
  <2>2. relisted \subseteq Tasks
    BY DEF WorkerInv, Tables
  <2> QED
    BY <1>5, <1>6, <2>1, <2>2 DEF BudgetInv, NeverRequeued, Early
<1> QED
  BY <1>6, <1>8, <1>16, <1>17 DEF BudgetInv

(* A handler that was cut writes an attempt count back from before: what it
   undoes is paid by the cut. *)
LEMMA BudgetWrite ==
  ASSUME WorkerInv, BudgetInv, WorkerInv', NEW o \in Overlapping, Write(o)
  PROVE  BudgetInv'
<1>1. PICK s \in Snapshots, new \in Targets : handler[o] = <<s, new>>
  BY DEF Write, WorkerInv, Tables
<1>2. PICK t, r : t \in Tasks /\ t = s.task /\ r = [s.row EXCEPT !.status = new]
  BY DEF Snapshots
<1>3. /\ \A u \in Tasks : row'[u] = IF u = t THEN r ELSE row[u]
      /\ \A p \in Overlapping : handler'[p] = IF p = o THEN <<>> ELSE handler[p]
      /\ UNCHANGED <<phase, agenda, ready, runs, relisted, cuts>>
  BY <1>1, <1>2 DEF Write, bounds, WorkerInv, Tables
<1>4. r.status = new /\ r.attempts \in Nat
  <2>1. s.row \in Rows
    BY DEF Snapshots
  <2>2. s.row.attempts \in 0..MaxAttempts
    BY <2>1 DEF Rows
  <2>3. r.status = new /\ r.attempts = s.row.attempts
    BY <1>2, <2>1 DEF Rows
  <2> QED
    BY <2>2, <2>3, PaidType
<1>5. Pending' = Pending \ {o} /\ o \in Pending
  BY <1>1, <1>3 DEF Pending
<1>6. IsFiniteSet(Pending') /\ Cardinality(Pending') = Cardinality(Pending) - 1
  BY <1>5, FS_RemoveElement DEF BudgetInv
<1>7. Cardinality(Pending) \in Nat /\ cuts \in Nat
  BY FS_CardinalityType DEF BudgetInv, WorkerInv, Tables
<1>8. Written' = Written + 1 /\ Written \in Nat
  BY <1>3, <1>6, <1>7 DEF Written, BudgetInv
<1>9. Loosens /\ Paid \in Nat /\ Paid' = Paid + MaxAttempts
  BY <1>3, <1>8, PaidGrows DEF Loosens
<1>10. ASSUME NEW u \in Tasks PROVE Fits(u, row[u].attempts)'
  <2>1. PICK a \in Nat : a = row[u].attempts /\ a <= MaxAttempts
    BY RowTypes
  <2>2. Fits(u, a)
    BY <2>1 DEF BudgetInv
  <2>3. CASE u = t
    <3>1. /\ runs'[u] = runs[u] /\ runs[u] \in Nat
          /\ Twice(u)' = Twice(u) /\ Twice(u) \in Nat /\ MaxAttempts \in Nat
          /\ row'[u].attempts = r.attempts
      BY <1>3, <2>3, PaidType DEF WorkerInv, Tables, Twice
    <3>2. runs[u] <= a + Paid + Twice(u)
      BY <2>2 DEF Fits
    <3>3. runs'[u] <= row'[u].attempts + Paid' + Twice(u)'
      BY <1>4, <1>9, <2>1, <3>1, <3>2
    <3> QED
      BY <3>3 DEF Fits
  <2>4. CASE u # t
    <3>1. Fits(u, a)'
      BY <1>9, <2>2, FitsStill
    <3> QED
      BY <1>3, <2>1, <2>4, <3>1 DEF Fits
  <2> QED
    BY <2>3, <2>4
<1>11. ASSUME NEW v \in Workers PROVE CopiesOK(Due(v))'
  <2>1. PICK d : d = Due(v)
    OBVIOUS
  <2>2. d = Due(v)' /\ d \in Seq(Snapshots) /\ CopiesOK(d)
    BY <1>3, <2>1, DueType DEF Due, BudgetInv
  <2>3. CopiesOK(d)'
    BY <1>9, <2>2, CopiesStill
  <2> QED
    BY <2>2, <2>3 DEF CopiesOK
<1>12. \A v \in Workers : phase'[v] = "list" => Fresh(agenda[v])'
  BY <1>3 DEF BudgetInv, Fresh
<1>13. NeverRequeued'
  <2>1. new \notin Early \cup {"queued"}
    <3>1. handler[o][2] = new
      BY <1>1
    <3> QED
      BY <1>5, <3>1 DEF BudgetInv, NeverRequeued
  <2>2. \A u \in Tasks : \/ row'[u].status = row[u].status
                         \/ row'[u].status = new
    BY <1>3, <1>4
  <2>3. relisted \subseteq Tasks
    BY DEF WorkerInv, Tables
  <2>4. \A p \in Pending' : handler'[p] = handler[p] /\ p \in Pending
    BY <1>3, <1>5 DEF Pending
  <2> QED
    BY <1>3, <2>1, <2>2, <2>3, <2>4 DEF BudgetInv, NeverRequeued
<1> QED
  BY <1>6, <1>8, <1>10, <1>11, <1>12, <1>13 DEF BudgetInv

LEMMA BudgetInit == Init => BudgetInv
<1> SUFFICES ASSUME Init PROVE BudgetInv
  OBVIOUS
<1>1. WorkerInv
  BY WorkerInit
<1>2. Pending = {} /\ IsFiniteSet(Pending) /\ Cardinality(Pending) = 0
  BY FS_EmptySet DEF Init, Pending
<1>3. Written = 0
  BY <1>2 DEF Written, Init
<1>4. Paid = 0
  BY <1>3, PaidType DEF Paid
<1>5. \A t \in Tasks : Fits(t, row[t].attempts)
  BY <1>1, <1>4, RowTypes, PaidType DEF Fits, Init
<1>6. \A w \in Workers : Due(w) = <<>>
  BY EmptyJoins DEF Due, Init
<1>7. \A w \in Workers : CopiesOK(Due(w)) /\ phase[w] # "list"
  <2>1. CopiesOK(<<>>)
    BY DEF CopiesOK
  <2> QED
    BY <1>6, <2>1 DEF Init
<1>8. NeverRequeued
  <2>1. \A t \in Tasks : row[t].status \in Unstarted
    BY DEF Init
  <2> QED
    BY <1>2, <2>1 DEF NeverRequeued, Init, Unstarted, Early
<1> QED
  BY <1>2, <1>3, <1>5, <1>7, <1>8 DEF BudgetInv

LEMMA BudgetNext ==
  ASSUME Alone, WorkerInv, BudgetInv, WorkerInv', [Next]_vars
  PROVE  BudgetInv'
<1>1. ASSUME NEW w \in Workers, WorkerStep(w) PROVE BudgetInv'
  <2>1. CASE ListQueued(w) \/ ListTodo(w) \/ Begin(w)
    BY <2>1, BudgetListQueued, BudgetListTodo, BudgetBegin
  <2>2. CASE Screen(w) \/ StartBatch(w)
    BY <2>2, BudgetScreening
  <2>3. CASE Recover(w)
    BY <2>3, BudgetRestarting
  <2> QED
    BY <1>1, <2>1, <2>2, <2>3, BudgetLeaving DEF WorkerStep
<1>2. ASSUME NEW w \in Workers, Crash(w) PROVE BudgetInv'
  BY <1>2, BudgetRestarting
<1>3. CASE OperatorStep \/ \E t \in Tasks : Age(t)
  BY <1>3, BudgetOperators, BudgetWrite DEF OperatorStep
<1>4. CASE UNCHANGED vars
  <2>1. /\ UNCHANGED <<row, phase, agenda, ready, handler, runs, relisted, cuts>>
        /\ \A v \in Workers : MildBatch(v)
    BY <1>4, SameBatch DEF vars
  <2> QED
    BY <2>1, MildSame, HandlersStill, MildStep
<1> QED
  BY <1>1, <1>2, <1>3, <1>4 DEF Next

(* However often a task fails, is recovered, retried by operators or cut off
   by a crash, and whatever handlers write back, one scheduler thread executes
   it max_attempts times for each time a handler may have undone the count, and
   once more if a batch ever held it twice. *)
THEOREM AttemptsAreBounded == Alone => (Spec => []AttemptBudget)
<1> SUFFICES ASSUME Alone PROVE Spec => []AttemptBudget
  OBVIOUS
<1>1. WorkerInv /\ WorkerInv' /\ BudgetInv /\ [Next]_vars => BudgetInv'
  BY BudgetNext
<1>2. WorkerInv /\ BudgetInv => AttemptBudget
  <2> SUFFICES ASSUME WorkerInv, BudgetInv, NEW t \in Tasks
               PROVE  runs[t] <= MaxAttempts * (1 + cuts) + Twice(t)
    BY DEF AttemptBudget, Twice
  <2>1. PICK a \in Nat : a = row[t].attempts /\ a <= MaxAttempts
    BY RowTypes
  <2>2. runs[t] \in Nat /\ cuts \in Nat /\ Twice(t) \in Nat /\ Paid \in Nat
        /\ MaxAttempts \in Nat
    <3>1. MaxCuts \in Nat /\ cuts \in 0..MaxCuts /\ runs \in [Tasks -> Nat]
      BY WorkerAssumption DEF WorkerInv, Tables
    <3>2. Twice(t) \in {0, 1} /\ Paid \in Nat
      BY PaidType DEF BudgetInv
    <3> QED
      BY <3>1, <3>2, PaidType
  <2>3. runs[t] <= a + Paid + Twice(t)
    BY <2>1 DEF BudgetInv, Fits
  <2>4. Paid <= MaxAttempts * cuts
    <3>1. Cardinality(Pending) \in Nat /\ Written \in Nat /\ Written = cuts - Cardinality(Pending)
      BY FS_CardinalityType DEF BudgetInv, Written
    <3>2. cuts = Written + Cardinality(Pending)
      BY <2>2, <3>1
    <3>3. \A m, n \in Nat : MaxAttempts * (m + n) = MaxAttempts * m + MaxAttempts * n
                            /\ MaxAttempts * n \in Nat /\ MaxAttempts * m \in Nat
      BY <2>2
    <3> QED
      BY <3>1, <3>2, <3>3 DEF Paid
  <2>5. MaxAttempts * (1 + cuts) = MaxAttempts + MaxAttempts * cuts /\ MaxAttempts * cuts \in Nat
    BY <2>2
  <2> QED
    BY <2>1, <2>2, <2>3, <2>4, <2>5
<1> QED
  BY <1>1, <1>2, BudgetInit, WorkerInvHolds, PTL DEF Spec
=============================================================================
