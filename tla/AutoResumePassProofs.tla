------------------------ MODULE AutoResumePassProofs ------------------------
(***************************************************************************)
(* Theorems about AutoResumePass, for any number of nodes and tasks and    *)
(* every bound.  First that leadership is as exclusive as its lease; then  *)
(* what is left of TaskLifecycleProofs, where recovery passes meet a due   *)
(* task in one step, when passes work on lists out of date and  *)
(* on outdated copies of the rows.                                         *)
(***************************************************************************)
EXTENDS AutoResumePass, TaskLifecycleProofs

-----------------------------------------------------------------------------
(* Leadership.                                                             *)

(* Whoever counts on the key and is not late finds its name in it. *)
HoldsUnlessLate ==
  \A n \in Nodes : Counting(n) /\ n \notin late => leader = n

ElectionInv == ElectionTypeOK /\ HoldsUnlessLate

LEMMA ElectionTypes ==
  ASSUME ElectionTypeOK, [ElectionNext]_electionVars
  PROVE  ElectionTypeOK'
<1> USE ElectionAssumption DEF ElectionTypeOK, Counting
<1>1. ASSUME NEW n \in Nodes, TryAdd(n)
      PROVE  ElectionTypeOK'
  BY <1>1 DEF TryAdd
<1>2. ASSUME NEW n \in Nodes, ReadLeader(n)
      PROVE  ElectionTypeOK'
  BY <1>2 DEF ReadLeader
<1>3. ASSUME NEW n \in Nodes, Extend(n)
      PROVE  ElectionTypeOK'
  BY <1>3 DEF Extend, Overtaken
<1>4. ASSUME NEW n \in Nodes, EndTerm(n)
      PROVE  ElectionTypeOK'
  BY <1>4 DEF EndTerm
<1>5. ASSUME NEW n \in Nodes, Depart(n)
      PROVE  ElectionTypeOK'
  BY <1>5 DEF Depart
<1>6. CASE Lapse
  BY <1>6 DEF Lapse, Overtaken
<1>7. CASE UNCHANGED electionVars
  BY <1>7 DEF electionVars
<1> QED
  BY <1>1, <1>2, <1>3, <1>4, <1>5, <1>6, <1>7 DEF ElectionNext

(* Only a lapse, and an extension overtaken by one, takes the key from a node
   that counts on it, and both are noted. *)
LEMMA HoldStep ==
  ASSUME ElectionInv, [ElectionNext]_electionVars
  PROVE  HoldsUnlessLate'
<1> USE DEF ElectionInv, ElectionTypeOK, HoldsUnlessLate, Counting
<1>1. ASSUME NEW n \in Nodes, TryAdd(n)
      PROVE  HoldsUnlessLate'
  BY <1>1, ElectionAssumption DEF TryAdd
<1>2. ASSUME NEW n \in Nodes, ReadLeader(n)
      PROVE  HoldsUnlessLate'
  BY <1>2 DEF ReadLeader
<1>3. ASSUME NEW n \in Nodes, Extend(n)
      PROVE  HoldsUnlessLate'
  BY <1>3 DEF Extend, Overtaken
<1>4. ASSUME NEW n \in Nodes, EndTerm(n)
      PROVE  HoldsUnlessLate'
  BY <1>4 DEF EndTerm
<1>5. ASSUME NEW n \in Nodes, Depart(n)
      PROVE  HoldsUnlessLate'
  BY <1>5 DEF Depart
<1>6. CASE Lapse
  BY <1>6 DEF Lapse, Overtaken
<1>7. CASE UNCHANGED electionVars
  BY <1>7 DEF electionVars
<1> QED
  BY <1>1, <1>2, <1>3, <1>4, <1>5, <1>6, <1>7 DEF ElectionNext

(* A pass moves the election only as try_acquire, the end of a term, a death or
   a lapse does. *)
LEMMA PassElects ==
  ASSUME [PassNext]_passVars
  PROVE  [ElectionNext]_electionVars
BY DEF PassNext, PassStep, Campaign, ListDated, ListGaps, ListStale, ServeDated,
       ServeGap, ServeStale, EndPass, NodeDies, LeaseLapses, ServiceStep,
       ElectionNext, passVars

LEMMA ElectionInvariant == PassSpec => []ElectionInv
<1>1. PassInit => ElectionInv
  BY ElectionAssumption
     DEF PassInit, ElectionInit, ElectionInv, ElectionTypeOK, HoldsUnlessLate,
         Counting
<1>2. ElectionInv /\ [PassNext]_passVars => ElectionInv'
  BY PassElects, ElectionTypes, HoldStep DEF ElectionInv
<1> QED
  BY <1>1, <1>2, PTL DEF PassSpec

(* Two nodes run their passes at once only if a lease ran out under one. *)
THEOREM LeaderIsAlone == PassSpec => []OneLeader
<1>1. ElectionInv => OneLeader
  BY DEF ElectionInv, HoldsUnlessLate, OneLeader, Counting
<1> QED
  BY <1>1, ElectionInvariant, PTL

-----------------------------------------------------------------------------
(* What a pass does to the rows.                                           *)

(* A pass saves an outdated copy of t's row. *)
FromCopy(t) ==
  /\ status[t] # "absent"
  /\ misreads'[t] > 0
  /\ \/ \E new \in {SuspensionInfo(t).origin, GapTarget(t)} : ResumeFromCopy(t, new)
     \/ /\ Overwrite(t, ReclaimTarget(t))
        /\ UNCHANGED <<passed, suspVars, call, keyVars, bounds>>

MisreadsOK == misreads \in [Tasks -> 0..MaxMisreads]

(* Copies are counted, and the count does not go down. *)
LEMMA MisreadsGrow ==
  ASSUME MisreadsOK, [PassNext]_passVars
  PROVE  MisreadsOK' /\ \A t \in Tasks : misreads[t] <= misreads'[t]
<1> USE PassAssumption DEF MisreadsOK
<1>1. ASSUME NEW S \in SUBSET Tasks, Misread(S)
      PROVE  MisreadsOK' /\ \A t \in Tasks : misreads[t] <= misreads'[t]
  BY <1>1 DEF Misread
<1>2. ASSUME UNCHANGED misreads
      PROVE  MisreadsOK' /\ \A t \in Tasks : misreads[t] <= misreads'[t]
  BY <1>2
<1>3. ASSUME NEW n \in Nodes, ListGaps(n)
      PROVE  \E S \in SUBSET Tasks : Misread(S)
  BY <1>3 DEF ListGaps, Gaps
<1>4. ASSUME NEW n \in Nodes, NEW t \in Tasks,
             ServeDated(n, t) \/ ServeGap(n, t) \/ ServeStale(n, t)
      PROVE  UNCHANGED misreads \/ Misread({t})
  BY <1>4 DEF ServeDated, ServeGap, ServeStale, ReclaimListed
<1>5. ASSUME NEW n \in Nodes,
             \/ Campaign(n) \/ ListDated(n) \/ ListStale(n) \/ EndPass(n)
             \/ NodeDies(n)
      PROVE  UNCHANGED misreads
  BY <1>5 DEF Campaign, ListDated, ListStale, EndPass, NodeDies
<1>6. CASE LeaseLapses \/ ServiceStep \/ UNCHANGED passVars
  BY <1>2, <1>6 DEF LeaseLapses, ServiceStep, passVars
<1>7. \A t \in Tasks : {t} \in SUBSET Tasks
  OBVIOUS
<1> QED
  BY <1>1, <1>2, <1>3, <1>4, <1>5, <1>6, <1>7 DEF PassNext, PassStep

LEMMA MisreadCounts ==
  ASSUME MisreadsOK, NEW t \in Tasks, Misread({t})
  PROVE  status[t] # "absent" /\ misreads'[t] > 0
BY DEF MisreadsOK, Misread

(* A step is one of TaskLifecycle, the resumption of a gap from a list, or that
   of an outdated copy. *)
LEMMA PassServes ==
  ASSUME MisreadsOK, [PassNext]_passVars
  PROVE  \/ [Next]_vars
         \/ \E t \in Tasks : ResumeListedGap(t) \/ FromCopy(t)
<1>1. ASSUME NEW n \in Nodes, NEW t \in Tasks, ServeDated(n, t)
      PROVE  [Next]_vars \/ FromCopy(t)
  BY <1>1, MisreadCounts DEF ServeDated, Next, SuspensionNext, FromCopy
<1>2. ASSUME NEW n \in Nodes, NEW t \in Tasks, ServeGap(n, t)
      PROVE  [Next]_vars \/ ResumeListedGap(t) \/ FromCopy(t)
  BY <1>2, MisreadCounts DEF ServeGap, FromCopy
<1>3. ASSUME NEW n \in Nodes, NEW t \in Tasks, ServeStale(n, t)
      PROVE  [Next]_vars \/ FromCopy(t)
  <2>1. ReclaimTarget(t) \in Statuses
    BY DEF ReclaimTarget, Statuses
  <2>2. CASE UpdateStatus(t, ReclaimTarget(t))
    BY <2>1, <2>2 DEF Next, OperatorNext
  <2>3. CASE /\ Misread({t})
             /\ Overwrite(t, ReclaimTarget(t)) \/ UNCHANGED <<status, deps>>
             /\ UNCHANGED <<passed, suspVars, call, keyVars, bounds>>
    BY <2>3, MisreadCounts DEF FromCopy, vars, suspVars, keyVars, bounds
  <2> QED
    BY <1>3, <2>2, <2>3 DEF ServeStale, ReclaimListed
<1>4. CASE ServiceStep
  BY <1>4 DEF ServiceStep, Next, SchedulerNext
<1>5. ASSUME NEW n \in Nodes,
             \/ Campaign(n) \/ ListDated(n) \/ ListGaps(n) \/ ListStale(n)
             \/ EndPass(n) \/ NodeDies(n)
      PROVE  UNCHANGED vars
  BY <1>5 DEF Campaign, ListDated, ListGaps, ListStale, EndPass, NodeDies
<1>6. CASE LeaseLapses \/ UNCHANGED passVars
  BY <1>6 DEF LeaseLapses, passVars
<1> QED
  BY <1>1, <1>2, <1>3, <1>4, <1>5, <1>6 DEF PassNext, PassStep

LEMMA GapTargetOpen ==
  ASSUME SuspensionOriginOK, NEW t \in Tasks, SuspensionInfo(t) # NoRecord
  PROVE  GapTarget(t) \in OpenStatuses
BY InfoOpen DEF GapTarget, OpenStatuses

LEMMA OpenIsStatus == OpenStatuses \subseteq Statuses
BY DEF OpenStatuses, Statuses

(* A gap resumed from a list, whatever the record it was listed for has
   become: the row goes from SUSPENDED to another open status. *)
LEMMA ListedGapRow ==
  ASSUME TypeOK, SuspensionOriginOK, NEW t \in Tasks, ResumeListedGap(t)
  PROVE  RowStep(t) /\ passed' = passed
<1>1. GapTarget(t) \in OpenStatuses
  BY GapTargetOpen DEF ResumeListedGap
<1>2. status' = [status EXCEPT ![t] = GapTarget(t)] /\ status[t] \in OpenStatuses
  BY DEF ResumeListedGap, OpenStatuses
<1> QED
  BY <1>1, <1>2, OpenRow DEF ResumeListedGap

LEMMA ListedGapKeeps ==
  ASSUME TypeOK, SuspensionOriginOK, NEW t \in Tasks, ResumeListedGap(t)
  PROVE  TypeOK' /\ SuspensionOriginOK'
<1>1. RowStep(t) /\ passed' = passed
  BY ListedGapRow
<1>2. TypeOK'
  <2>1. GapTarget(t) \in Statuses
    BY GapTargetOpen, OpenIsStatus DEF ResumeListedGap
  <2>2. NoRecord \in Records
    BY DEF Records
  <2> QED
    BY <2>1, <2>2 DEF ResumeListedGap, TypeOK, RowStatuses, keyVars, bounds
<1>3. SuspensionOriginOK'
  BY <1>1, RowStepBorn, RecordsStep, NoRecordGood DEF ResumeListedGap, TypeOK
<1> QED
  BY <1>2, <1>3

(* What a copy brings: the row of t, and no other, becomes an open or a failed
   one, whatever it was. *)
LEMMA CopyRow ==
  ASSUME TypeOK, SuspensionOriginOK, NEW t \in Tasks, FromCopy(t)
  PROVE  /\ passed' = passed
         /\ \/ UNCHANGED <<status, deps>>
            \/ \E new \in OpenStatuses \cup {"failed"} : Overwrite(t, new)
<1>1. ASSUME NEW new \in {SuspensionInfo(t).origin, GapTarget(t)},
             ResumeFromCopy(t, new)
      PROVE  /\ passed' = passed
             /\ \/ UNCHANGED <<status, deps>>
                \/ \E to \in OpenStatuses \cup {"failed"} : Overwrite(t, to)
  <2>1. new \in OpenStatuses
    BY <1>1, InfoOpen, GapTargetOpen DEF ResumeFromCopy
  <2> QED
    BY <1>1, <2>1 DEF ResumeFromCopy
<1>2. ReclaimTarget(t) \in OpenStatuses \cup {"failed"}
  BY DEF ReclaimTarget, OpenStatuses
<1> QED
  BY <1>1, <1>2 DEF FromCopy

LEMMA CopyRecords ==
  ASSUME NEW t \in Tasks, FromCopy(t)
  PROVE  /\ dbSusp' \in {dbSusp, [dbSusp EXCEPT ![t] = NoRecord]}
         /\ shSusp' \in {shSusp, [shSusp EXCEPT ![t] = NoRecord]}
         /\ UNCHANGED <<call, keyVars, bounds>>
BY DEF FromCopy, ResumeFromCopy, suspVars

LEMMA CopyStatus ==
  ASSUME TypeOK, SuspensionOriginOK, NEW t \in Tasks, FromCopy(t)
  PROVE  /\ \A u \in Tasks \ {t} : status'[u] = status[u]
         /\ status'[t] = status[t] \/ status'[t] \in OpenStatuses \cup {"failed"}
BY CopyRow DEF Overwrite, TypeOK

LEMMA CopyKeeps ==
  ASSUME TypeOK, SuspensionOriginOK, NEW t \in Tasks, FromCopy(t)
  PROVE  TypeOK' /\ SuspensionOriginOK'
<1>1. \A new \in OpenStatuses \cup {"failed"} : new \in RowStatuses /\ new # "absent"
  BY DEF OpenStatuses, RowStatuses, Statuses
<1>2. status' \in [Tasks -> RowStatuses] /\ deps' \in [Tasks -> SUBSET Tasks]
  BY <1>1, CopyRow DEF Overwrite, TypeOK
<1>3. NoRecord \in Records
  BY DEF Records
<1>4. TypeOK'
  BY <1>2, <1>3, CopyRow, CopyRecords DEF TypeOK, keyVars, bounds
<1>5. StaysBorn
  BY <1>1, CopyStatus DEF StaysBorn
<1>6. SuspensionOriginOK'
  BY <1>5, CopyRecords, RecordsStep, NoRecordGood DEF TypeOK, FromCopy
<1> QED
  BY <1>4, <1>6

(* Accepted work is not open again, except in a row that was misread. *)
AcceptedUnlessMisread ==
  \A t \in passed : misreads[t] = 0 => status[t] \in {"done", "archived", "deleted"}

(* What TaskLifecycleProofs establishes, as far as it carries over. *)
RecordsInv ==
  /\ TypeOK
  /\ SuspensionOriginOK
  /\ MisreadsOK
  /\ AcceptedUnlessMisread

LEMMA UnreadBefore ==
  ASSUME MisreadsOK, [PassNext]_passVars, NEW t \in Tasks, misreads'[t] = 0
  PROVE  misreads[t] = 0
BY MisreadsGrow DEF MisreadsOK

LEMMA AcceptedPassStep ==
  ASSUME RecordsInv, [PassNext]_passVars
  PROVE  AcceptedUnlessMisread'
<1> USE DEF RecordsInv
<1> SUFFICES ASSUME NEW u \in passed', misreads'[u] = 0
             PROVE  status'[u] \in {"done", "archived", "deleted"}
  BY DEF AcceptedUnlessMisread
<1>1. ASSUME u \in passed, u \in Tasks
      PROVE  status[u] \in {"done", "archived", "deleted"}
  BY <1>1, UnreadBefore DEF AcceptedUnlessMisread
<1>2. passed \subseteq Tasks
  BY DEF TypeOK
<1>3. ASSUME NEW c \in Calls, Verdict(c), VerdictPassed(c)
      PROVE  status'[u] \in {"done", "archived", "deleted"}
  BY <1>1, <1>2, <1>3, AcceptanceStep, LifecycleAssumption DEF TypeOK
<1>4. CASE [Next]_vars /\ ~ \E c \in Calls : Verdict(c) /\ VerdictPassed(c)
  <2>1. u \in passed /\ (status' = status \/ \E t \in Tasks : RowStep(t))
    BY <1>4, AnyStep
  <2> QED
    BY <1>1, <1>2, <2>1, FinishedRow
<1>5. ASSUME NEW t \in Tasks, ResumeListedGap(t)
      PROVE  status'[u] \in {"done", "archived", "deleted"}
  BY <1>1, <1>2, <1>5, ListedGapRow, FinishedRow
<1>6. ASSUME NEW t \in Tasks, FromCopy(t)
      PROVE  status'[u] \in {"done", "archived", "deleted"}
  <2>1. u \in passed /\ u # t
    BY <1>6, CopyRow DEF FromCopy
  <2> QED
    BY <1>1, <1>2, <1>6, <2>1, CopyStatus
<1> QED
  BY <1>3, <1>4, <1>5, <1>6, PassServes

LEMMA RecordsStepByStep ==
  ASSUME RecordsInv, [PassNext]_passVars
  PROVE  RecordsInv'
<1>1. TypeOK' /\ SuspensionOriginOK'
  BY PassServes, TypeStep, OriginStep, ListedGapKeeps, CopyKeeps DEF RecordsInv
<1> QED
  BY <1>1, MisreadsGrow, AcceptedPassStep DEF RecordsInv

LEMMA RecordsInvariant == PassSpec => []RecordsInv
<1>1. PassInit => RecordsInv
  BY InitType, PassAssumption
     DEF PassInit, Init, RecordsInv, SuspensionOriginOK, AcceptedUnlessMisread,
         MisreadsOK
<1>2. RecordsInv /\ [PassNext]_passVars => RecordsInv'
  BY RecordsStepByStep
<1> QED
  BY <1>1, <1>2, PTL DEF PassSpec

(* A pass belongs to a node that leads, and lists tasks. *)
PassOK ==
  /\ pass \in [Nodes -> [stage : Stages, listed : SUBSET Tasks]]
  /\ \A n \in Nodes : pass[n].stage # "none" => seat[n] = "leading"

LEMMA PassOKStep ==
  ASSUME PassOK, ElectionTypeOK, [PassNext]_passVars
  PROVE  PassOK'
<1> USE DEF PassOK, ElectionTypeOK, Stages
<1>1. ASSUME NEW n \in Nodes, Campaign(n)
      PROVE  PassOK'
  BY <1>1 DEF Campaign, TryAdd, ReadLeader, Extend
<1>2. ASSUME NEW n \in Nodes, ListDated(n) \/ ListGaps(n) \/ ListStale(n)
      PROVE  PassOK'
  <2>1. Dated \subseteq Tasks /\ Gaps \subseteq Tasks /\ InProgress \subseteq Tasks
    BY DEF Dated, Gaps, InProgress
  <2>2. seat' = seat /\ seat[n] = "leading"
    BY <1>2 DEF ListDated, ListGaps, ListStale, electionVars
  <2>3. \E s \in Stages, due \in SUBSET Tasks : Lists(n, s, due)
    BY <1>2, <2>1 DEF ListDated, ListGaps, ListStale
  <2> QED
    BY <2>2, <2>3 DEF Lists
<1>3. ASSUME NEW n \in Nodes, NEW t \in Tasks,
             ServeDated(n, t) \/ ServeGap(n, t) \/ ServeStale(n, t)
      PROVE  PassOK'
  <2>1. seat' = seat /\ Ticks(n, t)
    BY <1>3 DEF ServeDated, ServeGap, ServeStale, electionVars
  <2> QED
    BY <2>1 DEF Ticks
<1>4. ASSUME NEW n \in Nodes, EndPass(n) \/ NodeDies(n)
      PROVE  PassOK'
  BY <1>4 DEF EndPass, NodeDies, EndTerm, Depart, NoPass
<1>5. CASE LeaseLapses \/ ServiceStep \/ UNCHANGED passVars
  BY <1>5 DEF LeaseLapses, Lapse, ServiceStep, passVars, electionVars
<1> QED
  BY <1>1, <1>2, <1>3, <1>4, <1>5 DEF PassNext, PassStep

(* Every variable keeps its type, and only a node that was told that it leads
   is in the middle of a pass. *)
THEOREM PassTypes == PassSpec => []PassTypeOK
<1>1. PassInit => PassOK
  BY DEF PassInit, PassOK, NoPass, Stages
<1>2. PassOK /\ ElectionInv /\ [PassNext]_passVars => PassOK'
  BY PassOKStep DEF ElectionInv
<1>3. PassOK /\ ElectionInv /\ RecordsInv => PassTypeOK
  BY DEF PassOK, ElectionInv, RecordsInv, MisreadsOK, PassTypeOK
<1> QED
  BY <1>1, <1>2, <1>3, ElectionInvariant, RecordsInvariant, PTL DEF PassSpec

(* Suspension records stay sound when passes resume from lists out of date
   and from outdated copies. *)
THEOREM PassKeepsRecords == PassSpec => []SuspensionOriginOK
BY RecordsInvariant, PTL DEF RecordsInv

LEMMA PassOutcome ==
  ASSUME RecordsInv, [PassNext]_passVars
  PROVE  \/ Outcomes!OutcomesNext
         \/ \E t \in Tasks : misreads'[t] > 0 /\ Only(t)
         \/ Phase' = Phase /\ passed' = passed
<1> USE DEF RecordsInv
<1>1. ASSUME NEW c \in Calls, Verdict(c), VerdictPassed(c)
      PROVE  Outcomes!OutcomesNext
  BY <1>1, AcceptanceImplements
<1>2. ASSUME NEW t \in Tasks, RowStep(t), passed' = passed
      PROVE  Outcomes!OutcomesNext \/ (Phase' = Phase /\ passed' = passed)
  BY <1>2, RowImplements
<1>3. ASSUME NEW t \in Tasks, RowStep(t), passed' = passed \ {t}, t \in passed,
             status[t] \in OpenStatuses
      PROVE  misreads'[t] > 0 /\ Only(t)
  <2>1. misreads[t] # 0
    BY <1>3 DEF AcceptedUnlessMisread, OpenStatuses
  <2>2. misreads'[t] > 0
    BY <2>1, MisreadsGrow DEF MisreadsOK
  <2>3. \A u \in Tasks \ {t} : status'[u] = status[u]
    BY <1>3 DEF RowStep, TypeOK
  <2> QED
    BY <1>3, <2>2, <2>3 DEF Only
<1>4. CASE [Next]_vars /\ ~ \E c \in Calls : Verdict(c) /\ VerdictPassed(c)
  <2>1. CASE status' = status /\ passed' = passed
    BY <2>1 DEF Phase
  <2>2. ASSUME NEW t \in Tasks, RowStep(t),
               \/ passed' = passed
               \/ passed' = passed \ {t} /\ status[t] \in OpenStatuses
        PROVE  \/ Outcomes!OutcomesNext
               \/ misreads'[t] > 0 /\ Only(t)
               \/ Phase' = Phase /\ passed' = passed
    <3>1. t \notin passed => passed \ {t} = passed
      OBVIOUS
    <3> QED
      BY <1>2, <1>3, <2>2, <3>1
  <2> QED
    BY <1>4, <2>1, <2>2, AnyStep
<1>5. ASSUME NEW t \in Tasks, FromCopy(t)
      PROVE  misreads'[t] > 0 /\ Only(t)
  BY <1>5, CopyRow, CopyStatus DEF FromCopy, Only
<1> QED
  BY <1>1, <1>2, <1>4, <1>5, PassServes, ListedGapRow

(* Passes on any number of nodes, led by one or by several, from lists however
   old, do to a row what TaskOutcomes promises, as long as no pass reads an
   outdated copy of it: no finished work is opened again, and a failed task
   only reopened. *)
THEOREM PassKeepsOutcomes == PassSpec => OutcomesUnlessMisread
<1>1. PassInit => Outcomes!OutcomesInit
  BY DEF PassInit, Init, Outcomes!OutcomesInit, Phase, PhaseOf
<1>2. RecordsInv /\ [PassNext]_passVars
      => [\/ Outcomes!OutcomesNext
          \/ \E t \in Tasks : misreads'[t] > 0 /\ Only(t)]_<<Phase, passed>>
  BY PassOutcome
<1> QED
  BY <1>1, <1>2, RecordsInvariant, PTL DEF PassSpec, OutcomesUnlessMisread

(* A verified task is finished by a verdict or a confirmation, never by a pass:
   a resumption returns it to a status it was suspended from, and no copy that
   a pass saves says DONE. *)
THEOREM PassKeepsVerified == PassSpec => VerifiedDone
<1>1. ASSUME RecordsInv, NEW t \in Tasks, ResumeListedGap(t)
      PROVE  VerifiedCompletion
  <2>1. PICK new \in RowStatuses : /\ CanBecome(t, status[t], new)
                                   /\ status' = [status EXCEPT ![t] = new]
    BY <1>1, ListedGapRow DEF RowStep, RecordsInv
  <2>2. \A u \in Verified : u \in Tasks
    BY LifecycleAssumption
  <2> QED
    BY <2>1, <2>2 DEF CanBecome, VerifiedCompletion, RecordsInv, TypeOK
<1>2. ASSUME RecordsInv, NEW t \in Tasks, FromCopy(t)
      PROVE  VerifiedCompletion
  BY <1>2, CopyStatus, LifecycleAssumption
     DEF VerifiedCompletion, RecordsInv, OpenStatuses
<1>3. RecordsInv /\ [PassNext]_passVars => [VerifiedCompletion]_vars
  BY <1>1, <1>2, PassServes, VerifiedStep DEF RecordsInv
<1> QED
  BY <1>3, RecordsInvariant, PTL DEF PassSpec, VerifiedDone
=============================================================================
