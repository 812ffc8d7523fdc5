---------------------------- MODULE PhaseDProofs ----------------------------
(***************************************************************************)
(* Theorems about the upgrade subsystem, for every set of records and      *)
(* callers and every mix of kinds.                                         *)
(***************************************************************************)
EXTENDS PhaseD, TLAPS

-----------------------------------------------------------------------------
(* Types.                                                                  *)

Contained == Wholes \cup {"none", "partial"}
RollbackPhases == {"rename", "copy", "copying", "tidy", "mark", "undo",
                   "refused", "restored"}
RollbackCalls == [op : Rollbacks, rec : Upgrades, at : RollbackPhases,
                  moved : Contained]
Activations == [op : {"activate"}, rec : Upgrades, at : {"checked"},
                held : Contents, sharers : SUBSET Callers]
Calls == {Idle} \cup RollbackCalls \cup Activations

Shapes ==
  /\ kind \in [Upgrades -> Kinds \cup {"none"}]
  /\ mem \in [Upgrades -> Contents]
  /\ disk \in [Upgrades -> Contents]
  /\ mirror \in [Upgrades -> Mirrored]
  /\ exec \in [Upgrades -> ExecPhases]
  /\ backup \in SUBSET Upgrades
  /\ target \in [Upgrades -> Wholes \cup {"missing", "partial"}]
  /\ kept \in [Upgrades -> SUBSET (Wholes \cup {"partial"})]
  /\ call \in [Callers -> Calls]
  /\ worked \in SUBSET Upgrades
  /\ dirty \in SUBSET Upgrades
  /\ restored \in SUBSET Upgrades
  /\ overlapped \in SUBSET Upgrades
  /\ decisions \in [Upgrades -> SUBSET {"approved", "rejected"}]

(* What a caller is doing, by the name of its operation. *)
LEMMA CallKinds ==
  ASSUME NEW x \in Calls
  PROVE  /\ x.op \in Rollbacks => x \in RollbackCalls
         /\ x.op = "activate" => x \in Activations
         /\ x.op \in Rollbacks \cup {"activate", "none"}
         /\ x = Idle => x.op = "none"
BY DEF Calls, RollbackCalls, Activations, Idle, Rollbacks

LEMMA BornIsRecord ==
  ASSUME NEW s \in UpgradeStatuses
  PROVE  Born(s) \in Contents
BY DEF Born, Contents

LEMMA StatusIsRecord ==
  ASSUME NEW x \in Contents, NEW s \in UpgradeStatuses
  PROVE  [x EXCEPT !.status = s] \in Contents
BY DEF Contents

LEMMA AbsentIsRecord == Absent \in Contents
BY BornIsRecord DEF Absent, UpgradeStatuses

(* What a step may do to the records: nothing, or one record is written, and
   the rows follow, all of them, some or none. *)
Follows == disk' = mem' \/ SaveRaises

Written(r, x) ==
  /\ kind' = kind
  /\ mem' = [mem EXCEPT ![r] = x]
  /\ Follows

(* A row is as before, as the record is in memory, or gone. *)
LEMMA RowsFollow ==
  ASSUME mem' \in [Upgrades -> Contents], disk \in [Upgrades -> Contents], Follows
  PROVE  /\ disk' \in [Upgrades -> Contents]
         /\ \A q \in Upgrades : disk'[q] \in {mem'[q], disk[q], Absent}
<1>1. CASE disk' = mem' \/ disk' = disk
  BY <1>1
<1>2. ASSUME NEW some \in SUBSET Upgrades, disk' = Rows(mem', some)
      PROVE  /\ disk' \in [Upgrades -> Contents]
             /\ \A q \in Upgrades : disk'[q] \in {mem'[q], Absent}
  BY <1>2, AbsentIsRecord DEF Rows
<1> QED
  BY <1>1, <1>2 DEF Follows, SaveRaises

LEMMA WrittenShapes ==
  ASSUME Shapes, NEW r \in Upgrades, NEW x \in Contents, Written(r, x)
  PROVE  /\ kind' \in [Upgrades -> Kinds \cup {"none"}]
         /\ mem' \in [Upgrades -> Contents]
         /\ disk' \in [Upgrades -> Contents]
<1>1. mem' \in [Upgrades -> Contents] /\ disk \in [Upgrades -> Contents] /\ Follows
  BY DEF Shapes, Written
<1> QED
  BY <1>1, RowsFollow DEF Shapes, Written

LEMMA UpsertWrites ==
  ASSUME NEW r, NEW x,
         Upsert(r, x) \/ UpsertRaises(r, x) \/ Store(r, x) \/ Touch(r, x)
  PROVE  Written(r, x)
BY DEF Upsert, UpsertRaises, Store, Touch, Written, Follows, SaveRaises

LEMMA HeldAnyway ==
  ASSUME NEW x \in Calls, NEW h \in Contents, NEW S \in SUBSET Callers
  PROVE  [x EXCEPT !.held = h, !.sharers = S] \in Calls
<1>1. CASE x = Idle
  BY <1>1 DEF Idle, Calls
<1>2. CASE x \in RollbackCalls
  BY <1>2 DEF RollbackCalls, Calls
<1>3. CASE x \in Activations
  BY <1>3 DEF Activations, Calls
<1> QED
  BY <1>1, <1>2, <1>3 DEF Calls

-----------------------------------------------------------------------------
(* The invariant.                                                          *)

(* A record is x, in memory or on disk, only if the histories account for
   what it says. *)
Sound(r, x) ==
  /\ kind[r] = "phase_d" =>
       /\ x.live => "approved" \in decisions[r] /\ x.receipts
       /\ x.status = "active" => x.observed = "healthy"
       /\ x.status = "rolled_back" => x.version = "baseline" /\ ~x.live
  /\ kind[r] # "phase_d" =>
       /\ x.status = "rolled_back" \/ x.triggered => r \in restored
       /\ x.status \in {"completed", "active"} => r \in worked
       /\ ~x.live

RecordsSound == \A r \in Upgrades : Sound(r, mem[r]) /\ Sound(r, disk[r])

Begun == {"completed", "failing", "failed", "finished", "over"}

(* The scan and the worker give one answer, once. *)
ExecSound ==
  \A r \in Upgrades :
    /\ exec[r] # "none" => kind[r] \in DOMAIN FirstStatus
    /\ r \in worked \cup dirty => exec[r] \in Begun
    /\ r \notin worked \cap dirty

(* What was checked at the beginning of a call still holds at its end. *)
CallSound(x) ==
  /\ x.op = "activate" => kind[x.rec] = "phase_d" /\ "approved" \in decisions[x.rec]
  /\ x.op = "rollback" => kind[x.rec] # "phase_d"
  /\ x.op \in Rollbacks /\ x.at # "refused" => kind[x.rec] = "plugin"
  /\ x.op \in Rollbacks /\ x.at \in {"tidy", "mark", "restored"}
       => x.rec \in restored

CallsSound == \A c \in Callers : CallSound(call[c])

Accounts == RecordsSound /\ ExecSound /\ CallsSound

UpgradeInv == Shapes /\ Accounts

LEMMA UpgradeInvInit == UpgradeInit => UpgradeInv
<1> SUFFICES ASSUME UpgradeInit PROVE UpgradeInv
  OBVIOUS
<1>1. Absent \in Contents /\ "none" \in UpgradeStatuses
  BY BornIsRecord DEF Absent, UpgradeStatuses
<1>2. kind \in [Upgrades -> Kinds \cup {"none"}]
  BY StoreAssumption DEF UpgradeInit, StoreInit
<1>3. /\ mem = [r \in Upgrades |-> Absent] /\ disk = mem
      /\ exec = [r \in Upgrades |-> "none"]
      /\ mirror = [r \in Upgrades |-> "none"]
      /\ call = [c \in Callers |-> Idle]
      /\ decisions = [r \in Upgrades |-> {}]
      /\ worked = {} /\ dirty = {} /\ restored = {} /\ overlapped = {}
      /\ backup = {}
      /\ target = [r \in Upgrades |-> "current"]
      /\ kept = [r \in Upgrades |-> {}]
  BY DEF UpgradeInit, StoreInit
<1>4. Shapes
  BY <1>1, <1>2, <1>3 DEF Shapes, Mirrored, ExecPhases, Wholes, Calls
<1>5. RecordsSound
  BY <1>3 DEF RecordsSound, Sound, Absent, Born
<1>6. ExecSound
  BY <1>3 DEF ExecSound
<1>7. CallsSound
  BY <1>3 DEF CallsSound, CallSound, Idle, Rollbacks
<1> QED
  BY <1>4, <1>5, <1>6, <1>7 DEF UpgradeInv, Accounts

(* Histories only grow. *)
Grows ==
  /\ kind' = kind
  /\ restored \subseteq restored' /\ worked \subseteq worked'
  /\ \A r \in Upgrades : decisions[r] \subseteq decisions'[r]

LEMMA AbsentIsSound ==
  ASSUME NEW r
  PROVE  Sound(r, Absent)'
BY DEF Sound, Absent, Born

LEMMA SoundStays ==
  ASSUME Grows, NEW r \in Upgrades, NEW x, Sound(r, x)
  PROVE  Sound(r, x)'
BY DEF Grows, Sound

LEMMA CallSoundStays ==
  ASSUME Grows, NEW x \in Calls, CallSound(x)
  PROVE  CallSound(x)'
<1>1. CASE x = Idle
  BY <1>1 DEF CallSound, Idle, Rollbacks
<1>2. CASE x \in RollbackCalls \cup Activations
  <2>1. x.rec \in Upgrades
    BY <1>2 DEF RollbackCalls, Activations
  <2> QED
    BY <2>1 DEF CallSound, Grows
<1> QED
  BY <1>1, <1>2 DEF Calls

LEMMA RecordsStay ==
  ASSUME UpgradeInv, Grows, UNCHANGED <<mem, disk>>
  PROVE  RecordsSound'
<1> SUFFICES ASSUME NEW r \in Upgrades
             PROVE  Sound(r, mem[r])' /\ Sound(r, disk[r])'
  BY DEF RecordsSound
<1>1. PICK x, y : x = mem[r] /\ y = disk[r] /\ x = mem'[r] /\ y = disk'[r]
  OBVIOUS
<1>2. Sound(r, x)' /\ Sound(r, y)'
  BY <1>1, SoundStays DEF UpgradeInv, Accounts, RecordsSound
<1> QED
  BY <1>1, <1>2 DEF Sound

LEMMA RecordsWritten ==
  ASSUME UpgradeInv, Grows, NEW r \in Upgrades, NEW x \in Contents,
         Written(r, x), Sound(r, x)'
  PROVE  RecordsSound'
<1> SUFFICES ASSUME NEW q \in Upgrades
             PROVE  Sound(q, mem[q])' /\ Sound(q, disk[q])'
  BY DEF RecordsSound
<1>1. PICK y, z : y = mem[q] /\ z = disk[q]
  OBVIOUS
<1>2. PICK a : a = Absent
  OBVIOUS
<1>3. Sound(q, y)' /\ Sound(q, z)' /\ Sound(q, a)'
  BY <1>1, <1>2, SoundStays, AbsentIsSound DEF UpgradeInv, Accounts, RecordsSound
<1>4. PICK u, v : u = mem'[q] /\ v = disk'[q]
  OBVIOUS
<1>5. u \in {x, y} /\ (u = x => q = r \/ x = y) /\ v \in {u, z, a}
  <2>1. mem' \in [Upgrades -> Contents] /\ disk \in [Upgrades -> Contents]
        /\ Follows /\ mem'[q] = IF q = r THEN x ELSE y
    BY <1>1 DEF Written, UpgradeInv, Shapes
  <2> QED
    BY <1>1, <1>2, <1>4, <2>1, RowsFollow
<1>6. Sound(q, u)' /\ Sound(q, v)'
  BY <1>3, <1>5
<1> QED
  BY <1>4, <1>6 DEF Sound

LEMMA CallsStay ==
  ASSUME UpgradeInv, Grows, call' = call
  PROVE  CallsSound'
<1> SUFFICES ASSUME NEW c \in Callers PROVE CallSound(call[c])'
  BY DEF CallsSound
<1>1. PICK x \in Calls : x = call[c] /\ x = call'[c]
  BY DEF UpgradeInv, Shapes
<1>2. CallSound(x)'
  BY <1>1, CallSoundStays DEF UpgradeInv, Accounts, CallsSound
<1> QED
  BY <1>1, <1>2 DEF CallSound

-----------------------------------------------------------------------------
(* Execution and promotion.                                                *)

(* A step of an execution: it moves on, its records and its row follow. *)
LEMMA ExecutionStep ==
  ASSUME UpgradeInv, NEW r \in Upgrades, kind[r] \in DOMAIN FirstStatus,
         NEW e \in ExecPhases, exec' = [exec EXCEPT ![r] = e],
         UNCHANGED <<kind, target, kept, call, restored, overlapped, decisions>>,
         backup' \in SUBSET Upgrades,
         mirror' \in [Upgrades -> Mirrored],
         worked' \in {worked, worked \cup {r}}, dirty' \in {dirty, dirty \cup {r}},
         r \in worked' \cup dirty' => e \in Begun,
         r \notin worked' \cap dirty',
         \/ UNCHANGED <<mem, disk>>
         \/ \E x \in Contents : Written(r, x) /\ Sound(r, x)'
  PROVE  UpgradeInv'
<1>1. Grows
  BY DEF Grows
<1>2. RecordsSound' /\ mem' \in [Upgrades -> Contents]
      /\ disk' \in [Upgrades -> Contents]
  <2>1. CASE UNCHANGED <<mem, disk>>
    BY <1>1, <2>1, RecordsStay DEF UpgradeInv, Shapes
  <2>2. CASE \E x \in Contents : Written(r, x) /\ Sound(r, x)'
    <3>1. PICK x \in Contents : Written(r, x) /\ Sound(r, x)'
      BY <2>2
    <3>2. Shapes
      BY DEF UpgradeInv
    <3> QED
      BY <1>1, <3>1, <3>2, RecordsWritten, WrittenShapes
  <2> QED
    BY <2>1, <2>2
<1>3. CallsSound'
  BY <1>1, CallsStay
<1>4. Shapes'
  BY <1>2 DEF UpgradeInv, Shapes
<1>5. ExecSound'
  <2> SUFFICES ASSUME NEW q \in Upgrades
               PROVE  /\ exec'[q] # "none" => kind[q] \in DOMAIN FirstStatus
                      /\ q \in worked' \cup dirty' => exec'[q] \in Begun
                      /\ q \notin worked' \cap dirty'
    BY DEF ExecSound
  <2>1. exec'[q] = (IF q = r THEN e ELSE exec[q])
    BY DEF UpgradeInv, Shapes
  <2> QED
    BY <2>1 DEF UpgradeInv, Accounts, ExecSound
<1> QED
  BY <1>2, <1>3, <1>4, <1>5 DEF UpgradeInv, Accounts

LEMMA SyncFollows ==
  ASSUME UpgradeInv, NEW r \in Upgrades, SyncOk(r) \/ SyncFails(r)
  PROVE  mirror' \in [Upgrades -> Mirrored]
<1>1. PICK m : m = RowFor(Status(r))
  OBVIOUS
<1>2. m \in Statuses
  BY <1>1 DEF RowFor, Statuses
<1>3. mirror' = [mirror EXCEPT ![r] = m] \/ mirror' = mirror
  BY <1>1 DEF SyncOk, SyncFails, Syncs, SyncRaises
<1> QED
  BY <1>2, <1>3 DEF UpgradeInv, Shapes, Mirrored

LEMMA ExecutionOK ==
  ASSUME UpgradeInv, NEW r \in Upgrades, Executing(r), UNCHANGED decisions
  PROVE  UpgradeInv'
<1>1. /\ Shapes /\ Sound(r, mem[r]) /\ mem[r] \in Contents
      /\ exec[r] \in ExecPhases
      /\ exec[r] # "none" => kind[r] \in DOMAIN FirstStatus
      /\ r \in worked \cup dirty => exec[r] \in Begun
      /\ r \notin worked \cap dirty
  BY DEF UpgradeInv, Accounts, RecordsSound, ExecSound, Shapes
<1>2. DOMAIN FirstStatus = {"llm", "create", "plugin"}
  BY DEF FirstStatus
<1>3. Begun \subseteq ExecPhases
      /\ {"stored", "preparing", "running", "working"} \subseteq ExecPhases
      /\ Begun \cap {"none", "stored", "preparing", "running", "working"} = {}
  BY DEF Begun, ExecPhases
<1>4. ASSUME NEW st \in {"running", "failed"}, kind[r] \in DOMAIN FirstStatus,
             SetStatus(r, st), restored' = restored, worked' = worked,
             UNCHANGED decisions
      PROVE  \E x \in Contents : Written(r, x) /\ Sound(r, x)'
  <2>1. PICK y \in Contents : y = mem[r]
    BY <1>1
  <2>2. PICK x : x = [y EXCEPT !.status = st]
    OBVIOUS
  <2>3. x \in Contents /\ x.status = st /\ x.triggered = y.triggered
        /\ x.live = y.live
    BY <2>2, StatusIsRecord DEF UpgradeStatuses, Ongoing, Failed, Contents
  <2>4. Written(r, x)
    BY <1>4, <2>1, <2>2, UpsertWrites DEF SetStatus
  <2>5. Sound(r, x)'
    BY <1>1, <1>2, <1>4, <2>1, <2>3, <2>4 DEF Sound, Written
  <2> QED
    BY <2>3, <2>4, <2>5
<1>5. CASE Start(r)
  <2>1. PICK x : x = Born(FirstStatus[kind[r]])
    OBVIOUS
  <2>2. FirstStatus[kind[r]] \in {"running", "scaffolding_candidate", "copying_source"}
    BY <1>5 DEF Start, FirstStatus
  <2>3. x \in Contents /\ x.status \in {"running", "scaffolding_candidate", "copying_source"}
        /\ x.triggered = FALSE /\ x.live = FALSE
    BY <2>1, <2>2 DEF Born, Contents, UpgradeStatuses, Ongoing
  <2>4. Written(r, x)
    BY <1>5, <2>1, UpsertWrites DEF Start
  <2>5. Sound(r, x)'
    BY <1>2, <1>5, <2>3, <2>4 DEF Sound, Written, Start
  <2>6. \E y \in Contents : Written(r, y) /\ Sound(r, y)'
    BY <2>3, <2>4, <2>5
  <2>7. /\ kind[r] \in DOMAIN FirstStatus
        /\ UNCHANGED <<mirror, target, kept, call, worked, dirty, restored, overlapped>>
        /\ backup' \in SUBSET Upgrades
        /\ exec[r] = "none"
    BY <1>1, <1>5 DEF Start, GoOn, marks, Shapes
  <2>8. kind' = kind /\ mirror' \in [Upgrades -> Mirrored]
    BY <1>1, <2>4, <2>7 DEF Written, Shapes
  <2>9. r \notin worked \cup dirty
    BY <1>1, <1>3, <2>7
  <2>10. PICK e \in {"stored", "over"} : exec' = [exec EXCEPT ![r] = e]
    BY <1>5 DEF Start, GoOn
  <2>11. e \in ExecPhases
    BY <2>10 DEF ExecPhases
  <2> QED
    BY <2>6, <2>7, <2>8, <2>9, <2>10, <2>11, ExecutionStep
<1>6. CASE FirstSync(r) \/ RunningSync(r) \/ LastSync(r)
  <2>1. /\ exec[r] # "none"
        /\ SyncOk(r) \/ SyncFails(r)
        /\ UNCHANGED <<kind, mem, disk, backup, target, kept, call, worked, dirty,
                      restored, overlapped>>
    BY <1>6 DEF FirstSync, RunningSync, LastSync, storeVars, records, files, marks
  <2>2. PICK e \in ExecPhases : /\ exec' = [exec EXCEPT ![r] = e]
                                /\ exec[r] \in Begun => e \in Begun
    BY <1>3, <1>6 DEF FirstSync, RunningSync, LastSync, GoOn, Begun
  <2>3. mirror' \in [Upgrades -> Mirrored]
    BY <2>1, SyncFollows
  <2>4. backup' \in SUBSET Upgrades
    BY <1>1, <2>1 DEF Shapes
  <2> QED
    BY <1>1, <2>1, <2>2, <2>3, <2>4, ExecutionStep
<1>7. CASE Prepare(r) \/ Fail(r) \/ EventFails(r) \/ Finish(r)
  <2>1. /\ exec[r] # "none"
        /\ UNCHANGED <<mirror, backup, target, kept, call, worked, dirty,
                      restored, overlapped>>
        /\ mirror' \in [Upgrades -> Mirrored] /\ backup' \in SUBSET Upgrades
    BY <1>1, <1>7 DEF Prepare, Fail, EventFails, Finish, files, marks, Shapes
  <2>2. PICK e \in ExecPhases : /\ exec' = [exec EXCEPT ![r] = e]
                                /\ exec[r] \in Begun => e \in Begun
    BY <1>3, <1>7 DEF Prepare, Fail, EventFails, Finish, GoOn, Begun
  <2>3. kind' = kind
    BY <1>7 DEF Prepare, Fail, EventFails, Finish, Upsert, UpsertRaises, storeVars
  <2>4. \/ UNCHANGED <<mem, disk>>
        \/ \E x \in Contents : Written(r, x) /\ Sound(r, x)'
    <3>1. CASE UNCHANGED storeVars
      BY <3>1 DEF storeVars, records
    <3>2. CASE SetStatus(r, "running") \/ SetStatus(r, "failed")
      BY <1>1, <1>4, <2>1, <3>2
    <3>3. CASE Store(r, mem[r])
      <4>1. Written(r, mem[r])
        BY <3>3, UpsertWrites
      <4>2. PICK x \in Contents : x = mem[r]
        BY <1>1
      <4>3. Sound(r, x)'
        BY <1>1, <2>1, <2>3, <4>2 DEF Sound
      <4> QED
        BY <4>1, <4>2, <4>3
    <3> QED
      BY <1>7, <3>1, <3>2, <3>3 DEF Prepare, Fail, EventFails, Finish, SetStatus, Store
  <2> QED
    BY <1>1, <2>1, <2>2, <2>3, <2>4, ExecutionStep
<1>8. CASE Work(r)
  <2>1. /\ exec[r] = "working"
        /\ UNCHANGED <<mirror, backup, target, kept, call, restored, overlapped>>
        /\ mirror' \in [Upgrades -> Mirrored] /\ backup' \in SUBSET Upgrades
        /\ kind' = kind
    BY <1>1, <1>8 DEF Work, files, Shapes, Touch, storeVars
  <2>2. r \notin worked \cup dirty /\ kind[r] \in DOMAIN FirstStatus
    BY <1>1, <1>3, <2>1
  <2>3. CASE exec' = [exec EXCEPT ![r] = "failing"] /\ UNCHANGED <<storeVars, worked>>
    <3>1. dirty' \in {dirty, dirty \cup {r}} /\ UNCHANGED <<mem, disk>>
      BY <1>8, <2>3 DEF Work, storeVars, records
    <3>2. "failing" \in Begun
      BY DEF Begun
    <3> QED
      BY <1>3, <2>1, <2>2, <2>3, <3>1, <3>2, ExecutionStep
  <2>4. CASE /\ Touch(r, [mem[r] EXCEPT !.status = "completed"])
             /\ worked' = worked \cup {r} /\ GoOn(r, "completed")
             /\ UNCHANGED dirty
    <3>1. PICK x : x = [mem[r] EXCEPT !.status = "completed"]
      OBVIOUS
    <3>2. x \in Contents /\ x.status = "completed"
          /\ x.triggered = mem[r].triggered /\ x.live = mem[r].live
      BY <1>1, <3>1, StatusIsRecord DEF Contents, UpgradeStatuses
    <3>3. Written(r, x)
      BY <2>4, <3>1, UpsertWrites
    <3>4. Sound(r, x)'
      BY <1>1, <1>2, <2>1, <2>2, <2>4, <3>2 DEF Sound
    <3>5. "completed" \in Begun
      BY DEF Begun
    <3> QED
      BY <1>3, <2>1, <2>2, <2>4, <3>2, <3>3, <3>4, <3>5, ExecutionStep DEF GoOn
  <2> QED
    BY <1>8, <2>3, <2>4 DEF Work, GoOn
<1> QED
  BY <1>5, <1>6, <1>7, <1>8 DEF Executing

-----------------------------------------------------------------------------
(* Everything that is not an execution.                                    *)

Recorded == \E r \in Upgrades, x \in Contents : Written(r, x) /\ Sound(r, x)'

(* A step that no execution takes part in. *)
LEMMA QuietStep ==
  ASSUME UpgradeInv, Grows, UNCHANGED <<exec, backup, worked, dirty>>,
         mirror' \in [Upgrades -> Mirrored],
         target' \in [Upgrades -> Wholes \cup {"missing", "partial"}],
         kept' \in [Upgrades -> SUBSET (Wholes \cup {"partial"})],
         restored' \in SUBSET Upgrades, overlapped' \in SUBSET Upgrades,
         decisions' \in [Upgrades -> SUBSET {"approved", "rejected"}],
         call' \in [Callers -> Calls], CallsSound',
         UNCHANGED <<mem, disk>> \/ Recorded
  PROVE  UpgradeInv'
<1>1. RecordsSound' /\ mem' \in [Upgrades -> Contents]
      /\ disk' \in [Upgrades -> Contents]
  <2>1. CASE UNCHANGED <<mem, disk>>
    BY <2>1, RecordsStay DEF UpgradeInv, Shapes
  <2>2. CASE Recorded
    <3>1. PICK r \in Upgrades, x \in Contents : Written(r, x) /\ Sound(r, x)'
      BY <2>2 DEF Recorded
    <3>2. Shapes
      BY DEF UpgradeInv
    <3> QED
      BY <3>1, <3>2, RecordsWritten, WrittenShapes
  <2> QED
    BY <2>1, <2>2
<1>2. Shapes'
  BY <1>1 DEF UpgradeInv, Shapes, Grows
<1>3. ExecSound'
  BY DEF UpgradeInv, Accounts, ExecSound, Grows
<1> QED
  BY <1>1, <1>2, <1>3 DEF UpgradeInv, Accounts

(* Such a step of no caller, which writes one record. *)
LEMMA RecordStep ==
  ASSUME UpgradeInv, NEW r \in Upgrades, NEW x \in Contents, Written(r, x),
         Sound(r, x)', UNCHANGED <<mirror, exec, files, call, marks, decisions>>
  PROVE  UpgradeInv'
<1>1. /\ UNCHANGED <<mirror, exec, backup, target, kept, call, worked, dirty,
                     restored, overlapped, decisions>>
      /\ kind' = kind
  BY DEF files, marks, Written
<1>2. Grows
  BY <1>1 DEF Grows
<1>3. CallsSound'
  BY <1>1, <1>2, CallsStay
<1>4. Recorded
  BY DEF Recorded
<1> QED
  BY <1>1, <1>2, <1>3, <1>4, QuietStep DEF UpgradeInv, Shapes

(* A caller moves on to x. *)
LEMMA CallsWritten ==
  ASSUME UpgradeInv, Grows, NEW c \in Callers, NEW x \in Calls, CallSound(x)',
         call' = [call EXCEPT ![c] = x]
  PROVE  CallsSound' /\ call' \in [Callers -> Calls]
<1>1. call' \in [Callers -> Calls]
  BY DEF UpgradeInv, Shapes
<1>2. ASSUME NEW d \in Callers PROVE CallSound(call[d])'
  <2>1. PICK y \in Calls : y = call[d]
    BY DEF UpgradeInv, Shapes
  <2>2. CallSound(y)'
    BY <2>1, CallSoundStays DEF UpgradeInv, Accounts, CallsSound
  <2>3. PICK z : z = call'[d]
    OBVIOUS
  <2>4. z = x \/ z = y
    BY <2>1, <2>3 DEF UpgradeInv, Shapes
  <2>5. CallSound(z)'
    BY <2>2, <2>4
  <2> QED
    BY <2>3, <2>5 DEF CallSound
<1> QED
  BY <1>1, <1>2 DEF CallsSound

LEMMA PublicationOK ==
  ASSUME UpgradeInv, NEW r \in Upgrades,
         \/ Promote(r) /\ UNCHANGED decisions
         \/ (Cancel(r) \/ CleanUpFailed(r)) /\ Unmoved
  PROVE  UpgradeInv'
<1>1. PICK y \in Contents : y = mem[r] /\ Sound(r, y)
  BY DEF UpgradeInv, Shapes, Accounts, RecordsSound
<1>2. UNCHANGED <<mirror, exec, files, call, marks, decisions>>
  BY DEF Promote, Unmoved
<1>3. CASE Promote(r)
  <2>1. PICK x : x = [y EXCEPT !.status = "active", !.version = "candidate"]
    OBVIOUS
  <2>2. x \in Contents /\ x.status = "active" /\ x.triggered = y.triggered
        /\ x.live = y.live
    BY <2>1 DEF Contents, UpgradeStatuses, Ongoing
  <2>3. Written(r, x)
    BY <1>1, <1>3, <2>1, UpsertWrites DEF Promote
  <2>4. y.status = "completed" /\ kind[r] # "phase_d" /\ kind' = kind
    BY <1>1, <1>3, <2>3 DEF Promote, Status, Written
  <2>5. Sound(r, x)'
    BY <1>1, <1>2, <2>2, <2>4 DEF Sound, marks
  <2> QED
    BY <1>2, <2>2, <2>3, <2>5, RecordStep
<1>4. CASE Cancel(r) \/ CleanUpFailed(r)
  <2>1. PICK st \in {"cancelled", "cleaned_up"} : SetStatus(r, st)
    BY <1>4 DEF Cancel, CleanUpFailed
  <2>2. PICK x : x = [y EXCEPT !.status = st]
    OBVIOUS
  <2>3. x \in Contents /\ x.status = st /\ x.triggered = y.triggered
        /\ x.live = y.live /\ x.receipts = y.receipts
    BY <2>2, StatusIsRecord DEF Contents, UpgradeStatuses
  <2>4. Written(r, x)
    BY <1>1, <2>1, <2>2, UpsertWrites DEF SetStatus
  <2>5. Sound(r, x)'
    BY <1>1, <1>2, <2>3, <2>4 DEF Sound, marks, Written
  <2> QED
    BY <1>2, <2>3, <2>4, <2>5, RecordStep
<1> QED
  BY <1>3, <1>4

(* The requests of phase D that have no caller in between. *)
LEMMA EvolvingOK ==
  ASSUME UpgradeInv, NEW r \in Upgrades,
         \/ FlunkActivation(r)
         \/ \E outcome \in {"healthy", "degraded"} : Observe(r, outcome)
         \/ PromoteCandidate(r)
         \/ RollBackCandidate(r)
  PROVE  UpgradeInv'
<1>1. PICK y \in Contents : y = mem[r] /\ Sound(r, y)
  BY DEF UpgradeInv, Shapes, Accounts, RecordsSound
<1>2. kind[r] = "phase_d"
  BY DEF FlunkActivation, Observe, PromoteCandidate, RollBackCandidate, IsPhaseD
<1>3. CASE Flunk(r)
  <2>1. PICK x : x = [y EXCEPT !.status = "failed"]
    OBVIOUS
  <2>2. x \in Contents /\ x.status = "failed" /\ x.live = y.live
        /\ x.receipts = y.receipts
    BY <2>1, StatusIsRecord DEF Contents, UpgradeStatuses, Failed
  <2>3. Written(r, x) /\ Unmoved
    BY <1>1, <1>3, <2>1, UpsertWrites DEF Flunk, SetStatus
  <2>4. Sound(r, x)'
    BY <1>1, <1>2, <2>2, <2>3 DEF Sound, Written, Unmoved
  <2> QED
    BY <2>2, <2>3, <2>4, RecordStep DEF Unmoved
<1>4. ASSUME NEW x \in Contents, Store(r, x), Unmoved,
             x.live => y.live, x.receipts = y.receipts,
             x.status = "active" => x.observed = "healthy",
             x.status = "rolled_back" => x.version = "baseline" /\ ~x.live
      PROVE  UpgradeInv'
  <2>1. Written(r, x)
    BY <1>4, UpsertWrites
  <2>2. Sound(r, x)'
    BY <1>1, <1>2, <1>4, <2>1 DEF Sound, Written, Unmoved
  <2> QED
    BY <1>4, <2>1, <2>2, RecordStep DEF Unmoved
<1>5. ASSUME NEW outcome \in {"healthy", "degraded"}, Observe(r, outcome), ~Flunk(r)
      PROVE  UpgradeInv'
  <2>1. PICK st \in {"degraded", "canary_running"} :
          Store(r, [y EXCEPT !.observed = outcome, !.status = st]) /\ Unmoved
    BY <1>1, <1>5 DEF Observe
  <2>2. PICK x : x = [y EXCEPT !.observed = outcome, !.status = st]
    OBVIOUS
  <2>3. x \in Contents /\ x.status = st /\ x.live = y.live
        /\ x.receipts = y.receipts
    BY <2>2 DEF Contents, UpgradeStatuses, Ongoing
  <2> QED
    BY <1>4, <2>1, <2>2, <2>3
<1>6. ASSUME PromoteCandidate(r), ~Flunk(r) PROVE UpgradeInv'
  <2>1. PICK x : x = [y EXCEPT !.status = "active", !.version = "candidate"]
    OBVIOUS
  <2>2. x \in Contents /\ x.status = "active" /\ x.live = y.live
        /\ x.receipts = y.receipts /\ x.observed = y.observed
    BY <2>1 DEF Contents, UpgradeStatuses, Ongoing
  <2>3. Store(r, x) /\ Unmoved /\ y.observed = "healthy"
    BY <1>1, <1>6, <2>1 DEF PromoteCandidate
  <2> QED
    BY <1>4, <2>2, <2>3
<1>7. ASSUME RollBackCandidate(r), ~Flunk(r) PROVE UpgradeInv'
  <2>1. PICK x : x = [y EXCEPT !.status = "rolled_back", !.version = "baseline",
                               !.live = FALSE, !.triggered = TRUE]
    OBVIOUS
  <2>2. x \in Contents /\ x.status = "rolled_back" /\ x.version = "baseline"
        /\ x.live = FALSE /\ x.receipts = y.receipts
    BY <2>1 DEF Contents, UpgradeStatuses
  <2>3. Store(r, x) /\ Unmoved
    BY <1>1, <1>7, <2>1 DEF RollBackCandidate
  <2> QED
    BY <1>4, <2>2, <2>3
<1> QED
  BY <1>3, <1>5, <1>6, <1>7 DEF FlunkActivation

LEMMA HeldIsSound ==
  ASSUME NEW x \in Calls, CallSound(x), NEW h \in Contents,
         NEW S \in SUBSET Callers, NEW z, z = [x EXCEPT !.held = h, !.sharers = S]
  PROVE  z \in Calls /\ CallSound(z)
<1>1. z \in Calls
  BY HeldAnyway
<1>2. CASE x = Idle
  <2>1. z.op = "none"
    BY <1>2 DEF Idle
  <2> QED
    BY <1>1, <2>1 DEF CallSound, Rollbacks
<1>3. CASE x \in RollbackCalls \cup Activations
  <2>1. z.op = x.op /\ z.rec = x.rec /\ z.at = x.at
    BY <1>3 DEF RollbackCalls, Activations
  <2> QED
    BY <1>1, <2>1 DEF CallSound
<1> QED
  BY <1>2, <1>3 DEF Calls

(* Calls that are idle, as they were, or keep another record. *)
LEMMA CallsKept ==
  ASSUME UpgradeInv, Grows, NEW f, call' = f, f = [d \in Callers |-> f[d]],
         \A d \in Callers :
           \/ f[d] = Idle
           \/ f[d] = call[d]
           \/ \E h \in Contents, S \in SUBSET Callers :
                f[d] = [call[d] EXCEPT !.held = h, !.sharers = S]
  PROVE  CallsSound' /\ call' \in [Callers -> Calls]
<1>1. ASSUME NEW d \in Callers PROVE f[d] \in Calls /\ CallSound(f[d])
  <2>1. PICK x \in Calls : x = call[d] /\ CallSound(x)
    BY DEF UpgradeInv, Shapes, Accounts, CallsSound
  <2>2. PICK z : z = f[d]
    OBVIOUS
  <2>3. CASE z = Idle
    <3>1. Idle \in Calls /\ CallSound(Idle)
      BY DEF Idle, CallSound, Rollbacks, Calls
    <3> QED
      BY <2>2, <2>3, <3>1
  <2>4. CASE z = x
    BY <2>1, <2>2, <2>4
  <2>5. ASSUME NEW h \in Contents, NEW S \in SUBSET Callers,
               z = [x EXCEPT !.held = h, !.sharers = S]
        PROVE  z \in Calls /\ CallSound(z)
    BY <2>1, <2>5, HeldIsSound
  <2>6. \/ z = Idle
        \/ z = x
        \/ \E h \in Contents, S \in SUBSET Callers :
             z = [x EXCEPT !.held = h, !.sharers = S]
    BY <2>1, <2>2
  <2> QED
    BY <2>2, <2>3, <2>4, <2>5, <2>6
<1>2. ASSUME NEW d \in Callers PROVE CallSound(call[d])'
  <2>1. PICK z \in Calls : z = f[d] /\ CallSound(z)
    BY <1>1
  <2>2. CallSound(z)'
    BY <2>1, CallSoundStays
  <2>3. call'[d] = z
    BY <2>1
  <2> QED
    BY <2>2, <2>3 DEF CallSound
<1> QED
  BY <1>1, <1>2 DEF CallsSound

LEMMA RegisterOK ==
  ASSUME UpgradeInv, NEW r \in Upgrades, Register(r)
  PROVE  UpgradeInv'
<1>1. /\ UNCHANGED <<mirror, exec, backup, target, kept, worked, dirty, restored,
                     overlapped, decisions>>
      /\ Store(r, Born("queued"))
      /\ call' = LeftWith(Holding(r), mem[r])
  BY DEF Register, files, marks
<1>2. PICK x : x = Born("queued")
  OBVIOUS
<1>3. x \in Contents /\ x.status = "queued" /\ x.live = FALSE /\ x.triggered = FALSE
  BY <1>2, BornIsRecord DEF Born, UpgradeStatuses
<1>4. Written(r, x)
  BY <1>1, <1>2, UpsertWrites
<1>5. Sound(r, x)'
  BY <1>3 DEF Sound
<1>6. Grows
  BY <1>1, <1>4 DEF Grows, Written
<1>7. CallsSound' /\ call' \in [Callers -> Calls]
  <2>1. PICK h \in Contents : h = mem[r]
    BY DEF UpgradeInv, Shapes
  <2>2. PICK S \in SUBSET Callers : S = Holding(r)
    BY DEF Holding
  <2>3. PICK f : f = [d \in Callers |->
                        IF d \in S THEN [call[d] EXCEPT !.held = h, !.sharers = S]
                        ELSE call[d]]
    OBVIOUS
  <2>4. call' = f
    BY <1>1, <2>1, <2>2, <2>3 DEF LeftWith
  <2>5. \A d \in Callers :
          \/ f[d] = call[d]
          \/ f[d] = [call[d] EXCEPT !.held = h, !.sharers = S]
    BY <2>3
  <2>6. f = [d \in Callers |-> f[d]]
    BY <2>3
  <2>7. \A d \in Callers :
          \/ f[d] = Idle
          \/ f[d] = call[d]
          \/ \E g \in Contents, T \in SUBSET Callers :
               f[d] = [call[d] EXCEPT !.held = g, !.sharers = T]
    BY <2>5
  <2> QED
    BY <1>6, <2>4, <2>6, <2>7, CallsKept
<1>8. Recorded
  BY <1>3, <1>4, <1>5 DEF Recorded
<1> QED
  BY <1>1, <1>6, <1>7, <1>8, QuietStep DEF UpgradeInv, Shapes

LEMMA GovernOK ==
  ASSUME UpgradeInv, NEW r \in Upgrades, NEW d \in {"approved", "rejected"},
         Govern(r, d)
  PROVE  UpgradeInv'
<1>1. /\ decisions' = [decisions EXCEPT ![r] = @ \cup {d}]
      /\ UNCHANGED <<kind, mem, disk, mirror, exec, backup, target, kept, call,
                    worked, dirty, restored, overlapped>>
  BY DEF Govern, execVars, storeVars, records, files, marks
<1>2. Grows /\ decisions' \in [Upgrades -> SUBSET {"approved", "rejected"}]
  BY <1>1 DEF Grows, UpgradeInv, Shapes
<1>3. CallsSound'
  BY <1>1, <1>2, CallsStay
<1> QED
  BY <1>1, <1>2, <1>3, QuietStep DEF UpgradeInv, Shapes

LEMMA CheckActivationOK ==
  ASSUME UpgradeInv, NEW c \in Callers, NEW r \in Upgrades, CheckActivation(c, r)
  PROVE  UpgradeInv'
<1>1. PICK x : x = [op |-> "activate", rec |-> r, at |-> "checked",
                    held |-> Absent, sharers |-> {}]
  OBVIOUS
<1>2. /\ call' = [call EXCEPT ![c] = x]
      /\ UNCHANGED <<kind, mem, disk, mirror, exec, backup, target, kept, worked,
                    dirty, restored, overlapped, decisions>>
      /\ kind[r] = "phase_d" /\ "approved" \in decisions[r]
  BY <1>1 DEF CheckActivation, storeVars, records, files, marks, IsPhaseD, IsApproved
<1>3. Absent \in Contents
  BY BornIsRecord DEF Absent, UpgradeStatuses
<1>4. x \in Calls
  BY <1>1, <1>3 DEF Calls, Activations
<1>5. CallSound(x)'
  BY <1>1, <1>2 DEF CallSound, Rollbacks
<1>6. Grows
  BY <1>2 DEF Grows
<1>7. CallsSound' /\ call' \in [Callers -> Calls]
  BY <1>2, <1>4, <1>5, <1>6, CallsWritten
<1> QED
  BY <1>2, <1>6, <1>7, QuietStep DEF UpgradeInv, Shapes

LEMMA ActivationOK ==
  ASSUME UpgradeInv, NEW c \in Callers, Activate(c) \/ ActivateReplaced(c)
  PROVE  UpgradeInv'
<1>1. PICK a \in Activations : a = call[c] /\ CallSound(a)
  BY CallKinds DEF Activate, ActivateReplaced, At, UpgradeInv, Shapes, Accounts,
                   CallsSound
<1>2. PICK r \in Upgrades, g \in Contents, S \in SUBSET Callers :
        r = a.rec /\ g = a.held /\ S = a.sharers
  BY DEF Activations
<1>3. kind[r] = "phase_d" /\ "approved" \in decisions[r]
  BY <1>1, <1>2 DEF CallSound, Activations
<1>4. PICK m \in Contents : m = mem[r]
  BY DEF UpgradeInv, Shapes
<1>5. UNCHANGED <<mirror, exec, backup, target, kept, worked, dirty, restored,
                  overlapped, decisions>>
  BY DEF Activate, ActivateReplaced, files, marks
<1>6. PICK y \in Contents : Store(r, Live(y))
  BY <1>1, <1>2, <1>4 DEF Activate, ActivateReplaced
<1>7. PICK x : x = Live(y)
  OBVIOUS
<1>8. x \in Contents /\ x.status = "canary_running" /\ x.receipts = TRUE
  BY <1>7 DEF Live, Contents, UpgradeStatuses, Ongoing
<1>9. Written(r, x)
  BY <1>6, <1>7, UpsertWrites
<1>10. Sound(r, x)'
  BY <1>3, <1>5, <1>8, <1>9 DEF Sound, Written
<1>11. Grows
  BY <1>5, <1>9 DEF Grows, Written
<1>12. CallsSound' /\ call' \in [Callers -> Calls]
  <2>1. CASE Activate(c)
    <3>1. call' = [call EXCEPT ![c] = Idle]
      BY <2>1 DEF Activate
    <3>2. Idle \in Calls /\ CallSound(Idle)'
      BY DEF Calls, CallSound, Idle, Rollbacks
    <3> QED
      BY <1>11, <3>1, <3>2, CallsWritten
  <2>2. CASE ActivateReplaced(c)
    <3>1. PICK H \in SUBSET Callers : H = Holding(r)
      BY DEF Holding
    <3>2. PICK f : f = [d \in Callers |->
                     CASE d = c -> Idle
                       [] d \in call[c].sharers \ {c} ->
                            [call[d] EXCEPT !.held = Absent, !.sharers = {}]
                       [] OTHER -> LeftWith(H, m)[d]]
      OBVIOUS
    <3>3. call' = f
      BY <1>1, <1>2, <1>4, <2>2, <3>1, <3>2 DEF ActivateReplaced
    <3>4. Absent \in Contents
      BY BornIsRecord DEF Absent, UpgradeStatuses
    <3>5. \A d \in Callers :
            \/ f[d] = Idle
            \/ f[d] = call[d]
            \/ f[d] = [call[d] EXCEPT !.held = Absent, !.sharers = {}]
            \/ f[d] = [call[d] EXCEPT !.held = m, !.sharers = H]
      BY <3>2 DEF LeftWith
    <3>6. \A d \in Callers :
            \/ f[d] = Idle
            \/ f[d] = call[d]
            \/ \E h \in Contents, T \in SUBSET Callers :
                 f[d] = [call[d] EXCEPT !.held = h, !.sharers = T]
      BY <3>4, <3>5
    <3>7. f = [d \in Callers |-> f[d]]
      BY <3>2
    <3> QED
      BY <1>11, <3>3, <3>6, <3>7, CallsKept
  <2> QED
    BY <2>1, <2>2
<1>13. Recorded
  BY <1>8, <1>9, <1>10 DEF Recorded
<1> QED
  BY <1>5, <1>11, <1>12, <1>13, QuietStep DEF UpgradeInv, Shapes

LEMMA MeddleOK ==
  ASSUME UpgradeInv, Meddle
  PROVE  UpgradeInv'
<1>1. /\ UNCHANGED <<kind, mem, disk, exec, backup, target, kept, call, worked,
                     dirty, restored, overlapped, decisions>>
      /\ \E r \in Upgrades, new \in Moved : mirror' = [mirror EXCEPT ![r] = new]
  BY DEF Meddle, Interfere, storeVars, records, files, marks
<1>2. mirror' \in [Upgrades -> Mirrored]
  BY <1>1, MovedAssumption DEF UpgradeInv, Shapes, Mirrored
<1>3. Grows
  BY <1>1 DEF Grows
<1>4. CallsSound'
  BY <1>1, <1>3, CallsStay
<1> QED
  BY <1>1, <1>2, <1>3, <1>4, QuietStep DEF UpgradeInv, Shapes

(* The save of another record. *)
LEMMA SaveOthersOK ==
  ASSUME UpgradeInv, SaveOthers, Unmoved
  PROVE  UpgradeInv'
<1>1. /\ UNCHANGED <<kind, mem, mirror, exec, backup, target, kept, call, worked,
                     dirty, restored, overlapped, decisions>>
      /\ Follows
  BY DEF SaveOthers, Unmoved, files, marks, Follows
<1>2. Grows
  BY <1>1 DEF Grows
<1>3. CallsSound'
  BY <1>1, <1>2, CallsStay
<1>4. /\ disk' \in [Upgrades -> Contents]
      /\ \A q \in Upgrades : disk'[q] \in {mem[q], disk[q], Absent}
  BY <1>1, RowsFollow DEF UpgradeInv, Shapes
<1>5. RecordsSound'
  <2> SUFFICES ASSUME NEW q \in Upgrades
               PROVE  Sound(q, mem[q])' /\ Sound(q, disk[q])'
    BY DEF RecordsSound
  <2>1. PICK x, y, a : x = mem[q] /\ y = disk[q] /\ a = Absent
    OBVIOUS
  <2>2. Sound(q, x)' /\ Sound(q, y)' /\ Sound(q, a)'
    BY <1>2, <2>1, SoundStays, AbsentIsSound DEF UpgradeInv, Accounts, RecordsSound
  <2>3. PICK u, v : u = mem'[q] /\ v = disk'[q]
    OBVIOUS
  <2>4. u = x /\ v \in {x, y, a}
    BY <1>1, <1>4, <2>1, <2>3
  <2>5. Sound(q, u)' /\ Sound(q, v)'
    BY <2>2, <2>4
  <2> QED
    BY <2>3, <2>5 DEF Sound
<1>6. Shapes'
  BY <1>1, <1>4 DEF UpgradeInv, Shapes
<1>7. ExecSound'
  BY <1>1 DEF UpgradeInv, Accounts, ExecSound
<1> QED
  BY <1>3, <1>5, <1>6, <1>7 DEF UpgradeInv, Accounts

(* A restart loads rows, all of them or not. *)
LEMMA CrashOK ==
  ASSUME UpgradeInv, Crash
  PROVE  UpgradeInv'
<1>1. /\ kind' = kind
      /\ UNCHANGED <<mirror, backup, target, worked, dirty, restored, overlapped,
                    decisions>>
      /\ call' = [c \in Callers |-> Idle]
  BY DEF Crash, Reload, marks
<1>2. Grows
  BY <1>1 DEF Grows
<1>3. PICK z \in Contents : z = Absent
  BY BornIsRecord DEF Absent, UpgradeStatuses
<1>4. PICK some \in SUBSET Upgrades : disk' = Rows(disk, some) /\ mem' = disk'
  BY DEF Crash, Reload
<1>5. /\ mem' \in [Upgrades -> Contents] /\ disk' \in [Upgrades -> Contents]
      /\ \A q \in Upgrades : mem'[q] \in {disk[q], z} /\ disk'[q] \in {disk[q], z}
  BY <1>3, <1>4 DEF Rows, UpgradeInv, Shapes
<1>6. RecordsSound'
  <2> SUFFICES ASSUME NEW q \in Upgrades
               PROVE  Sound(q, mem[q])' /\ Sound(q, disk[q])'
    BY DEF RecordsSound
  <2>1. PICK x, y : x = mem[q] /\ y = disk[q]
    OBVIOUS
  <2>2. Sound(q, x)' /\ Sound(q, y)'
    BY <1>2, <2>1, SoundStays DEF UpgradeInv, Accounts, RecordsSound
  <2>3. Sound(q, z)'
    BY <1>3 DEF Sound, Absent, Born
  <2>4. PICK u, v : u = mem'[q] /\ v = disk'[q]
    OBVIOUS
  <2>5. Sound(q, u)' /\ Sound(q, v)'
    BY <1>5, <2>1, <2>2, <2>3, <2>4
  <2> QED
    BY <2>4, <2>5 DEF Sound
<1>7. exec' \in [Upgrades -> ExecPhases]
      /\ \A q \in Upgrades : exec'[q] = IF exec[q] = "none" THEN "none" ELSE "over"
  BY DEF Crash, ExecPhases
<1>8. ExecSound'
  BY <1>1, <1>7 DEF UpgradeInv, Accounts, ExecSound, Begun
<1>9. CallsSound' /\ call' \in [Callers -> Calls]
  BY <1>1 DEF CallsSound, CallSound, Idle, Rollbacks, Calls
<1>10. kept' \in [Upgrades -> SUBSET (Wholes \cup {"partial"})]
  <2> SUFFICES ASSUME NEW r \in Upgrades, NEW d \in Callers, InRollback(d, r),
                      call[d].moved # "none"
               PROVE  call[d].moved \in Wholes \cup {"partial"}
    BY DEF Crash, UpgradeInv, Shapes
  <2>1. call[d] \in RollbackCalls
    BY CallKinds DEF InRollback, UpgradeInv, Shapes
  <2> QED
    BY <2>1 DEF RollbackCalls, Contained
<1> QED
  BY <1>1, <1>5, <1>6, <1>7, <1>8, <1>9, <1>10 DEF UpgradeInv, Shapes, Accounts

-----------------------------------------------------------------------------
(* Rollbacks.                                                              *)

LEMMA RollbackStep ==
  ASSUME UpgradeInv, NEW c \in Callers, NEW z \in Calls,
         call' = [call EXCEPT ![c] = z], CallSound(z)',
         kind' = kind, restored \subseteq restored', restored' \in SUBSET Upgrades,
         overlapped' \in SUBSET Upgrades,
         target' \in [Upgrades -> Wholes \cup {"missing", "partial"}],
         kept' \in [Upgrades -> SUBSET (Wholes \cup {"partial"})],
         UNCHANGED <<mirror, exec, backup, worked, dirty, decisions>>,
         UNCHANGED <<mem, disk>> \/ Recorded
  PROVE  UpgradeInv'
<1>1. Grows
  BY DEF Grows
<1>2. CallsSound' /\ call' \in [Callers -> Calls]
  BY <1>1, CallsWritten
<1> QED
  BY <1>1, <1>2, QuietStep DEF UpgradeInv, Shapes

(* The same call at another place, with another snapshot in hand. *)
LEMMA MovedOn ==
  ASSUME Grows, NEW b \in RollbackCalls, CallSound(b), b.at # "refused",
         NEW p \in RollbackPhases, NEW m \in Contained,
         p \in {"tidy", "mark", "restored"} => b.rec \in restored',
         NEW z, z = [b EXCEPT !.at = p, !.moved = m]
  PROVE  z \in Calls /\ CallSound(z)'
<1>1. z \in RollbackCalls /\ z.op = b.op /\ z.rec = b.rec /\ z.at = p
  BY DEF RollbackCalls
<1>2. z.op # "activate"
  BY <1>1 DEF RollbackCalls, Rollbacks
<1>3. kind' = kind
  BY DEF Grows
<1> QED
  BY <1>1, <1>2, <1>3 DEF CallSound, Calls, RollbackCalls

(* The end of execute_rollback. *)
LEMMA Ended ==
  ASSUME UpgradeInv, NEW c \in Callers, NEW op \in Rollbacks, NEW r \in Upgrades,
         NEW p \in {"refused", "restored"}, End(c, op, r, p),
         op = "rollback" => kind[r] # "phase_d",
         p = "restored" => kind[r] = "plugin" /\ r \in restored',
         kind' = kind
  PROVE  \E z \in Calls : call' = [call EXCEPT ![c] = z] /\ CallSound(z)'
<1>1. CASE op = "revert"
  <2>1. call' = [call EXCEPT ![c] = Idle]
    BY <1>1 DEF End
  <2>2. Idle \in Calls /\ CallSound(Idle)'
    BY DEF Calls, CallSound, Idle, Rollbacks
  <2> QED
    BY <2>1, <2>2
<1>2. CASE op # "revert"
  <2>1. PICK z : z = [op |-> op, rec |-> r, at |-> p, moved |-> "none"]
    OBVIOUS
  <2>2. z \in RollbackCalls /\ z.op = "rollback" /\ z.rec = r /\ z.at = p
    BY <1>2, <2>1 DEF RollbackCalls, RollbackPhases, Contained, Rollbacks
  <2>3. call' = [call EXCEPT ![c] = z]
    BY <1>2, <2>1 DEF End
  <2>4. CallSound(z)'
    <3>1. kind[r] # "phase_d"
      BY <1>2 DEF Rollbacks
    <3> QED
      BY <2>2, <3>1 DEF CallSound
  <2> QED
    BY <2>2, <2>3, <2>4 DEF Calls
<1> QED
  BY <1>1, <1>2

(* A rollback that did not succeed. *)
LEMMA RollbackFailed ==
  ASSUME UpgradeInv, NEW r \in Upgrades, SetStatus(r, "rollback_failed"),
         UNCHANGED <<worked, restored, decisions>>
  PROVE  Recorded /\ kind' = kind
<1>1. PICK y \in Contents : y = mem[r] /\ Sound(r, y)
  BY DEF UpgradeInv, Shapes, Accounts, RecordsSound
<1>2. PICK x : x = [y EXCEPT !.status = "rollback_failed"]
  OBVIOUS
<1>3. x \in Contents /\ x.status = "rollback_failed"
      /\ x.triggered = y.triggered /\ x.live = y.live /\ x.receipts = y.receipts
  BY <1>2, StatusIsRecord DEF Contents, UpgradeStatuses, Failed
<1>4. Written(r, x)
  BY <1>1, <1>2, UpsertWrites DEF SetStatus
<1>5. Sound(r, x)'
  BY <1>1, <1>3, <1>4 DEF Sound, Written
<1> QED
  BY <1>3, <1>4, <1>5 DEF Recorded, Written

(* One that did. *)
LEMMA RollbackWritten ==
  ASSUME UpgradeInv, NEW r \in Upgrades, r \in restored, kind[r] = "plugin",
         NEW st \in {"cleaned_up", "rolled_back"},
         Store(r, [mem[r] EXCEPT !.status = st, !.triggered = TRUE]),
         UNCHANGED <<worked, restored, decisions>>
  PROVE  Recorded /\ kind' = kind
<1>1. PICK y \in Contents : y = mem[r] /\ Sound(r, y)
  BY DEF UpgradeInv, Shapes, Accounts, RecordsSound
<1>2. PICK x : x = [y EXCEPT !.status = st, !.triggered = TRUE]
  OBVIOUS
<1>3. x \in Contents /\ x.status = st /\ x.live = y.live
  BY <1>2 DEF Contents, UpgradeStatuses
<1>4. Written(r, x)
  BY <1>1, <1>2, UpsertWrites
<1>5. Sound(r, x)'
  BY <1>1, <1>3, <1>4 DEF Sound, Written
<1> QED
  BY <1>3, <1>4, <1>5 DEF Recorded, Written

LEMMA GaveUp ==
  ASSUME NEW c, NEW op, NEW r, GiveUp(c, op, r)
  PROVE  /\ SetStatus(r, "rollback_failed")
         /\ End(c, op, r, "refused") \/ call' = [call EXCEPT ![c] = Idle]
BY DEF GiveUp, SetStatus, Store

LEMMA BeginRollbackOK ==
  ASSUME UpgradeInv, NEW c \in Callers, NEW r \in Upgrades, NEW op \in Rollbacks,
         BeginRollback(c, r, op), UNCHANGED decisions
  PROVE  UpgradeInv'
<1>1. /\ UNCHANGED <<mirror, exec, backup, target, kept, worked, dirty, restored,
                     decisions>>
      /\ overlapped' \in SUBSET Upgrades
      /\ op = "rollback" => kind[r] # "phase_d"
  BY DEF BeginRollback, files, UpgradeInv, Shapes
<1>2. CASE /\ UNCHANGED storeVars
           /\ ~ End(c, op, r, "refused") /\ call' # [call EXCEPT ![c] = Idle]
  <2>1. PICK z : z = [op |-> op, rec |-> r, at |-> "rename", moved |-> "none"]
    OBVIOUS
  <2>2. call' = [call EXCEPT ![c] = z] /\ kind[r] = "plugin"
        /\ UNCHANGED <<kind, mem, disk>>
    BY <1>2, <2>1, GaveUp DEF BeginRollback, CanRestore, storeVars, records
  <2>3. z \in Calls /\ z.op = op /\ z.op # "activate" /\ z.rec = r /\ z.at = "rename"
    BY <2>1 DEF Calls, RollbackCalls, RollbackPhases, Contained, Rollbacks
  <2>4. CallSound(z)'
    BY <2>2, <2>3 DEF CallSound
  <2> QED
    BY <1>1, <2>2, <2>3, <2>4, RollbackStep DEF UpgradeInv, Shapes
<1>3. CASE End(c, op, r, "refused") \/ call' = [call EXCEPT ![c] = Idle]
  <2>1. kind' = kind /\ (UNCHANGED <<mem, disk>> \/ Recorded)
    <3>1. CASE UNCHANGED storeVars
      BY <3>1 DEF storeVars, records
    <3>2. CASE SetStatus(r, "rollback_failed")
      BY <1>1, <3>2, RollbackFailed
    <3> QED
      BY <3>1, <3>2, GaveUp DEF BeginRollback
  <2>2. Idle \in Calls /\ CallSound(Idle)'
    BY DEF Calls, CallSound, Idle, Rollbacks
  <2>3. PICK z \in Calls : call' = [call EXCEPT ![c] = z] /\ CallSound(z)'
    BY <1>1, <1>3, <2>1, <2>2, Ended
  <2> QED
    BY <1>1, <2>1, <2>3, RollbackStep DEF UpgradeInv, Shapes
<1> QED
  BY <1>2, <1>3, GaveUp DEF BeginRollback

(* The call a rollback is in. *)
LEMMA UnderWay ==
  ASSUME UpgradeInv, NEW c \in Callers, call[c].op \in Rollbacks
  PROVE  /\ call[c] \in RollbackCalls
         /\ call[c].rec \in Upgrades
         /\ call[c].moved \in Contained
         /\ call[c].at \in RollbackPhases
         /\ CallSound(call[c])
<1>1. call[c] \in RollbackCalls
  BY CallKinds DEF UpgradeInv, Shapes
<1> QED
  BY <1>1 DEF RollbackCalls, UpgradeInv, Accounts, CallsSound

LEMMA FilesOK ==
  ASSUME UpgradeInv, NEW c \in Callers, UNCHANGED decisions,
         Rename(c) \/ StartCopy(c) \/ EndCopy(c) \/ Tidy(c)
  PROVE  UpgradeInv'
<1>1. call[c].op \in Rollbacks /\ call[c].at \in {"rename", "copy", "copying", "tidy"}
  BY DEF Rename, StartCopy, EndCopy, Tidy, At
<1>2. PICK b \in RollbackCalls : b = call[c] /\ CallSound(b)
  BY <1>1, UnderWay
<1>3. b.rec \in Upgrades /\ b.moved \in Contained /\ b.at # "refused"
  BY <1>1, <1>2 DEF RollbackCalls
<1>4. /\ UNCHANGED <<kind, mem, disk, mirror, exec, backup, kept, worked, dirty,
                     overlapped, decisions>>
      /\ restored' \in {restored, restored \cup {b.rec}}
  BY <1>2 DEF Rename, StartCopy, EndCopy, Tidy, storeVars, records, files, marks
<1>5. target' \in [Upgrades -> Wholes \cup {"missing", "partial"}]
  BY <1>2, <1>3 DEF Rename, StartCopy, EndCopy, Tidy, files, UpgradeInv, Shapes, Wholes
<1>6. Grows
  BY <1>4 DEF Grows
<1>7. \E p \in RollbackPhases, m \in Contained :
        /\ call' = [call EXCEPT ![c] = [b EXCEPT !.at = p, !.moved = m]]
        /\ p \in {"tidy", "mark", "restored"} => b.rec \in restored'
  <2>1. b.at = "tidy" => b.rec \in restored
    BY <1>1, <1>2 DEF CallSound
  <2>2. call \in [Callers -> Calls] /\ target[b.rec] \in Contained \cup {"missing"}
    BY <1>3 DEF UpgradeInv, Shapes, Contained
  <2>3. ASSUME NEW p \in RollbackPhases,
               call' = [call EXCEPT ![c].at = p]
        PROVE  call' = [call EXCEPT ![c] = [b EXCEPT !.at = p, !.moved = b.moved]]
    <3>1. [b EXCEPT !.at = p] = [b EXCEPT !.at = p, !.moved = b.moved]
      BY DEF RollbackCalls
    <3> QED
      BY <1>2, <2>2, <2>3, <3>1
  <2>4. ASSUME NEW p \in RollbackPhases, NEW m \in Contained,
               call' = [call EXCEPT ![c].at = p, ![c].moved = m]
        PROVE  call' = [call EXCEPT ![c] = [b EXCEPT !.at = p, !.moved = m]]
    BY <1>2, <2>2, <2>4
  <2>5. {"copy", "undo", "copying", "tidy", "mark"} \subseteq RollbackPhases
        /\ "none" \in Contained /\ "partial" \in Contained
    BY DEF RollbackPhases, Contained
  <2>6. CASE Rename(c)
    <3>1. CASE call' = [call EXCEPT ![c].at = "copy", ![c].moved = target[b.rec]]
               /\ target[b.rec] # "missing"
      <4>1. PICK m \in Contained : m = target[b.rec]
        BY <2>2, <3>1
      <4>2. call' = [call EXCEPT ![c].at = "copy", ![c].moved = m]
        BY <3>1, <4>1
      <4>3. "copy" \in RollbackPhases
        BY <2>5
      <4>4. call' = [call EXCEPT ![c] = [b EXCEPT !.at = "copy", !.moved = m]]
        BY <2>4, <4>2, <4>3
      <4> QED
        BY <4>3, <4>4
    <3>2. CASE Advance(c, "copy") \/ Advance(c, "undo")
      BY <1>3, <2>3, <2>5, <3>2 DEF Advance
    <3> QED
      BY <1>2, <2>6, <3>1, <3>2 DEF Rename
  <2>7. CASE StartCopy(c)
    BY <1>3, <2>3, <2>5, <2>7 DEF StartCopy, Advance
  <2>8. CASE EndCopy(c)
    <3>1. CASE Advance(c, "tidy") /\ restored' = restored \cup {b.rec}
      BY <1>3, <2>3, <2>5, <3>1 DEF Advance
    <3>2. CASE Advance(c, "undo")
      BY <1>3, <2>3, <2>5, <3>2 DEF Advance
    <3> QED
      BY <1>2, <2>8, <3>1, <3>2 DEF EndCopy
  <2>9. CASE Tidy(c)
    <3>1. b.at = "tidy" /\ b.rec \in restored'
      BY <1>2, <1>4, <2>1, <2>9 DEF Tidy, At
    <3>2. CASE call' = [call EXCEPT ![c].at = "mark", ![c].moved = "none"]
      BY <2>4, <2>5, <3>1, <3>2
    <3>3. CASE call' = [call EXCEPT ![c].at = "undo",
                                    ![c].moved = IF @ = "none" THEN @ ELSE "partial"]
      <4>1. PICK m \in Contained : m = IF b.moved = "none" THEN b.moved ELSE "partial"
        BY <1>3, <2>5
      <4>2. call' = [call EXCEPT ![c].at = "undo", ![c].moved = m]
        BY <1>2, <2>2, <3>3, <4>1
      <4> QED
        BY <2>4, <2>5, <4>2
    <3> QED
      BY <2>9, <3>2, <3>3 DEF Tidy
  <2> QED
    BY <2>6, <2>7, <2>8, <2>9
<1>8. PICK z \in Calls : call' = [call EXCEPT ![c] = z] /\ CallSound(z)'
  BY <1>2, <1>3, <1>6, <1>7, MovedOn
<1> QED
  BY <1>3, <1>4, <1>5, <1>8, RollbackStep DEF UpgradeInv, Shapes

LEMMA EndsOK ==
  ASSUME UpgradeInv, NEW c \in Callers, UNCHANGED decisions,
         Undo(c) \/ Mark(c) \/ Publish(c) \/ Refuse(c)
  PROVE  UpgradeInv'
<1>1. call[c].op \in Rollbacks
  BY DEF Undo, Mark, Publish, Refuse, At, Rollbacks
<1>2. PICK b \in RollbackCalls : b = call[c] /\ CallSound(b)
  BY <1>1, UnderWay
<1>3. PICK r \in Upgrades, op \in Rollbacks : r = b.rec /\ op = b.op
  BY DEF RollbackCalls
<1>4. op = "rollback" => kind[r] # "phase_d"
  BY <1>2, <1>3 DEF CallSound
<1>5. /\ UNCHANGED <<mirror, exec, backup, worked, dirty, restored, overlapped,
                     decisions>>
      /\ restored \in SUBSET Upgrades /\ overlapped \in SUBSET Upgrades
  BY DEF Undo, Mark, Publish, Refuse, files, marks, UpgradeInv, Shapes
<1>6. /\ target' \in [Upgrades -> Wholes \cup {"missing", "partial"}]
      /\ kept' \in [Upgrades -> SUBSET (Wholes \cup {"partial"})]
  <2>1. CASE Undo(c)
    <3>1. PICK m \in Contained : m = b.moved
      BY DEF RollbackCalls
    <3>2. \/ /\ m # "none"
             /\ target' = [target EXCEPT ![r] = m] /\ UNCHANGED kept
          \/ /\ kept' = [kept EXCEPT ![r] = @ \cup ({m} \ {"none"})]
             /\ UNCHANGED target
      BY <1>2, <1>3, <2>1, <3>1 DEF Undo
    <3>3. {m} \ {"none"} \subseteq Wholes \cup {"partial"}
      BY DEF Contained
    <3>4. /\ target \in [Upgrades -> Wholes \cup {"missing", "partial"}]
          /\ kept \in [Upgrades -> SUBSET (Wholes \cup {"partial"})]
      BY DEF UpgradeInv, Shapes
    <3>5. CASE UNCHANGED target
      <4>1. kept[r] \cup ({m} \ {"none"}) \in SUBSET (Wholes \cup {"partial"})
        BY <3>3, <3>4
      <4> QED
        BY <3>2, <3>4, <3>5, <4>1
    <3>6. CASE m # "none" /\ target' = [target EXCEPT ![r] = m] /\ UNCHANGED kept
      BY <3>3, <3>4, <3>6
    <3> QED
      BY <3>2, <3>5, <3>6
  <2>2. CASE UNCHANGED files
    BY <2>2 DEF files, UpgradeInv, Shapes
  <2> QED
    BY <2>1, <2>2 DEF Mark, Publish, Refuse
<1>7. ASSUME NEW z \in Calls, call' = [call EXCEPT ![c] = z], CallSound(z)',
             Recorded, kind' = kind
      PROVE  UpgradeInv'
  BY <1>5, <1>6, <1>7, RollbackStep
<1>8. Idle \in Calls /\ CallSound(Idle)'
  BY DEF Calls, CallSound, Idle, Rollbacks
<1>9. CASE Undo(c)
  <2>1. /\ SetStatus(r, "rollback_failed")
        /\ End(c, op, r, "refused") \/ call' = [call EXCEPT ![c] = Idle]
    BY <1>2, <1>3, <1>9, GaveUp DEF Undo
  <2>2. Recorded /\ kind' = kind
    BY <1>5, <2>1, RollbackFailed
  <2>3. PICK z \in Calls : call' = [call EXCEPT ![c] = z] /\ CallSound(z)'
    BY <1>4, <1>8, <2>1, <2>2, Ended
  <2> QED
    BY <1>7, <2>2, <2>3
<1>10. CASE Mark(c)
  <2>1. b.at = "mark" /\ r \in restored /\ kind[r] = "plugin"
    BY <1>2, <1>3, <1>10 DEF Mark, At, CallSound
  <2>2. /\ Store(r, [mem[r] EXCEPT !.status = "cleaned_up", !.triggered = TRUE])
        /\ End(c, op, r, "restored") \/ call' = [call EXCEPT ![c] = Idle]
    BY <1>2, <1>3, <1>10 DEF Mark, Store
  <2>3. Recorded /\ kind' = kind
    BY <1>5, <2>1, <2>2, RollbackWritten
  <2>4. PICK z \in Calls : call' = [call EXCEPT ![c] = z] /\ CallSound(z)'
    BY <1>4, <1>5, <1>8, <2>1, <2>2, <2>3, Ended
  <2> QED
    BY <1>7, <2>3, <2>4
<1>11. CASE Publish(c)
  <2>1. b.at = "restored" /\ r \in restored /\ kind[r] = "plugin"
    BY <1>1, <1>2, <1>3, <1>11 DEF Publish, At, CallSound
  <2>2. /\ Store(r, [mem[r] EXCEPT !.status = "rolled_back", !.triggered = TRUE])
        /\ call' = [call EXCEPT ![c] = Idle]
    BY <1>2, <1>3, <1>11 DEF Publish
  <2>3. Recorded /\ kind' = kind
    BY <1>5, <2>1, <2>2, RollbackWritten
  <2> QED
    BY <1>7, <1>8, <2>2, <2>3
<1>12. CASE Refuse(c)
  <2>1. /\ SetStatus(r, "rollback_failed")
        /\ call' = [call EXCEPT ![c] = Idle]
    BY <1>2, <1>3, <1>12 DEF Refuse
  <2>2. Recorded /\ kind' = kind
    BY <1>5, <2>1, RollbackFailed
  <2> QED
    BY <1>7, <1>8, <2>1, <2>2
<1> QED
  BY <1>9, <1>10, <1>11, <1>12

-----------------------------------------------------------------------------
(* The theorems.                                                           *)

(* What a step of the subsystem is. *)
LEMMA UpgradeSteps ==
  ASSUME UpgradeNext
  PROVE  \/ \E r \in Upgrades : Executing(r) /\ UNCHANGED decisions
         \/ \E r \in Upgrades :
              \/ Promote(r) /\ UNCHANGED decisions
              \/ (Cancel(r) \/ CleanUpFailed(r)) /\ Unmoved
         \/ SaveOthers /\ Unmoved
         \/ \E c \in Callers, r \in Upgrades, op \in Rollbacks :
              BeginRollback(c, r, op) /\ UNCHANGED decisions
         \/ \E c \in Callers :
              /\ Rename(c) \/ StartCopy(c) \/ EndCopy(c) \/ Tidy(c)
              /\ UNCHANGED decisions
         \/ \E c \in Callers :
              /\ Undo(c) \/ Mark(c) \/ Publish(c) \/ Refuse(c)
              /\ UNCHANGED decisions
         \/ \E c \in Callers : Activate(c) \/ ActivateReplaced(c)
         \/ \E r \in Upgrades : Register(r)
         \/ \E r \in Upgrades, d \in {"approved", "rejected"} : Govern(r, d)
         \/ \E c \in Callers, r \in Upgrades : CheckActivation(c, r)
         \/ \E r \in Upgrades :
              \/ FlunkActivation(r)
              \/ \E outcome \in {"healthy", "degraded"} : Observe(r, outcome)
              \/ PromoteCandidate(r)
              \/ RollBackCandidate(r)
         \/ Crash
         \/ Meddle
<1>1. CASE \E c \in Callers : RollingBack(c) /\ UNCHANGED decisions
  BY <1>1 DEF RollingBack
<1>2. CASE Evolving
  <2>1. PICK r \in Upgrades :
          \/ Register(r)
          \/ \E d \in {"approved", "rejected"} : Govern(r, d)
          \/ \E c \in Callers : CheckActivation(c, r)
          \/ FlunkActivation(r)
          \/ \E outcome \in {"healthy", "degraded"} : Observe(r, outcome)
          \/ PromoteCandidate(r)
          \/ RollBackCandidate(r)
    BY <1>2 DEF Evolving
  <2>2. CASE Register(r) \/ (\E d \in {"approved", "rejected"} : Govern(r, d))
    BY <2>2
  <2>3. CASE \E c \in Callers : CheckActivation(c, r)
    BY <2>3
  <2> QED
    BY <2>1, <2>2, <2>3
<1>3. CASE \E r \in Upgrades : (Cancel(r) \/ CleanUpFailed(r)) /\ Unmoved
  BY <1>3
<1>4. CASE \E r \in Upgrades : Promote(r) /\ UNCHANGED decisions
  BY <1>4
<1> QED
  BY <1>1, <1>2, <1>3, <1>4 DEF UpgradeNext

LEMMA UpgradeInvNext ==
  ASSUME UpgradeInv, [UpgradeNext]_upgradeVars
  PROVE  UpgradeInv'
<1>1. CASE UNCHANGED upgradeVars
  <2>1. UNCHANGED <<kind, mem, disk, mirror, exec, backup, target, kept, call,
                    worked, dirty, restored, overlapped, decisions>>
    BY <1>1 DEF upgradeVars, execVars, storeVars, records, files, marks
  <2>2. Grows
    BY <2>1 DEF Grows
  <2>3. CallsSound'
    BY <2>1, <2>2, CallsStay
  <2> QED
    BY <2>1, <2>2, <2>3, QuietStep DEF UpgradeInv, Shapes
<1>2. CASE UpgradeNext
  BY <1>2, UpgradeSteps, ExecutionOK, PublicationOK, BeginRollbackOK, FilesOK,
     EndsOK, ActivationOK, RegisterOK, GovernOK, CheckActivationOK, EvolvingOK,
     CrashOK, MeddleOK, SaveOthersOK
<1> QED
  BY <1>1, <1>2

(* The inductive invariant of the upgrade subsystem: the shapes of records and
   calls, and what every record, execution and call in progress accounts for. *)
THEOREM UpgradeInvHolds == UpgradeSpec => []UpgradeInv
<1>1. UpgradeInv /\ [UpgradeNext]_upgradeVars => UpgradeInv'
  BY UpgradeInvNext
<1> QED
  BY <1>1, UpgradeInvInit, PTL DEF UpgradeSpec

(* No record says rolled back whose files were not restored. *)
THEOREM NoRollbackIsFaked == UpgradeSpec => []NoFakeRollback
<1>1. UpgradeInv => NoFakeRollback
  BY DEF UpgradeInv, Accounts, RecordsSound, Sound, NoFakeRollback, Status
<1> QED
  BY <1>1, UpgradeInvHolds, PTL

(* Nothing is completed or promoted before its worker succeeded, or when its
   scan did not pass, whatever a restart found on disk. *)
THEOREM WorkComesFirst == UpgradeSpec => []WorkedBeforeDone
<1>1. UpgradeInv => WorkedBeforeDone
  <2> SUFFICES ASSUME UpgradeInv, NEW r \in Upgrades, kind[r] # "phase_d",
                      Status(r) \in {"completed", "active"}
               PROVE  r \in worked \ dirty
    BY DEF WorkedBeforeDone
  <2>1. r \in worked
    BY DEF UpgradeInv, Accounts, RecordsSound, ExecSound, Sound, Status
  <2> QED
    BY <2>1 DEF UpgradeInv, Accounts, ExecSound
<1> QED
  BY <1>1, UpgradeInvHolds, PTL

(* No candidate of phase D is live without an approval, or ACTIVE without a
   healthy observation. *)
THEOREM LiveIsApproved == UpgradeSpec => []LiveWasApproved
<1>1. UpgradeInv => LiveWasApproved
  BY DEF UpgradeInv, Accounts, RecordsSound, Sound, LiveWasApproved, Status
<1> QED
  BY <1>1, UpgradeInvHolds, PTL

(* A candidate that says rolled back has given way to the baseline. *)
THEOREM BaselineIsBack == UpgradeSpec => []BaselineBack
<1>1. UpgradeInv => BaselineBack
  BY DEF UpgradeInv, Accounts, RecordsSound, Sound, BaselineBack, Status
<1> QED
  BY <1>1, UpgradeInvHolds, PTL

-----------------------------------------------------------------------------
(* The files.                                                              *)

Covered(r) ==
  \/ kept[r] \cap Wholes # {}
  \/ \E c \in Callers : InRollback(c, r) /\ call[c].moved \in Wholes

(* The place of a rollback tells what is at source_path, and when there is
   no snapshot in hand. *)
PlaceSound(x, f) ==
  /\ x.at = "copy" => f = "missing"
  /\ x.at \in {"tidy", "mark"} => f = "backup"
  /\ x.at \in {"rename", "refused", "restored"} => x.moved = "none"

FileSound(r) ==
  r \notin overlapped =>
    /\ target[r] \in {"missing", "partial"} => Covered(r)
    /\ \A c, d \in Callers : InRollback(c, r) /\ InRollback(d, r) => c = d
    /\ \A c \in Callers : InRollback(c, r) => PlaceSound(call[c], target[r])

FilesSound == \A r \in Upgrades : FileSound(r)

(* y is the same rollback as x, or neither is one. *)
SameRollback(x, y) ==
  /\ x.op \in Rollbacks <=> y.op \in Rollbacks
  /\ x.op \in Rollbacks => y.rec = x.rec /\ y.at = x.at /\ y.moved = x.moved

LEMMA RollbacksSame ==
  ASSUME FilesSound, UNCHANGED <<target, kept, overlapped>>,
         \A d \in Callers : SameRollback(call[d], call'[d])
  PROVE  FilesSound'
<1> SUFFICES ASSUME NEW r \in Upgrades PROVE FileSound(r)'
  BY DEF FilesSound
<1>1. FileSound(r)
  BY DEF FilesSound
<1>2. \A d \in Callers : InRollback(d, r)' <=> InRollback(d, r)
  BY DEF SameRollback, InRollback
<1>3. \A d \in Callers : InRollback(d, r) =>
        call'[d].at = call[d].at /\ call'[d].moved = call[d].moved
  BY DEF SameRollback, InRollback
<1>4. Covered(r) => Covered(r)'
  BY <1>2, <1>3 DEF Covered
<1>5. \A d \in Callers :
        InRollback(d, r) /\ PlaceSound(call[d], target[r])
          => PlaceSound(call[d], target[r])'
  BY <1>3 DEF PlaceSound
<1> QED
  BY <1>1, <1>2, <1>4, <1>5 DEF FileSound

(* Of one rollback at a time: the snapshot is in its hands or left behind. *)
LEMMA OneCaller ==
  ASSUME FilesSound, NEW r \in Upgrades \ overlapped, NEW c \in Callers,
         InRollback(c, r)
  PROVE  /\ target[r] \in {"missing", "partial"} =>
              kept[r] \cap Wholes # {} \/ call[c].moved \in Wholes
         /\ \A d \in Callers : InRollback(d, r) => d = c
         /\ PlaceSound(call[c], target[r])
BY DEF FilesSound, FileSound, Covered

(* A step of a rollback. *)
LEMMA CallerStep ==
  ASSUME UpgradeInv, FilesSound, NEW r \in Upgrades, NEW c \in Callers,
         InRollback(c, r), NEW z, call' = [call EXCEPT ![c] = z],
         NEW f, target' = [target EXCEPT ![r] = f],
         NEW K, kept' = [kept EXCEPT ![r] = K],
         overlapped' = overlapped,
         z.op \in Rollbacks => z.rec = r,
         r \notin overlapped =>
           /\ z.op \in Rollbacks => PlaceSound(z, f)
           /\ f \in {"missing", "partial"} =>
                K \cap Wholes # {} \/ (z.op \in Rollbacks /\ z.moved \in Wholes)
  PROVE  FilesSound'
<1> SUFFICES ASSUME NEW q \in Upgrades PROVE FileSound(q)'
  BY DEF FilesSound
<1>1. /\ call \in [Callers -> Calls]
      /\ DOMAIN target = Upgrades /\ DOMAIN kept = Upgrades
  BY DEF UpgradeInv, Shapes
<1>2. call'[c] = z /\ \A d \in Callers : d # c => call'[d] = call[d]
  BY <1>1
<1>3. FileSound(q)
  BY DEF FilesSound
<1>4. CASE q # r
  <2>1. target'[q] = target[q] /\ kept'[q] = kept[q]
    BY <1>1, <1>4
  <2>2. \A d \in Callers : InRollback(d, q)' <=> InRollback(d, q)
    BY <1>2, <1>4 DEF InRollback
  <2>3. \A d \in Callers : InRollback(d, q) => d # c /\ call'[d] = call[d]
    BY <1>2, <1>4 DEF InRollback
  <2>4. Covered(q) => Covered(q)'
    BY <2>1, <2>2, <2>3 DEF Covered
  <2>5. \A d \in Callers :
          InRollback(d, q) /\ PlaceSound(call[d], target[q])
            => PlaceSound(call[d], target[q])'
    BY <2>1, <2>3 DEF PlaceSound
  <2> QED
    BY <1>3, <2>1, <2>2, <2>4, <2>5 DEF FileSound
<1>5. CASE q = r
  <2> SUFFICES ASSUME r \notin overlapped PROVE FileSound(r)'
    BY <1>5 DEF FileSound
  <2>1. target'[r] = f /\ kept'[r] = K
    BY <1>1
  <2>2. \A d \in Callers : InRollback(d, r)' => d = c
    BY <1>2, OneCaller DEF InRollback
  <2>3. InRollback(c, r)' <=> z.op \in Rollbacks
    BY <1>2 DEF InRollback
  <2>4. f \in {"missing", "partial"} => Covered(r)'
    BY <1>2, <2>1, <2>3 DEF Covered
  <2>5. z.op \in Rollbacks => PlaceSound(call[c], target[r])'
    BY <1>2, <2>1 DEF PlaceSound
  <2> QED
    BY <2>1, <2>2, <2>3, <2>4, <2>5 DEF FileSound
<1> QED
  BY <1>4, <1>5

LEMMA BeginRollbackKeeps ==
  ASSUME UpgradeInv, FilesSound, NEW c \in Callers, NEW r \in Upgrades,
         NEW op \in Rollbacks, BeginRollback(c, r, op)
  PROVE  FilesSound'
<1>1. /\ UNCHANGED <<target, kept>>
      /\ call[c] = Idle
      /\ overlapped \subseteq overlapped'
      /\ \A q \in overlapped' : q \in overlapped \/ q = r
  BY DEF BeginRollback, files
<1>2. PICK z : /\ call' = [call EXCEPT ![c] = z]
               /\ z.op \in Rollbacks =>
                    z.rec = r /\ z.at \in {"rename", "refused"} /\ z.moved = "none"
  <2>1. CASE End(c, op, r, "refused")
    <3>1. CASE op = "revert"
      <4>1. call' = [call EXCEPT ![c] = Idle] /\ Idle.op \notin Rollbacks
        BY <2>1, <3>1 DEF End, Idle, Rollbacks
      <4> QED
        BY <4>1
    <3>2. CASE op # "revert"
      <4>1. PICK z : z = [op |-> op, rec |-> r, at |-> "refused", moved |-> "none"]
        OBVIOUS
      <4>2. call' = [call EXCEPT ![c] = z]
        BY <2>1, <3>2, <4>1 DEF End
      <4>3. z.rec = r /\ z.at = "refused" /\ z.moved = "none"
        BY <4>1
      <4> QED
        BY <4>2, <4>3
    <3> QED
      BY <3>1, <3>2
  <2>2. CASE call' = [call EXCEPT ![c] = [op |-> op, rec |-> r, at |-> "rename",
                                          moved |-> "none"]]
    <3>1. PICK z : z = [op |-> op, rec |-> r, at |-> "rename", moved |-> "none"]
      OBVIOUS
    <3>2. z.rec = r /\ z.at = "rename" /\ z.moved = "none"
      BY <3>1
    <3> QED
      BY <2>2, <3>1, <3>2
  <2>3. CASE call' = [call EXCEPT ![c] = Idle]
    <3>1. Idle.op \notin Rollbacks
      BY DEF Idle, Rollbacks
    <3> QED
      BY <2>3, <3>1
  <2> QED
    BY <2>1, <2>2, <2>3, GaveUp DEF BeginRollback
<1>3. /\ call'[c] = z
      /\ \A d \in Callers : d # c => call'[d] = call[d]
      /\ \A q : ~InRollback(c, q)
  BY <1>1, <1>2 DEF UpgradeInv, Shapes, Idle, InRollback, Rollbacks
<1> SUFFICES ASSUME NEW q \in Upgrades, q \notin overlapped' PROVE FileSound(q)'
  BY DEF FilesSound, FileSound
<1>4. FileSound(q) /\ q \notin overlapped
  BY <1>1 DEF FilesSound
<1>5. \A d \in Callers : InRollback(d, q) => d # c /\ call'[d] = call[d]
  BY <1>3
<1>6. Covered(q) => Covered(q)'
  BY <1>1, <1>5 DEF Covered, InRollback
<1>7. \A d \in Callers :
        InRollback(d, q) /\ PlaceSound(call[d], target[q])
          => PlaceSound(call[d], target[q])'
  BY <1>1, <1>5 DEF PlaceSound
<1>8. CASE InRollback(c, q)'
  <2>1. q = r
    BY <1>2, <1>3, <1>8 DEF InRollback
  <2>2. \A d \in Callers : ~InRollback(d, q)
    BY <1>4, <2>1 DEF BeginRollback
  <2>3. \A d \in Callers : InRollback(d, q)' => d = c
    BY <1>3, <2>2 DEF InRollback
  <2>4. PlaceSound(call[c], target[q])'
    BY <1>2, <1>3, <1>8 DEF PlaceSound, InRollback
  <2> QED
    BY <1>1, <1>4, <1>6, <2>3, <2>4 DEF FileSound
<1>9. CASE ~InRollback(c, q)'
  <2>1. \A d \in Callers : InRollback(d, q)' => InRollback(d, q)
    BY <1>3, <1>9 DEF InRollback
  <2> QED
    BY <1>1, <1>4, <1>6, <1>7, <2>1 DEF FileSound
<1> QED
  BY <1>8, <1>9

LEMMA CopyKeeps ==
  ASSUME UpgradeInv, FilesSound, NEW c \in Callers,
         Rename(c) \/ StartCopy(c) \/ EndCopy(c) \/ Tidy(c)
  PROVE  FilesSound'
<1>1. call[c].op \in Rollbacks
  BY DEF Rename, StartCopy, EndCopy, Tidy, At
<1>2. PICK b \in RollbackCalls : b = call[c]
  BY <1>1, UnderWay
<1>3. PICK r \in Upgrades : r = b.rec
  BY DEF RollbackCalls
<1>4. /\ InRollback(c, r) /\ b.op \in Rollbacks
      /\ target[r] \in Wholes \cup {"missing", "partial"}
      /\ target \in [Upgrades -> Wholes \cup {"missing", "partial"}]
      /\ kept \in [Upgrades -> SUBSET (Wholes \cup {"partial"})]
      /\ call \in [Callers -> Calls]
  BY <1>1, <1>2, <1>3 DEF InRollback, UpgradeInv, Shapes
<1>5. r \notin overlapped =>
        /\ target[r] \in {"missing", "partial"} =>
             kept[r] \cap Wholes # {} \/ b.moved \in Wholes
        /\ PlaceSound(b, target[r])
  BY <1>2, <1>4, OneCaller
<1>6. UNCHANGED <<kept, overlapped>>
  BY DEF Rename, StartCopy, EndCopy, Tidy, files, marks
<1>7. ASSUME NEW p \in RollbackPhases, NEW m \in Contained,
             NEW f \in Wholes \cup {"missing", "partial"},
             call' = [call EXCEPT ![c] = [b EXCEPT !.at = p, !.moved = m]],
             target' = [target EXCEPT ![r] = f],
             r \notin overlapped =>
               /\ p = "copy" => f = "missing"
               /\ p \in {"tidy", "mark"} => f = "backup"
               /\ p \notin {"rename", "refused", "restored"}
               /\ f \in {"missing", "partial"} =>
                    kept[r] \cap Wholes # {} \/ m \in Wholes
      PROVE  FilesSound'
  <2>1. PICK z : z = [b EXCEPT !.at = p, !.moved = m]
    OBVIOUS
  <2>2. z.at = p /\ z.moved = m /\ z.rec = r /\ z.op \in Rollbacks
    BY <1>3, <1>4, <2>1 DEF RollbackCalls
  <2>3. call' = [call EXCEPT ![c] = z]
    BY <1>7, <2>1
  <2>4. PICK K : K = kept[r] /\ kept' = [kept EXCEPT ![r] = K]
    BY <1>4, <1>6
  <2>5. r \notin overlapped => PlaceSound(z, f)
    BY <1>7, <2>2 DEF PlaceSound
  <2>6. r \notin overlapped /\ f \in {"missing", "partial"} =>
          K \cap Wholes # {} \/ z.moved \in Wholes
    BY <1>7, <2>2, <2>4
  <2>7. r \notin overlapped =>
          /\ z.op \in Rollbacks => PlaceSound(z, f)
          /\ f \in {"missing", "partial"} =>
               K \cap Wholes # {} \/ (z.op \in Rollbacks /\ z.moved \in Wholes)
    BY <2>2, <2>5, <2>6
  <2>8. overlapped' = overlapped /\ target' = [target EXCEPT ![r] = f]
    BY <1>6, <1>7
  <2> QED
    BY <1>4, <2>2, <2>3, <2>4, <2>7, <2>8, CallerStep
<1>8. {"copy", "undo", "copying", "tidy", "mark"} \subseteq RollbackPhases
      /\ b.moved \in Contained /\ "none" \in Contained /\ "partial" \in Contained
      /\ Wholes \subseteq Contained
      /\ {"backup", "current"} = Wholes
  BY DEF RollbackPhases, Contained, RollbackCalls, Wholes
<1>9. ASSUME NEW p, Advance(c, p)
      PROVE  call' = [call EXCEPT ![c] = [b EXCEPT !.at = p, !.moved = b.moved]]
  <2>1. [b EXCEPT !.at = p] = [b EXCEPT !.at = p, !.moved = b.moved]
    BY DEF RollbackCalls
  <2> QED
    BY <1>2, <1>4, <1>9, <2>1 DEF Advance
<1>10. ASSUME NEW p, NEW m, call' = [call EXCEPT ![c].at = p, ![c].moved = m]
       PROVE  call' = [call EXCEPT ![c] = [b EXCEPT !.at = p, !.moved = m]]
  BY <1>2, <1>4, <1>10
<1>11. PICK g : g = target[r] /\ g \in Wholes \cup {"missing", "partial"}
  BY <1>4
<1>12. target = [target EXCEPT ![r] = g]
  BY <1>4, <1>11
<1>13. ASSUME Advance(c, "undo"), target' = target PROVE FilesSound'
  <2>1. call' = [call EXCEPT ![c] = [b EXCEPT !.at = "undo", !.moved = b.moved]]
    BY <1>9, <1>13
  <2> QED
    BY <1>5, <1>7, <1>8, <1>11, <1>12, <1>13, <2>1
<1>14. CASE Rename(c)
  <2>1. b.at = "rename"
    BY <1>2, <1>14 DEF Rename, At
  <2>2. CASE /\ target[r] # "missing"
             /\ target' = [target EXCEPT ![r] = "missing"]
             /\ call' = [call EXCEPT ![c].at = "copy", ![c].moved = target[r]]
    <3>1. call' = [call EXCEPT ![c] = [b EXCEPT !.at = "copy", !.moved = g]]
      BY <1>10, <1>11, <2>2
    <3>2. g \in Contained
      BY <1>11, <2>2 DEF Contained
    <3>3. r \notin overlapped => kept[r] \cap Wholes # {} \/ g \in Wholes
      <4>1. ASSUME r \notin overlapped PROVE b.moved = "none"
        BY <1>5, <2>1, <4>1 DEF PlaceSound
      <4> QED
        BY <1>5, <1>11, <2>2, <4>1 DEF Wholes
    <3> QED
      BY <1>7, <1>8, <2>2, <3>1, <3>2, <3>3
  <2>3. CASE target[r] = "missing" /\ Advance(c, "copy") /\ UNCHANGED target
    <3>1. call' = [call EXCEPT ![c] = [b EXCEPT !.at = "copy", !.moved = b.moved]]
      BY <1>9, <2>3
    <3>2. g = "missing"
      BY <1>11, <2>3
    <3> QED
      BY <1>5, <1>7, <1>8, <1>11, <1>12, <2>3, <3>1, <3>2
  <2>4. CASE Advance(c, "undo") /\ UNCHANGED target
    BY <1>13, <2>4
  <2> QED
    BY <1>2, <1>3, <1>14, <2>2, <2>3, <2>4 DEF Rename
<1>15. CASE StartCopy(c)
  <2>1. b.at = "copy"
    BY <1>2, <1>15 DEF StartCopy, At
  <2>2. CASE target' = [target EXCEPT ![r] = "partial"] /\ Advance(c, "copying")
    <3>1. call' = [call EXCEPT ![c] = [b EXCEPT !.at = "copying", !.moved = b.moved]]
      BY <1>9, <2>2
    <3>2. r \notin overlapped => kept[r] \cap Wholes # {} \/ b.moved \in Wholes
      BY <1>5, <2>1 DEF PlaceSound
    <3> QED
      BY <1>7, <1>8, <2>2, <3>1, <3>2
  <2>3. CASE Advance(c, "undo") /\ UNCHANGED target
    BY <1>13, <2>3
  <2> QED
    BY <1>2, <1>3, <1>15, <2>2, <2>3 DEF StartCopy
<1>16. CASE EndCopy(c)
  <2>1. CASE target' = [target EXCEPT ![r] = "backup"] /\ Advance(c, "tidy")
    <3>1. call' = [call EXCEPT ![c] = [b EXCEPT !.at = "tidy", !.moved = b.moved]]
      BY <1>9, <2>1
    <3> QED
      BY <1>7, <1>8, <2>1, <3>1
  <2>2. CASE Advance(c, "undo") /\ UNCHANGED target
    BY <1>13, <2>2
  <2> QED
    BY <1>2, <1>3, <1>16, <2>1, <2>2 DEF EndCopy
<1>17. CASE Tidy(c)
  <2>1. b.at = "tidy" /\ target' = target
    BY <1>2, <1>17 DEF Tidy, At, files
  <2>2. r \notin overlapped => g = "backup"
    BY <1>5, <1>11, <2>1 DEF PlaceSound
  <2>3. PICK m \in Contained, p \in {"mark", "undo"} :
          call' = [call EXCEPT ![c] = [b EXCEPT !.at = p, !.moved = m]]
    <3>1. CASE call' = [call EXCEPT ![c].at = "mark", ![c].moved = "none"]
      BY <1>8, <1>10, <3>1
    <3>2. CASE call' = [call EXCEPT ![c].at = "undo",
                                    ![c].moved = IF @ = "none" THEN @ ELSE "partial"]
      <4>1. PICK m \in Contained : m = IF b.moved = "none" THEN b.moved ELSE "partial"
        BY <1>8
      <4>2. call' = [call EXCEPT ![c].at = "undo", ![c].moved = m]
        BY <1>2, <1>4, <3>2, <4>1
      <4> QED
        BY <1>10, <4>2
    <3> QED
      BY <1>17, <3>1, <3>2 DEF Tidy
  <2> QED
    BY <1>7, <1>8, <1>11, <1>12, <2>1, <2>2, <2>3
<1> QED
  BY <1>14, <1>15, <1>16, <1>17

LEMMA EndsKeep ==
  ASSUME UpgradeInv, FilesSound, NEW c \in Callers,
         Undo(c) \/ Mark(c) \/ Publish(c) \/ Refuse(c)
  PROVE  FilesSound'
<1>1. call[c].op \in Rollbacks
  BY DEF Undo, Mark, Publish, Refuse, At, Rollbacks
<1>2. PICK b \in RollbackCalls : b = call[c]
  BY <1>1, UnderWay
<1>3. PICK r \in Upgrades, op \in Rollbacks : r = b.rec /\ op = b.op
  BY DEF RollbackCalls
<1>4. /\ InRollback(c, r)
      /\ target[r] \in Wholes \cup {"missing", "partial"}
      /\ target \in [Upgrades -> Wholes \cup {"missing", "partial"}]
      /\ kept \in [Upgrades -> SUBSET (Wholes \cup {"partial"})]
  BY <1>1, <1>2, <1>3 DEF InRollback, UpgradeInv, Shapes
<1>5. r \notin overlapped =>
        /\ target[r] \in {"missing", "partial"} =>
             kept[r] \cap Wholes # {} \/ b.moved \in Wholes
        /\ PlaceSound(b, target[r])
  BY <1>2, <1>4, OneCaller
<1>6. overlapped' = overlapped
  BY DEF Undo, Mark, Publish, Refuse, marks
<1>7. PICK z : /\ call' = [call EXCEPT ![c] = z]
               /\ z.op \in Rollbacks => z.rec = r /\ z.at \in {"refused", "restored"}
                                       /\ z.moved = "none"
  <2>1. CASE call' = [call EXCEPT ![c] = Idle]
    <3>1. Idle.op \notin Rollbacks
      BY DEF Idle, Rollbacks
    <3> QED
      BY <2>1, <3>1
  <2>2. ASSUME NEW p \in {"refused", "restored"}, End(c, op, r, p), op # "revert"
        PROVE  \E z : /\ call' = [call EXCEPT ![c] = z]
                      /\ z.rec = r /\ z.at \in {"refused", "restored"}
                      /\ z.moved = "none"
    <3>1. PICK z : z = [op |-> op, rec |-> r, at |-> p, moved |-> "none"]
      OBVIOUS
    <3>2. call' = [call EXCEPT ![c] = z]
      BY <2>2, <3>1 DEF End
    <3>3. z.rec = r /\ z.at = p /\ z.moved = "none"
      BY <3>1
    <3> QED
      BY <3>2, <3>3
  <2>3. ASSUME NEW p \in {"refused", "restored"}, End(c, op, r, p), op = "revert"
        PROVE  call' = [call EXCEPT ![c] = Idle]
    BY <2>3 DEF End
  <2>4. \/ call' = [call EXCEPT ![c] = Idle]
        \/ \E p \in {"refused", "restored"} : End(c, op, r, p)
    BY <1>2, <1>3, GaveUp DEF Undo, Mark, Publish, Refuse
  <2> QED
    BY <2>1, <2>2, <2>3, <2>4
<1>8. \A f : z.op \in Rollbacks => PlaceSound(z, f)
  BY <1>7 DEF PlaceSound
<1>9. ASSUME UNCHANGED files, r \notin overlapped => target[r] \in Wholes \/
                                            kept[r] \cap Wholes # {}
      PROVE  FilesSound'
  <2>1. PICK f, K : f = target[r] /\ K = kept[r]
    OBVIOUS
  <2>2. target' = [target EXCEPT ![r] = f] /\ kept' = [kept EXCEPT ![r] = K]
    BY <1>4, <1>9, <2>1 DEF files
  <2>3. r \notin overlapped => (f \in {"missing", "partial"} => K \cap Wholes # {})
    BY <1>9, <2>1 DEF Wholes
  <2>4. r \notin overlapped =>
          /\ z.op \in Rollbacks => PlaceSound(z, f)
          /\ f \in {"missing", "partial"} =>
               K \cap Wholes # {} \/ (z.op \in Rollbacks /\ z.moved \in Wholes)
    BY <1>8, <2>3
  <2> QED
    BY <1>4, <1>6, <1>7, <2>2, <2>4, CallerStep
<1>10. CASE Mark(c)
  <2>1. b.at = "mark" /\ UNCHANGED files
    BY <1>2, <1>10 DEF Mark, At
  <2>2. r \notin overlapped => target[r] \in Wholes
    BY <1>5, <2>1 DEF PlaceSound, Wholes
  <2> QED
    BY <1>9, <2>1, <2>2
<1>11. CASE Publish(c) \/ Refuse(c)
  <2>1. b.at \in {"refused", "restored"} /\ UNCHANGED files
    BY <1>2, <1>11 DEF Publish, Refuse, At
  <2>2. r \notin overlapped => b.moved = "none"
    BY <1>5, <2>1 DEF PlaceSound
  <2>3. r \notin overlapped => target[r] \in Wholes \/ kept[r] \cap Wholes # {}
    BY <1>4, <1>5, <2>2 DEF Wholes
  <2> QED
    BY <1>9, <2>1, <2>3
<1>12. CASE Undo(c)
  <2>1. PICK m \in Contained : m = b.moved
    BY DEF RollbackCalls
  <2>2. CASE /\ m # "none" /\ target[r] = "missing"
             /\ target' = [target EXCEPT ![r] = m] /\ UNCHANGED kept
    <3>1. PICK K : K = kept[r] /\ kept' = [kept EXCEPT ![r] = K]
      BY <1>4, <2>2
    <3>2. r \notin overlapped /\ m \in {"missing", "partial"} => K \cap Wholes # {}
      BY <1>5, <2>1, <2>2, <3>1 DEF Wholes
    <3>3. r \notin overlapped =>
            /\ z.op \in Rollbacks => PlaceSound(z, m)
            /\ m \in {"missing", "partial"} =>
                 K \cap Wholes # {} \/ (z.op \in Rollbacks /\ z.moved \in Wholes)
      BY <1>8, <3>2
    <3>4. /\ target' = [target EXCEPT ![r] = m]
          /\ kept' = [kept EXCEPT ![r] = K]
          /\ call' = [call EXCEPT ![c] = z]
          /\ z.op \in Rollbacks => z.rec = r
      BY <1>7, <2>2, <3>1
    <3> QED
      BY <1>4, <1>6, <3>3, <3>4, CallerStep
  <2>3. CASE /\ kept' = [kept EXCEPT ![r] = @ \cup ({m} \ {"none"})]
             /\ UNCHANGED target
    <3>1. PICK K : K = kept[r] \cup ({m} \ {"none"})
      OBVIOUS
    <3>2. kept' = [kept EXCEPT ![r] = K]
      BY <2>3, <3>1
    <3>3. PICK f : f = target[r] /\ target' = [target EXCEPT ![r] = f]
      BY <1>4, <2>3
    <3>4. r \notin overlapped /\ f \in {"missing", "partial"} => K \cap Wholes # {}
      BY <1>5, <2>1, <3>1, <3>3 DEF Wholes
    <3>5. r \notin overlapped =>
            /\ z.op \in Rollbacks => PlaceSound(z, f)
            /\ f \in {"missing", "partial"} =>
                 K \cap Wholes # {} \/ (z.op \in Rollbacks /\ z.moved \in Wholes)
      BY <1>8, <3>4
    <3> QED
      BY <1>4, <1>6, <1>7, <3>2, <3>3, <3>5, CallerStep
  <2> QED
    BY <1>2, <1>3, <1>12, <2>1, <2>2, <2>3 DEF Undo
<1> QED
  BY <1>10, <1>11, <1>12

(* Steps of others leave the rollbacks alone. *)
LEMMA HeldIsSame ==
  ASSUME NEW x \in Calls, NEW h, NEW S,
         NEW y, y = [x EXCEPT !.held = h, !.sharers = S]
  PROVE  SameRollback(x, y)
<1>1. CASE x = Idle
  <2>1. x.op = "none" /\ y.op = "none"
    BY <1>1 DEF Idle
  <2> QED
    BY <2>1 DEF SameRollback, Rollbacks
<1>2. CASE x \in RollbackCalls
  BY <1>2 DEF RollbackCalls, SameRollback
<1>3. CASE x \in Activations
  <2>1. x.op = "activate" /\ y.op = "activate"
    BY <1>3 DEF Activations
  <2> QED
    BY <2>1 DEF SameRollback, Rollbacks
<1> QED
  BY <1>1, <1>2, <1>3 DEF Calls

LEMMA CallersKeep ==
  ASSUME UpgradeInv, FilesSound,
         \/ \E c \in Callers : Activate(c) \/ ActivateReplaced(c)
         \/ \E r \in Upgrades : Register(r)
         \/ \E c \in Callers, r \in Upgrades : CheckActivation(c, r)
  PROVE  FilesSound'
<1>1. UNCHANGED <<target, kept, overlapped>>
  BY DEF Activate, ActivateReplaced, Register, CheckActivation, files, marks
<1>2. \A d \in Callers : call[d] \in Calls
  BY DEF UpgradeInv, Shapes
<1>3. \A x : SameRollback(x, x)
  BY DEF SameRollback
<1>4. ASSUME NEW x, x.op \notin Rollbacks, NEW y, y.op \notin Rollbacks
      PROVE  SameRollback(x, y)
  BY <1>4 DEF SameRollback
<1>5. Idle.op \notin Rollbacks /\ "activate" \notin Rollbacks
  BY DEF Idle, Rollbacks
<1>6. \A S, h : \A d \in Callers : SameRollback(call[d], LeftWith(S, h)[d])
  BY <1>2, <1>3, HeldIsSame DEF LeftWith
<1>7. \A d \in Callers : SameRollback(call[d], call'[d])
  <2> TAKE d \in Callers
  <2>1. CASE \E r \in Upgrades : Register(r)
    BY <1>6, <2>1 DEF Register
  <2>2. CASE \E c \in Callers, r \in Upgrades : CheckActivation(c, r)
    <3>1. PICK c \in Callers, r \in Upgrades : CheckActivation(c, r)
      BY <2>2
    <3>2. PICK z : z = [op |-> "activate", rec |-> r, at |-> "checked",
                        held |-> Absent, sharers |-> {}]
      OBVIOUS
    <3>3. call' = [call EXCEPT ![c] = z] /\ call[c] = Idle /\ z.op \notin Rollbacks
      BY <1>5, <3>1, <3>2 DEF CheckActivation
    <3>4. call'[d] = (IF d = c THEN z ELSE call[d])
      BY <3>3 DEF UpgradeInv, Shapes
    <3> QED
      BY <1>3, <1>4, <1>5, <3>3, <3>4
  <2>3. CASE \E c \in Callers : Activate(c)
    <3>1. PICK c \in Callers : Activate(c)
      BY <2>3
    <3>2. call'[d] = (IF d = c THEN Idle ELSE call[d]) /\ call[c].op \notin Rollbacks
      BY <1>5, <3>1 DEF Activate, At, UpgradeInv, Shapes
    <3> QED
      BY <1>3, <1>4, <1>5, <3>2
  <2>4. CASE \E c \in Callers : ActivateReplaced(c)
    <3>1. PICK c \in Callers : ActivateReplaced(c)
      BY <2>4
    <3>2. call[c].op \notin Rollbacks
      BY <1>5, <3>1 DEF ActivateReplaced, At
    <3>3. PICK H, m : \/ call'[d] = Idle /\ d = c
                      \/ call'[d] = [call[d] EXCEPT !.held = Absent, !.sharers = {}]
                      \/ call'[d] = LeftWith(H, m)[d]
      BY <3>1 DEF ActivateReplaced
    <3> QED
      BY <1>2, <1>4, <1>5, <1>6, <3>2, <3>3, HeldIsSame
  <2> QED
    BY <2>1, <2>2, <2>3, <2>4
<1> QED
  BY <1>1, <1>7, RollbacksSame

LEMMA CrashKeeps ==
  ASSUME UpgradeInv, FilesSound, Crash
  PROVE  FilesSound'
<1> SUFFICES ASSUME NEW r \in Upgrades, r \notin overlapped PROVE FileSound(r)'
  BY DEF FilesSound, FileSound, Crash, marks
<1>1. /\ target' = target /\ FileSound(r) /\ overlapped' = overlapped
      /\ kept'[r] = kept[r] \cup
           ({call[c].moved : c \in {d \in Callers : InRollback(d, r)}} \ {"none"})
  BY DEF Crash, FilesSound, marks
<1>2. Covered(r) => kept'[r] \cap Wholes # {}
  BY <1>1 DEF Covered, Wholes
<1>3. \A c \in Callers : ~InRollback(c, r)'
  BY DEF Crash, InRollback, Idle, Rollbacks
<1> QED
  BY <1>1, <1>2, <1>3 DEF FileSound, Covered

(* A whole copy of the files always exists beside a target that is missing
   or copied in part, unless two rollbacks of one record overlapped. *)
THEOREM SnapshotIsKept == UpgradeSpec => []SnapshotKept
<1>1. UpgradeInit => FilesSound
  <2> SUFFICES ASSUME UpgradeInit, NEW r \in Upgrades PROVE FileSound(r)
    BY DEF FilesSound
  <2>1. target[r] = "current" /\ \A c \in Callers : call[c] = Idle
    BY DEF UpgradeInit
  <2> QED
    BY <2>1 DEF FileSound, InRollback, Idle, Rollbacks
<1>2. UpgradeInv /\ FilesSound /\ [UpgradeNext]_upgradeVars => FilesSound'
  <2> SUFFICES ASSUME UpgradeInv, FilesSound, [UpgradeNext]_upgradeVars
               PROVE  FilesSound'
    OBVIOUS
  <2>1. ASSUME UNCHANGED <<target, kept, overlapped, call>> PROVE FilesSound'
    <3>1. \A d \in Callers : SameRollback(call[d], call'[d])
      BY <2>1 DEF SameRollback
    <3> QED
      BY <2>1, <3>1, RollbacksSame
  <2>2. CASE UNCHANGED upgradeVars
    BY <2>1, <2>2 DEF upgradeVars, execVars, files, marks
  <2>3. CASE \E r \in Upgrades : Executing(r) /\ UNCHANGED decisions
    BY <2>1, <2>3 DEF Executing, Start, FirstSync, Prepare, RunningSync, Work,
                      EventFails, Fail, Finish, LastSync, files, marks
  <2>4. CASE \E r \in Upgrades :
               \/ Promote(r) /\ UNCHANGED decisions
               \/ (Cancel(r) \/ CleanUpFailed(r)) /\ Unmoved
    BY <2>1, <2>4 DEF Promote, Unmoved, files, marks
  <2>5. CASE \E c \in Callers, r \in Upgrades, op \in Rollbacks :
               BeginRollback(c, r, op) /\ UNCHANGED decisions
    BY <2>5, BeginRollbackKeeps
  <2>6. CASE \E c \in Callers :
               /\ Rename(c) \/ StartCopy(c) \/ EndCopy(c) \/ Tidy(c)
               /\ UNCHANGED decisions
    BY <2>6, CopyKeeps
  <2>7. CASE \E c \in Callers :
               /\ Undo(c) \/ Mark(c) \/ Publish(c) \/ Refuse(c)
               /\ UNCHANGED decisions
    BY <2>7, EndsKeep
  <2>8. CASE \/ \E c \in Callers : Activate(c) \/ ActivateReplaced(c)
             \/ \E r \in Upgrades : Register(r)
             \/ \E c \in Callers, r \in Upgrades : CheckActivation(c, r)
    BY <2>8, CallersKeep
  <2>9. CASE \E r \in Upgrades, d \in {"approved", "rejected"} : Govern(r, d)
    BY <2>1, <2>9 DEF Govern, execVars, files, marks
  <2>10. CASE \E r \in Upgrades :
               \/ FlunkActivation(r)
               \/ \E outcome \in {"healthy", "degraded"} : Observe(r, outcome)
               \/ PromoteCandidate(r)
               \/ RollBackCandidate(r)
    BY <2>1, <2>10 DEF FlunkActivation, Observe, PromoteCandidate, RollBackCandidate,
                       Flunk, Unmoved, files, marks
  <2>11. CASE Crash
    BY <2>11, CrashKeeps
  <2>12. CASE Meddle \/ (SaveOthers /\ Unmoved)
    BY <2>1, <2>12 DEF Meddle, Unmoved, files, marks
  <2> QED
    BY <2>2, <2>3, <2>4, <2>5, <2>6, <2>7, <2>8, <2>9, <2>10, <2>11, <2>12,
       UpgradeSteps
<1>3. UpgradeInv /\ FilesSound => SnapshotKept
  BY DEF FilesSound, FileSound, Covered, SnapshotKept
<1> QED
  BY <1>1, <1>2, <1>3, UpgradeInvHolds, PTL DEF UpgradeSpec

-----------------------------------------------------------------------------
(* Calls and their records.                                                *)

(* Whoever has a record under way has one that exists. *)
CalledExist ==
  \A c \in Callers : call[c] # Idle => mem[call[c].rec].status # "none"

Filed == kind \in Mixes /\ CalledExist

(* A step that writes a record leaves it there. *)
Files(r, x) ==
  /\ Written(r, x)
  /\ mem[r].status # "none" => x.status # "none"

NoneLost ==
  /\ kind' = kind
  /\ \A r \in Upgrades : mem[r].status # "none" => mem'[r].status # "none"

LEMMA FilesLoseNone ==
  ASSUME UpgradeInv, NEW r \in Upgrades, NEW x, Files(r, x)
  PROVE  NoneLost /\ (x.status # "none" => mem'[r].status # "none")
<1>1. \A q \in Upgrades : mem'[q] = IF q = r THEN x ELSE mem[q]
  BY DEF UpgradeInv, Shapes, Files, Written
<1> QED
  BY <1>1 DEF NoneLost, Files, Written

Rests == UNCHANGED <<kind, mem>>

(* A caller begins with a record it found, and stays with it. *)
Goes ==
  \A c \in Callers :
    call'[c] # Idle =>
      \/ call[c] # Idle /\ call'[c].rec = call[c].rec
      \/ call'[c].rec \in Upgrades /\ mem'[call'[c].rec].status # "none"

LEMMA CalledRecord ==
  ASSUME UpgradeInv, Filed, NEW c \in Callers, call[c] # Idle
  PROVE  call[c].rec \in Upgrades /\ mem[call[c].rec].status # "none"
<1>1. call[c] \in RollbackCalls \cup Activations
  BY DEF UpgradeInv, Shapes, Calls
<1> QED
  BY <1>1 DEF RollbackCalls, Activations, Filed, CalledExist

LEMMA FiledStep ==
  ASSUME UpgradeInv, Filed, Rests \/ (\E r \in Upgrades : \E x : Files(r, x)), Goes
  PROVE  Filed'
<1>1. NoneLost
  BY FilesLoseNone DEF Rests, NoneLost
<1>2. (kind \in Mixes)'
  BY <1>1 DEF NoneLost, Filed
<1>3. CalledExist'
  <2> SUFFICES ASSUME NEW c \in Callers, call'[c] # Idle
               PROVE  mem'[call'[c].rec].status # "none"
    BY DEF CalledExist
  <2>1. CASE call[c] # Idle /\ call'[c].rec = call[c].rec
    BY <1>1, <2>1, CalledRecord DEF NoneLost
  <2> QED
    BY <2>1 DEF Goes
<1> QED
  BY <1>2, <1>3 DEF Filed

LEMMA SetStatusFiles ==
  ASSUME UpgradeInv, NEW r \in Upgrades, NEW s \in UpgradeStatuses \ {"none"},
         SetStatus(r, s)
  PROVE  \E x : Files(r, x)
<1>1. PICK x : x = [mem[r] EXCEPT !.status = s]
  OBVIOUS
<1>2. mem[r] \in Contents
  BY DEF UpgradeInv, Shapes
<1>3. x.status = s
  BY <1>1, <1>2 DEF Contents
<1>4. Written(r, x)
  BY <1>1, UpsertWrites DEF SetStatus
<1> QED
  BY <1>3, <1>4 DEF Files

LEMMA ExecutionFiles ==
  ASSUME UpgradeInv, Filed, NEW r \in Upgrades, Executing(r)
  PROVE  Filed'
<1>1. mem[r] \in Contents
  BY DEF UpgradeInv, Shapes
<1>2. call' = call
  BY DEF Executing, Start, FirstSync, Prepare, RunningSync, Work, EventFails,
         Fail, Finish, LastSync
<1>3. Goes
  BY <1>2 DEF Goes
<1>4. {"running", "failed"} \subseteq UpgradeStatuses \ {"none"}
  BY DEF UpgradeStatuses, Ongoing, Failed
<1>5. CASE Start(r)
  <2>1. PICK x : /\ x = Born(FirstStatus[kind[r]])
                 /\ Upsert(r, x) \/ UpsertRaises(r, x)
    BY <1>5 DEF Start
  <2>2. x.status # "none"
    BY <1>5, <2>1 DEF Start, FirstStatus, Born
  <2> QED
    BY <1>3, <2>1, <2>2, UpsertWrites, FiledStep DEF Files
<1>6. CASE SetStatus(r, "running") \/ SetStatus(r, "failed")
  BY <1>3, <1>4, <1>6, SetStatusFiles, FiledStep
<1>7. CASE Touch(r, [mem[r] EXCEPT !.status = "completed"])
  <2>1. PICK x : x = [mem[r] EXCEPT !.status = "completed"]
    OBVIOUS
  <2>2. x.status = "completed"
    BY <1>1, <2>1 DEF Contents
  <2> QED
    BY <1>3, <1>7, <2>1, <2>2, UpsertWrites, FiledStep DEF Files
<1>8. CASE Store(r, mem[r])
  BY <1>3, <1>8, UpsertWrites, FiledStep DEF Files
<1>9. CASE Rests
  BY <1>3, <1>9, FiledStep
<1>10. \/ Start(r) \/ SetStatus(r, "running") \/ SetStatus(r, "failed")
       \/ Touch(r, [mem[r] EXCEPT !.status = "completed"])
       \/ Store(r, mem[r]) \/ Rests
  BY DEF Executing, FirstSync, Prepare, RunningSync, Work, EventFails, Fail, Finish,
         LastSync, SetStatus, Store, Rests, storeVars, records
<1> QED
  BY <1>5, <1>6, <1>7, <1>8, <1>9, <1>10

LEMMA QuietFiled ==
  ASSUME UpgradeInv, Filed, UNCHANGED <<exec, call>>,
         Rests \/ (\E r \in Upgrades : \E x : Files(r, x))
  PROVE  Filed'
<1>1. Goes
  BY DEF Goes
<1> QED
  BY <1>1, FiledStep

LEMMA RecordsFiled ==
  ASSUME UpgradeInv, Filed, NEW r \in Upgrades,
         \/ Promote(r)
         \/ (Cancel(r) \/ CleanUpFailed(r)) /\ Unmoved
         \/ FlunkActivation(r)
         \/ \E outcome \in {"healthy", "degraded"} : Observe(r, outcome)
         \/ PromoteCandidate(r)
         \/ RollBackCandidate(r)
  PROVE  Filed'
<1>1. PICK y \in Contents : y = mem[r]
  BY DEF UpgradeInv, Shapes
<1>2. UNCHANGED <<exec, call>>
  BY DEF Promote, Unmoved, FlunkActivation, Observe, PromoteCandidate,
         RollBackCandidate, Flunk
<1>3. {"cancelled", "cleaned_up", "failed"} \subseteq UpgradeStatuses \ {"none"}
  BY DEF UpgradeStatuses, Failed
<1>4. CASE \E s \in {"cancelled", "cleaned_up", "failed"} : SetStatus(r, s)
  <2>1. \E x : Files(r, x)
    BY <1>3, <1>4, SetStatusFiles
  <2> QED
    BY <1>2, <2>1, QuietFiled
<1>5. ASSUME NEW x \in Contents, x.status # "none", Store(r, x)
      PROVE  Filed'
  BY <1>2, <1>5, UpsertWrites, QuietFiled DEF Files
<1>6. CASE Store(r, [y EXCEPT !.status = "active", !.version = "candidate"])
  <2>1. PICK x : x = [y EXCEPT !.status = "active", !.version = "candidate"]
    OBVIOUS
  <2>2. x \in Contents /\ x.status # "none"
    BY <2>1 DEF Contents, UpgradeStatuses, Ongoing
  <2> QED
    BY <1>5, <1>6, <2>1, <2>2
<1>7. ASSUME NEW o \in {"healthy", "degraded"},
             Store(r, [y EXCEPT
                !.observed = o,
                !.status = IF o = "degraded" THEN o ELSE "canary_running"])
      PROVE  Filed'
  <2>1. PICK x : x = [y EXCEPT
                        !.observed = o,
                        !.status = IF o = "degraded" THEN o ELSE "canary_running"]
    OBVIOUS
  <2>2. x \in Contents /\ x.status # "none"
    BY <2>1 DEF Contents, UpgradeStatuses, Ongoing
  <2> QED
    BY <1>5, <1>7, <2>1, <2>2
<1>8. CASE Store(r, [y EXCEPT !.status = "rolled_back", !.version = "baseline",
                              !.live = FALSE, !.triggered = TRUE])
  <2>1. PICK x : x = [y EXCEPT !.status = "rolled_back", !.version = "baseline",
                               !.live = FALSE, !.triggered = TRUE]
    OBVIOUS
  <2>2. x \in Contents /\ x.status # "none"
    BY <2>1 DEF Contents, UpgradeStatuses
  <2> QED
    BY <1>5, <1>8, <2>1, <2>2
<1>9. CASE Promote(r) \/ PromoteCandidate(r)
  BY <1>1, <1>4, <1>6, <1>9 DEF Promote, PromoteCandidate, Flunk
<1>10. CASE \E outcome \in {"healthy", "degraded"} : Observe(r, outcome)
  BY <1>1, <1>4, <1>7, <1>10 DEF Observe, Flunk
<1>11. CASE RollBackCandidate(r)
  BY <1>1, <1>4, <1>8, <1>11 DEF RollBackCandidate, Flunk
<1>12. CASE ((Cancel(r) \/ CleanUpFailed(r)) /\ Unmoved) \/ FlunkActivation(r)
  BY <1>4, <1>12 DEF Cancel, CleanUpFailed, FlunkActivation, Flunk
<1> QED
  BY <1>9, <1>10, <1>11, <1>12

(* A caller that moves on keeps its record or has one that exists. *)
LEMMA GoesOn ==
  ASSUME UpgradeInv, NEW c \in Callers, NEW z, call' = [call EXCEPT ![c] = z],
         \/ z = Idle
         \/ call[c] # Idle /\ z.rec = call[c].rec
         \/ z.rec \in Upgrades /\ mem'[z.rec].status # "none"
  PROVE  Goes
<1>1. \A d \in Callers : call'[d] = IF d = c THEN z ELSE call[d]
  BY DEF UpgradeInv, Shapes
<1> QED
  BY <1>1 DEF Goes

LEMMA BeginRollbackFiled ==
  ASSUME UpgradeInv, Filed, NEW c \in Callers, NEW r \in Upgrades,
         NEW op \in Rollbacks, BeginRollback(c, r, op)
  PROVE  Filed'
<1>1. exec' = exec /\ mem[r].status # "none"
  BY DEF BeginRollback, Status
<1>3. Rests \/ (\E x : Files(r, x))
  <2>1. CASE SetStatus(r, "rollback_failed")
    BY <2>1, SetStatusFiles DEF UpgradeStatuses, Failed
  <2>2. CASE UNCHANGED storeVars
    BY <2>2 DEF storeVars, records, Rests
  <2> QED
    BY <2>1, <2>2, GaveUp DEF BeginRollback
<1>4. mem'[r].status # "none"
  BY <1>1, <1>3, FilesLoseNone DEF NoneLost, Rests
<1>5. PICK z : call' = [call EXCEPT ![c] = z] /\ (z = Idle \/ z.rec = r)
  <2>1. PICK p : p = [op |-> op, rec |-> r, at |-> "rename", moved |-> "none"]
    OBVIOUS
  <2>2. PICK q : q = [op |-> op, rec |-> r, at |-> "refused", moved |-> "none"]
    OBVIOUS
  <2>3. PICK e : e = IF op = "revert" THEN Idle ELSE q
    OBVIOUS
  <2>4. \/ call' = [call EXCEPT ![c] = p] \/ call' = [call EXCEPT ![c] = e]
        \/ call' = [call EXCEPT ![c] = Idle]
    BY <2>1, <2>2, <2>3, GaveUp DEF BeginRollback, End
  <2>5. p.rec = r /\ (e = Idle \/ e.rec = r)
    BY <2>1, <2>2, <2>3
  <2> QED
    BY <2>4, <2>5
<1>6. Goes
  BY <1>4, <1>5, GoesOn
<1> QED
  BY <1>3, <1>6, FiledStep

LEMMA CopyFiled ==
  ASSUME UpgradeInv, Filed, NEW c \in Callers,
         Rename(c) \/ StartCopy(c) \/ EndCopy(c) \/ Tidy(c)
  PROVE  Filed'
<1>1. call[c].op \in Rollbacks
  BY DEF Rename, StartCopy, EndCopy, Tidy, At
<1>2. PICK b \in RollbackCalls : b = call[c]
  BY <1>1, UnderWay
<1>3. call[c] # Idle
  BY <1>1 DEF Idle, Rollbacks
<1>4. Rests
  BY DEF Rename, StartCopy, EndCopy, Tidy, storeVars, records, Rests
<1>6. PICK p, m : call' = [call EXCEPT ![c].at = p] \/ call' = [call EXCEPT ![c].at = p, ![c].moved = m]
  BY DEF Rename, StartCopy, EndCopy, Tidy, Advance
<1>7. PICK z : call' = [call EXCEPT ![c] = z] /\ z.rec = b.rec
  <2>1. CASE call' = [call EXCEPT ![c].at = p]
    <3>1. PICK z : z = [b EXCEPT !.at = p]
      OBVIOUS
    <3>2. z.rec = b.rec
      BY <3>1 DEF RollbackCalls
    <3>3. call' = [call EXCEPT ![c] = z]
      BY <1>2, <2>1, <3>1
    <3> QED
      BY <3>2, <3>3
  <2>2. CASE call' = [call EXCEPT ![c].at = p, ![c].moved = m]
    <3>1. PICK z : z = [b EXCEPT !.at = p, !.moved = m]
      OBVIOUS
    <3>2. z.rec = b.rec
      BY <3>1 DEF RollbackCalls
    <3>3. call' = [call EXCEPT ![c] = z]
      BY <1>2, <2>2, <3>1
    <3> QED
      BY <3>2, <3>3
  <2> QED
    BY <1>6, <2>1, <2>2
<1>8. Goes
  BY <1>2, <1>3, <1>7, GoesOn
<1> QED
  BY <1>4, <1>8, FiledStep

LEMMA EndsFiled ==
  ASSUME UpgradeInv, Filed, NEW c \in Callers,
         Undo(c) \/ Mark(c) \/ Publish(c) \/ Refuse(c)
  PROVE  Filed'
<1>1. call[c].op \in Rollbacks
  BY DEF Undo, Mark, Publish, Refuse, At, Rollbacks
<1>2. call[c] # Idle
  BY <1>1 DEF Idle, Rollbacks
<1>3. PICK r \in Upgrades : r = call[c].rec
  BY <1>2, CalledRecord
<1>4. PICK y \in Contents : y = mem[r]
  BY DEF UpgradeInv, Shapes
<1>7. \E x : Files(r, x)
  <2>1. CASE SetStatus(r, "rollback_failed")
    BY <2>1, SetStatusFiles DEF UpgradeStatuses, Failed
  <2>2. ASSUME NEW s \in {"cleaned_up", "rolled_back"},
               Store(r, [y EXCEPT !.status = s, !.triggered = TRUE])
        PROVE  \E x : Files(r, x)
    <3>1. PICK x : x = [y EXCEPT !.status = s, !.triggered = TRUE]
      OBVIOUS
    <3>2. x.status # "none"
      BY <3>1 DEF Contents
    <3> QED
      BY <2>2, <3>1, <3>2, UpsertWrites DEF Files
  <2> QED
    BY <1>3, <1>4, <2>1, <2>2, GaveUp DEF Undo, Mark, Publish, Refuse, Store
<1>8. PICK z : call' = [call EXCEPT ![c] = z] /\ (z = Idle \/ z.rec = r)
  <2>1. ASSUME NEW p, End(c, call[c].op, r, p)
        PROVE  \E z : call' = [call EXCEPT ![c] = z] /\ (z = Idle \/ z.rec = r)
    <3>1. PICK q : q = [op |-> call[c].op, rec |-> r, at |-> p, moved |-> "none"]
      OBVIOUS
    <3>2. PICK e : e = IF call[c].op = "revert" THEN Idle ELSE q
      OBVIOUS
    <3>3. call' = [call EXCEPT ![c] = e]
      BY <2>1, <3>1, <3>2 DEF End
    <3>4. e = Idle \/ e.rec = r
      BY <3>1, <3>2
    <3> QED
      BY <3>3, <3>4
  <2>2. CASE call' = [call EXCEPT ![c] = Idle]
    BY <2>2
  <2> QED
    BY <1>3, <2>1, <2>2, GaveUp DEF Undo, Mark, Publish, Refuse
<1>9. Goes
  BY <1>2, <1>3, <1>8, GoesOn
<1> QED
  BY <1>7, <1>9, FiledStep

(* Records held by an activation change hands, not the record it is about. *)
LEMMA HoldersGoOn ==
  ASSUME UpgradeInv,
         \A d \in Callers :
           \/ call'[d] = Idle
           \/ call'[d] = call[d]
           \/ \E h, S : call'[d] = [call[d] EXCEPT !.held = h, !.sharers = S]
  PROVE  Goes
<1> SUFFICES ASSUME NEW d \in Callers, call'[d] # Idle
             PROVE  call[d] # Idle /\ call'[d].rec = call[d].rec
  BY DEF Goes
<1>1. CASE call'[d] = call[d]
  BY <1>1
<1>2. ASSUME NEW h, NEW S, call'[d] = [call[d] EXCEPT !.held = h, !.sharers = S]
      PROVE  call[d] # Idle /\ call'[d].rec = call[d].rec
  <2>1. PICK x \in Calls : x = call[d]
    BY DEF UpgradeInv, Shapes
  <2>2. CASE x = Idle
    <3>1. [x EXCEPT !.held = h, !.sharers = S] = x
      BY <2>2 DEF Idle
    <3> QED
      BY <1>2, <2>1, <2>2, <3>1
  <2>3. CASE x \in RollbackCalls
    <3>1. x.op \in Rollbacks /\ Idle.op = "none"
      BY <2>3 DEF RollbackCalls, Idle
    <3>2. [x EXCEPT !.held = h, !.sharers = S].rec = x.rec
      BY <2>3 DEF RollbackCalls
    <3> QED
      BY <1>2, <2>1, <3>1, <3>2 DEF Rollbacks
  <2>4. CASE x \in Activations
    <3>1. x.op = "activate" /\ Idle.op = "none"
      BY <2>4 DEF Activations, Idle
    <3>2. [x EXCEPT !.held = h, !.sharers = S].rec = x.rec
      BY <2>4 DEF Activations
    <3> QED
      BY <1>2, <2>1, <3>1, <3>2
  <2> QED
    BY <2>1, <2>2, <2>3, <2>4 DEF Calls
<1> QED
  BY <1>1, <1>2

LEMMA ActivationFiled ==
  ASSUME UpgradeInv, Filed, NEW c \in Callers, Activate(c) \/ ActivateReplaced(c)
  PROVE  Filed'
<1>1. call[c].op = "activate"
  BY DEF Activate, ActivateReplaced, At
<1>2. PICK a \in Activations : a = call[c]
  BY <1>1, CallKinds DEF UpgradeInv, Shapes
<1>3. call[c] # Idle
  BY <1>1 DEF Idle
<1>4. PICK r \in Upgrades, g \in Contents, S \in SUBSET Callers :
        r = a.rec /\ g = a.held /\ S = a.sharers
  BY DEF Activations
<1>6. PICK m \in Contents : m = mem[r]
  BY DEF UpgradeInv, Shapes
<1>7. PICK y \in Contents : Store(r, Live(y))
  BY <1>2, <1>4, <1>6 DEF Activate, ActivateReplaced
<1>8. \E x : Files(r, x)
  <2>1. PICK x : x = Live(y)
    OBVIOUS
  <2>2. x.status # "none"
    BY <2>1 DEF Live, Contents
  <2> QED
    BY <1>7, <2>1, <2>2, UpsertWrites DEF Files
<1>10. Goes
  <2>1. CASE Activate(c)
    <3>1. call' = [call EXCEPT ![c] = Idle]
      BY <2>1 DEF Activate
    <3> QED
      BY <3>1, GoesOn
  <2>2. CASE ActivateReplaced(c)
    <3>1. PICK H, h : H = Holding(r) /\ h = mem[r]
      OBVIOUS
    <3>2. \A d \in Callers :
            \/ call'[d] = Idle
            \/ call'[d] = call[d]
            \/ \E k, T : call'[d] = [call[d] EXCEPT !.held = k, !.sharers = T]
      <4>1. \A d \in Callers :
              \/ call'[d] = Idle
              \/ call'[d] = [call[d] EXCEPT !.held = Absent, !.sharers = {}]
              \/ call'[d] = LeftWith(H, h)[d]
        BY <1>2, <1>4, <2>2, <3>1 DEF ActivateReplaced
      <4>2. \A d \in Callers :
              \/ LeftWith(H, h)[d] = call[d]
              \/ LeftWith(H, h)[d] = [call[d] EXCEPT !.held = h, !.sharers = H]
        BY DEF LeftWith
      <4>3. ASSUME NEW d \in Callers
            PROVE  \/ call'[d] = Idle
                   \/ call'[d] = call[d]
                   \/ \E k, T : call'[d] = [call[d] EXCEPT !.held = k, !.sharers = T]
        <5>1. CASE call'[d] = LeftWith(H, h)[d]
          BY <4>2, <5>1
        <5>2. CASE call'[d] = [call[d] EXCEPT !.held = Absent, !.sharers = {}]
          BY <5>2
        <5> QED
          BY <4>1, <5>1, <5>2
      <4> QED
        BY <4>3
    <3> QED
      BY <3>2, HoldersGoOn
  <2> QED
    BY <2>1, <2>2
<1> QED
  BY <1>8, <1>10, FiledStep

LEMMA RegisterFiled ==
  ASSUME UpgradeInv, Filed, NEW r \in Upgrades, Register(r)
  PROVE  Filed'
<1>1. PICK x : x = Born("queued") /\ Store(r, x)
  BY DEF Register
<1>2. x.status # "none"
  BY <1>1 DEF Born
<1>3. Files(r, x)
  BY <1>1, <1>2, UpsertWrites DEF Files
<1>5. PICK H, h : H = Holding(r) /\ h = mem[r]
  OBVIOUS
<1>6. \A d \in Callers :
        \/ call'[d] = call[d]
        \/ call'[d] = [call[d] EXCEPT !.held = h, !.sharers = H]
  BY <1>5 DEF Register, LeftWith
<1>7. Goes
  BY <1>6, HoldersGoOn
<1> QED
  BY <1>3, <1>7, FiledStep

LEMMA CheckActivationFiled ==
  ASSUME UpgradeInv, Filed, NEW c \in Callers, NEW r \in Upgrades,
         CheckActivation(c, r)
  PROVE  Filed'
<1>1. Rests /\ mem'[r].status # "none"
  BY DEF CheckActivation, Rests, storeVars, records, IsPhaseD, Status
<1>2. PICK z : z = [op |-> "activate", rec |-> r, at |-> "checked",
                    held |-> Absent, sharers |-> {}]
  OBVIOUS
<1>3. call' = [call EXCEPT ![c] = z] /\ z.rec = r
  BY <1>2 DEF CheckActivation
<1>5. Goes
  BY <1>1, <1>3, GoesOn
<1> QED
  BY <1>1, <1>5, FiledStep

LEMMA CrashFiled ==
  ASSUME UpgradeInv, Filed, Crash
  PROVE  Filed'
<1>1. (\A c \in Callers : call'[c] = Idle) /\ kind' = kind
  BY DEF Crash, Reload
<1> QED
  BY <1>1 DEF Filed, CalledExist

LEMMA FiledNext ==
  ASSUME UpgradeInv, Filed, [UpgradeNext]_upgradeVars
  PROVE  Filed'
<1>1. CASE UNCHANGED upgradeVars
  <2>1. Rests /\ UNCHANGED <<exec, call>>
    BY <1>1 DEF upgradeVars, execVars, storeVars, records, Rests
  <2> QED
    BY <2>1, QuietFiled
<1>2. CASE \E r \in Upgrades, d \in {"approved", "rejected"} : Govern(r, d)
  <2>1. Rests /\ UNCHANGED <<exec, call>>
    BY <1>2 DEF Govern, execVars, storeVars, records, Rests
  <2> QED
    BY <2>1, QuietFiled
<1>3. CASE Meddle \/ (SaveOthers /\ Unmoved)
  <2>1. Rests /\ UNCHANGED <<exec, call>>
    BY <1>3 DEF Meddle, SaveOthers, Unmoved, storeVars, records, Rests
  <2> QED
    BY <2>1, QuietFiled
<1>4. CASE UpgradeNext
  BY <1>2, <1>3, <1>4, UpgradeSteps, ExecutionFiles, RecordsFiled,
     BeginRollbackFiled, CopyFiled, EndsFiled, ActivationFiled, RegisterFiled,
     CheckActivationFiled, CrashFiled
<1> QED
  BY <1>1, <1>4

(* Every variable keeps its type and the kinds are those that were asked for;
   a call under way has a record that exists, whatever is registered again,
   cancelled or not saved in between. *)
THEOREM UpgradeTypes == UpgradeSpec => []UpgradeTypeOK
<1>1. UpgradeInit => Filed
  BY DEF UpgradeInit, StoreInit, Filed, CalledExist
<1>2. UpgradeInv /\ Filed /\ [UpgradeNext]_upgradeVars => Filed'
  BY FiledNext
<1>3. UpgradeInv /\ Filed => UpgradeTypeOK
  <2> SUFFICES ASSUME UpgradeInv, Filed PROVE UpgradeTypeOK
    OBVIOUS
  <2>1. StoreTypeOK
    BY DEF UpgradeInv, Shapes, Filed, StoreTypeOK
  <2>2. /\ mirror \in [Upgrades -> Mirrored]
        /\ exec \in [Upgrades -> ExecPhases]
        /\ backup \subseteq Upgrades
        /\ target \in [Upgrades -> Wholes \cup {"missing", "partial"}]
        /\ kept \in [Upgrades -> SUBSET (Wholes \cup {"partial"})]
        /\ \A r \in Upgrades : decisions[r] \subseteq {"approved", "rejected"}
    BY DEF UpgradeInv, Shapes
  <2>3. \A c \in Callers : call[c] # Idle => Status(call[c].rec) # "none"
    BY DEF Filed, CalledExist, Status
  <2> QED
    BY <2>1, <2>2, <2>3 DEF UpgradeTypeOK
<1> QED
  BY <1>1, <1>2, <1>3, UpgradeInvHolds, PTL DEF UpgradeSpec
=============================================================================
