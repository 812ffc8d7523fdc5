------------------------------- MODULE PhaseD -------------------------------
(***************************************************************************)
(* Phase D self-evolution: the upgrade record of a candidate built from    *)
(* approved strategy patches is registered, governed, activated through a  *)
(* shadow and a canary run, observed, promoted and rolled back, each by a  *)
(* request of its own.  A request whose gate finds the record in the wrong *)
(* state makes it FAILED.                                                  *)
(*                                                                         *)
(* activate queries the learning service between its gate and its write,   *)
(* and is two steps; the other requests have nothing in between.           *)
(*                                                                         *)
(* A definition whose comment begins with "Mutant" is a wrong version of   *)
(* the one after it: it shows which property notices that mistake.         *)
(***************************************************************************)
EXTENDS UpgradeExecution

CONSTANT
  Moved      \* statuses to which somebody else may move the rows

VARIABLE
  decisions  \* governance decisions in the learning log, by record

ASSUME MovedAssumption == Moved \subseteq Statuses

upgradeVars == <<execVars, decisions>>

IsPhaseD(r) == kind[r] = "phase_d" /\ Status(r) # "none"
Unmoved == UNCHANGED <<mirror, exec, files, call, marks, decisions>>

(* An activation keeps the record its gate looked at.  Once another record
   has taken its place, the calls that still have it, and share it, keep it
   as it was. *)
Holding(r) == {c \in Callers : /\ call[c].op = "activate"
                               /\ call[c].rec = r
                               /\ call[c].sharers = {}}
LeftWith(cs, x) ==
  [c \in Callers |-> IF c \in cs THEN [call[c] EXCEPT !.held = x, !.sharers = cs]
                     ELSE call[c]]

(* register_phase_d_upgrade_candidate: the id follows from the patches, and
   a record that has it is replaced, whatever became of it. *)
Register(r) ==
  /\ kind[r] = "phase_d"
  /\ Store(r, Born("queued"))
  /\ call' = LeftWith(Holding(r), mem[r])
  /\ UNCHANGED <<mirror, exec, files, marks, decisions>>

(* record_phase_d_governance_decision *)
Govern(r, d) ==
  /\ IsPhaseD(r)
  /\ decisions' = [decisions EXCEPT ![r] = @ \cup {d}]
  /\ UNCHANGED execVars

(* _mark_phase_d_failure *)
Flunk(r) == SetStatus(r, "failed") /\ Unmoved

(* Mutant: a decision is looked for, and not that it is an approval. *)
IsGoverned(r) == decisions[r] # {}

(* _find_approved_phase_d_governance: one approval will do, also one that a
   rejection followed. *)
IsApproved(r) == "approved" \in decisions[r]

(* activate_phase_d_self_evolution: the gate ... *)
CheckActivation(c, r) ==
  /\ IsPhaseD(r)
  /\ call[c] = Idle
  /\ Status(r) = "queued"
  /\ IsApproved(r)
  /\ call' = [call EXCEPT ![c] = [op |-> "activate", rec |-> r, at |-> "checked",
                                  held |-> Absent, sharers |-> {}]]
  /\ UNCHANGED <<storeVars, mirror, exec, files, marks, decisions>>

FlunkActivation(r) ==
  /\ IsPhaseD(r)
  /\ Status(r) # "queued" \/ ~IsApproved(r)
  /\ Flunk(r)

(* ... and the activation, of the record of the gate... *)
Live(x) == [x EXCEPT !.status = "canary_running", !.receipts = TRUE, !.live = TRUE]

Activate(c) ==
  /\ At(c, {"activate"}, "checked")
  /\ call[c].sharers = {}
  /\ Store(call[c].rec, Live(mem[call[c].rec]))
  /\ call' = [call EXCEPT ![c] = Idle]
  /\ UNCHANGED <<mirror, exec, files, marks, decisions>>

(* ... also when it had been replaced: it takes its place again. *)
ActivateReplaced(c) ==
  /\ At(c, {"activate"}, "checked")
  /\ call[c].sharers # {}
  /\ LET r == call[c].rec IN
       /\ Store(r, Live(call[c].held))
       /\ call' = [d \in Callers |->
                     CASE d = c -> Idle
                       [] d \in call[c].sharers \ {c} ->
                            [call[d] EXCEPT !.held = Absent, !.sharers = {}]
                       [] OTHER -> LeftWith(Holding(r), mem[r])[d]]
  /\ UNCHANGED <<mirror, exec, files, marks, decisions>>

(* observe_phase_d_candidate.  A healthy observation of an ACTIVE candidate
   makes it a canary again. *)
Observe(r, outcome) ==
  /\ IsPhaseD(r)
  /\ IF Status(r) \in {"canary_running", "active"} /\ mem[r].receipts
     THEN /\ Store(r, [mem[r] EXCEPT
                 !.observed = outcome,
                 !.status = IF outcome = "degraded" THEN outcome ELSE "canary_running"])
          /\ Unmoved
     ELSE Flunk(r)

(* promote_phase_d_candidate *)
PromoteCandidate(r) ==
  /\ IsPhaseD(r)
  /\ IF /\ Status(r) = "canary_running"
        /\ mem[r].receipts
        /\ mem[r].observed = "healthy"
     THEN Store(r, [mem[r] EXCEPT !.status = "active", !.version = "candidate"]) /\ Unmoved
     ELSE Flunk(r)

(* Mutant: the version stays that of the candidate, as it does when the
   publication service rolls an upgrade back. *)
RollBackStatus(r) ==
  /\ IsPhaseD(r)
  /\ IF Status(r) \in {"canary_running", "active", "degraded"} /\ mem[r].receipts
     THEN Store(r, [mem[r] EXCEPT !.status = "rolled_back", !.live = FALSE,
                                  !.triggered = TRUE]) /\ Unmoved
     ELSE Flunk(r)

(* rollback_phase_d_candidate *)
RollBackCandidate(r) ==
  /\ IsPhaseD(r)
  /\ IF Status(r) \in {"canary_running", "active", "degraded"} /\ mem[r].receipts
     THEN Store(r, [mem[r] EXCEPT !.status = "rolled_back", !.version = "baseline",
                                  !.live = FALSE, !.triggered = TRUE]) /\ Unmoved
     ELSE Flunk(r)

Evolving ==
  \E r \in Upgrades :
    \/ Register(r)
    \/ \E d \in {"approved", "rejected"} : Govern(r, d)
    \/ \E c \in Callers : CheckActivation(c, r)
    \/ FlunkActivation(r)
    \/ \E outcome \in {"healthy", "degraded"} : Observe(r, outcome)
    \/ PromoteCandidate(r)
    \/ RollBackCandidate(r)

-----------------------------------------------------------------------------
(* The whole of the upgrade subsystem.                                     *)

(* The process dies and is started again: nobody goes on with what was
   under way, and no snapshot is looked for. *)
Crash ==
  /\ Reload
  /\ exec' = [r \in Upgrades |-> IF exec[r] = "none" THEN "none" ELSE "over"]
  /\ kept' = [r \in Upgrades |-> kept[r] \cup
                ({call[c].moved : c \in {d \in Callers : InRollback(d, r)}} \ {"none"})]
  /\ call' = [c \in Callers |-> Idle]
  /\ UNCHANGED <<mirror, backup, target, marks, decisions>>

(* Somebody else moves the row of a record: an operator, or the task worker,
   from whom nothing keeps it. *)
Meddle ==
  /\ \E r \in Upgrades, new \in Moved : Interfere(r, new)
  /\ UNCHANGED <<storeVars, exec, files, call, marks, decisions>>

UpgradeInit ==
  /\ StoreInit
  /\ mirror = [r \in Upgrades |-> "none"]
  /\ exec = [r \in Upgrades |-> "none"]
  /\ backup = {}
  /\ target = [r \in Upgrades |-> "current"]
  /\ kept = [r \in Upgrades |-> {}]
  /\ call = [c \in Callers |-> Idle]
  /\ worked = {} /\ dirty = {} /\ restored = {} /\ overlapped = {}
  /\ decisions = [r \in Upgrades |-> {}]

UpgradeNext ==
  \/ \E r \in Upgrades : Executing(r) /\ UNCHANGED decisions
  \/ \E r \in Upgrades : Promote(r) /\ UNCHANGED decisions
  \/ \E r \in Upgrades : (Cancel(r) \/ CleanUpFailed(r)) /\ Unmoved
  \/ SaveOthers /\ Unmoved
  \/ \E c \in Callers : RollingBack(c) /\ UNCHANGED decisions
  \/ \E c \in Callers : Activate(c) \/ ActivateReplaced(c)
  \/ Evolving
  \/ Crash
  \/ Meddle

UpgradeSpec == UpgradeInit /\ [][UpgradeNext]_upgradeVars

-----------------------------------------------------------------------------

UpgradeTypeOK ==
  /\ StoreTypeOK
  /\ mirror \in [Upgrades -> Mirrored]
  /\ exec \in [Upgrades -> ExecPhases]
  /\ backup \subseteq Upgrades
  /\ target \in [Upgrades -> Wholes \cup {"missing", "partial"}]
  /\ kept \in [Upgrades -> SUBSET (Wholes \cup {"partial"})]
  /\ \A r \in Upgrades : decisions[r] \subseteq {"approved", "rejected"}
  /\ \A c \in Callers : call[c] # Idle => Status(call[c].rec) # "none"

(* A record says rolled back only when its files were restored, however the
   calls of a rollback, a second one, a crash and the execution itself
   interleave: no rollback is faked when the backup is missing, there is no
   path to restore, or the copy broke off. *)
NoFakeRollback ==
  \A r \in Upgrades :
    kind[r] # "phase_d" /\ (Status(r) = "rolled_back" \/ mem[r].triggered)
      => r \in restored

(* While the files of a target are missing or copied in part, also after a
   crash and a failed rollback, a whole copy of them exists beside it.  Two
   rollbacks of one record at a time can break this and are left out. *)
SnapshotKept ==
  \A r \in Upgrades \ overlapped :
    target[r] \in {"missing", "partial"} =>
      \/ kept[r] \cap Wholes # {}
      \/ \E c \in Callers : InRollback(c, r) /\ call[c].moved \in Wholes

(* A record is completed or promoted only when its worker was done, and never
   when the scan refused its candidate, also in what a process finds that was
   started again on rows a save had left behind. *)
WorkedBeforeDone ==
  \A r \in Upgrades :
    kind[r] # "phase_d" /\ Status(r) \in {"completed", "active"}
      => r \in worked \ dirty

(* A phase D candidate is live only when a reviewer had approved it, and
   ACTIVE only with a healthy observation, through cancellations that come
   between the gate and the write, registrations of the same candidate, and
   gates that fail. *)
LiveWasApproved ==
  \A r \in Upgrades :
    /\ mem[r].live => "approved" \in decisions[r] /\ mem[r].receipts
    /\ kind[r] = "phase_d" /\ Status(r) = "active" => mem[r].observed = "healthy"

(* A phase D record that says rolled back has the baseline's version and no
   live candidate. *)
BaselineBack ==
  \A r \in Upgrades :
    kind[r] = "phase_d" /\ Status(r) = "rolled_back"
      => mem[r].version = "baseline" /\ ~mem[r].live
=============================================================================
