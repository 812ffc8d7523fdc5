-------------------------- MODULE UpgradeExecution --------------------------
(***************************************************************************)
(* UpgradeExecutionService and UpgradePublicationService: the execution of *)
(* an upgrade of a prompt (llm), of a plugin (plugin) or of a new plugin   *)
(* (create), its promotion, and its rollback, which moves the files of the *)
(* target aside and copies the backup in their place.                      *)
(*                                                                         *)
(* Every execution has a thread of its own, and so has every caller of a   *)
(* rollback.  They share the record, and with it each other's changes.     *)
(*                                                                         *)
(* A definition whose comment begins with "Mutant" is a wrong version of   *)
(* the one after it: it shows which property notices that mistake.         *)
(***************************************************************************)
EXTENDS UpgradeStore, WorkflowBridge

CONSTANT
  Callers     \* threads that may be in a rollback or an activation

VARIABLES
  exec,       \* where the execution of a record is
  backup,     \* records with a physical backup
  target,     \* the files at source_path
  kept,       \* contents of the .corrupted snapshots nobody works on
  call,       \* what the callers are doing
  worked,     \* history: records whose worker succeeded
  dirty,      \* history: records whose candidate the scan refused
  restored,   \* history: records whose files were restored
  overlapped  \* history: records with two rollbacks at a time

files == <<backup, target, kept>>
marks == <<worked, dirty, restored, overlapped>>
execVars == <<storeVars, mirror, exec, files, call, marks>>

ExecPhases == {"none", "stored", "preparing", "running", "working",
               "completed", "failing", "failed", "finished", "over"}
Wholes == {"current", "backup"}

-----------------------------------------------------------------------------
(* execute_llm_upgrade and execute_plugin_evolution                        *)

(* _map_upgrade_status *)
RowFor(s) ==
  CASE s \in {"copying_source", "scaffolding_candidate", "running", "active"}
         -> "in_progress"
    [] s = "completed" -> "done"
    [] s = "failed" -> "failed"
    [] s \in {"cancelled", "cleaned_up"} -> "cancelled"
    [] OTHER -> "todo"

SyncOk(r) == Syncs(r, RowFor(Status(r)))
SyncFails(r) == SyncRaises(r, RowFor(Status(r)))

FirstStatus ==
  [llm |-> "running", create |-> "scaffolding_candidate", plugin |-> "copying_source"]

GoOn(r, p) == exec' = [exec EXCEPT ![r] = p]

(* What an execution may find out is kept by the record's own thread. *)
Start(r) ==
  /\ exec[r] = "none"
  /\ kind[r] \in DOMAIN FirstStatus
  /\ \/ kind[r] # "create" /\ backup' = backup \cup {r}
     \/ UNCHANGED backup
  /\ LET x == Born(FirstStatus[kind[r]]) IN
       \/ Upsert(r, x) /\ GoOn(r, "stored")
       \/ UpsertRaises(r, x) /\ GoOn(r, "over")
  /\ UNCHANGED <<mirror, target, kept, call, marks>>

(* The first sync and its event come before the try: an exception of either
   leaves the record as it is. *)
FirstSync(r) ==
  /\ exec[r] = "stored"
  /\ \/ SyncOk(r) /\ GoOn(r, IF kind[r] = "llm" THEN "working" ELSE "preparing")
     \/ (SyncOk(r) \/ SyncFails(r)) /\ GoOn(r, "over")
  /\ UNCHANGED <<storeVars, files, call, marks>>

(* The candidate is scaffolded or copied. *)
Prepare(r) ==
  /\ exec[r] = "preparing"
  /\ LET x == [mem[r] EXCEPT !.status = "running"] IN
       \/ Upsert(r, x) /\ GoOn(r, "running")
       \/ (UpsertRaises(r, x) \/ UNCHANGED storeVars) /\ GoOn(r, "failing")
  /\ UNCHANGED <<mirror, files, call, marks>>

RunningSync(r) ==
  /\ exec[r] = "running"
  /\ \/ SyncOk(r) /\ GoOn(r, "working")
     \/ SyncFails(r) /\ GoOn(r, "failing")
  /\ UNCHANGED <<storeVars, files, call, marks>>

(* Mutant: the scan comes after the worker's result is written. *)
ScanLate(r) ==
  /\ exec[r] = "working"
  /\ Touch(r, [mem[r] EXCEPT !.status = "completed"])
  /\ worked' = worked \cup {r}
  /\ \/ GoOn(r, "completed") /\ UNCHANGED dirty
     \/ /\ kind[r] = "plugin"
        /\ dirty' = dirty \cup {r}
        /\ GoOn(r, "failing")
  /\ UNCHANGED <<mirror, files, call, restored, overlapped>>

(* A plugin's candidate is scanned; then the worker or the optimizer runs.
   Success is written to the shared record, and saved later. *)
Work(r) ==
  /\ exec[r] = "working"
  /\ \/ /\ Touch(r, [mem[r] EXCEPT !.status = "completed"])
        /\ worked' = worked \cup {r}
        /\ GoOn(r, "completed")
        /\ UNCHANGED dirty
     \/ /\ kind[r] = "plugin"
        /\ dirty' = dirty \cup {r}
        /\ GoOn(r, "failing")
        /\ UNCHANGED <<storeVars, worked>>
     \/ /\ GoOn(r, "failing")
        /\ UNCHANGED <<storeVars, worked, dirty>>
  /\ UNCHANGED <<mirror, files, call, restored, overlapped>>

(* The event of the success is part of the try. *)
EventFails(r) ==
  /\ exec[r] = "completed"
  /\ GoOn(r, "failing")
  /\ UNCHANGED <<storeVars, mirror, files, call, marks>>

Fail(r) ==
  /\ exec[r] = "failing"
  /\ LET x == [mem[r] EXCEPT !.status = "failed"] IN
       \/ Upsert(r, x) /\ GoOn(r, "failed")
       \/ UpsertRaises(r, x) /\ GoOn(r, "over")
  /\ UNCHANGED <<mirror, files, call, marks>>

(* The record is saved with what others have made of it meanwhile. *)
Finish(r) ==
  /\ exec[r] = "completed"
  /\ \/ Upsert(r, mem[r]) /\ GoOn(r, "finished")
     \/ UpsertRaises(r, mem[r]) /\ GoOn(r, "over")
  /\ UNCHANGED <<mirror, files, call, marks>>

LastSync(r) ==
  /\ exec[r] \in {"failed", "finished"}
  /\ SyncOk(r) \/ SyncFails(r)
  /\ GoOn(r, "over")
  /\ UNCHANGED <<storeVars, files, call, marks>>

Executing(r) ==
  \/ Start(r) \/ FirstSync(r) \/ Prepare(r) \/ RunningSync(r) \/ Work(r)
  \/ EventFails(r) \/ Fail(r) \/ Finish(r) \/ LastSync(r)

-----------------------------------------------------------------------------
(* promote of the publication service.                                     *)

Promote(r) ==
  /\ kind[r] # "phase_d"
  /\ Status(r) = "completed"
  /\ Store(r, [mem[r] EXCEPT !.status = "active", !.version = "candidate"])
  /\ UNCHANGED <<mirror, exec, files, call, marks>>

-----------------------------------------------------------------------------
(* execute_rollback, called by rollback of the publication service or      *)
(* directly by the router of evolution jobs (revert).                      *)

Idle == [op |-> "none", at |-> "idle"]
At(c, ops, p) == call[c].op \in ops /\ call[c].at = p
Rollbacks == {"rollback", "revert"}
InRollback(c, r) == call[c].op \in Rollbacks /\ call[c].rec = r
Advance(c, p) == call' = [call EXCEPT ![c].at = p]

(* How execute_rollback ends.  Its router only answers. *)
End(c, op, r, p) ==
  call' = [call EXCEPT ![c] =
             IF op = "revert" THEN Idle
             ELSE [op |-> op, rec |-> r, at |-> p, moved |-> "none"]]

(* The rollback has failed.  A save that raises ends the caller's request. *)
GiveUp(c, op, r) ==
  LET x == [mem[r] EXCEPT !.status = "rollback_failed"] IN
    \/ Upsert(r, x) /\ End(c, op, r, "refused")
    \/ UpsertRaises(r, x) /\ call' = [call EXCEPT ![c] = Idle]

(* Only the upgrade of a plugin has both a backup and a path to restore. *)
CanRestore(r) == kind[r] = "plugin" /\ r \in backup

(* Mutant: a record there is not is refused like any other. *)
BeginAnyway(c, r, op) ==
  /\ call[c] = Idle
  /\ op = "rollback" => kind[r] # "phase_d"
  /\ \/ /\ Status(r) \in {"completed", "active"}
        /\ CanRestore(r)
        /\ call' = [call EXCEPT ![c] = [op |-> op, rec |-> r, at |-> "rename",
                                        moved |-> "none"]]
        /\ UNCHANGED storeVars
     \/ /\ Status(r) \notin {"completed", "active"}
        /\ End(c, op, r, "refused")
        /\ UNCHANGED storeVars
  /\ UNCHANGED <<mirror, exec, files, marks>>

(* The record must be completed or active, and have the means. *)
BeginRollback(c, r, op) ==
  /\ call[c] = Idle
  /\ Status(r) # "none"
  /\ op = "rollback" => kind[r] # "phase_d"
  /\ \/ /\ Status(r) \in {"completed", "active"}
        /\ CanRestore(r)
        /\ call' = [call EXCEPT ![c] = [op |-> op, rec |-> r, at |-> "rename",
                                        moved |-> "none"]]
        /\ UNCHANGED storeVars
     \/ /\ Status(r) \in {"completed", "active"}
        /\ ~CanRestore(r)
        /\ GiveUp(c, op, r)
     \/ /\ Status(r) \notin {"completed", "active"}
        /\ End(c, op, r, "refused")
        /\ UNCHANGED storeVars
  /\ overlapped' = IF \E d \in Callers : InRollback(d, r)
                   THEN overlapped \cup {r} ELSE overlapped
  /\ UNCHANGED <<mirror, exec, files, worked, dirty, restored>>

(* The files of the target are moved aside, or that fails. *)
Rename(c) ==
  /\ At(c, Rollbacks, "rename")
  /\ LET r == call[c].rec IN
       \/ /\ target[r] # "missing"
          /\ target' = [target EXCEPT ![r] = "missing"]
          /\ call' = [call EXCEPT ![c].at = "copy", ![c].moved = target[r]]
       \/ /\ target[r] = "missing"
          /\ Advance(c, "copy")
          /\ UNCHANGED target
       \/ /\ Advance(c, "undo")
          /\ UNCHANGED target
  /\ UNCHANGED <<storeVars, mirror, exec, backup, kept, marks>>

(* Mutant: the snapshot is removed before the copy begins. *)
TidyFirst(c) ==
  /\ At(c, Rollbacks, "copy")
  /\ \/ /\ target' = [target EXCEPT ![call[c].rec] = "partial"]
        /\ call' = [call EXCEPT ![c].at = "copying", ![c].moved = "none"]
     \/ /\ Advance(c, "undo")
        /\ UNCHANGED target
  /\ UNCHANGED <<storeVars, mirror, exec, backup, kept, marks>>

(* The backup is being copied... *)
StartCopy(c) ==
  /\ At(c, Rollbacks, "copy")
  /\ \/ /\ target' = [target EXCEPT ![call[c].rec] = "partial"]
        /\ Advance(c, "copying")
     \/ /\ Advance(c, "undo")
        /\ UNCHANGED target
  /\ UNCHANGED <<storeVars, mirror, exec, backup, kept, marks>>

(* ... and is there, or the copy breaks off. *)
EndCopy(c) ==
  /\ At(c, Rollbacks, "copying")
  /\ \/ /\ target[call[c].rec] # "missing"
        /\ target' = [target EXCEPT ![call[c].rec] = "backup"]
        /\ restored' = restored \cup {call[c].rec}
        /\ Advance(c, "tidy")
     \/ /\ Advance(c, "undo")
        /\ UNCHANGED <<target, restored>>
  /\ UNCHANGED <<storeVars, mirror, exec, backup, kept, worked, dirty, overlapped>>

(* The snapshot is removed, as far as that succeeds. *)
Tidy(c) ==
  /\ At(c, Rollbacks, "tidy")
  /\ \/ call' = [call EXCEPT ![c].at = "mark", ![c].moved = "none"]
     \/ call' = [call EXCEPT ![c].at = "undo",
                             ![c].moved = IF @ = "none" THEN @ ELSE "partial"]
  /\ UNCHANGED <<storeVars, mirror, exec, files, marks>>

(* An exception: the snapshot is moved back if nothing is in its way, and
   the rollback has failed. *)
Undo(c) ==
  /\ At(c, Rollbacks, "undo")
  /\ LET r == call[c].rec
         m == call[c].moved
     IN /\ IF m # "none" /\ target[r] = "missing"
           THEN target' = [target EXCEPT ![r] = m] /\ UNCHANGED kept
           ELSE /\ kept' = [kept EXCEPT ![r] = @ \cup ({m} \ {"none"})]
                /\ UNCHANGED target
        /\ GiveUp(c, call[c].op, r)
  /\ UNCHANGED <<mirror, exec, backup, marks>>

(* The rollback is done. *)
Mark(c) ==
  /\ At(c, Rollbacks, "mark")
  /\ LET r == call[c].rec
         x == [mem[r] EXCEPT !.status = "cleaned_up", !.triggered = TRUE]
     IN \/ Upsert(r, x) /\ End(c, call[c].op, r, "restored")
        \/ UpsertRaises(r, x) /\ call' = [call EXCEPT ![c] = Idle]
  /\ UNCHANGED <<mirror, exec, files, marks>>

(* Mutant: the answer of execute_rollback is not looked at. *)
PublishAnyway(c) ==
  /\ At(c, {"rollback"}, "restored") \/ At(c, {"rollback"}, "refused")
  /\ Store(call[c].rec, [mem[call[c].rec] EXCEPT !.status = "rolled_back",
                                                 !.triggered = TRUE])
  /\ call' = [call EXCEPT ![c] = Idle]
  /\ UNCHANGED <<mirror, exec, files, marks>>

(* The publication service calls it rolled back. *)
Publish(c) ==
  /\ At(c, {"rollback"}, "restored")
  /\ Store(call[c].rec, [mem[call[c].rec] EXCEPT !.status = "rolled_back",
                                                 !.triggered = TRUE])
  /\ call' = [call EXCEPT ![c] = Idle]
  /\ UNCHANGED <<mirror, exec, files, marks>>

(* ... or failed, also when the record was in no state to be rolled back. *)
Refuse(c) ==
  /\ At(c, {"rollback"}, "refused")
  /\ SetStatus(call[c].rec, "rollback_failed")
  /\ call' = [call EXCEPT ![c] = Idle]
  /\ UNCHANGED <<mirror, exec, files, marks>>

RollingBack(c) ==
  \/ \E r \in Upgrades, op \in Rollbacks : BeginRollback(c, r, op)
  \/ Rename(c) \/ StartCopy(c) \/ EndCopy(c) \/ Tidy(c) \/ Undo(c)
  \/ Mark(c) \/ Publish(c) \/ Refuse(c)
=============================================================================
