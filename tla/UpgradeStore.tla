---------------------------- MODULE UpgradeStore ----------------------------
(***************************************************************************)
(* UpgradeManagementStore: the records of upgrade jobs in memory, shared   *)
(* by reference with everybody who asked for one, and their rows in a      *)
(* SQLite file.  A handler sets the fields of the shared record and saves  *)
(* afterwards.  A save deletes all rows and inserts the records in memory, *)
(* without a transaction: it may raise before, in between or after, which  *)
(* undoes nothing in memory, and the process goes on with rows that do not *)
(* follow it until another save succeeds.                                  *)
(*                                                                         *)
(* Fields and save are one step here.  A handler that was interrupted      *)
(* between the two leaves what one leaves whose save raised at once.       *)
(***************************************************************************)
EXTENDS Naturals

CONSTANTS
  Upgrades,  \* ids of upgrade records
  Mixes      \* the combinations of kinds that may be asked for

Kinds == {"llm", "create", "plugin", "phase_d"}

ASSUME StoreAssumption == Mixes \subseteq [Upgrades -> Kinds \cup {"none"}]

VARIABLES
  kind,  \* what a record is about, "none" when nobody asks for it
  mem,   \* _records
  disk   \* the rows, Absent where there is none

records == <<mem, disk>>
storeVars == <<kind, records>>

Ongoing == {"copying_source", "scaffolding_candidate", "running",
            "canary_running", "active", "degraded"}
Failed == {"failed", "rollback_failed"}
UpgradeStatuses == Ongoing \cup Failed \cup
  {"none", "queued", "completed", "rolled_back", "cancelled", "cleaned_up"}

(* What the handlers look at: the status, current_version,
   evolution_rollback_triggered, and of the payload of phase D whether a
   candidate is live, whether there are activation receipts, and the status
   of the last observation. *)
Contents == [status : UpgradeStatuses, version : {"baseline", "candidate"},
             triggered : BOOLEAN, live : BOOLEAN, receipts : BOOLEAN,
             observed : {"none", "healthy", "degraded"}]

Born(s) == [status |-> s, version |-> "baseline", triggered |-> FALSE,
            live |-> FALSE, receipts |-> FALSE, observed |-> "none"]
Absent == Born("none")

Status(r) == mem[r].status

-----------------------------------------------------------------------------

(* _persist_unlocked raises: the rows are those of before, or the first that
   were inserted; by created_at, which is not told apart. *)
Rows(m, some) == [r \in Upgrades |-> IF r \in some THEN m[r] ELSE Absent]

SaveRaises ==
  disk' = disk \/ \E some \in SUBSET Upgrades : disk' = Rows(mem', some)

(* A field of the shared record is set, and the record not saved. *)
Touch(r, x) ==
  /\ mem' = [mem EXCEPT ![r] = x]
  /\ UNCHANGED <<kind, disk>>

(* upsert, when it returns: every row is as the record in memory... *)
Upsert(r, x) ==
  /\ mem' = [mem EXCEPT ![r] = x]
  /\ disk' = mem'
  /\ UNCHANGED kind

(* ... and when it raises. *)
UpsertRaises(r, x) ==
  /\ mem' = [mem EXCEPT ![r] = x]
  /\ SaveRaises
  /\ UNCHANGED kind

(* What a handler does that ends with it, either way. *)
Store(r, x) == Upsert(r, x) \/ UpsertRaises(r, x)

(* A record that is none of these is saved, and with it these. *)
SaveOthers ==
  /\ UNCHANGED <<kind, mem>>
  /\ disk' = mem \/ SaveRaises

SetStatus(r, s) == Store(r, [mem[r] EXCEPT !.status = s])

(* cancel: nobody in the repository registers a cancel handler, so that an
   ongoing record is refused. *)
Cancel(r) ==
  /\ Status(r) = "queued"
  /\ SetStatus(r, "cancelled")

(* cleanup_failed_candidate *)
CleanUpFailed(r) ==
  /\ kind[r] \in {"create", "plugin"}
  /\ Status(r) \in Failed
  /\ SetStatus(r, "cleaned_up")

(* The process dies and another one loads the rows, and saves them: if that
   raises there are fewer of them, and the next one loads those. *)
Reload ==
  /\ \E some \in SUBSET Upgrades : disk' = Rows(disk, some)
  /\ mem' = disk'
  /\ UNCHANGED kind

StoreInit ==
  /\ kind \in Mixes
  /\ mem = [r \in Upgrades |-> Absent]
  /\ disk = mem

StoreTypeOK ==
  /\ kind \in Mixes
  /\ mem \in [Upgrades -> Contents]
  /\ disk \in [Upgrades -> Contents]
=============================================================================
