--------------------------- MODULE WorkflowBridge ---------------------------
(***************************************************************************)
(* WorkflowTaskBridge: every background job and every upgrade record has a *)
(* row in the tasks table that follows it.  A sync looks the row up by an  *)
(* idempotency key, creates it if there is none, and moves it through the  *)
(* transition table of the task service, which may refuse: operators move  *)
(* the same rows.  A refused move raises in the job's own code.            *)
(***************************************************************************)
EXTENDS TaskStates

CONSTANT
  Noisy    \* jobs and records whose row the noise policy may cancel at birth

VARIABLE
  mirror   \* status of the row found by the key, "none" without one

Mirrored == {"none"} \cup Statuses

(* _transition_task: nothing to do, a legal move, or two of them. *)
Moves(old, new) ==
  \/ old = new
  \/ Legal(old, new)
  \/ old = "todo" /\ new = "done"

(* Where a sync starts from: the row, or a new one, TODO by default. *)
RowStatus(x) == IF mirror[x] = "none" THEN "todo" ELSE mirror[x]

(* A row cancelled by the noise policy gets another key: no sync finds it. *)
MayBeNoise(x) == mirror[x] = "none" /\ x \in Noisy

(* sync_reflection_submission: the row is there or is created. *)
SyncSubmission(x) ==
  \/ /\ mirror[x] = "none"
     /\ mirror' = [mirror EXCEPT ![x] = "waiting_confirmation"]
  \/ /\ mirror[x] # "none" \/ MayBeNoise(x)
     /\ UNCHANGED mirror

(* sync_reflection_status and sync_upgrade_record, when they return... *)
Syncs(x, new) ==
  \/ /\ Moves(RowStatus(x), new)
     /\ mirror' = [mirror EXCEPT ![x] = new]
  \/ /\ MayBeNoise(x)
     /\ new = "cancelled"
     /\ UNCHANGED mirror

(* ... and when they raise. *)
SyncRaises(x, new) ==
  /\ \/ ~Moves(RowStatus(x), new)
     \/ MayBeNoise(x) /\ new # "cancelled"
  /\ UNCHANGED mirror

(* An operator moves the row. *)
Interfere(x, new) ==
  /\ mirror[x] # "none"
  /\ Legal(mirror[x], new)
  /\ mirror' = [mirror EXCEPT ![x] = new]
=============================================================================
