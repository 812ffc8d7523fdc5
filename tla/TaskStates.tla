----------------------------- MODULE TaskStates -----------------------------
(***************************************************************************)
(* The status alphabet of a ZentexTask and the transition table that       *)
(* TaskManagementService.update_task_status enforces.                      *)
(***************************************************************************)
EXTENDS Naturals

(* TaskStatus, tasks/models/models.py. *)
Statuses ==
  {"split_required", "assignment_pending", "queued", "todo", "in_progress",
   "blocked", "waiting_confirmation", "suspended", "done", "failed",
   "archived", "cancelled"}

(* The keys of legal_from grouped by the targets their lists allow. *)
Legal(old, new) ==
  \/ /\ old = "split_required"
     /\ new \in {"assignment_pending", "done", "blocked", "failed", "cancelled"}
  \/ /\ old = "assignment_pending"
     /\ new \in {"queued", "blocked", "failed", "suspended", "cancelled"}
  \/ /\ old \in {"queued", "todo"}
     /\ new \in {"in_progress", "blocked", "failed", "suspended", "archived",
                 "cancelled"}
  \/ /\ old = "in_progress"
     /\ new \in {"todo", "waiting_confirmation", "blocked", "done", "failed",
                 "suspended", "archived", "cancelled"}
  \/ /\ old = "blocked"
     /\ new \in {"todo", "in_progress", "failed", "suspended", "archived",
                 "cancelled"}
  \/ /\ old = "waiting_confirmation"
     /\ new \in {"in_progress", "blocked", "done", "failed", "suspended",
                 "archived", "cancelled"}
  \/ /\ old = "suspended"
     /\ new \in {"todo", "in_progress", "blocked", "failed", "archived",
                 "cancelled"}
  \/ /\ old = "done"
     /\ new = "archived"
  \/ /\ old = "failed"
     /\ new \in {"todo", "archived"}

(* The statuses suspend_task accepts. *)
Suspendable == {"assignment_pending", "queued", "todo", "in_progress", "blocked"}

(* The statuses complete_task_with_verification first claims the task from. *)
AutoClaimed == {"todo", "queued"}

(* status_map of intervene: the status each operator action asks for.  The
   two spellings of cancel are one action here. *)
InterventionStatus ==
  [pause     |-> "blocked",
   retry     |-> "todo",
   resume    |-> "in_progress",
   approve   |-> "done",
   reject    |-> "failed",
   take_over |-> "in_progress",
   suspend   |-> "suspended",
   archive   |-> "archived",
   cancel    |-> "cancelled"]
=============================================================================
