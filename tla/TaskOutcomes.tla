---------------------------- MODULE TaskOutcomes ----------------------------
(***************************************************************************)
(* What the task service promises of a task, whatever calls, faults,       *)
(* restarts and suspensions it goes through: it is open until it is        *)
(* finished; a finished task can only be filed away; a failed one may be   *)
(* reopened; a closed one stays closed; and work whose outcome was         *)
(* accepted by verification is never reopened.                             *)
(***************************************************************************)
CONSTANTS Tasks, Verified

VARIABLES phase, accepted

Phases == {"unborn", "open", "done", "failed", "closed", "gone"}

OutcomesInit ==
  /\ phase = [t \in Tasks |-> "unborn"]
  /\ accepted = {}

Advance(t, from, to) ==
  /\ phase[t] \in from
  /\ phase' = [phase EXCEPT ![t] = to]

Open(t) == Advance(t, {"unborn", "failed"}, "open") /\ UNCHANGED accepted

(* A payload the noise policy rejects is born closed. *)
Close(t) ==
  Advance(t, {"unborn", "open", "done", "failed"}, "closed") /\ UNCHANGED accepted

(* Finished without an accepted outcome on record: the contract asks for no
   verification, an operator confirms a task that waits for confirmation, or
   the record of the outcome is lost. *)
Finish(t) == Advance(t, {"open"}, "done") /\ UNCHANGED accepted

(* Finished because verification accepted the outcome. *)
Accept(t) ==
  /\ t \in Verified
  /\ Advance(t, {"open"}, "done")
  /\ accepted' = accepted \cup {t}

Fail(t) == Advance(t, {"open"}, "failed") /\ UNCHANGED accepted

Remove(t) ==
  Advance(t, {"open", "done", "failed", "closed"}, "gone") /\ UNCHANGED accepted

OutcomesNext ==
  \E t \in Tasks :
    Open(t) \/ Close(t) \/ Finish(t) \/ Accept(t) \/ Fail(t) \/ Remove(t)

OutcomesSpec == OutcomesInit /\ [][OutcomesNext]_<<phase, accepted>>
=============================================================================
