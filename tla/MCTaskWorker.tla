---------------------------- MODULE MCTaskWorker ----------------------------
(* TaskWorker on small instances. *)
EXTENDS TaskWorker, TLC

CONSTANTS t1, t2

(* t2 depends on t1.  list_tasks returns the newer of two rows of the same
   priority first, and a task is created after what it depends on. *)
NewestFirst == <<t2, t1>>
Chain == t1 :> {} @@ t2 :> {t1}
=============================================================================
