--------------------------- MODULE MCTaskLifecycle ---------------------------
(* TaskLifecycle on small instances. *)
EXTENDS TaskLifecycle, TLC

(* Keys and call slots are interchangeable: no definition tells them apart. *)
Interchangeable == Permutations(Keys) \cup Permutations(Calls)

(* Where no task is verified, retriable or escalating, tasks are too. *)
InterchangeableTasks == Permutations(Tasks)
=============================================================================
