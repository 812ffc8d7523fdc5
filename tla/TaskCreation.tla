---------------------------- MODULE TaskCreation ----------------------------
(***************************************************************************)
(* create_task with an idempotency key, run by several processes: the key  *)
(* is looked up in a table and in a shared store that forgets, before the  *)
(* lock and again inside it; then come the row, the table's entry and the  *)
(* shared entry, each a write of its own.  An entry whose task has no row  *)
(* is stale and deleted by whoever meets it, and delete_task removes the   *)
(* row and both entries in three writes as well.                           *)
(*                                                                         *)
(* A definition whose comment begins with "Mutant" is a wrong version of   *)
(* the one after it: it shows which property notices that mistake.         *)
(***************************************************************************)
EXTENDS DistributedLock, FiniteSets

CONSTANTS
  NoTask,       \* "no entry"
  MaxCopies     \* bound: rows ever made for one key

(* Keys are what is locked.  The tasks made for one key are numbered. *)
Tasks == Resources \X (1..MaxCopies)
KeyOf(t) == t[1]
Entries == Tasks \cup {NoTask}

ASSUME CreationAssumption ==
  NoTask \notin Tasks /\ MaxCopies \in Nat

VARIABLES
  row,        \* status and depends_on of the rows
  log,        \* idempotency_log
  shared,     \* the shared store tasks:idempotency
  create,     \* the call of create_task a process is in
  deleting    \* the call of delete_task under way

creationVars == <<lockVars, row, log, shared, create, deleting>>

NoRow == [status |-> "absent", deps |-> {}]
HasRow(t) == t # NoTask /\ row[t].status \notin {"absent", "deleted"}
RowsOf(k) == {t \in Tasks : KeyOf(t) = k /\ HasRow(t)}

(* Calls.  The key is looked up before the noise policy and once more after
   it, which is one lookup here, and again inside the lock.  task: the entry
   found, then the answer, with the row as it was read. *)
Out == [at |-> "out", key |-> NoOne, inside |-> FALSE, task |-> NoTask, copy |-> NoRow]
In(p, s) == create[p].at = s
Go(p, s) == create' = [create EXCEPT ![p].at = s]

(* Mutant: the lock is kept when the task is there already. *)
AnswerAtOnce(p, t) ==
  create' = [create EXCEPT ![p].copy = row[t], ![p].at = "answer"]

Answer(p, t) ==
  create' = [create EXCEPT ![p].copy = row[t],
                           ![p].at = IF create[p].inside THEN "leave" ELSE "answer"]

-----------------------------------------------------------------------------

Call(p, k) ==
  /\ In(p, "out")
  /\ create' = [create EXCEPT ![p] = [at |-> "log", key |-> k, inside |-> FALSE,
                                      task |-> NoTask, copy |-> NoRow]]
  /\ UNCHANGED <<lockVars, row, log, shared, deleting>>

(* check_idempotency *)
ReadLog(p) ==
  /\ In(p, "log")
  /\ LET t == log[create[p].key] IN
       create' = [create EXCEPT ![p].task = t,
                                ![p].at = IF t = NoTask THEN "shared" ELSE "heedLog"]
  /\ UNCHANGED <<lockVars, row, log, shared, deleting>>

(* get_task on what was found, and the deletion of a stale entry, which by
   then may be another one. *)
HeedLog(p) ==
  /\ In(p, "heedLog")
  /\ IF HasRow(create[p].task)
     THEN Answer(p, create[p].task) /\ UNCHANGED log
     ELSE /\ log' = [log EXCEPT ![create[p].key] = NoTask]
          /\ create' = [create EXCEPT ![p].task = NoTask, ![p].at = "shared"]
  /\ UNCHANGED <<lockVars, row, shared, deleting>>

(* What follows a lookup without an answer. *)
NextLookup(p) ==
  create' = [create EXCEPT ![p].task = NoTask,
                           ![p].at = IF create[p].inside THEN "write" ELSE "lock"]

ReadShared(p) ==
  /\ In(p, "shared")
  /\ LET t == shared[create[p].key] IN
       IF t = NoTask THEN NextLookup(p)
       ELSE create' = [create EXCEPT ![p].task = t, ![p].at = "heedShared"]
  /\ UNCHANGED <<lockVars, row, log, shared, deleting>>

HeedShared(p) ==
  /\ In(p, "heedShared")
  /\ IF HasRow(create[p].task)
     THEN Answer(p, create[p].task) /\ UNCHANGED shared
     ELSE /\ shared' = [shared EXCEPT ![create[p].key] = NoTask]
          /\ NextLookup(p)
  /\ UNCHANGED <<lockVars, row, log, deleting>>

(* Mutant: no lookup inside the lock. *)
EnterAndWrite(p) ==
  /\ In(p, "lock")
  /\ Acquire(p, create[p].key)
  /\ create' = [create EXCEPT ![p].at = "write", ![p].inside = TRUE]
  /\ UNCHANGED <<row, log, shared, deleting>>

Enter(p) ==
  /\ In(p, "lock")
  /\ Acquire(p, create[p].key)
  /\ create' = [create EXCEPT ![p].at = "log", ![p].inside = TRUE]
  /\ UNCHANGED <<row, log, shared, deleting>>

NewRow == [status |-> "assignment_pending", deps |-> {}]

(* The row, under a fresh id, or the exception when it cannot be written. *)
WriteRow(p) ==
  /\ In(p, "write")
  /\ \/ \E n \in 1..MaxCopies :
          LET k == create[p].key IN
          /\ row[<<k, n>>].status = "absent"
          /\ \A m \in 1..(n - 1) : row[<<k, m>>].status # "absent"
          /\ row' = [row EXCEPT ![<<k, n>>] = NewRow]
          /\ create' = [create EXCEPT ![p].task = <<k, n>>, ![p].copy = NewRow,
                                      ![p].at = "record"]
     \/ Go(p, "leave") /\ UNCHANGED row
  /\ UNCHANGED <<lockVars, log, shared, deleting>>

(* record_idempotency: an insert that fails on a key that is there already
   and may fail on one that is not.  It answers whether it failed, which
   nobody looks at. *)
Record(p) ==
  /\ In(p, "record")
  /\ \/ /\ log' = [log EXCEPT ![create[p].key] = IF @ = NoTask THEN create[p].task
                                                  ELSE @]
        /\ UNCHANGED mishaps
     \/ Happens("unlogged") /\ UNCHANGED log
  /\ Go(p, "share")
  /\ UNCHANGED <<owner, row, shared, deleting>>

Share(p) ==
  /\ In(p, "share")
  /\ shared' = [shared EXCEPT ![create[p].key] = create[p].task]
  /\ Go(p, "leave")
  /\ UNCHANGED <<lockVars, row, log, deleting>>

(* __exit__ *)
Leave(p) ==
  /\ In(p, "leave")
  /\ Go(p, IF IsMine(p, create[p].key) THEN "unlock" ELSE "answer")
  /\ UNCHANGED <<lockVars, row, log, shared, deleting>>

Unlock(p) ==
  /\ In(p, "unlock")
  /\ Free(create[p].key)
  /\ Go(p, "answer")
  /\ UNCHANGED <<row, log, shared, deleting>>

Creating(p) ==
  \/ ReadLog(p) \/ HeedLog(p) \/ ReadShared(p) \/ HeedShared(p) \/ Enter(p)
  \/ WriteRow(p) \/ Record(p) \/ Share(p) \/ Leave(p) \/ Unlock(p)

-----------------------------------------------------------------------------

(* delete_task: the row, unless it runs or others depend on it... *)
NotDeleting == [task |-> NoTask, at |-> "none"]

DeleteRow(t, force) ==
  /\ deleting = NotDeleting
  /\ HasRow(t)
  /\ force \/ /\ row[t].status # "in_progress"
              /\ \A u \in Tasks : HasRow(u) => t \notin row[u].deps
  /\ row' = [row EXCEPT ![t] = [status |-> "deleted", deps |-> {}]]
  /\ deleting' = [task |-> t, at |-> "shared"]
  /\ Happens("deletion")
  /\ UNCHANGED <<owner, log, shared, create>>

(* ... and the entries of its key, whichever task they name by then. *)
DeleteShared ==
  /\ deleting.at = "shared"
  /\ shared' = [shared EXCEPT ![KeyOf(deleting.task)] = NoTask]
  /\ deleting' = [deleting EXCEPT !.at = "log"]
  /\ UNCHANGED <<lockVars, row, log, create>>

DeleteLog ==
  /\ deleting.at = "log"
  /\ log' = [log EXCEPT ![KeyOf(deleting.task)] = NoTask]
  /\ deleting' = NotDeleting
  /\ UNCHANGED <<lockVars, row, shared, create>>

(* Entries of the shared store expire. *)
Forget(k) ==
  /\ shared[k] # NoTask
  /\ shared' = [shared EXCEPT ![k] = NoTask]
  /\ Happens("expiry")
  /\ UNCHANGED <<owner, row, log, create, deleting>>

Using(k) == \E p \in Processes : owner[k] = p /\ create[p].key = k /\ create[p].inside
ExpireLock(k) ==
  /\ Expire(k, Using(k))
  /\ UNCHANGED <<row, log, shared, create, deleting>>

(* The process dies, perhaps with a row written that has no entry yet. *)
Tears(p) ==
  \/ In(p, "record")
  \/ /\ In(p, "share")
     /\ log[create[p].key] = NoTask

Die(p) ==
  /\ Abandon(p)
  /\ create' = [create EXCEPT ![p] = Out]
  /\ Happens(IF Tears(p) THEN "tear" ELSE "crash")
  /\ UNCHANGED <<row, log, shared, deleting>>

CreationInit ==
  /\ LockInit
  /\ row = [t \in Tasks |-> NoRow]
  /\ log = [k \in Resources |-> NoTask]
  /\ shared = [k \in Resources |-> NoTask]
  /\ create = [p \in Processes |-> Out]
  /\ deleting = NotDeleting

CreationTypeOK ==
  /\ LockTypeOK
  /\ \A t \in Tasks : row[t].deps \subseteq Tasks
  /\ \A k \in Resources : {log[k], shared[k]} \subseteq
                            {t \in Tasks : KeyOf(t) = k /\ row[t] # NoRow} \cup {NoTask}
  /\ \A p \in Processes : create[p].task \in Entries
=============================================================================
