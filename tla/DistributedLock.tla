-------------------------- MODULE DistributedLock --------------------------
(***************************************************************************)
(* DiskCacheDistributedLock, the lock of a single node's processes: a key  *)
(* in a shared cache that holds its owner's identifier and expires.  The   *)
(* identifier is made with the lock object, of which every call of         *)
(* create_task has its own.  Used as a context manager the lock does not   *)
(* look at what acquire answers: who has waited too long goes in without.  *)
(***************************************************************************)
EXTENDS Naturals

CONSTANTS
  Resources,  \* what is locked
  Processes,
  NoOne,      \* the owner of a free lock
  Gone,       \* the owner of a lock whose holder died
  MaxMishaps  \* bound: mishaps other than exceptions

ASSUME LockAssumption ==
  /\ NoOne \notin Processes
  /\ Gone \notin Processes \cup {NoOne}
  /\ MaxMishaps \in Nat

VARIABLES
  owner,   \* identifier stored under the lock's key
  mishaps  \* what went wrong so far

(* A lapse is an acquisition that timed out or a lock that expired in use, a
   deletion a call of delete_task, an expiry one of an entry of the shared
   store, "unlogged" an entry of the table whose insert failed, a tear a crash
   that leaves a row without an entry, a crash one elsewhere, and a raise an
   exception out of create_task or of its caller, which needs no bound. *)
MishapKinds == {"lapse", "deletion", "expiry", "unlogged", "tear", "crash", "raise"}

Happens(m) ==
  /\ mishaps["lapse"] + mishaps["deletion"] + mishaps["expiry"]
       + mishaps["unlogged"] + mishaps["tear"] + mishaps["crash"] < MaxMishaps
  /\ mishaps' = [mishaps EXCEPT ![m] = @ + 1]

lockVars == <<owner, mishaps>>

(* acquire, called by __enter__, once for a lock object *)
Acquire(p, x) ==
  \/ /\ owner[x] = NoOne
     /\ owner' = [owner EXCEPT ![x] = p]
     /\ UNCHANGED mishaps
  \/ /\ owner[x] # NoOne
     /\ Happens("lapse")
     /\ UNCHANGED owner

(* The TTL has passed: of a lock in use, or of one nobody will release. *)
Expire(x, inUse) ==
  /\ owner[x] # NoOne
  /\ owner' = [owner EXCEPT ![x] = NoOne]
  /\ IF inUse THEN Happens("lapse") ELSE UNCHANGED mishaps

(* release: the owner is looked at, and then the key deleted, whoever owns
   it by then. *)
IsMine(p, x) == owner[x] = p

Free(x) ==
  /\ owner' = [owner EXCEPT ![x] = NoOne]
  /\ UNCHANGED mishaps

(* The process dies: its lock stays until it expires. *)
Abandon(p) == owner' = [x \in Resources |-> IF owner[x] = p THEN Gone ELSE owner[x]]

LockInit ==
  /\ owner = [x \in Resources |-> NoOne]
  /\ mishaps = [m \in MishapKinds |-> 0]

LockTypeOK ==
  /\ owner \in [Resources -> Processes \cup {NoOne, Gone}]
  /\ mishaps \in [MishapKinds -> Nat]
=============================================================================
