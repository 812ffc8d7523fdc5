--------------------------- MODULE LeaderElection ---------------------------
(***************************************************************************)
(* LeaderElection: a key in a cache all nodes share names the leader and   *)
(* expires.  try_acquire adds the key if there is none; otherwise it reads *)
(* whose it is, and writes it anew if it is its own.  Each of these is one *)
(* operation on the cache, and between two of them the key may expire and  *)
(* somebody else may add it.  The Redis client and the disk cache are used *)
(* in the same order.  Nobody calls release.                               *)
(*                                                                         *)
(* A definition whose comment begins with "Mutant" is a wrong version of   *)
(* the one after it: it shows which property notices that mistake.         *)
(***************************************************************************)
EXTENDS Naturals

CONSTANTS
  Nodes,     \* node_id of every process, one caller of try_acquire each
  Vacant,    \* the key is not there
  Departed,  \* the key names a process that died
  MaxCrashes \* bound: processes that die

ASSUME ElectionAssumption ==
  /\ Vacant \notin Nodes
  /\ Departed \notin Nodes \cup {Vacant}
  /\ MaxCrashes \in Nat

VARIABLES
  leader,  \* what the key holds
  seat,    \* where each node is: in or out of its term, or in try_acquire
  late,    \* history: nodes whose term is no longer covered by the key
  crashes  \* processes that died so far

electionVars == <<leader, seat, late, crashes>>

(* A node that counts on the key: it has seen its own name in it, or it has
   been told that it leads. *)
Counting(n) == seat[n] \in {"extending", "leading"}

(* Whose term a change of the key takes away. *)
Overtaken == {n \in Nodes : n = leader /\ Counting(n)}

ElectionInit ==
  /\ leader = Vacant
  /\ seat = [n \in Nodes |-> "out"]
  /\ late = {}
  /\ crashes = 0

(* add, the first operation of try_acquire. *)
TryAdd(n) ==
  /\ seat[n] = "out"
  /\ \/ /\ leader = Vacant
        /\ leader' = n
        /\ seat' = [seat EXCEPT ![n] = "leading"]
     \/ /\ leader # Vacant
        /\ seat' = [seat EXCEPT ![n] = "refused"]
        /\ UNCHANGED leader
  /\ UNCHANGED <<late, crashes>>

(* Mutant: whoever is refused extends the lease there is. *)
ReadAnybody(n) ==
  /\ seat[n] = "refused"
  /\ seat' = [seat EXCEPT ![n] = "extending"]
  /\ UNCHANGED <<leader, late, crashes>>

(* get: another's name, or none any more, is a refusal. *)
ReadLeader(n) ==
  /\ seat[n] = "refused"
  /\ seat' = [seat EXCEPT ![n] = IF leader = n THEN "extending" ELSE "out"]
  /\ UNCHANGED <<leader, late, crashes>>

(* set, whoever the key names by now.  The history blames what this does to
   another's term on the lease that ran out after get. *)
Extend(n) ==
  /\ seat[n] = "extending"
  /\ leader' = n
  /\ seat' = [seat EXCEPT ![n] = "leading"]
  /\ late' = IF n \in late THEN late \cup Overtaken ELSE late
  /\ UNCHANGED crashes

(* What the leader does with its term is over. *)
EndTerm(n) ==
  /\ seat[n] = "leading"
  /\ seat' = [seat EXCEPT ![n] = "out"]
  /\ late' = late \ {n}
  /\ UNCHANGED <<leader, crashes>>

(* Mutant: a key without TTL, which only its owner gives up. *)
GivenUp ==
  /\ leader \in Nodes
  /\ leader' = Vacant
  /\ late' = late \cup Overtaken
  /\ UNCHANGED <<seat, crashes>>

(* The key's TTL has passed, in the middle of a term or after it. *)
Lapse ==
  /\ leader # Vacant
  /\ leader' = Vacant
  /\ late' = late \cup Overtaken
  /\ UNCHANGED <<seat, crashes>>

(* A process dies; the one in its place has another node_id. *)
Depart(n) ==
  /\ crashes < MaxCrashes
  /\ leader' = IF leader = n THEN Departed ELSE leader
  /\ seat' = [seat EXCEPT ![n] = "out"]
  /\ late' = late \ {n}
  /\ crashes' = crashes + 1

ElectionNext ==
  \/ \E n \in Nodes : \/ TryAdd(n) \/ ReadLeader(n) \/ Extend(n)
                      \/ EndTerm(n) \/ Depart(n)
  \/ Lapse

ElectionSpec == ElectionInit /\ [][ElectionNext]_electionVars

(* Every variable has its type; only who counts on the key can be late. *)
ElectionTypeOK ==
  /\ leader \in Nodes \cup {Vacant, Departed}
  /\ seat \in [Nodes -> {"out", "refused", "extending", "leading"}]
  /\ late \subseteq {n \in Nodes : Counting(n)}
  /\ crashes \in 0..MaxCrashes

(* Two nodes lead at once only if the lease of one of them ran out while it
   led or was about to extend it, or if such a late extension overwrote it:
   as long as terms are shorter than the TTL there is one leader, however the
   three operations of try_acquire interleave and whoever dies. *)
OneLeader ==
  \A m, n \in Nodes :
    (m # n /\ seat[m] = "leading" /\ seat[n] = "leading") => {m, n} \cap late # {}
=============================================================================
