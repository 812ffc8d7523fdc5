----------------------- MODULE MCMissionDecomposition -----------------------
(***************************************************************************)
(* Small instances of the decomposition of a mission.                      *)
(***************************************************************************)
EXTENDS MissionDecomposition, TLC

(* Two steps, of which the second needs the first. *)
MCPlan == <<"k1", "k2">>
MCNeeds == ("k1" :> {}) @@ ("k2" :> {"k1"})
MCSymmetry == Permutations(Processes)
=============================================================================
