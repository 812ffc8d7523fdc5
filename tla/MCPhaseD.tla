------------------------------ MODULE MCPhaseD ------------------------------
(***************************************************************************)
(* Small instances of the upgrade subsystem: one record of each kind.      *)
(***************************************************************************)
EXTENDS PhaseD, TLC

MCMixes == [Upgrades -> Kinds]
MCSymmetry == Permutations(Callers)
=============================================================================
