---------------------------- MODULE MCConfigApply ----------------------------
(***************************************************************************)
(* Instances of ConfigApply for TLC.                                       *)
(***************************************************************************)
EXTENDS ConfigApply, TLC

Symmetry == Permutations(Tasks) \cup Permutations(Handlers)
=============================================================================
