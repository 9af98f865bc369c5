---------------------------- MODULE MCUserTraffic ----------------------------
(***************************************************************************)
(* Reports and requests are interchangeable.                               *)
(***************************************************************************)
EXTENDS UserTraffic, TLC

Symmetry == Permutations(Reports) \cup Permutations(Handlers) \cup Permutations(Editors)
=============================================================================
