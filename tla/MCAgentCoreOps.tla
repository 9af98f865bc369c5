--------------------------- MODULE MCAgentCoreOps ---------------------------
(***************************************************************************)
(* Two core operations, a call for each, one place in the queue.           *)
(***************************************************************************)
EXTENDS AgentCoreOps, TLC

CONSTANTS s1, s2, s3, s4, other, q1, q2

MCIdOf == [n \in Submissions |-> IF n = s4 THEN other ELSE IF n = s3 THEN 2 ELSE 1]

Symmetry == Permutations({s1, s2}) \cup Permutations(Handlers)
=============================================================================
