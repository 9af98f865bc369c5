--------------------------- MODULE MCAgentCommands ---------------------------
(***************************************************************************)
(* One or two commands and one internal task.                              *)
(***************************************************************************)
EXTENDS AgentCommands, TLC

CONSTANTS s1, s2, s3, s4, task, q1, q2

MCIdOf == [n \in Submissions |-> IF n = s4 THEN task ELSE IF n = s3 THEN 2 ELSE 1]

Symmetry == Permutations({s1, s2}) \cup Permutations(Handlers)
=============================================================================
