--------------------------- MODULE MCLifecycleOps ---------------------------
(***************************************************************************)
(* Two operations of different types for one of two hosts, two worker ids, *)
(* two concurrent Report requests; events as the agent's queue sends them, *)
(* and a result event without a status, which must be refused.             *)
(***************************************************************************)
EXTENDS LifecycleOps, TLC

CONSTANTS h1, h2, w1, w2, none, t1, t2, r0, r1, q1, q2

MCHostOf == [o \in 1..MaxOps |-> h1]
MCTypeOf == [o \in 1..MaxOps |-> IF o = 1 THEN t1 ELSE t2]

MCEvent(event, status, result) ==
  [event |-> event, status |-> status, terminal |-> event = "result", result |-> result]

MCEvents == {MCEvent("accepted", "claimed", r0), MCEvent("progress", "", r1),
             MCEvent("result", "success", r1), MCEvent("result", "failed", r0),
             MCEvent("result", "", r0)}

Symmetry == Permutations({q1, q2}) \cup Permutations({w1, w2})
=============================================================================
