--------------------------- MODULE MCCommandQueue ---------------------------
(***************************************************************************)
(* The agent's queue: one worker.  Four calls, two of them for the same    *)
(* command and one of a type without a handler, into channels of length    *)
(* two, so that a call can find the queue full and one can wait behind a   *)
(* running task.                                                           *)
(***************************************************************************)
EXTENDS CommandQueue

CONSTANTS s1, s2, s3, s4, i1, i2, i3, w1, none

MCIdOf == [n \in Submissions |-> IF n \in {s1, s2} THEN i1 ELSE IF n = s3 THEN i2 ELSE i3]
=============================================================================
