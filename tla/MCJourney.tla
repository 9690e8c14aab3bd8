------------------------------ MODULE MCJourney ------------------------------
(***************************************************************************)
(* Instances of Journey for TLC: a chain of two checkpoints, a try of each *)
(* and a retake of the first.                                              *)
(***************************************************************************)
EXTENDS Journey

CONSTANTS t1, t2, retake, w1, w2

MCStageOf == [t \in Events |-> IF t = t2 THEN 2 ELSE 1]

=============================================================================
