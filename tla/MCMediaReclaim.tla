---------------------------- MODULE MCMediaReclaim ----------------------------
(***************************************************************************)
(* Instances of MediaReclaim for TLC.                                      *)
(***************************************************************************)
EXTENDS MediaReclaim, TLC

CONSTANTS o1, o2, c1, c2, s1

Symmetry == Permutations(Objects) \cup Permutations(Devices) \cup Permutations(Sweepers)

=============================================================================
