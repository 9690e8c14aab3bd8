------------------------- MODULE MCProofVerification -------------------------
(***************************************************************************)
(* Instances of ProofVerification for TLC.                                 *)
(***************************************************************************)
EXTENDS ProofVerification, TLC

CONSTANTS s1, s2, w1, w2

Symmetry == Permutations({w1, w2})

=============================================================================
