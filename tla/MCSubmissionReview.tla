-------------------------- MODULE MCSubmissionReview --------------------------
(***************************************************************************)
(* Instances of SubmissionReview for TLC: one player with two assignments, *)
(* and two clients that may hold a transaction each.                       *)
(***************************************************************************)
EXTENDS SubmissionReview, TLC

CONSTANTS u1, a1, a2, c1, c2

MCOwner == a1 :> u1 @@ a2 :> u1

Symmetry == Permutations({a1, a2}) \cup Permutations({c1, c2})

=============================================================================
