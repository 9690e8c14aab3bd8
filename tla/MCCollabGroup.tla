---------------------------- MODULE MCCollabGroup ----------------------------
(***************************************************************************)
(* Instances of CollabGroup for TLC.                                       *)
(***************************************************************************)
EXTENDS CollabGroup, TLC

CONSTANTS u1, u2, u3, g1, c1, c2

Symmetry == Permutations(Clients) \cup Permutations(Users)

=============================================================================
