-------------------------- MODULE MCRefreshSessions --------------------------
(***************************************************************************)
(* An instance of RefreshSessions for TLC.                                 *)
(***************************************************************************)
EXTENDS RefreshSessions, TLC

CONSTANTS c1, c2

Symmetry == Permutations(Clients)

=============================================================================
