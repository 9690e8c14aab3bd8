------------------------------ MODULE MCAgentRun ------------------------------
(***************************************************************************)
(* Instances of AgentRun for TLC: one submission, and the one or two jobs  *)
(* that verify it.                                                         *)
(***************************************************************************)
EXTENDS AgentRun, TLC

CONSTANTS s1, j1, j2, w1, w2

Symmetry == Permutations({w1, w2})

MCSubject == [j \in Jobs |-> s1]

=============================================================================
