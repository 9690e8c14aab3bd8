---------------------------- MODULE MCQuestIntake ----------------------------
(***************************************************************************)
(* An instance of QuestIntake for TLC: one player, whose requests run at   *)
(* once.  Players share nothing here, so one is enough.                    *)
(***************************************************************************)
EXTENDS QuestIntake

CONSTANTS u1, c1, c2

=============================================================================
