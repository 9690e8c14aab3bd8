----------------------------- MODULE AgentPolicy -----------------------------
(***************************************************************************)
(* The deterministic bounds around the verification agent: the time and XP *)
(* curves it may not leave, what counts as location and vision evidence,   *)
(* and the gates between the model's proposal and a decision.              *)
(*                                                                         *)
(* Distances are metres and durations minutes, as in the code.  Every      *)
(* product of the duration curve is a whole number of minutes, so its      *)
(* Math.round is exact.  Confidence and relevance are on ProofPolicy's     *)
(* scale.                                                                  *)
(***************************************************************************)
EXTENDS ProofPolicy

CONSTANTS
  MinMinutes, MaxMinutes, MinXp, MaxXp,       \* the policy's bounds
  ApproveThreshold, RejectThreshold, MinRelevance

\* What the environment's schema checks of the bounds.
ASSUME AgentPolicyAssumption ==
  /\ MinMinutes \in Nat \ {0} /\ MaxMinutes \in Nat /\ MinMinutes <= MaxMinutes
  /\ MinXp \in Nat /\ MaxXp \in Nat /\ MinXp <= MaxXp
  /\ ApproveThreshold \in Nat /\ RejectThreshold \in Nat /\ MinRelevance \in Nat

-----------------------------------------------------------------------------
(* The curves.                                                             *)

Difficulties == {"easy", "medium", "hard"}
Categories == {"thinking", "other"}   \* thinking: learning or creativity

\* participants: how many take part.
Shape == [distance: Nat \cup {None}, destination: BOOLEAN, category: Categories,
          difficulty: Difficulties, participants: Nat]

Clamp(value, low, high) ==
  LET raised == IF value < low THEN low ELSE value
  IN  IF raised > high THEN high ELSE raised

TravelBand(shape) ==
  IF ~shape.destination THEN "none"
  ELSE IF shape.distance = None THEN "unknown"
  ELSE IF shape.distance < 5000 THEN "local"
  ELSE IF shape.distance < 50000 THEN "city"
  ELSE IF shape.distance < 500000 THEN "regional"
  ELSE "far"

HoursByTravel ==
  [none |-> 4, local |-> 12, city |-> 24, regional |-> 72, far |-> 168, unknown |-> 24]

Subtotal(shape) ==
  LET travel == 60 * HoursByTravel[TravelBand(shape)]
      thought == IF shape.category = "thinking" /\ travel < 480 THEN 480 ELSE travel
      effort == CASE shape.difficulty = "medium" -> (thought * 3) \div 2
                  [] shape.difficulty = "hard" -> (thought * 5) \div 2
                  [] OTHER -> thought
  IN  IF shape.participants > 1 THEN effort + 1440 ELSE effort

QuestMinutes(shape) == Clamp(Subtotal(shape), MinMinutes, MaxMinutes)

XpByTravel ==
  [none |-> 0, local |-> 5, city |-> 15, regional |-> 35, far |-> 60, unknown |-> 10]

XpByDifficulty == [easy |-> 0, medium |-> 10, hard |-> 25]

QuestXp(shape) ==
  Clamp(MinXp + XpByTravel[TravelBand(shape)] + XpByDifficulty[shape.difficulty]
          + (IF shape.participants > 1 THEN 5 ELSE 0), MinXp, MaxXp)

\* The model's figure, clamped; None when it gave no valid one.
RecommendedXp(shape, answer) == IF answer = None THEN QuestXp(shape) ELSE Clamp(answer, MinXp, MaxXp)
RecommendedMinutes(shape, answer) ==
  IF answer = None THEN QuestMinutes(shape) ELSE Clamp(answer, MinMinutes, MaxMinutes)

-----------------------------------------------------------------------------
(* Evidence.                                                               *)

MandatoryCapabilities == {"location_verification", "location_retrieval", "geofencing"}
NetworkOutcomes == {"supported", "contradicted", "unavailable", "error"}

\* network: the outcome per capability; a capability nobody reported is absent.
MandatoryStatus(network) ==
  IF \E c \in MandatoryCapabilities :
       c \notin DOMAIN network \/ network[c] \in {"unavailable", "error"}
  THEN "unavailable"
  ELSE IF \A c \in MandatoryCapabilities : network[c] = "supported"
  THEN "supported" ELSE "contradicted"

NoVision(status) == [status |-> status, relevance |-> None, blocks |-> FALSE]

\* What the stored finding of the proof pass becomes for the agent.  findings
\* is None until the file has been measured.
CvEvidence(row, verifiability) ==
  IF row.state = "failed" THEN NoVision("failed")
  ELSE IF row.state # "complete" THEN NoVision("unavailable")
  ELSE IF verifiability = "content" /\ ~row.observed /\ row.relevance = None THEN NoVision("unavailable")
  ELSE [status |-> "available",
        relevance |-> IF verifiability = "content" THEN row.relevance ELSE None,
        blocks |-> row.findings # None /\ row.findings \cap {"decisive", "strong"} # {}]

-----------------------------------------------------------------------------
(* The gates.  Each can only send the proposal to a person.                *)

Proposals == {"approved", "rejected", "human_review"}

NetworkDecides(proposal, location) == location = "contradicted" /\ proposal.decision = "rejected"

ContractForbids(proposal, contract) ==
  \/ proposal.decision = "rejected" /\ ~contract.mayAutoReject
  \/ proposal.decision = "approved" /\ ~contract.mayAutoApprove

\* location is None for a quest without a destination.
MediaForbids(proposal, contract, vision, location) ==
  \/ vision.status # "available" /\ ~NetworkDecides(proposal, location)
  \/ /\ proposal.decision = "rejected" /\ contract.verifiability = "content"
     /\ vision.relevance = None /\ ~NetworkDecides(proposal, location)
  \/ proposal.decision = "approved" /\ vision.blocks
  \/ /\ proposal.decision = "approved" /\ contract.verifiability = "content"
     /\ vision.relevance # None /\ vision.relevance < MinRelevance

\* Variant: a missing network answer is taken for a contradiction.
LocationForbidsApproval(proposal, location) ==
  location \in {"unavailable", "contradicted"} /\ proposal.decision = "approved"

LocationForbids(proposal, location) ==
  \/ location = "unavailable"
  \/ location = "contradicted" /\ proposal.decision = "approved"

Unconvincing(proposal) ==
  \/ proposal.conflicts
  \/ proposal.decision = "approved" /\ proposal.confidence < ApproveThreshold
  \/ proposal.decision = "rejected" /\ proposal.confidence < RejectThreshold

FinalizeDecision(proposal, contract, vision, location) ==
  IF \/ ContractForbids(proposal, contract)
     \/ MediaForbids(proposal, contract, vision, location)
     \/ LocationForbids(proposal, location)
     \/ Unconvincing(proposal)
  THEN "human_review" ELSE proposal.decision

=============================================================================
