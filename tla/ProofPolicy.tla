----------------------------- MODULE ProofPolicy -----------------------------
(***************************************************************************)
(* What the AI proof pass measures about a file and what it may conclude:  *)
(* the forensic findings, the ladder of models, and the decision.          *)
(*                                                                         *)
(* Times are integers on one scale; captured is what the file's clock      *)
(* says, read as UTC.  Confidence and relevance are numbers or None.  A    *)
(* finding keeps its weight, which is all a decision reads; the wording    *)
(* and the reassuring ('info') findings are left out.                      *)
(***************************************************************************)
EXTENDS Integers, FiniteSets

CONSTANTS
  None,
  ApproveMin, RejectMin,   \* the two confidence bars
  NearDistance,            \* AI_VERIFICATION_NEAR_DUPLICATE_DISTANCE
  MaxUtcOffset, SubmissionGrace,
  HashRows, HashColumns    \* 8 by 8 in the code

\* The environment's schema refuses a reject bar below the approve bar.
ASSUME ProofPolicyAssumption ==
  /\ ApproveMin \in Nat /\ RejectMin \in Nat /\ ApproveMin <= RejectMin
  /\ NearDistance \in Nat /\ MaxUtcOffset \in Nat /\ SubmissionGrace \in Nat
  /\ HashRows \in Nat /\ HashColumns \in Nat
  /\ None \notin Int

-----------------------------------------------------------------------------
(* Measurements of one file.                                               *)

\* Without an offset in the file the comparison is widened by the largest
\* offset a clock can have.
CaptureWindow(captured, hasOffset, assignedAt, submittedAt) ==
  LET tolerance == IF hasOffset THEN 0 ELSE MaxUtcOffset
  IN  IF captured = None THEN "unknown"
      ELSE IF captured < assignedAt - tolerance THEN "predates_assignment"
      ELSE IF captured > submittedAt + tolerance + SubmissionGrace THEN "after_submission"
      ELSE "within_window"

HashPositions == (1..HashRows) \X (1..HashColumns)

\* One more column of pixels than of bits: each is compared with its right neighbour.
Bitmaps(shades) == [(1..HashRows) \X (1..(HashColumns + 1)) -> shades]

\* The positions whose bit is 1; no hash when all the bits are alike.
DifferenceHash(bitmap) ==
  LET ones == {p \in HashPositions : bitmap[p] > bitmap[<<p[1], p[2] + 1>>]}
  IN  IF ones = {} \/ ones = HashPositions THEN None ELSE ones

HammingDistance(left, right) == Cardinality((left \ right) \cup (right \ left))

Finding(weight, holds) == IF holds THEN {weight} ELSE {}

\* The weights of the findings about a file.  copyOf: the proof it repeats,
\* as [exact, own], or None.
ForensicsReport(file, assignedAt, submittedAt, copyOf) ==
  LET window == CaptureWindow(file.captured, file.hasOffset, assignedAt, submittedAt)
  IN  UNION {
        Finding("decisive", window = "predates_assignment"),
        Finding("weak", window = "unknown"),
        Finding("decisive", file.software = "generative"),
        Finding("weak", ~file.camera),
        Finding("strong", file.screenSized /\ ~file.camera),
        IF copyOf = None THEN {}
        ELSE Finding(IF copyOf.exact \/ ~copyOf.own THEN "decisive" ELSE "strong", TRUE)}

Weights == {"weak", "strong", "decisive"}

\* What is reported of a proof none of whose files could be read.
NothingMeasured ==
  [captured |-> None, hasOffset |-> FALSE, software |-> "none", camera |-> FALSE, screenSized |-> FALSE]

-----------------------------------------------------------------------------
(* The ladder of models.                                                   *)

Tiers == {"triage", "deep", "reject_review"}

Sure(analysis, bar) == analysis.confidence # None /\ analysis.confidence >= bar

\* Below the bar of its rung, or without a number, an opinion is no opinion.
ApplyConfidenceFloor(analysis, bar) ==
  IF analysis.verdict = "unclear" \/ Sure(analysis, bar) THEN analysis
  ELSE [analysis EXCEPT !.verdict = "unclear"]

Floor(tier) == IF tier = "reject_review" THEN RejectMin ELSE ApproveMin

\* The rung after this one; None stops.
NextTier(tier, analysis) ==
  CASE tier = "triage" /\ analysis.verdict = "fail" -> "reject_review"
    [] tier = "triage" /\ analysis.verdict = "pass" /\ Sure(analysis, ApproveMin) -> None
    [] tier = "triage" /\ analysis.verdict # "fail"
         /\ ~(analysis.verdict = "pass" /\ Sure(analysis, ApproveMin)) -> "deep"
    [] tier = "deep" /\ analysis.verdict = "fail" -> "reject_review"
    [] OTHER -> None

-----------------------------------------------------------------------------
(* The decision.                                                           *)

Decided(decision, stage) == [decision |-> decision, stage |-> stage]
May(allowed, decision, stage) == Decided(IF allowed THEN decision ELSE "escalate", stage)

\* Variant: only the content of the proof is asked.
DecideOnContent(contract, report, analysis) ==
  IF contract.verifiability # "content" THEN May(contract.mayAutoApprove, "approve", "forensics")
  ELSE IF analysis = None THEN Decided("escalate", "forensics")
  ELSE CASE analysis.verdict = "fail" ->
              May(contract.mayAutoReject /\ Sure(analysis, RejectMin), "reject", analysis.tier)
         [] analysis.verdict = "pass" ->
              May(contract.mayAutoApprove /\ Sure(analysis, ApproveMin), "approve", analysis.tier)
         [] OTHER -> Decided("escalate", analysis.tier)

\* analysis is None when no model was asked.
Decide(contract, report, analysis) ==
  IF "decisive" \in report THEN May(contract.mayAutoReject, "reject", "forensics")
  ELSE IF contract.verifiability = "none" THEN May(contract.mayAutoApprove, "approve", "forensics")
  ELSE IF contract.verifiability = "provenance_only"
    THEN May(contract.mayAutoApprove /\ "strong" \notin report, "approve", "forensics")
  ELSE IF analysis = None THEN Decided("escalate", "forensics")
  ELSE CASE analysis.verdict = "fail" ->
              May(/\ analysis.tier = "reject_review"
                  /\ contract.mayAutoReject
                  /\ Sure(analysis, RejectMin), "reject", analysis.tier)
         [] analysis.verdict = "pass" ->
              May(/\ "strong" \notin report
                  /\ contract.mayAutoApprove
                  /\ Sure(analysis, ApproveMin), "approve", analysis.tier)
         [] OTHER -> Decided("escalate", analysis.tier)

=============================================================================
