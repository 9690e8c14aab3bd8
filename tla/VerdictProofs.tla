---------------------------- MODULE VerdictProofs ----------------------------
(***************************************************************************)
(* Theorems about the two verifiers (Verdicts) and the rules they apply    *)
(* (ProofPolicy, AgentPolicy).                                             *)
(*                                                                         *)
(* Passes of a submission may overlap and rewrite one row, so what a       *)
(* decision rests on is followed in the position of the pass that makes    *)
(* it, and tied to the file: a report that was made from it says at least  *)
(* what the file says of itself.  About the row itself more is known while no two passes have *)
(* overlapped, and about an appeal while nothing is left to be done for it.*)
(*                                                                         *)
(* The parts of the invariant are about values (a submission, the flags, a *)
(* row, a position), so that a step is a change of their arguments.        *)
(***************************************************************************)
EXTENDS Verdicts, TLAPS

\* What the columns of a row say together, whoever wrote them.
Measured(submitted, r) ==
  /\ Examined(r.findings) => Report(submitted, None) \subseteq r.findings
  /\ r.verdict # None => r.state = "complete"

TwoDoubters(doubters) == "reject_review" \in doubters /\ doubters # {"reject_review"}

\* What a pass that is about to act has found.
Grounded(submitted, p) ==
  /\ p.decision = "approve" =>
       /\ submitted.contract.mayAutoApprove
       /\ Examined(p.report) =>
            /\ "decisive" \notin Report(submitted, None)
            /\ "strong" \in Report(submitted, None) => submitted.contract.verifiability = "none"
       /\ submitted.contract.verifiability = "content" =>
            p.analysis # None /\ p.analysis.verdict = "pass" /\ Sure(p.analysis, ApproveMin)
  /\ p.decision = "reject" =>
       /\ submitted.contract.mayAutoReject
       /\ "decisive" \in p.report \/ TwoDoubters(p.doubters)

\* Each position of a pass knows what the steps before it found.
Informed(submitted, flags, r, p) ==
  /\ p.at \in {"ladder", "conclude"} /\ Examined(p.report) => Report(submitted, None) \subseteq p.report
  /\ p.at = "ladder" /\ p.tier = "reject_review" => \E t \in p.doubters : t # "reject_review"
  /\ p.at = "conclude" /\ p.analysis # None =>
       (p.analysis.verdict = "fail" /\ p.analysis.tier = "reject_review" => TwoDoubters(p.doubters))
  /\ p.at = "act" =>
       ~flags.agent /\ ~flags.shadow /\ r.state = "complete" /\ Grounded(submitted, p)

\* And so does the agent.
Weighed(submitted, flags, r, e) ==
  /\ e.at # "idle" => flags.agent
  /\ e.at = "decided" /\ e.decision = "approved" =>
       /\ submitted.contract.mayAutoApprove
       /\ Examined(e.read) => Report(submitted, None) \cap {"decisive", "strong"} = {}
       /\ r.state = "complete"
       /\ submitted.located => e.location = "supported"
  /\ e.at = "decided" /\ e.decision = "rejected" =>
       /\ submitted.contract.mayAutoReject
       /\ \/ e.location = "contradicted"
          \/ /\ r.state = "complete"
             /\ submitted.located => e.location = "supported"
             /\ submitted.contract.verifiability = "content" => e.vision.relevance # None

Alone(passes) == \A v, w \in Workers : passes[v] # Idle /\ passes[w] # Idle => v = w

\* A pass that runs alone finds in the row what it wrote there, if there was a
\* row to write to.
OwnRow(r, p) ==
  /\ p.at \in {"skip", "listed", "measure", "compare", "unread", "ladder", "conclude"} => r.state # "complete"
  /\ p.at \in {"ladder", "conclude"} => r.findings \in {None, p.report}
  /\ p.at = "act" => r.acted /\ r.verdict = Verdict[p.decision]

Says(r) == IF r.findings = None THEN {} ELSE r.findings

Clean(r) == r.state = "complete" /\ Says(r) \cap {"decisive", "strong"} = {}

\* An agent about to approve has seen the row as it still is.
Seen(r, e) == e.at = "decided" /\ e.decision = "approved" => Clean(r)

OneStory(r, outcome, who) ==
  /\ r.verdict = "pass" => "decisive" \notin Says(r)
  /\ who = "pass" =>
       r.state = "complete" /\ r.acted /\ r.verdict = (IF outcome = "approved" THEN "pass" ELSE "fail")
  /\ who = "agent" /\ outcome = "approved" => Clean(r)

\* Nothing but an eval pass runs, and nothing else can begin.
AtRest(r, passes, evaluations, who) ==
  /\ r.state \in {"complete", "skipped"}
  /\ \A w \in Workers : evaluations[w] = Idle /\ (passes[w] # Idle => passes[w].kind = "eval")
  /\ who \notin Automated

Sound(s) ==
  /\ Measured(proof[s], row[s])
  /\ \A w \in Workers : /\ Informed(proof[s], config, row[s], pass[s][w])
                         /\ Weighed(proof[s], config, row[s], agent[s][w])
  /\ s \notin crowded =>
       /\ Alone(pass[s])
       /\ \A w \in Workers : OwnRow(row[s], pass[s][w]) /\ Seen(row[s], agent[s][w])
       /\ OneStory(row[s], status[s], decider[s])
  /\ s \in settled => s \in appealed /\ AtRest(row[s], pass[s], agent[s], decider[s])

IInv == TypeOK /\ \A s \in Submissions : Sound(s)

-----------------------------------------------------------------------------
(* The rules, for every input.                                             *)

LEMMA ReportFacts ==
  ASSUME TypeOK, NEW s \in Submissions, NEW read \in BOOLEAN, NEW report \in Reports(s, read)
  PROVE  report \in Reported /\ (Examined(report) => Report(proof[s], None) \subseteq report)
  <1>1. \A file, a, b, copyOf : ForensicsReport(file, a, b, copyOf) \subseteq Weights
    <2> SUFFICES ASSUME NEW file, NEW a, NEW b, NEW copyOf
                 PROVE  ForensicsReport(file, a, b, copyOf) \subseteq Weights
      OBVIOUS
    <2> QED  BY Zenon DEF ForensicsReport, Finding, Weights
  <1>2. \A file, a, b, copyOf : ForensicsReport(file, a, b, None) \subseteq ForensicsReport(file, a, b, copyOf)
    <2> SUFFICES ASSUME NEW file, NEW a, NEW b, NEW copyOf
                 PROVE  ForensicsReport(file, a, b, None) \subseteq ForensicsReport(file, a, b, copyOf)
      OBVIOUS
    <2> DEFINE others == {Finding("decisive", CaptureWindow(file.captured, file.hasOffset, a, b) = "predates_assignment"),
                          Finding("weak", CaptureWindow(file.captured, file.hasOffset, a, b) = "unknown"),
                          Finding("decisive", file.software = "generative"),
                          Finding("weak", ~file.camera),
                          Finding("strong", file.screenSized /\ ~file.camera)}
               copied(c) == IF c = None THEN {}
                            ELSE Finding(IF c.exact \/ ~c.own THEN "decisive" ELSE "strong", TRUE)
    <2>1. \A c : ForensicsReport(file, a, b, c) = UNION (others \cup {copied(c)})
      BY Zenon DEF ForensicsReport
    <2>2. copied(None) = {}
      OBVIOUS
    <2> HIDE DEF others, copied
    <2> QED  BY <2>1, <2>2
  <1>3. \A submitted, copyOf : Report(submitted, copyOf) \in Reported
    BY <1>1 DEF Report, Reported, Notes, Finding
  <1>4. \A submitted, copyOf : Report(submitted, None) \subseteq Report(submitted, copyOf)
    BY <1>2 DEF Report
  <1>5. CASE read
    <2>1. PICK copyOf : report = Report(proof[s], copyOf)
      BY <1>5 DEF Reports
    <2> QED  BY <1>3, <1>4, <2>1
  <1>6. CASE ~read
    <2> DEFINE unread == [proof[s] EXCEPT !.file = None]
    <2>1. report = Report(unread, None)
      BY <1>6 DEF Reports
    <2>2. unread.file = None
      BY VerdictsAssumption DEF TypeOK
    <2> HIDE DEF unread
    <2>3. "unexamined" \in Report(unread, None)
      BY <2>2 DEF Report, Finding
    <2> QED  BY <1>3, <2>1, <2>3 DEF Examined
  <1> QED  BY <1>5, <1>6

\* An approval needs leave, no decisive finding and, where content decides, a
\* sure model; a rejection leave and either a decisive finding or the last rung.
LEMMA DecideFacts ==
  ASSUME NEW contract, NEW report \in Reported, NEW analysis \in Analyses \cup {None}
  PROVE  LET outcome == Decide(contract, report, analysis)
         IN  /\ outcome.decision \in {"approve", "reject", "escalate"}
             /\ outcome.stage \in Tiers \cup {"forensics"}
             /\ outcome.decision = "approve" =>
                  /\ contract.mayAutoApprove /\ "decisive" \notin report
                  /\ "strong" \in report => contract.verifiability = "none"
             /\ outcome.decision = "approve" /\ contract.verifiability = "content" =>
                  analysis # None /\ analysis.verdict = "pass" /\ Sure(analysis, ApproveMin)
             /\ outcome.decision = "reject" =>
                  /\ contract.mayAutoReject
                  /\ \/ "decisive" \in report
                     \/ analysis # None /\ analysis.verdict = "fail" /\ analysis.tier = "reject_review"
  <1>1. CASE analysis = None
    BY <1>1 DEF Decide, May, Decided
  <1>2. CASE analysis # None
    <2>1. analysis.verdict \in {"pass", "fail", "unclear"} /\ analysis.tier \in Tiers
      BY <1>2 DEF Analyses
    <2> QED  BY <1>2, <2>1 DEF Decide, May, Decided
  <1> QED  BY <1>1, <1>2

\* The ladder asks its top rung only about a proof that a lower one doubts.
LEMMA NextTierFacts ==
  ASSUME NEW tier \in Tiers, NEW analysis, NextTier(tier, analysis) # None
  PROVE  /\ NextTier(tier, analysis) \in Tiers
         /\ NextTier(tier, analysis) = "reject_review" => analysis.verdict = "fail" /\ tier # "reject_review"
  BY DEF NextTier, Tiers

LEMMA FloorFacts ==
  ASSUME NEW answer \in Answers, NEW bar
  PROVE  ApplyConfidenceFloor(answer, bar) \in
           [verdict: {"pass", "fail", "unclear"}, confidence: Nat \cup {None},
            relevance: Nat \cup {None}, observed: BOOLEAN]
  BY VerdictsAssumption DEF ApplyConfidenceFloor

\* Every gate in the way of an automated decision of the agent: leave of the
\* contract, evidence that was examined, and a network that answered.
LEMMA FinalizeFacts ==
  ASSUME NEW proposal, proposal.decision \in Proposals, NEW contract, NEW vision, NEW location
  PROVE  LET final == FinalizeDecision(proposal, contract, vision, location)
         IN  /\ final \in Proposals
             /\ final = "approved" =>
                  /\ contract.mayAutoApprove /\ vision.status = "available" /\ ~vision.blocks
                  /\ location \notin {"unavailable", "contradicted"}
             /\ final = "rejected" =>
                  /\ contract.mayAutoReject /\ location # "unavailable"
                  /\ \/ location = "contradicted"
                     \/ /\ vision.status = "available"
                        /\ contract.verifiability = "content" => vision.relevance # None
  BY DEF FinalizeDecision, Proposals, ContractForbids, MediaForbids, LocationForbids, Unconvincing,
         NetworkDecides

LEMMA VisionFacts ==
  ASSUME NEW r \in Rows, NEW verifiability, CvEvidence(r, verifiability).status = "available"
  PROVE  /\ r.state = "complete"
         /\ r.findings # None /\ ~CvEvidence(r, verifiability).blocks
              => "decisive" \notin r.findings /\ "strong" \notin r.findings
         /\ verifiability = "content" => CvEvidence(r, verifiability).relevance = r.relevance
  BY DEF CvEvidence, NoVision

LEMMA LocationIsAStatus ==
  ASSUME NEW location \in LocationStatuses
  PROVE  location \in {"supported", "contradicted", "unavailable"}
  BY DEF LocationStatuses, MandatoryStatus

-----------------------------------------------------------------------------
(* Types.                                                                  *)

LEMMA QueuedIsARow ==
  /\ Queued \in Rows /\ Absent \in Rows /\ Queued.state = "queued" /\ Absent.state = "absent"
  /\ \A r \in {Queued, Absent} : r.findings = None /\ r.verdict = None /\ ~r.acted
  BY DEF Blank, Queued, Absent, Rows

\* Writing some of a row's columns gives a row.
LEMMA RowWrites ==
  ASSUME NEW r \in Rows
  PROVE  /\ \A a \in {"absent", "queued", "failed", "skipped", "complete"} : [r EXCEPT !.state = a] \in Rows
         /\ \A report \in Reported : [r EXCEPT !.findings = report] \in Rows
         /\ \A b \in {"pass", "fail", "unclear", None}, c \in BOOLEAN, d \in Tiers \cup {"forensics", None},
              e \in Nat \cup {None}, f \in BOOLEAN :
              [r EXCEPT !.state = "complete", !.verdict = b, !.stage = d, !.acted = c,
                        !.relevance = e, !.observed = f] \in Rows
  <1>1. "complete" \in {"absent", "queued", "failed", "skipped", "complete"}
    OBVIOUS
  <1>2. Reported \subseteq Reported \cup {None}
    OBVIOUS
  <1> DEFINE A == {"absent", "queued", "failed", "skipped", "complete"}
             B == {"pass", "fail", "unclear", None}
             D == Tiers \cup {"forensics", None}
             E == Nat \cup {None}
             G == Reported \cup {None}
             R == [state: A, verdict: B, acted: BOOLEAN, stage: D, relevance: E, observed: BOOLEAN, findings: G]
  <1>3. r \in R /\ R = Rows
    BY DEF Rows
  <1> HIDE DEF A, B, D, E, G
  <1>4. /\ \A a \in A : [r EXCEPT !.state = a] \in R
        /\ \A g \in G : [r EXCEPT !.findings = g] \in R
    BY <1>3
  <1>5. \A a \in A, b \in B, c \in BOOLEAN, d \in D, e \in E, f \in BOOLEAN :
          [r EXCEPT !.state = a, !.verdict = b, !.stage = d, !.acted = c, !.relevance = e, !.observed = f] \in R
    BY <1>3
  <1> HIDE DEF R
  <1>6. /\ \A a \in A : [r EXCEPT !.state = a] \in Rows
        /\ \A report \in Reported : [r EXCEPT !.findings = report] \in Rows
    BY <1>2, <1>3, <1>4 DEF G
  <1>7. \A b \in B, c \in BOOLEAN, d \in D, e \in E, f \in BOOLEAN :
          [r EXCEPT !.state = "complete", !.verdict = b, !.stage = d, !.acted = c,
                    !.relevance = e, !.observed = f] \in Rows
    BY <1>1, <1>3, <1>5 DEF A
  <1> QED  BY <1>6, <1>7 DEF A, B, D, E

\* What is in each position.
LEMMA PositionFacts ==
  ASSUME NEW p \in Positions
  PROVE  /\ p # Idle => p.kind \in Kinds
         /\ p.at \in {"ladder", "conclude", "act"} => p.report \in Reported /\ p.doubters \in SUBSET Tiers
         /\ p.at = "ladder" => p.tier \in Tiers
         /\ p.at \in {"conclude", "act"} => p.analysis \in Analyses \cup {None}
         /\ p.at = "act" => p.kind = "live" /\ p.decision \in {"approve", "reject"}
         /\ p = Idle <=> p.at = "idle"
  BY DEF Positions, Idle, Kinds

LEMMA PositionTypes ==
  /\ Idle \in Positions
  /\ \A kind \in Kinds, at \in {"skip", "listed", "measure", "compare", "unread"} :
       At(kind, at) \in Positions /\ At(kind, at).at = at /\ At(kind, at).kind = kind
  /\ \A kind \in Kinds, report \in Reported, tier \in Tiers, doubters \in SUBSET Tiers :
       [at |-> "ladder", kind |-> kind, report |-> report, tier |-> tier, doubters |-> doubters] \in Positions
  /\ \A kind \in Kinds, report \in Reported, analysis \in Analyses \cup {None}, doubters \in SUBSET Tiers :
       [at |-> "conclude", kind |-> kind, report |-> report, analysis |-> analysis, doubters |-> doubters]
         \in Positions
  /\ \A report \in Reported, analysis \in Analyses \cup {None}, doubters \in SUBSET Tiers,
        decision \in {"approve", "reject"} :
       [at |-> "act", kind |-> "live", report |-> report, analysis |-> analysis, doubters |-> doubters,
        decision |-> decision] \in Positions
  <1> DEFINE A == Analyses \cup {None}
             D == SUBSET Tiers
  <1>1. /\ \A kind \in Kinds, at \in {"skip", "listed", "measure", "compare", "unread"} :
             At(kind, at) \in Positions /\ At(kind, at).at = at /\ At(kind, at).kind = kind
        /\ Idle \in Positions
    BY DEF Positions, At, Idle
  <1> HIDE DEF A, D
  <1>2. \A kind \in Kinds, report \in Reported, tier \in Tiers, doubters \in D :
          [at |-> "ladder", kind |-> kind, report |-> report, tier |-> tier, doubters |-> doubters]
            \in [at: {"ladder"}, kind: Kinds, report: Reported, tier: Tiers, doubters: D]
    OBVIOUS
  <1>3. \A kind \in Kinds, report \in Reported, analysis \in A, doubters \in D :
          [at |-> "conclude", kind |-> kind, report |-> report, analysis |-> analysis, doubters |-> doubters]
            \in [at: {"conclude"}, kind: Kinds, report: Reported, analysis: A, doubters: D]
    OBVIOUS
  <1>4. \A report \in Reported, analysis \in A, doubters \in D, decision \in {"approve", "reject"} :
          [at |-> "act", kind |-> "live", report |-> report, analysis |-> analysis, doubters |-> doubters,
           decision |-> decision]
            \in [at: {"act"}, kind: {"live"}, report: Reported, analysis: A, doubters: D,
                 decision: {"approve", "reject"}]
    OBVIOUS
  <1>5. /\ [at: {"ladder"}, kind: Kinds, report: Reported, tier: Tiers, doubters: D] \subseteq Positions
        /\ [at: {"conclude"}, kind: Kinds, report: Reported, analysis: A, doubters: D] \subseteq Positions
        /\ [at: {"act"}, kind: {"live"}, report: Reported, analysis: A, doubters: D,
            decision: {"approve", "reject"}] \subseteq Positions
    BY Zenon DEF Positions, A, D
  <1>6. \A kind \in Kinds, report \in Reported, tier \in Tiers, doubters \in D :
          [at |-> "ladder", kind |-> kind, report |-> report, tier |-> tier, doubters |-> doubters] \in Positions
    BY <1>2, <1>5, Zenon
  <1>7. \A kind \in Kinds, report \in Reported, analysis \in A, doubters \in D :
          [at |-> "conclude", kind |-> kind, report |-> report, analysis |-> analysis, doubters |-> doubters]
            \in Positions
    BY <1>3, <1>5, Zenon
  <1>8. \A report \in Reported, analysis \in A, doubters \in D, decision \in {"approve", "reject"} :
          [at |-> "act", kind |-> "live", report |-> report, analysis |-> analysis, doubters |-> doubters,
           decision |-> decision] \in Positions
    BY <1>4, <1>5, Zenon
  <1> QED  BY <1>1, <1>6, <1>7, <1>8 DEF A, D

\* A step of a pass moves it to a position, and changes no other pass.
LEMMA Moves ==
  ASSUME TypeOK, NEW s \in Submissions, NEW w \in Workers, NEW q \in Positions, MovesTo(s, w, q)
  PROVE  /\ pass' \in [Submissions -> [Workers -> Positions]]
         /\ pass'[s][w] = q
         /\ \A v \in Workers \ {w} : pass'[s][v] = pass[s][v]
         /\ \A t \in Submissions \ {s} : pass'[t] = pass[t]
  BY DEF TypeOK, MovesTo

\* A step writes the row of its own submission, and of that some columns.
LEMMA RowChanges ==
  ASSUME TypeOK, NEW s \in Submissions, NEW r \in Rows, row' = [row EXCEPT ![s] = r]
  PROVE  row' \in [Submissions -> Rows] /\ row'[s] = r /\ \A t \in Submissions \ {s} : row'[t] = row[t]
  BY DEF TypeOK

LEMMA StateChanges ==
  ASSUME TypeOK, NEW s \in Submissions, NEW state \in {"queued", "failed", "skipped"},
         row' = [row EXCEPT ![s].state = state]
  PROVE  /\ row' \in [Submissions -> Rows]
         /\ row'[s].state = state /\ row'[s].findings = row[s].findings /\ row'[s].acted = row[s].acted
         /\ row'[s].verdict = row[s].verdict
         /\ \A t \in Submissions \ {s} : row'[t] = row[t]
  <1>1. row[s] \in Rows
    BY DEF TypeOK
  <1>2. [row[s] EXCEPT !.state = state] \in Rows
    BY <1>1, RowWrites
  <1>3. row' = [row EXCEPT ![s] = [row[s] EXCEPT !.state = state]]
    OBVIOUS
  <1>4. /\ row' \in [Submissions -> Rows] /\ row'[s] = [row[s] EXCEPT !.state = state]
        /\ \A t \in Submissions \ {s} : row'[t] = row[t]
    BY <1>2, <1>3, RowChanges
  <1>5. /\ row'[s].state = state /\ row'[s].findings = row[s].findings /\ row'[s].acted = row[s].acted
        /\ row'[s].verdict = row[s].verdict
    BY <1>1, <1>4 DEF Rows
  <1> QED  BY <1>4, <1>5

LEMMA CompareFacts ==
  ASSUME TypeOK, NEW s \in Submissions, NEW w \in Workers, Compare(s, w)
  PROVE  \E q \in Positions, report \in Reported :
           /\ MovesTo(s, w, q) /\ q.kind = pass[s][w].kind
           /\ q.at \in {"ladder", "conclude"} /\ q.report = report
           /\ q.at = "ladder" => q.tier = "triage"
           /\ q.at = "conclude" => q.analysis = None
           /\ Examined(report) => Report(proof[s], None) \subseteq report
           /\ row' \in [Submissions -> Rows] /\ \A t \in Submissions \ {s} : row'[t] = row[t]
           /\ row'[s].findings = report \/ (row[s] = Absent /\ row'[s] = Absent)
           /\ row'[s].state = row[s].state
           /\ row'[s].verdict = row[s].verdict /\ row'[s].acted = row[s].acted
  <1> DEFINE k == pass[s][w].kind
             read == pass[s][w].at = "compare"
             asked(report) == [at |-> "ladder", kind |-> k, report |-> report, tier |-> "triage", doubters |-> {}]
             unasked(report) == [at |-> "conclude", kind |-> k, report |-> report, analysis |-> None,
                                 doubters |-> {}]
  <1>1. PICK report \in Reports(s, read) :
          /\ row' = IF row[s] = Absent THEN row ELSE [row EXCEPT ![s].findings = report]
          /\ MovesTo(s, w, IF Asked(s) /\ read THEN asked(report) ELSE unasked(report))
    BY DEF Compare
  <1>2. report \in Reported /\ (Examined(report) => Report(proof[s], None) \subseteq report)
    BY ReportFacts
  <1>3. k \in Kinds
    BY PositionFacts DEF Compare, TypeOK, Idle
  <1>4. asked(report) \in Positions /\ unasked(report) \in Positions
    <2> HIDE DEF k
    <2>1. "triage" \in Tiers /\ {} \in SUBSET Tiers /\ None \in Analyses \cup {None}
      BY DEF Tiers
    <2> QED  BY <1>2, <1>3, <2>1, PositionTypes
  <1>5. row[s] \in Rows
    BY DEF TypeOK
  <1>6. [row[s] EXCEPT !.findings = report] \in Rows
    BY <1>2, <1>5, RowWrites
  <1>7. ASSUME row[s] # Absent
        PROVE  /\ row' \in [Submissions -> Rows] /\ row'[s] = [row[s] EXCEPT !.findings = report]
               /\ \A t \in Submissions \ {s} : row'[t] = row[t]
    <2>1. row' = [row EXCEPT ![s] = [row[s] EXCEPT !.findings = report]]
      BY <1>1, <1>7
    <2> QED  BY <1>6, <2>1, RowChanges
  <1>8. row' \in [Submissions -> Rows] /\ \A t \in Submissions \ {s} : row'[t] = row[t]
    BY <1>1, <1>7 DEF TypeOK
  <1>9. /\ row'[s].findings = report \/ (row[s] = Absent /\ row'[s] = Absent)
        /\ row'[s].state = row[s].state
        /\ row'[s].verdict = row[s].verdict /\ row'[s].acted = row[s].acted
    <2>1. CASE row[s] = Absent
      BY <1>1, <2>1
    <2>2. CASE row[s] # Absent
      <3>1. row'[s] = [row[s] EXCEPT !.findings = report]
        BY <1>7, <2>2
      <3>2. /\ [row[s] EXCEPT !.findings = report].findings = report
            /\ [row[s] EXCEPT !.findings = report].state = row[s].state
            /\ [row[s] EXCEPT !.findings = report].verdict = row[s].verdict
            /\ [row[s] EXCEPT !.findings = report].acted = row[s].acted
        BY <1>5 DEF Rows
      <3> QED  BY <3>1, <3>2
    <2> QED  BY <2>1, <2>2
  <1>10. CASE Asked(s) /\ read
    <2>1. MovesTo(s, w, asked(report))
      BY <1>1, <1>10
    <2> QED  BY <1>2, <1>4, <1>8, <1>9, <2>1
  <1>11. CASE ~(Asked(s) /\ read)
    <2>1. MovesTo(s, w, unasked(report))
      BY <1>1, <1>11
    <2> QED  BY <1>2, <1>4, <1>8, <1>9, <2>1
  <1> QED  BY <1>10, <1>11

LEMMA RungFacts ==
  ASSUME TypeOK, NEW s \in Submissions, NEW w \in Workers, Rung(s, w)
  PROVE  LET p == pass[s][w]
         IN  \E q \in Positions :
               /\ MovesTo(s, w, q) /\ q.kind = p.kind /\ q.at \in {"ladder", "conclude"}
               /\ p.at = "ladder" /\ q.report = p.report /\ p.doubters \subseteq q.doubters
               /\ q.at = "ladder" /\ q.tier = "reject_review" =>
                    p.tier # "reject_review" /\ p.tier \in q.doubters
               /\ q.at = "conclude" /\ q.analysis # None =>
                    q.analysis.tier = p.tier /\ (q.analysis.verdict = "fail" => p.tier \in q.doubters)
  <1> DEFINE p == pass[s][w]
             floored(answer) == ApplyConfidenceFloor(answer, Floor(p.tier))
             next(answer) == NextTier(p.tier, floored(answer))
             doubters(answer) == IF floored(answer).verdict = "fail" THEN p.doubters \cup {p.tier} ELSE p.doubters
             analysis(answer) ==
               [tier |-> p.tier, verdict |-> floored(answer).verdict, confidence |-> floored(answer).confidence,
                relevance |-> floored(answer).relevance, observed |-> floored(answer).observed]
             onward(answer) == [p EXCEPT !.tier = next(answer), !.doubters = doubters(answer)]
             over(answer) == [at |-> "conclude", kind |-> p.kind, report |-> p.report,
                              doubters |-> doubters(answer), analysis |-> analysis(answer)]
  <1>1. p \in Positions /\ p.at = "ladder"
    BY DEF Rung, TypeOK
  <1>2. p.kind \in Kinds /\ p.report \in Reported /\ p.tier \in Tiers /\ p.doubters \in SUBSET Tiers
    BY <1>1, PositionFacts DEF Idle
  <1>3. PICK answer \in Answers :
          MovesTo(s, w, IF next(answer) # None THEN onward(answer) ELSE over(answer))
    BY DEF Rung
  <1>4. floored(answer) \in [verdict: {"pass", "fail", "unclear"}, confidence: Nat \cup {None},
                             relevance: Nat \cup {None}, observed: BOOLEAN]
    BY FloorFacts
  <1>5. /\ doubters(answer) \in SUBSET Tiers /\ p.doubters \subseteq doubters(answer)
        /\ floored(answer).verdict = "fail" => p.tier \in doubters(answer)
    BY <1>2
  <1>6. CASE next(answer) # None
    <2>1. /\ next(answer) \in Tiers
          /\ next(answer) = "reject_review" => floored(answer).verdict = "fail" /\ p.tier # "reject_review"
      BY <1>2, <1>6, NextTierFacts
    <2>2. p \in [at: {"ladder"}, kind: Kinds, report: Reported, tier: Tiers, doubters: SUBSET Tiers]
      <3> HIDE DEF p
      <3> QED  BY <1>1 DEF Positions, Idle
    <2>3. onward(answer) \in [at: {"ladder"}, kind: Kinds, report: Reported, tier: Tiers, doubters: SUBSET Tiers]
      <3> DEFINE D == SUBSET Tiers
      <3>1. doubters(answer) \in D /\ p \in [at: {"ladder"}, kind: Kinds, report: Reported, tier: Tiers, doubters: D]
        BY <1>5, <2>2
      <3> HIDE DEF p, next, doubters, D
      <3>2. [p EXCEPT !.tier = next(answer), !.doubters = doubters(answer)]
              \in [at: {"ladder"}, kind: Kinds, report: Reported, tier: Tiers, doubters: D]
        BY <2>1, <3>1
      <3> QED  BY <3>2 DEF D
    <2>4. onward(answer) \in Positions
      <3> HIDE DEF onward
      <3> QED  BY <2>3 DEF Positions
    <2>5. MovesTo(s, w, onward(answer))
      BY <1>3, <1>6
    <2>6. /\ onward(answer).kind = p.kind /\ onward(answer).at = "ladder" /\ onward(answer).report = p.report
          /\ onward(answer).tier = next(answer) /\ onward(answer).doubters = doubters(answer)
      <3> HIDE DEF p, next, doubters
      <3> QED  BY <2>2
    <2> HIDE DEF floored, next, doubters, onward
    <2> QED  BY <1>1, <1>5, <2>1, <2>4, <2>5, <2>6
  <1>7. CASE next(answer) = None
    <2>1. analysis(answer) \in Analyses
      <3> HIDE DEF p, floored
      <3> QED  BY <1>2, <1>4 DEF Analyses
    <2>2. MovesTo(s, w, over(answer))
      BY <1>3, <1>7
    <2>3. /\ over(answer).kind = p.kind /\ over(answer).at = "conclude" /\ over(answer).report = p.report
          /\ over(answer).analysis = analysis(answer) /\ over(answer).doubters = doubters(answer)
          /\ analysis(answer).tier = p.tier /\ analysis(answer).verdict = floored(answer).verdict
          /\ over(answer) = [at |-> "conclude", kind |-> p.kind, report |-> p.report,
                             analysis |-> analysis(answer), doubters |-> doubters(answer)]
      <3> HIDE DEF p, floored, doubters
      <3> QED  OBVIOUS
    <2> HIDE DEF floored, doubters, analysis, over
    <2>4. over(answer) \in Positions
      BY <1>2, <1>5, <2>1, <2>3, PositionTypes
    <2> QED  BY <1>1, <1>5, <2>2, <2>3, <2>4
  <1> QED  BY <1>6, <1>7

LEMMA ConcludeFacts ==
  ASSUME TypeOK, NEW s \in Submissions, NEW w \in Workers, Conclude(s, w)
  PROVE  LET p == pass[s][w]
             outcome == Decide(proof[s].contract, p.report, p.analysis)
             acts == WillAct(p.kind, outcome.decision)
         IN  \E q \in Positions :
               /\ p.at = "conclude" /\ MovesTo(s, w, q)
               /\ q.at \in {"idle", "act"} /\ (q.at = "act" => acts)
               /\ q.at = "act" =>
                    /\ q.kind = "live" /\ p.kind = "live" /\ q.report = p.report /\ q.analysis = p.analysis
                    /\ q.doubters = p.doubters /\ q.decision = outcome.decision
               /\ row' \in [Submissions -> Rows] /\ \A t \in Submissions \ {s} : row'[t] = row[t]
               /\ row'[s].state = "complete" /\ row'[s].findings = row[s].findings
               /\ row'[s].verdict = Verdict[outcome.decision] /\ row'[s].acted = acts
               /\ outcome.decision \in {"approve", "reject", "escalate"}
               /\ outcome.decision = "approve" =>
                    /\ proof[s].contract.mayAutoApprove /\ "decisive" \notin p.report
                    /\ "strong" \in p.report => proof[s].contract.verifiability = "none"
               /\ outcome.decision = "approve" /\ proof[s].contract.verifiability = "content" =>
                    p.analysis # None /\ p.analysis.verdict = "pass" /\ Sure(p.analysis, ApproveMin)
               /\ outcome.decision = "reject" =>
                    /\ proof[s].contract.mayAutoReject
                    /\ \/ "decisive" \in p.report
                       \/ p.analysis # None /\ p.analysis.verdict = "fail" /\ p.analysis.tier = "reject_review"
  <1> DEFINE p == pass[s][w]
             outcome == Decide(proof[s].contract, p.report, p.analysis)
             acts == WillAct(p.kind, outcome.decision)
             acting == [at |-> "act", kind |-> p.kind, report |-> p.report, analysis |-> p.analysis,
                        doubters |-> p.doubters, decision |-> outcome.decision]
  <1>1. p \in Positions /\ p.at = "conclude" /\ p # Idle
    BY DEF TypeOK, Conclude, Idle
  <1>2. /\ p.kind \in Kinds /\ p.report \in Reported /\ p.analysis \in Analyses \cup {None}
        /\ p.doubters \in SUBSET Tiers
    BY <1>1, PositionFacts
  <1>3. /\ outcome.decision \in {"approve", "reject", "escalate"} /\ outcome.stage \in Tiers \cup {"forensics"}
        /\ outcome.decision = "approve" =>
             /\ proof[s].contract.mayAutoApprove /\ "decisive" \notin p.report
             /\ "strong" \in p.report => proof[s].contract.verifiability = "none"
        /\ outcome.decision = "approve" /\ proof[s].contract.verifiability = "content" =>
             p.analysis # None /\ p.analysis.verdict = "pass" /\ Sure(p.analysis, ApproveMin)
        /\ outcome.decision = "reject" =>
             /\ proof[s].contract.mayAutoReject
             /\ \/ "decisive" \in p.report
                \/ p.analysis # None /\ p.analysis.verdict = "fail" /\ p.analysis.tier = "reject_review"
    <2>1. PICK contract, report, analysis :
                 contract = proof[s].contract /\ report = p.report /\ analysis = p.analysis
      OBVIOUS
    <2>2. /\ report \in Reported /\ analysis \in Analyses \cup {None}
          /\ outcome = Decide(contract, report, analysis)
      BY <1>2, <2>1
    <2> HIDE DEF p, outcome
    <2>3. /\ outcome.decision \in {"approve", "reject", "escalate"} /\ outcome.stage \in Tiers \cup {"forensics"}
          /\ outcome.decision = "approve" =>
               /\ contract.mayAutoApprove /\ "decisive" \notin report
               /\ "strong" \in report => contract.verifiability = "none"
          /\ outcome.decision = "approve" /\ contract.verifiability = "content" =>
               analysis # None /\ analysis.verdict = "pass" /\ Sure(analysis, ApproveMin)
          /\ outcome.decision = "reject" =>
               /\ contract.mayAutoReject
               /\ \/ "decisive" \in report
                  \/ analysis # None /\ analysis.verdict = "fail" /\ analysis.tier = "reject_review"
      BY <2>2, DecideFacts
    <2> QED  BY <2>1, <2>3
  <1>4. /\ row' = [row EXCEPT ![s] = Concluded(s, p.kind, outcome, p.analysis)]
        /\ MovesTo(s, w, IF acts THEN acting ELSE Idle)
    BY DEF Conclude
  <1> HIDE DEF p, outcome
  <1>5. acts \in BOOLEAN /\ (acts => p.kind = "live" /\ outcome.decision \in {"approve", "reject"})
    BY <1>3 DEF WillAct
  <1>6. Concluded(s, p.kind, outcome, p.analysis) \in Rows
    <2> DEFINE b == Verdict[outcome.decision]
               e == IF p.analysis = None THEN None ELSE p.analysis.relevance
               f == (p.analysis # None /\ p.analysis.observed)
               written(bb, cc, d, ee, ff) ==
                 [row[s] EXCEPT !.state = "complete", !.verdict = bb, !.stage = d, !.acted = cc,
                                !.relevance = ee, !.observed = ff]
    <2>1. p.analysis # None => p.analysis.relevance \in Nat \cup {None} /\ p.analysis.observed \in BOOLEAN
      BY <1>2 DEF Analyses
    <2>2. b \in {"pass", "fail", "unclear", None}
      BY <1>3 DEF Verdict
    <2>3. e \in Nat \cup {None} /\ f \in BOOLEAN
      BY <2>1
    <2>4. outcome.stage \in Tiers \cup {"forensics", None}
      BY <1>3
    <2>5. row[s] \in Rows
      BY DEF TypeOK
    <2>6. \A bb \in {"pass", "fail", "unclear", None}, cc \in BOOLEAN, d \in Tiers \cup {"forensics", None},
             ee \in Nat \cup {None}, ff \in BOOLEAN : written(bb, cc, d, ee, ff) \in Rows
      BY <2>5, RowWrites, Zenon
    <2>7. Concluded(s, p.kind, outcome, p.analysis) = written(b, acts, outcome.stage, e, f)
      BY DEF Concluded
    <2> HIDE DEF b, e, f, written, acts
    <2>8. written(b, acts, outcome.stage, e, f) \in Rows
      BY <1>5, <2>2, <2>3, <2>4, <2>6
    <2> QED  BY <2>7, <2>8
  <1>7. /\ row' \in [Submissions -> Rows] /\ row'[s] = Concluded(s, p.kind, outcome, p.analysis)
        /\ \A t \in Submissions \ {s} : row'[t] = row[t]
    BY <1>4, <1>6, RowChanges
  <1>8. /\ row'[s].state = "complete" /\ row'[s].findings = row[s].findings
        /\ row'[s].verdict = Verdict[outcome.decision] /\ row'[s].acted = acts
    <2>1. row[s] \in Rows
      BY DEF TypeOK
    <2> HIDE DEF acts
    <2>2. Concluded(s, p.kind, outcome, p.analysis) =
            [row[s] EXCEPT
               !.state = "complete", !.verdict = Verdict[outcome.decision], !.stage = outcome.stage,
               !.acted = acts, !.relevance = IF p.analysis = None THEN None ELSE p.analysis.relevance,
               !.observed = (p.analysis # None /\ p.analysis.observed)]
      BY DEF Concluded, acts
    <2> QED  BY <1>7, <2>1, <2>2 DEF Rows
  <1>9. CASE acts
    <2>1. acting \in Positions
      <3>1. acting = [at |-> "act", kind |-> "live", report |-> p.report, analysis |-> p.analysis,
                      doubters |-> p.doubters, decision |-> outcome.decision]
        BY <1>5, <1>9
      <3>2. outcome.decision \in {"approve", "reject"}
        BY <1>5, <1>9
      <3> HIDE DEF acting
      <3> QED  BY <1>2, <3>1, <3>2, PositionTypes
    <2>2. MovesTo(s, w, acting)
      BY <1>4, <1>9
    <2>3. /\ acting.at = "act" /\ acting.kind = "live" /\ acting.report = p.report /\ acting.analysis = p.analysis
          /\ acting.doubters = p.doubters /\ acting.decision = outcome.decision /\ p.kind = "live"
      BY <1>5, <1>9
    <2> HIDE DEF acting, acts
    <2> USE DEF p, outcome
    <2> QED  BY <1>1, <1>3, <1>7, <1>8, <1>9, <2>1, <2>2, <2>3 DEF acts
  <1>10. CASE ~acts
    <2>1. MovesTo(s, w, Idle) /\ Idle \in Positions /\ Idle.at = "idle"
      BY <1>4, <1>10, PositionTypes DEF Idle
    <2> USE DEF p, outcome
    <2> QED  BY <1>1, <1>3, <1>7, <1>8, <1>10, <2>1
  <1> QED  BY <1>9, <1>10

LEMMA EvaluateFacts ==
  ASSUME TypeOK, NEW s \in Submissions, NEW w \in Workers, Evaluate(s, w)
  PROVE  /\ agent[s][w].at = "briefed" /\ agent' \in [Submissions -> [Workers -> Evaluations]]
         /\ \A v \in Workers \ {w} : agent'[s][v] = agent[s][v]
         /\ \A t \in Submissions \ {s} : agent'[t] = agent[t]
         /\ agent'[s][w].at = "decided" /\ agent'[s][w].read = row[s].findings
         /\ agent'[s][w].decision = "approved" =>
              /\ proof[s].contract.mayAutoApprove /\ row[s].state = "complete"
              /\ row[s].findings # None => row[s].findings \cap {"decisive", "strong"} = {}
              /\ proof[s].located => agent'[s][w].location = "supported"
         /\ agent'[s][w].decision = "rejected" =>
              /\ proof[s].contract.mayAutoReject
              /\ \/ agent'[s][w].location = "contradicted"
                 \/ /\ row[s].state = "complete"
                    /\ proof[s].located => agent'[s][w].location = "supported"
                    /\ proof[s].contract.verifiability = "content" => agent'[s][w].vision.relevance # None
  <1> DEFINE contract == proof[s].contract
             vision == CvEvidence(row[s], contract.verifiability)
             final(opinion, location) == FinalizeDecision(opinion, contract, vision, location)
             e(opinion, location) == [at |-> "decided", vision |-> vision, read |-> row[s].findings, location |-> location,
                                      decision |-> final(opinion, location)]
  <1>1. PICK opinion \in Opinions, location \in IF proof[s].located THEN LocationStatuses ELSE {None} :
          agent' = [agent EXCEPT ![s][w] = e(opinion, location)]
    BY DEF Evaluate
  <1>2. row[s] \in Rows
    BY DEF TypeOK
  <1>3. vision \in Evidence
    BY <1>2 DEF CvEvidence, NoVision, Evidence, Rows
  <1>4. location \in {"supported", "contradicted", "unavailable", None}
        /\ (proof[s].located => location \in {"supported", "contradicted", "unavailable"})
    BY LocationIsAStatus
  <1>5. opinion.decision \in Proposals
    BY VerdictsAssumption
  <1>6. /\ final(opinion, location) \in Proposals
        /\ final(opinion, location) = "approved" =>
             /\ contract.mayAutoApprove /\ vision.status = "available" /\ ~vision.blocks
             /\ location \notin {"unavailable", "contradicted"}
        /\ final(opinion, location) = "rejected" =>
             /\ contract.mayAutoReject /\ location # "unavailable"
             /\ \/ location = "contradicted"
                \/ /\ vision.status = "available"
                   /\ contract.verifiability = "content" => vision.relevance # None
    BY <1>5, FinalizeFacts
  <1>7. vision.status = "available" =>
          /\ row[s].state = "complete"
          /\ row[s].findings # None /\ ~vision.blocks =>
               "decisive" \notin row[s].findings /\ "strong" \notin row[s].findings
    BY <1>2, VisionFacts
  <1> HIDE DEF contract, vision, final
  <1>8. e(opinion, location) \in [at: {"decided"}, vision: Evidence, read: Reported \cup {None},
                                  decision: Proposals, location: {"supported", "contradicted", "unavailable", None}]
    <2>1. row[s].findings \in Reported \cup {None}
      BY <1>2 DEF Rows
    <2> DEFINE G == Reported \cup {None}
    <2> HIDE DEF G
    <2>2. row[s].findings \in G
      BY <2>1 DEF G
    <2>3. e(opinion, location) \in [at: {"decided"}, vision: Evidence, read: G, decision: Proposals,
                                    location: {"supported", "contradicted", "unavailable", None}]
      BY <1>3, <1>4, <1>6, <2>2
    <2> QED  BY <2>3 DEF G
  <1>9. /\ e(opinion, location).at = "decided" /\ e(opinion, location).location = location
        /\ e(opinion, location).vision = vision /\ e(opinion, location).decision = final(opinion, location)
        /\ e(opinion, location).read = row[s].findings
    OBVIOUS
  <1> HIDE DEF e
  <1>10. e(opinion, location) \in Evaluations
    BY <1>8 DEF Evaluations
  <1>11. /\ agent' \in [Submissions -> [Workers -> Evaluations]] /\ agent'[s][w] = e(opinion, location)
         /\ \A v \in Workers \ {w} : agent'[s][v] = agent[s][v]
         /\ \A t \in Submissions \ {s} : agent'[t] = agent[t]
    BY <1>1, <1>10 DEF TypeOK
  <1>12. agent[s][w].at = "briefed"
    BY DEF Evaluate
  <1>13. location \notin {"unavailable", "contradicted"} /\ proof[s].located => location = "supported"
    BY <1>4
  <1>14. location \notin {"unavailable", "contradicted"} \/ location = "unavailable" \/ location = "contradicted"
    OBVIOUS
  <1>15. agent'[s][w].decision = "approved" =>
              /\ proof[s].contract.mayAutoApprove /\ row[s].state = "complete"
              /\ row[s].findings # None => row[s].findings \cap {"decisive", "strong"} = {}
              /\ proof[s].located => agent'[s][w].location = "supported"
    BY <1>6, <1>7, <1>9, <1>11, <1>13 DEF contract
  <1>16. agent'[s][w].decision = "rejected" =>
              /\ proof[s].contract.mayAutoReject
              /\ \/ agent'[s][w].location = "contradicted"
                 \/ /\ row[s].state = "complete"
                    /\ proof[s].located => agent'[s][w].location = "supported"
                    /\ proof[s].contract.verifiability = "content" => agent'[s][w].vision.relevance # None
    BY <1>6, <1>7, <1>9, <1>11, <1>13, <1>14 DEF contract
  <1>17. agent'[s][w].at = "decided" /\ agent'[s][w].read = row[s].findings
    BY <1>9, <1>11
  <1> QED  BY <1>11, <1>12, <1>15, <1>16, <1>17

LEMMA TypeNext == TypeOK /\ [Next]_vars => TypeOK'
  <1> SUFFICES ASSUME TypeOK, [Next]_vars PROVE TypeOK'
    OBVIOUS
  <1> USE DEF submission, history
  <1>1. ASSUME NEW s \in Submissions, NEW w \in Workers, Begin(s, w) PROVE TypeOK'
    <2>1. PICK q \in Positions : MovesTo(s, w, q)
      BY <1>1, PositionTypes DEF Begin, Kinds
    <2>2. pass' \in [Submissions -> [Workers -> Positions]]
      BY <2>1, Moves
    <2>3. row' \in [Submissions -> Rows]
      BY <1>1, StateChanges DEF Begin
    <2> QED  BY <1>1, <2>2, <2>3 DEF Begin, Joined, TypeOK
  <1>2. ASSUME NEW s \in Submissions, NEW w \in Workers, Skip(s, w) PROVE TypeOK'
    <2>1. pass' \in [Submissions -> [Workers -> Positions]]
      BY <1>2, Moves, PositionTypes DEF Skip
    <2>2. row' \in [Submissions -> Rows]
      BY <1>2, StateChanges DEF Skip, TypeOK
    <2> QED  BY <1>2, <2>1, <2>2 DEF Skip, TypeOK
  <1>3. ASSUME NEW s \in Submissions, NEW w \in Workers, BeginEval(s, w) PROVE TypeOK'
    <2>1. pass' \in [Submissions -> [Workers -> Positions]]
      BY <1>3, Moves, PositionTypes DEF BeginEval, Kinds
    <2> QED  BY <1>3, <2>1 DEF BeginEval, Joined, TypeOK
  <1>4. ASSUME NEW s \in Submissions, NEW w \in Workers, EvalSubject(s, w) PROVE TypeOK'
    <2>1. PICK q \in Positions : MovesTo(s, w, q)
      BY <1>4, PositionTypes DEF EvalSubject, Kinds
    <2>2. pass' \in [Submissions -> [Workers -> Positions]]
      BY <2>1, Moves
    <2> QED  BY <1>4, <2>2 DEF EvalSubject, TypeOK
  <1>5. ASSUME NEW s \in Submissions, NEW w \in Workers, Measure(s, w) PROVE TypeOK'
    <2>1. pass[s][w].kind \in Kinds
      BY <1>5, PositionFacts DEF Measure, TypeOK, Idle
    <2>2. pass' \in [Submissions -> [Workers -> Positions]]
      BY <1>5, <2>1, Moves, PositionTypes DEF Measure
    <2> QED  BY <1>5, <2>2 DEF Measure, TypeOK
  <1>6. ASSUME NEW s \in Submissions, NEW w \in Workers, Compare(s, w) PROVE TypeOK'
    <2>1. PICK q \in Positions : MovesTo(s, w, q)
      BY <1>6, CompareFacts
    <2>2. pass' \in [Submissions -> [Workers -> Positions]]
      BY <2>1, Moves
    <2>3. row' \in [Submissions -> Rows]
      BY <1>6, CompareFacts
    <2> QED  BY <1>6, <2>2, <2>3 DEF Compare, TypeOK
  <1>7. ASSUME NEW s \in Submissions, NEW w \in Workers, Rung(s, w) PROVE TypeOK'
    <2>1. PICK q \in Positions : MovesTo(s, w, q)
      BY <1>7, RungFacts
    <2>2. pass' \in [Submissions -> [Workers -> Positions]]
      BY <2>1, Moves
    <2> QED  BY <1>7, <2>2 DEF Rung, TypeOK
  <1>8. ASSUME NEW s \in Submissions, NEW w \in Workers, Conclude(s, w) PROVE TypeOK'
    <2>1. PICK q \in Positions : MovesTo(s, w, q)
      BY <1>8, ConcludeFacts
    <2>2. pass' \in [Submissions -> [Workers -> Positions]]
      BY <2>1, Moves
    <2>3. row' \in [Submissions -> Rows]
      BY <1>8, ConcludeFacts
    <2> QED  BY <1>8, <2>2, <2>3 DEF Conclude, TypeOK
  <1>9. ASSUME NEW s \in Submissions, NEW w \in Workers, Act(s, w) PROVE TypeOK'
    <2>1. pass' \in [Submissions -> [Workers -> Positions]]
      BY <1>9, Moves, PositionTypes DEF Act
    <2>2. Outcome[pass[s][w].decision] \in {"approved", "rejected"}
      BY <1>9, PositionFacts DEF Act, TypeOK, Outcome
    <2> QED  BY <1>9, <2>1, <2>2 DEF Act, TypeOK
  <1>10. ASSUME NEW s \in Submissions, NEW w \in Workers, PassFails(s, w) PROVE TypeOK'
    <2>1. pass' \in [Submissions -> [Workers -> Positions]]
      BY <1>10, Moves, PositionTypes DEF PassFails
    <2>2. row' \in [Submissions -> Rows]
      BY <1>10, StateChanges DEF PassFails, TypeOK
    <2> QED  BY <1>10, <2>1, <2>2 DEF PassFails, TypeOK
  <1>11. ASSUME NEW s \in Submissions, NEW w \in Workers, Brief(s, w) PROVE TypeOK'
    <2>1. [at |-> "briefed"] \in Evaluations
      BY DEF Evaluations
    <2> QED  BY <1>11, <2>1 DEF Brief, TypeOK
  <1>12. ASSUME NEW s \in Submissions, NEW w \in Workers, Evaluate(s, w) PROVE TypeOK'
    BY <1>12, EvaluateFacts DEF Evaluate, TypeOK
  <1>13. ASSUME NEW s \in Submissions, NEW w \in Workers, Apply(s, w) \/ EvaluationFails(s, w) PROVE TypeOK'
    <2>1. Idle \in Evaluations /\ agent[s][w] \in Evaluations
      BY DEF Evaluations, TypeOK
    <2>2. CASE Apply(s, w)
      <3>1. agent[s][w].decision \in Proposals
        BY <2>1, <2>2 DEF Apply, Evaluations, Idle
      <3> QED  BY <2>1, <2>2, <3>1 DEF Apply, Proposals, TypeOK
    <2>3. CASE EvaluationFails(s, w)
      BY <2>1, <2>3 DEF EvaluationFails, TypeOK
    <2> QED  BY <1>13, <2>2, <2>3
  <1>14. ASSUME NEW s \in Submissions,
               Enqueue(s) \/ PersonDecides(s) \/ Appeal(s) \/ Removed(s) \/ Restored(s)
         PROVE TypeOK'
    <2>1. Queued \in Rows
      BY QueuedIsARow
    <2> QED  BY <1>14, <2>1 DEF Enqueue, PersonDecides, Appeal, Removed, Restored, TypeOK
  <1>15. CASE Restart
    <2>1. Idle \in Positions /\ Idle \in Evaluations
      BY PositionTypes DEF Evaluations
    <2> QED  BY <1>15, <2>1 DEF Restart, TypeOK
  <1>16. CASE UNCHANGED vars
    BY <1>16 DEF vars, TypeOK
  <1> QED  BY <1>1, <1>2, <1>3, <1>4, <1>5, <1>6, <1>7, <1>8, <1>9, <1>10, <1>11, <1>12, <1>13, <1>14, <1>15,
              <1>16 DEF Next

-----------------------------------------------------------------------------
(* Every step keeps every submission sound.                                *)

Same(t) ==
  /\ row'[t] = row[t] /\ pass'[t] = pass[t] /\ agent'[t] = agent[t]
  /\ status'[t] = status[t] /\ decider'[t] = decider[t] /\ (t \in appealed => t \in appealed')
  /\ (t \in crowded <=> t \in crowded') /\ (t \in settled <=> t \in settled')

LEMMA SameIsSound ==
  ASSUME NEW t, Sound(t), Same(t), config' = config, proof' = proof
  PROVE  Sound(t)'
  BY DEF Sound, Same

\* A pass at work is alone unless its submission is crowded, and it is an
\* eval pass if the submission is settled.
LEMMA AtWork ==
  ASSUME NEW s, NEW w \in Workers, Sound(s), pass[s][w] # Idle
  PROVE  /\ s \notin crowded => \A v \in Workers \ {w} : pass[s][v] = Idle
         /\ s \in settled => pass[s][w].kind = "eval"
  BY DEF Sound, Alone, AtRest

\* What a position knows stands while the row only grows.
LEMMA KnowledgeStands ==
  ASSUME NEW submitted, NEW flags, NEW r, NEW after, NEW p, NEW e,
         r.state = "complete" => after.state = "complete"
  PROVE  /\ Informed(submitted, flags, r, p) => Informed(submitted, flags, after, p)
         /\ Weighed(submitted, flags, r, e) => Weighed(submitted, flags, after, e)
  BY DEF Informed, Weighed

\* A step of one pass keeps its submission sound if the row only grows, the
\* new position is informed, and what is known of uncrowded and of settled
\* submissions is so after it.
LEMMA PassStep ==
  ASSUME TypeOK, NEW s \in Submissions, NEW w \in Workers, NEW q \in Positions, Sound(s), MovesTo(s, w, q),
         config' = config, proof' = proof, agent' = agent, appealed' = appealed, settled' = settled,
         row[s].state = "complete" => row'[s].state = "complete",
         Measured(proof[s], row'[s]), Informed(proof[s], config, row'[s], q),
         s \notin crowded' => s \notin crowded /\ \A v \in Workers \ {w} : pass[s][v] = Idle,
         s \notin crowded' => OwnRow(row'[s], q) /\ OneStory(row'[s], status'[s], decider'[s]),
         s \notin crowded' => row[s].state # "complete" \/ row'[s].findings = row[s].findings,
         s \in settled => /\ row'[s].state \in {"complete", "skipped"} /\ decider'[s] \notin Automated
                          /\ q # Idle => q.kind = "eval"
  PROVE  Sound(s)'
  <1>1. pass'[s][w] = q /\ \A v \in Workers \ {w} : pass'[s][v] = pass[s][v]
    BY Moves
  <1>2. ASSUME NEW v \in Workers PROVE Informed(proof[s], config, row'[s], pass'[s][v])
    <2>1. CASE v = w
      BY <1>1, <2>1
    <2>2. CASE v # w
      BY <1>1, <2>2, KnowledgeStands DEF Sound
    <2> QED  BY <2>1, <2>2
  <1>3. \A v \in Workers : Weighed(proof[s], config, row'[s], agent[s][v])
    BY KnowledgeStands DEF Sound
  <1>4. ASSUME s \notin crowded'
        PROVE  /\ Alone(pass'[s])
               /\ \A v \in Workers : OwnRow(row'[s], pass'[s][v]) /\ Seen(row'[s], agent[s][v])
    <2>1. \A v \in Workers \ {w} : pass'[s][v] = Idle
      BY <1>1, <1>4
    <2>2. Alone(pass'[s])
      BY <2>1 DEF Alone
    <2>3. \A v \in Workers \ {w} : OwnRow(row'[s], pass'[s][v])
      BY <2>1 DEF OwnRow, Idle
    <2>4. OwnRow(row'[s], pass'[s][w])
      BY <1>1, <1>4
    <2>5. \A v \in Workers : Seen(row'[s], agent[s][v])
      BY <1>4 DEF Sound, Seen, Clean, Says
    <2> QED  BY <2>2, <2>3, <2>4, <2>5
  <1>5. s \in settled => s \in appealed /\ AtRest(row'[s], pass'[s], agent[s], decider'[s])
    <2> SUFFICES ASSUME s \in settled PROVE s \in appealed /\ AtRest(row'[s], pass'[s], agent[s], decider'[s])
      OBVIOUS
    <2>1. /\ s \in appealed
          /\ \A v \in Workers : agent[s][v] = Idle /\ (pass[s][v] # Idle => pass[s][v].kind = "eval")
      BY DEF Sound, AtRest
    <2>2. \A v \in Workers : pass'[s][v] # Idle => pass'[s][v].kind = "eval"
      BY <1>1, <2>1
    <2> QED  BY <2>1, <2>2 DEF AtRest
  <1> QED  BY <1>2, <1>3, <1>4, <1>5 DEF Sound

LEMMA BeginIsSound ==
  ASSUME TypeOK, NEW s \in Submissions, NEW w \in Workers, Sound(s), Begin(s, w)
  PROVE  Sound(s)'
  <1>1. PICK q \in Positions : MovesTo(s, w, q) /\ q.at \in {"measure", "skip"}
    BY PositionTypes DEF Begin, Kinds
  <1>2. /\ config' = config /\ proof' = proof /\ agent' = agent /\ appealed' = appealed /\ settled' = settled
        /\ status' = status /\ decider' = decider /\ row[s].state \in {"queued", "failed"}
    BY DEF Begin, Joined, submission
  <1>3. row'[s].state = "queued" /\ row'[s].findings = row[s].findings /\ row'[s].verdict = row[s].verdict
    BY StateChanges DEF Begin
  <1>4. Measured(proof[s], row'[s]) /\ row'[s].verdict # "pass"
    BY <1>2, <1>3, VerdictsAssumption DEF Sound, Measured
  <1>5. Informed(proof[s], config, row'[s], q) /\ OwnRow(row'[s], q)
    BY <1>1, <1>3 DEF Informed, OwnRow
  <1>6. s \notin crowded' => s \notin crowded /\ \A v \in Workers \ {w} : pass[s][v] = Idle
    BY DEF Begin, Joined
  <1>7. s \notin crowded' => OneStory(row'[s], status'[s], decider'[s])
    BY <1>2, <1>4, <1>6 DEF Sound, OneStory, Clean, Says
  <1>8. s \notin settled
    BY <1>2 DEF Sound, AtRest
  <1> QED  BY <1>1, <1>2, <1>3, <1>4, <1>5, <1>6, <1>7, <1>8, PassStep

LEMMA SkipIsSound ==
  ASSUME TypeOK, NEW s \in Submissions, NEW w \in Workers, Sound(s), Skip(s, w)
  PROVE  Sound(s)'
  <1>1. /\ config' = config /\ proof' = proof /\ agent' = agent /\ appealed' = appealed /\ settled' = settled
        /\ status' = status /\ decider' = decider /\ crowded' = crowded /\ MovesTo(s, w, Idle)
        /\ Idle \in Positions /\ Idle.at = "idle" /\ pass[s][w] # Idle
    BY PositionTypes DEF Skip, submission, history, Idle
  <1>2. /\ row'[s].state = IF row[s].state = "complete" THEN "complete" ELSE "skipped"
        /\ row'[s].findings = row[s].findings /\ row'[s].verdict = row[s].verdict /\ row'[s].acted = row[s].acted
    <2>1. CASE row[s].state = "complete"
      BY <2>1 DEF Skip
    <2>2. CASE row[s].state # "complete"
      <3>1. row' = [row EXCEPT ![s].state = "skipped"]
        BY <2>2 DEF Skip
      <3> QED  BY <2>2, <3>1, StateChanges
    <2> QED  BY <2>1, <2>2
  <1>3. Measured(proof[s], row'[s])
    BY <1>2 DEF Sound, Measured
  <1>4. Informed(proof[s], config, row'[s], Idle) /\ OwnRow(row'[s], Idle)
    BY <1>1 DEF Informed, OwnRow
  <1>5. s \notin crowded => \A v \in Workers \ {w} : pass[s][v] = Idle
    BY <1>1, AtWork
  <1>6. s \notin crowded => OneStory(row'[s], status'[s], decider'[s])
    BY <1>1, <1>2 DEF Sound, OneStory, Clean, Says
  <1>7. s \in settled => row'[s].state \in {"complete", "skipped"} /\ decider'[s] \notin Automated
    BY <1>1, <1>2 DEF Sound, AtRest
  <1> QED  BY <1>1, <1>2, <1>3, <1>4, <1>5, <1>6, <1>7, PassStep

\* A backfill lists a submission, and asks about it again.
LEMMA BeginEvalIsSound ==
  ASSUME TypeOK, NEW s \in Submissions, NEW w \in Workers, Sound(s), BeginEval(s, w)
  PROVE  Sound(s)'
  <1> DEFINE q == At("eval", "listed")
  <1>1. q \in Positions /\ q.at = "listed" /\ q.kind = "eval" /\ MovesTo(s, w, q)
    BY PositionTypes DEF BeginEval, Kinds
  <1>2. /\ config' = config /\ proof' = proof /\ agent' = agent /\ appealed' = appealed /\ settled' = settled
        /\ status' = status /\ decider' = decider /\ row' = row /\ row[s].state # "complete"
    BY DEF BeginEval, Joined, submission
  <1> HIDE DEF q
  <1>3. Informed(proof[s], config, row'[s], q) /\ OwnRow(row'[s], q)
    BY <1>1, <1>2 DEF Informed, OwnRow
  <1>4. s \notin crowded' => s \notin crowded /\ \A v \in Workers \ {w} : pass[s][v] = Idle
    BY DEF BeginEval, Joined
  <1>5. Measured(proof[s], row'[s]) /\ (s \notin crowded' => OneStory(row'[s], status'[s], decider'[s]))
    BY <1>2, <1>4 DEF Sound
  <1>6. s \in settled => row'[s].state \in {"complete", "skipped"} /\ decider'[s] \notin Automated
    BY <1>2 DEF Sound, AtRest
  <1> QED  BY <1>1, <1>2, <1>3, <1>4, <1>5, <1>6, PassStep

LEMMA EvalSubjectIsSound ==
  ASSUME TypeOK, NEW s \in Submissions, NEW w \in Workers, Sound(s), EvalSubject(s, w)
  PROVE  Sound(s)'
  <1>1. PICK q \in Positions : MovesTo(s, w, q) /\ q.at \in {"measure", "idle"} /\ (q # Idle => q.kind = "eval")
    BY PositionTypes DEF EvalSubject, Kinds, Idle
  <1>2. /\ config' = config /\ proof' = proof /\ agent' = agent /\ appealed' = appealed /\ settled' = settled
        /\ status' = status /\ decider' = decider /\ row' = row /\ crowded' = crowded
        /\ pass[s][w].at = "listed" /\ pass[s][w] # Idle
    BY DEF EvalSubject, submission, history, Idle
  <1>3. Informed(proof[s], config, row'[s], q) /\ (s \notin crowded => OwnRow(row'[s], q))
    BY <1>1, <1>2 DEF Informed, OwnRow, Sound
  <1>4. s \notin crowded => \A v \in Workers \ {w} : pass[s][v] = Idle
    BY <1>2, AtWork
  <1>5. Measured(proof[s], row'[s]) /\ (s \notin crowded' => OneStory(row'[s], status'[s], decider'[s]))
    BY <1>2 DEF Sound
  <1>6. s \in settled => row'[s].state \in {"complete", "skipped"} /\ decider'[s] \notin Automated
    BY <1>2 DEF Sound, AtRest
  <1> QED  BY <1>1, <1>2, <1>3, <1>4, <1>5, <1>6, PassStep

LEMMA MeasureIsSound ==
  ASSUME TypeOK, NEW s \in Submissions, NEW w \in Workers, Sound(s), Measure(s, w)
  PROVE  Sound(s)'
  <1>1. pass[s][w].at = "measure" /\ pass[s][w] # Idle /\ pass[s][w] \in Positions
    BY DEF Measure, Idle, TypeOK
  <1>2. pass[s][w].kind \in Kinds
    BY <1>1, PositionFacts
  <1>3. PICK q \in Positions : q.at \in {"compare", "unread"} /\ q.kind = pass[s][w].kind /\ MovesTo(s, w, q)
    <2>1. PICK at \in {"compare", "unread"} : MovesTo(s, w, At(pass[s][w].kind, at))
      BY DEF Measure
    <2> QED  BY <1>2, <2>1, PositionTypes
  <1>4. /\ config' = config /\ proof' = proof /\ agent' = agent /\ appealed' = appealed /\ settled' = settled
        /\ status' = status /\ decider' = decider /\ row' = row /\ crowded' = crowded
    BY DEF Measure, submission, history
  <1>5. Informed(proof[s], config, row'[s], q) /\ (s \notin crowded => OwnRow(row'[s], q))
    BY <1>1, <1>3, <1>4 DEF Informed, OwnRow, Sound
  <1>6. /\ s \notin crowded => \A v \in Workers \ {w} : pass[s][v] = Idle
        /\ s \in settled => q.kind = "eval"
    BY <1>1, <1>3, AtWork
  <1>7. Measured(proof[s], row'[s]) /\ (s \notin crowded' => OneStory(row'[s], status'[s], decider'[s]))
    BY <1>4 DEF Sound
  <1>8. s \in settled => row'[s].state \in {"complete", "skipped"} /\ decider'[s] \notin Automated
    BY <1>4 DEF Sound, AtRest
  <1> QED  BY <1>3, <1>4, <1>5, <1>6, <1>7, <1>8, PassStep

LEMMA CompareIsSound ==
  ASSUME TypeOK, NEW s \in Submissions, NEW w \in Workers, Sound(s), Compare(s, w)
  PROVE  Sound(s)'
  <1>1. PICK q \in Positions, report \in Reported :
          /\ MovesTo(s, w, q) /\ q.kind = pass[s][w].kind
          /\ q.at \in {"ladder", "conclude"} /\ q.report = report
          /\ q.at = "ladder" => q.tier = "triage"
          /\ q.at = "conclude" => q.analysis = None
          /\ Examined(report) => Report(proof[s], None) \subseteq report
          /\ row'[s].findings = report \/ (row[s] = Absent /\ row'[s] = Absent)
          /\ row'[s].state = row[s].state
          /\ row'[s].verdict = row[s].verdict /\ row'[s].acted = row[s].acted
    BY CompareFacts
  <1>2. /\ config' = config /\ proof' = proof /\ agent' = agent /\ appealed' = appealed /\ settled' = settled
        /\ status' = status /\ decider' = decider /\ crowded' = crowded
        /\ pass[s][w].at \in {"compare", "unread"} /\ pass[s][w] # Idle
    BY DEF Compare, submission, history, Idle
  <1>3. report # None
    BY VerdictsAssumption DEF Reported
  <1>4. Measured(proof[s], row'[s])
    BY <1>1, QueuedIsARow DEF Sound, Measured, Examined
  <1>5. Informed(proof[s], config, row'[s], q)
    BY <1>1, <1>3 DEF Informed
  <1>6. s \notin crowded => row[s].state # "complete" /\ row[s].verdict # "pass"
    BY <1>2, VerdictsAssumption DEF Sound, OwnRow, Measured
  <1>7. s \notin crowded => OwnRow(row'[s], q) /\ OneStory(row'[s], status'[s], decider'[s])
    <2>1. s \notin crowded => OwnRow(row'[s], q)
      BY <1>1, <1>6, QueuedIsARow DEF OwnRow
    <2>2. s \notin crowded => OneStory(row'[s], status'[s], decider'[s])
      BY <1>1, <1>2, <1>6 DEF Sound, OneStory, Clean, Says
    <2> QED  BY <2>1, <2>2
  <1>8. /\ s \notin crowded => \A v \in Workers \ {w} : pass[s][v] = Idle
        /\ s \in settled => q.kind = "eval"
    BY <1>1, <1>2, AtWork
  <1>9. s \in settled => row'[s].state \in {"complete", "skipped"} /\ decider'[s] \notin Automated
    BY <1>1, <1>2 DEF Sound, AtRest
  <1>10. s \notin crowded' => row[s].state # "complete" \/ row'[s].findings = row[s].findings
    BY <1>2, <1>6
  <1> QED  BY <1>1, <1>2, <1>4, <1>5, <1>7, <1>8, <1>9, <1>10, PassStep

LEMMA RungIsSound ==
  ASSUME TypeOK, NEW s \in Submissions, NEW w \in Workers, Sound(s), Rung(s, w)
  PROVE  Sound(s)'
  <1> DEFINE p == pass[s][w]
  <1>1. PICK q \in Positions :
          /\ MovesTo(s, w, q) /\ q.kind = p.kind /\ q.at \in {"ladder", "conclude"}
          /\ p.at = "ladder" /\ q.report = p.report /\ p.doubters \subseteq q.doubters
          /\ q.at = "ladder" /\ q.tier = "reject_review" => p.tier # "reject_review" /\ p.tier \in q.doubters
          /\ q.at = "conclude" /\ q.analysis # None =>
               q.analysis.tier = p.tier /\ (q.analysis.verdict = "fail" => p.tier \in q.doubters)
    BY RungFacts
  <1>2. /\ config' = config /\ proof' = proof /\ agent' = agent /\ appealed' = appealed /\ settled' = settled
        /\ status' = status /\ decider' = decider /\ crowded' = crowded /\ row' = row /\ pass[s][w] # Idle
    BY <1>1 DEF Rung, submission, history, Idle
  <1>3. Informed(proof[s], config, row[s], p) /\ (s \notin crowded => OwnRow(row[s], p))
    BY DEF Sound
  <1>4. /\ s \notin crowded => \A v \in Workers \ {w} : pass[s][v] = Idle
        /\ s \in settled => q.kind = "eval"
    BY <1>1, <1>2, AtWork
  <1>5. Measured(proof[s], row'[s]) /\ (s \notin crowded' => OneStory(row'[s], status'[s], decider'[s]))
    BY <1>2 DEF Sound
  <1>6. s \in settled => row'[s].state \in {"complete", "skipped"} /\ decider'[s] \notin Automated
    BY <1>2 DEF Sound, AtRest
  <1> HIDE DEF p
  <1>7. Informed(proof[s], config, row'[s], q)
    BY <1>1, <1>2, <1>3 DEF Informed, TwoDoubters
  <1>8. s \notin crowded => OwnRow(row'[s], q)
    BY <1>1, <1>2, <1>3 DEF OwnRow
  <1> QED  BY <1>1, <1>2, <1>4, <1>5, <1>6, <1>7, <1>8, PassStep

LEMMA ConcludeIsSound ==
  ASSUME TypeOK, NEW s \in Submissions, NEW w \in Workers, Sound(s), Conclude(s, w)
  PROVE  Sound(s)'
  <1> DEFINE p == pass[s][w]
             outcome == Decide(proof[s].contract, p.report, p.analysis)
             acts == WillAct(p.kind, outcome.decision)
  <1>1. PICK q \in Positions :
          /\ p.at = "conclude" /\ MovesTo(s, w, q)
          /\ q.at \in {"idle", "act"} /\ (q.at = "act" => acts)
          /\ q.at = "act" =>
               /\ q.kind = "live" /\ p.kind = "live" /\ q.report = p.report /\ q.analysis = p.analysis
               /\ q.doubters = p.doubters /\ q.decision = outcome.decision
          /\ row'[s].state = "complete" /\ row'[s].findings = row[s].findings
          /\ row'[s].verdict = Verdict[outcome.decision] /\ row'[s].acted = acts
          /\ outcome.decision \in {"approve", "reject", "escalate"}
          /\ outcome.decision = "approve" =>
               /\ proof[s].contract.mayAutoApprove /\ "decisive" \notin p.report
               /\ "strong" \in p.report => proof[s].contract.verifiability = "none"
          /\ outcome.decision = "approve" /\ proof[s].contract.verifiability = "content" =>
               p.analysis # None /\ p.analysis.verdict = "pass" /\ Sure(p.analysis, ApproveMin)
          /\ outcome.decision = "reject" =>
               /\ proof[s].contract.mayAutoReject
               /\ \/ "decisive" \in p.report
                  \/ p.analysis # None /\ p.analysis.verdict = "fail" /\ p.analysis.tier = "reject_review"
    BY ConcludeFacts
  <1>2. /\ config' = config /\ proof' = proof /\ agent' = agent /\ appealed' = appealed /\ settled' = settled
        /\ status' = status /\ decider' = decider /\ crowded' = crowded /\ pass[s][w] # Idle
    <2>1. UNCHANGED <<config, proof, agent, submission, history>>
      BY DEF Conclude
    <2>2. pass[s][w] # Idle
      BY <1>1 DEF Idle
    <2> QED  BY <2>1, <2>2 DEF submission, history
  <1>3. /\ Informed(proof[s], config, row[s], p) /\ Measured(proof[s], row[s])
        /\ s \notin crowded => OwnRow(row[s], p) /\ OneStory(row[s], status[s], decider[s])
    BY DEF Sound
  <1>4. /\ s \notin crowded => \A v \in Workers \ {w} : pass[s][v] = Idle
        /\ s \in settled => p.kind = "eval"
    BY <1>2, AtWork
  <1>5. s \in settled => decider'[s] \notin Automated
    BY <1>2 DEF Sound, AtRest
  <1>6. acts => ~config.agent /\ ~config.shadow
    BY DEF WillAct, WillActOnDecisions
  <1>7. q = Idle <=> q.at = "idle"
    BY PositionFacts
  <1> HIDE DEF p, outcome, acts
  <1>8. Measured(proof[s], row'[s])
    BY <1>1, <1>3 DEF Measured, Informed
  <1>9. q.at = "act" => Grounded(proof[s], q)
    <2>1. p.at = "conclude" /\ (Examined(p.report) => Report(proof[s], None) \subseteq p.report)
      BY <1>1, <1>3 DEF Informed
    <2>2. p.analysis # None /\ p.analysis.verdict = "fail" /\ p.analysis.tier = "reject_review" =>
            TwoDoubters(p.doubters)
      BY <1>1, <1>3 DEF Informed
    <2> SUFFICES ASSUME q.at = "act" PROVE Grounded(proof[s], q)
      OBVIOUS
    <2>3. q.report = p.report /\ q.analysis = p.analysis /\ q.doubters = p.doubters /\ q.decision = outcome.decision
      BY <1>1
    <2>4. q.decision = "approve" =>
            /\ proof[s].contract.mayAutoApprove
            /\ Examined(q.report) =>
                 /\ "decisive" \notin Report(proof[s], None)
                 /\ "strong" \in Report(proof[s], None) => proof[s].contract.verifiability = "none"
            /\ proof[s].contract.verifiability = "content" =>
                 q.analysis # None /\ q.analysis.verdict = "pass" /\ Sure(q.analysis, ApproveMin)
      BY <1>1, <2>1, <2>3
    <2>5. q.decision = "reject" =>
            /\ proof[s].contract.mayAutoReject
            /\ "decisive" \in q.report \/ TwoDoubters(q.doubters)
      BY <1>1, <2>2, <2>3
    <2> QED  BY <2>4, <2>5 DEF Grounded
  <1>10. Informed(proof[s], config, row'[s], q)
    BY <1>1, <1>6, <1>9 DEF Informed
  <1>11. s \notin crowded => OwnRow(row'[s], q)
    BY <1>1 DEF OwnRow
  <1>12. s \notin crowded => OneStory(row'[s], status'[s], decider'[s])
    <2> SUFFICES ASSUME s \notin crowded PROVE OneStory(row'[s], status'[s], decider'[s])
      OBVIOUS
    <2>1. row[s].state # "complete" /\ row[s].findings \in {None, p.report}
      BY <1>1, <1>3 DEF OwnRow
    <2>2. row'[s].verdict = "pass" => "decisive" \notin Says(row'[s])
      BY <1>1, <2>1 DEF Verdict, Says
    <2> QED  BY <1>2, <1>3, <2>1, <2>2 DEF OneStory, Clean
  <1>13. s \in settled => q = Idle
    BY <1>1, <1>4, <1>7
  <1>14. row'[s].state = "complete" /\ row'[s].findings = row[s].findings /\ MovesTo(s, w, q)
    BY <1>1
  <1> QED  BY <1>2, <1>4, <1>5, <1>8, <1>10, <1>11, <1>12, <1>13, <1>14, PassStep

LEMMA ActIsSound ==
  ASSUME TypeOK, NEW s \in Submissions, NEW w \in Workers, Sound(s), Act(s, w)
  PROVE  Sound(s)'
  <1> DEFINE p == pass[s][w]
  <1>1. /\ config' = config /\ proof' = proof /\ agent' = agent /\ appealed' = appealed /\ settled' = settled
        /\ crowded' = crowded /\ row' = row /\ MovesTo(s, w, Idle) /\ Idle \in Positions /\ Idle.at = "idle"
        /\ p.at = "act" /\ p # Idle
    BY PositionTypes DEF Act, history, Idle
  <1>2. p.kind = "live" /\ p.decision \in {"approve", "reject"}
    BY <1>1, PositionFacts DEF TypeOK
  <1>3. \/ status' = status /\ decider' = decider
        \/ status'[s] = Outcome[p.decision] /\ decider'[s] = "pass"
    BY DEF Act, TypeOK
  <1>4. /\ Informed(proof[s], config, row[s], p) /\ Measured(proof[s], row[s])
        /\ s \notin crowded => OwnRow(row[s], p) /\ OneStory(row[s], status[s], decider[s])
    BY DEF Sound
  <1>5. /\ s \notin crowded => \A v \in Workers \ {w} : pass[s][v] = Idle
        /\ s \notin settled
    BY <1>1, <1>2, AtWork
  <1> HIDE DEF p
  <1>6. Informed(proof[s], config, row'[s], Idle) /\ OwnRow(row'[s], Idle)
    BY <1>1 DEF Informed, OwnRow
  <1>7. s \notin crowded => OneStory(row'[s], status'[s], decider'[s])
    <2> SUFFICES ASSUME s \notin crowded PROVE OneStory(row'[s], status'[s], decider'[s])
      OBVIOUS
    <2>1. row[s].state = "complete" /\ row[s].acted /\ row[s].verdict = Verdict[p.decision]
      BY <1>1, <1>4 DEF Informed, OwnRow
    <2>2. Verdict[p.decision] = (IF Outcome[p.decision] = "approved" THEN "pass" ELSE "fail")
      BY <1>2 DEF Verdict, Outcome
    <2> QED  BY <1>1, <1>3, <1>4, <2>1, <2>2 DEF OneStory
  <1> QED  BY <1>1, <1>4, <1>5, <1>6, <1>7, PassStep

LEMMA PassFailsIsSound ==
  ASSUME TypeOK, NEW s \in Submissions, NEW w \in Workers, Sound(s), PassFails(s, w)
  PROVE  Sound(s)'
  <1>1. /\ config' = config /\ proof' = proof /\ agent' = agent /\ appealed' = appealed /\ settled' = settled
        /\ status' = status /\ decider' = decider /\ crowded' = crowded /\ MovesTo(s, w, Idle)
        /\ Idle \in Positions /\ Idle.at = "idle" /\ pass[s][w] # Idle
    BY PositionTypes DEF PassFails, submission, history, Idle
  <1>2. /\ \/ row'[s].state = row[s].state
           \/ row'[s].state = "failed" /\ row[s].state # "complete" /\ pass[s][w].kind = "live"
        /\ row'[s].findings = row[s].findings /\ row'[s].verdict = row[s].verdict /\ row'[s].acted = row[s].acted
    <2>1. \/ row' = row
          \/ row' = [row EXCEPT ![s].state = "failed"] /\ row[s].state # "complete" /\ pass[s][w].kind = "live"
      BY DEF PassFails
    <2>2. CASE row' = row
      BY <2>2
    <2>3. CASE row' = [row EXCEPT ![s].state = "failed"] /\ row[s].state # "complete" /\ pass[s][w].kind = "live"
      BY <2>3, StateChanges
    <2> QED  BY <2>1, <2>2, <2>3
  <1>3. Measured(proof[s], row'[s])
    BY <1>2 DEF Sound, Measured
  <1>4. Informed(proof[s], config, row'[s], Idle) /\ OwnRow(row'[s], Idle)
    BY <1>1 DEF Informed, OwnRow
  <1>5. /\ s \notin crowded => \A v \in Workers \ {w} : pass[s][v] = Idle
        /\ s \in settled => pass[s][w].kind = "eval"
    BY <1>1, AtWork
  <1>6. s \notin crowded => OneStory(row'[s], status'[s], decider'[s])
    BY <1>1, <1>2 DEF Sound, OneStory, Clean, Says
  <1>7. s \in settled => row'[s].state \in {"complete", "skipped"} /\ decider'[s] \notin Automated
    BY <1>1, <1>2, <1>5 DEF Sound, AtRest
  <1> QED  BY <1>1, <1>2, <1>3, <1>4, <1>5, <1>6, <1>7, PassStep

\* And so does a step of one evaluation, of a submission that is not settled.
LEMMA AgentStep ==
  ASSUME NEW s, NEW w \in Workers, Sound(s), s \notin settled,
         config' = config, proof' = proof, row' = row, pass' = pass, appealed' = appealed, crowded' = crowded,
         settled' = settled, \A v \in Workers \ {w} : agent'[s][v] = agent[s][v],
         Weighed(proof[s], config, row[s], agent'[s][w]),
         s \notin crowded => Seen(row[s], agent'[s][w]) /\ OneStory(row[s], status'[s], decider'[s])
  PROVE  Sound(s)'
  <1>1. \A v \in Workers : /\ Weighed(proof[s], config, row[s], agent'[s][v])
                           /\ s \notin crowded => Seen(row[s], agent'[s][v])
    BY DEF Sound
  <1> QED  BY <1>1 DEF Sound

LEMMA BriefIsSound ==
  ASSUME TypeOK, NEW s \in Submissions, NEW w \in Workers, Sound(s), Brief(s, w)
  PROVE  Sound(s)'
  <1>1. /\ config' = config /\ proof' = proof /\ row' = row /\ pass' = pass /\ appealed' = appealed
        /\ status' = status /\ decider' = decider /\ crowded' = crowded /\ settled' = settled
        /\ config.agent /\ s \notin appealed
    BY DEF Brief, submission, history
  <1>2. agent'[s][w].at = "briefed" /\ \A v \in Workers \ {w} : agent'[s][v] = agent[s][v]
    BY DEF Brief, TypeOK
  <1>3. s \notin settled
    BY <1>1 DEF Sound
  <1>4. Weighed(proof[s], config, row[s], agent'[s][w]) /\ Seen(row[s], agent'[s][w])
    BY <1>1, <1>2 DEF Weighed, Seen
  <1>5. s \notin crowded => OneStory(row[s], status'[s], decider'[s])
    BY <1>1 DEF Sound
  <1> QED  BY <1>1, <1>2, <1>3, <1>4, <1>5, AgentStep

LEMMA EvaluateIsSound ==
  ASSUME TypeOK, NEW s \in Submissions, NEW w \in Workers, Sound(s), Evaluate(s, w)
  PROVE  Sound(s)'
  <1>1. /\ config' = config /\ proof' = proof /\ row' = row /\ pass' = pass /\ appealed' = appealed
        /\ status' = status /\ decider' = decider /\ crowded' = crowded /\ settled' = settled
    BY DEF Evaluate, submission, history
  <1>2. /\ agent[s][w].at = "briefed" /\ agent'[s][w].at = "decided"
        /\ agent'[s][w].read = row[s].findings
        /\ \A v \in Workers \ {w} : agent'[s][v] = agent[s][v]
        /\ agent'[s][w].decision = "approved" =>
             /\ proof[s].contract.mayAutoApprove /\ row[s].state = "complete"
             /\ row[s].findings # None => row[s].findings \cap {"decisive", "strong"} = {}
             /\ proof[s].located => agent'[s][w].location = "supported"
        /\ agent'[s][w].decision = "rejected" =>
             /\ proof[s].contract.mayAutoReject
             /\ \/ agent'[s][w].location = "contradicted"
                \/ /\ row[s].state = "complete"
                   /\ proof[s].located => agent'[s][w].location = "supported"
                   /\ proof[s].contract.verifiability = "content" => agent'[s][w].vision.relevance # None
    BY EvaluateFacts
  <1>3. Measured(proof[s], row[s]) /\ Weighed(proof[s], config, row[s], agent[s][w])
    BY DEF Sound
  <1>4. s \notin settled
    BY <1>2 DEF Sound, AtRest, Idle
  <1>5. agent'[s][w].decision = "approved" =>
          Clean(row[s]) /\ (Examined(row[s].findings) => Report(proof[s], None) \subseteq row[s].findings)
    BY <1>2, <1>3 DEF Measured, Clean, Says
  <1>6. Weighed(proof[s], config, row[s], agent'[s][w])
    BY <1>2, <1>3, <1>5 DEF Weighed, Clean, Says, Examined
  <1>7. Seen(row[s], agent'[s][w])
    BY <1>5 DEF Seen
  <1>8. s \notin crowded => OneStory(row[s], status'[s], decider'[s])
    BY <1>1 DEF Sound
  <1> QED  BY <1>1, <1>2, <1>4, <1>6, <1>7, <1>8, AgentStep

LEMMA ApplyIsSound ==
  ASSUME TypeOK, NEW s \in Submissions, NEW w \in Workers, Sound(s), Apply(s, w)
  PROVE  Sound(s)'
  <1>1. /\ config' = config /\ proof' = proof /\ row' = row /\ pass' = pass /\ appealed' = appealed
        /\ crowded' = crowded /\ settled' = settled
        /\ agent[s][w].at = "decided" /\ agent'[s][w].at = "idle"
        /\ \A v \in Workers \ {w} : agent'[s][v] = agent[s][v]
    BY DEF Apply, history, Idle, TypeOK
  <1>2. \/ status' = status /\ decider' = decider
        \/ status'[s] = agent[s][w].decision /\ decider'[s] = "agent"
    BY DEF Apply, TypeOK
  <1>3. s \notin settled
    BY <1>1 DEF Sound, AtRest, Idle
  <1>4. Weighed(proof[s], config, row[s], agent'[s][w]) /\ Seen(row[s], agent'[s][w])
    BY <1>1 DEF Weighed, Seen
  <1>5. s \notin crowded => OneStory(row[s], status'[s], decider'[s])
    BY <1>1, <1>2 DEF Sound, Seen, OneStory
  <1> QED  BY <1>1, <1>3, <1>4, <1>5, AgentStep

LEMMA EvaluationFailsIsSound ==
  ASSUME TypeOK, NEW s \in Submissions, NEW w \in Workers, Sound(s), EvaluationFails(s, w)
  PROVE  Sound(s)'
  <1>1. /\ config' = config /\ proof' = proof /\ row' = row /\ pass' = pass /\ appealed' = appealed
        /\ status' = status /\ decider' = decider /\ crowded' = crowded /\ settled' = settled
        /\ agent[s][w] # Idle /\ agent'[s][w].at = "idle"
        /\ \A v \in Workers \ {w} : agent'[s][v] = agent[s][v]
    BY DEF EvaluationFails, submission, history, Idle, TypeOK
  <1>2. s \notin settled
    BY <1>1 DEF Sound, AtRest
  <1>3. Weighed(proof[s], config, row[s], agent'[s][w]) /\ Seen(row[s], agent'[s][w])
    BY <1>1 DEF Weighed, Seen
  <1>4. s \notin crowded => OneStory(row[s], status'[s], decider'[s])
    BY <1>1 DEF Sound
  <1> QED  BY <1>1, <1>2, <1>3, <1>4, AgentStep

\* A person's word, and an appeal.
LEMMA PersonDecidesIsSound ==
  ASSUME TypeOK, NEW s \in Submissions, Sound(s), PersonDecides(s)
  PROVE  Sound(s)'
  <1>1. /\ config' = config /\ proof' = proof /\ row' = row /\ pass' = pass /\ agent' = agent
        /\ appealed' = appealed /\ crowded' = crowded /\ settled' = settled
    BY DEF PersonDecides, history
  <1>2. decider'[s] = "person"
    BY DEF PersonDecides, TypeOK
  <1>3. /\ OneStory(row[s], status[s], decider[s]) => OneStory(row[s], status'[s], decider'[s])
        /\ AtRest(row[s], pass[s], agent[s], decider[s]) => AtRest(row[s], pass[s], agent[s], decider'[s])
    BY <1>2 DEF OneStory, AtRest, Automated
  <1> QED  BY <1>1, <1>3 DEF Sound

LEMMA AppealIsSound ==
  ASSUME TypeOK, NEW s \in Submissions, Sound(s), Appeal(s)
  PROVE  Sound(s)'
  <1>1. /\ config' = config /\ proof' = proof /\ row' = row /\ pass' = pass /\ agent' = agent
        /\ crowded' = crowded /\ s \in appealed' /\ s \notin appealed
        /\ s \in settled' => s \in settled \/ NothingLeftToDo(s)
    BY DEF Appeal
  <1>2. decider'[s] = None
    BY DEF Appeal, TypeOK
  <1>3. None \notin Automated
    BY VerdictsAssumption DEF Automated
  <1>4. OneStory(row[s], status[s], decider[s]) => OneStory(row[s], status'[s], decider'[s])
    BY <1>2, <1>3 DEF OneStory, Automated
  <1>5. s \in settled' => AtRest(row[s], pass[s], agent[s], decider'[s])
    BY <1>1, <1>2, <1>3 DEF Sound, AtRest, NothingLeftToDo
  <1> QED  BY <1>1, <1>4, <1>5 DEF Sound

\* The row begins to be.
LEMMA EnqueueIsSound ==
  ASSUME TypeOK, NEW s \in Submissions, Sound(s), Enqueue(s)
  PROVE  Sound(s)'
  <1>1. /\ config' = config /\ proof' = proof /\ pass' = pass /\ agent' = agent /\ status' = status
        /\ decider' = decider /\ appealed' = appealed /\ crowded' = crowded /\ settled' = settled
        /\ row[s] = Absent
    BY DEF Enqueue, submission, history
  <1>2. row'[s] = Queued
    BY DEF Enqueue, TypeOK
  <1>3. /\ row[s].state = "absent" /\ row'[s].state = "queued" /\ row[s].findings = None
        /\ row'[s].findings = None /\ row[s].verdict = None /\ row'[s].verdict = None /\ ~row[s].acted
    BY <1>1, <1>2, QueuedIsARow
  <1>4. s \notin settled
    BY <1>3 DEF Sound, AtRest
  <1>5. /\ \A w \in Workers : /\ Informed(proof[s], config, row'[s], pass[s][w])
                             /\ Weighed(proof[s], config, row'[s], agent[s][w])
        /\ Measured(proof[s], row'[s])
    BY <1>3, KnowledgeStands DEF Sound, Measured
  <1>6. \A w \in Workers : /\ OwnRow(row[s], pass[s][w]) => OwnRow(row'[s], pass[s][w])
                           /\ Seen(row[s], agent[s][w]) => Seen(row'[s], agent[s][w])
    BY <1>3 DEF OwnRow, Seen, Clean
  <1>7. OneStory(row[s], status[s], decider[s]) => OneStory(row'[s], status[s], decider[s])
    BY <1>3, VerdictsAssumption DEF OneStory, Clean
  <1> QED  BY <1>1, <1>4, <1>5, <1>6, <1>7 DEF Sound

\* Whatever runs in a process that stops is forgotten.
LEMMA RestartIsSound ==
  ASSUME TypeOK, NEW s \in Submissions, Sound(s), Restart
  PROVE  Sound(s)'
  <1>1. /\ proof' = proof /\ row' = row /\ status' = status /\ decider' = decider
        /\ appealed' = appealed /\ crowded' = crowded /\ settled' = settled
        /\ (\A w \in Workers : agent'[s][w] = Idle) /\ Idle.at = "idle"
    BY DEF Restart, submission, history, Idle
  <1>2. \A w \in Workers :
          \/ pass'[s][w] = Idle
          \/ pass'[s][w] = pass[s][w] /\ pass[s][w] # Idle /\ pass[s][w].kind = "eval"
    <2>1. pass'[s] = [w \in Workers |->
                        IF pass[s][w] # Idle /\ pass[s][w].kind = "eval" THEN pass[s][w] ELSE Idle]
      BY DEF Restart
    <2> QED  BY <2>1
  <1>3. ASSUME NEW w \in Workers PROVE Informed(proof[s], config', row[s], pass'[s][w])
    <2>1. pass'[s][w].at # "act"
      BY <1>1, <1>2, PositionFacts DEF TypeOK
    <2>2. Informed(proof[s], config, row[s], pass[s][w])
      BY DEF Sound
    <2> QED  BY <1>1, <1>2, <2>1, <2>2 DEF Informed
  <1>4. \A w \in Workers : Weighed(proof[s], config', row[s], agent'[s][w]) /\ Seen(row[s], agent'[s][w])
    BY <1>1 DEF Weighed, Seen
  <1>5. Alone(pass[s]) => Alone(pass'[s])
    BY <1>2 DEF Alone
  <1>6. \A w \in Workers : OwnRow(row[s], pass[s][w]) => OwnRow(row[s], pass'[s][w])
    BY <1>1, <1>2 DEF OwnRow
  <1>7. AtRest(row[s], pass[s], agent[s], decider[s]) => AtRest(row[s], pass'[s], agent'[s], decider[s])
    BY <1>1, <1>2 DEF AtRest
  <1> QED  BY <1>1, <1>3, <1>4, <1>5, <1>6, <1>7 DEF Sound

PassOf(s, w) ==
  \/ Begin(s, w) \/ Skip(s, w) \/ BeginEval(s, w) \/ EvalSubject(s, w) \/ Measure(s, w)
  \/ Compare(s, w) \/ Rung(s, w) \/ Conclude(s, w) \/ Act(s, w) \/ PassFails(s, w)

EvaluatorStep(s, w) == Brief(s, w) \/ Evaluate(s, w) \/ Apply(s, w) \/ EvaluationFails(s, w)

StepOf(s) ==
  \/ \E w \in Workers : PassOf(s, w) \/ EvaluatorStep(s, w)
  \/ Enqueue(s) \/ PersonDecides(s) \/ Appeal(s)

LEMMA Steps ==
  ASSUME Next
  PROVE  \/ \E s \in Submissions : StepOf(s)
         \/ \E s \in Submissions : Removed(s) \/ Restored(s)
         \/ Restart
  BY DEF Next, StepOf, PassOf, EvaluatorStep

\* A step of one submission is no other's business.
LEMMA OthersAreSame ==
  ASSUME TypeOK, NEW s \in Submissions, NEW t \in Submissions \ {s},
         StepOf(s)
  PROVE  Same(t) /\ config' = config /\ proof' = proof
  <1> USE DEF submission, history
  <1>1. ASSUME NEW w \in Workers, PassOf(s, w)
        PROVE  Same(t) /\ config' = config /\ proof' = proof
    <2>1. PICK q : MovesTo(s, w, q)
      BY <1>1 DEF PassOf, Begin, Skip, BeginEval, EvalSubject, Measure, Compare, Rung, Conclude, Act, PassFails
    <2>2. pass'[t] = pass[t]
      BY <2>1 DEF MovesTo, TypeOK
    <2>3. /\ config' = config /\ proof' = proof /\ agent' = agent /\ appealed' = appealed /\ settled' = settled
          /\ t \in crowded <=> t \in crowded'
      BY <1>1 DEF PassOf, Begin, Skip, BeginEval, EvalSubject, Measure, Compare, Rung, Conclude, Act,
                  PassFails, Joined
    <2>4. row'[t] = row[t]
      <3>1. CASE Begin(s, w) \/ Skip(s, w) \/ PassFails(s, w)
        BY <3>1 DEF Begin, Skip, PassFails, TypeOK
      <3>2. CASE BeginEval(s, w) \/ EvalSubject(s, w) \/ Measure(s, w) \/ Rung(s, w) \/ Act(s, w)
        BY <3>2 DEF BeginEval, EvalSubject, Measure, Rung, Act
      <3>3. CASE Compare(s, w)
        BY <3>3, CompareFacts
      <3>4. CASE Conclude(s, w)
        BY <3>4, ConcludeFacts
      <3> QED  BY <1>1, <3>1, <3>2, <3>3, <3>4 DEF PassOf
    <2>5. status'[t] = status[t] /\ decider'[t] = decider[t]
      <3>1. CASE Act(s, w)
        BY <3>1 DEF Act, TypeOK
      <3>2. CASE ~Act(s, w)
        BY <1>1, <3>2 DEF PassOf, Begin, Skip, BeginEval, EvalSubject, Measure, Compare, Rung, Conclude,
                          PassFails
      <3> QED  BY <3>1, <3>2
    <2> QED  BY <2>2, <2>3, <2>4, <2>5 DEF Same
  <1>2. ASSUME NEW w \in Workers, EvaluatorStep(s, w)
        PROVE  Same(t) /\ config' = config /\ proof' = proof
    <2>1. CASE Brief(s, w) \/ Apply(s, w) \/ EvaluationFails(s, w)
      BY <2>1 DEF Brief, Apply, EvaluationFails, Same, TypeOK
    <2>2. CASE Evaluate(s, w)
      BY <2>2, EvaluateFacts DEF Evaluate, Same
    <2> QED  BY <1>2, <2>1, <2>2 DEF EvaluatorStep
  <1>3. CASE Enqueue(s) \/ PersonDecides(s) \/ Appeal(s)
    BY <1>3 DEF Enqueue, PersonDecides, Appeal, Same, TypeOK
  <1> QED  BY <1>1, <1>2, <1>3 DEF StepOf

LEMMA Initially == Init => IInv
  <1> SUFFICES ASSUME Init PROVE IInv
    OBVIOUS
  <1>1. Absent \in Rows
    BY QueuedIsARow
  <1>2. TypeOK
    <2>1. Idle \in Positions /\ Idle \in Evaluations
      BY PositionTypes DEF Evaluations
    <2>2. Archive \subseteq Submissions
      BY VerdictsAssumption
    <2> QED  BY <1>1, <2>1, <2>2 DEF Init, TypeOK
  <1>3. ASSUME NEW s \in Submissions PROVE Sound(s)
    <2>1. /\ row[s] = Absent /\ \A w \in Workers : pass[s][w] = Idle
          /\ \A w \in Workers : agent[s][w] = Idle
          /\ decider[s] \in {"person", None} /\ s \notin settled /\ Idle.at = "idle"
      BY <1>3 DEF Init, Idle
    <2>2. Absent.state = "absent" /\ Absent.verdict = None /\ Absent.findings = None
      BY QueuedIsARow
    <2>3. None # "pass" /\ None # "agent"
      BY VerdictsAssumption
    <2>4. Measured(proof[s], row[s])
      BY <2>1, <2>2 DEF Measured, Examined
    <2>5. \A w \in Workers : Informed(proof[s], config, row[s], pass[s][w]) /\ OwnRow(row[s], pass[s][w])
      BY <2>1 DEF Informed, OwnRow
    <2>6. /\ \A w \in Workers : Weighed(proof[s], config, row[s], agent[s][w]) /\ Seen(row[s], agent[s][w])
          /\ Alone(pass[s])
      BY <2>1 DEF Weighed, Seen, Alone
    <2>7. OneStory(row[s], status[s], decider[s])
      BY <2>1, <2>2, <2>3 DEF OneStory
    <2> QED  BY <2>1, <2>4, <2>5, <2>6, <2>7 DEF Sound
  <1> QED  BY <1>2, <1>3 DEF IInv

LEMMA Inductively == IInv /\ [Next]_vars => IInv'
  <1> SUFFICES ASSUME IInv, [Next]_vars PROVE IInv'
    OBVIOUS
  <1>1. TypeOK /\ TypeOK' /\ \A s \in Submissions : Sound(s)
    BY TypeNext DEF IInv
  <1>2. ASSUME NEW s \in Submissions, NEW w \in Workers, PassOf(s, w) PROVE Sound(s)'
    <2>1. Sound(s)
      BY <1>1
    <2>2. CASE Begin(s, w)
      BY <1>1, <2>1, <2>2, BeginIsSound
    <2>3. CASE Skip(s, w)
      BY <1>1, <2>1, <2>3, SkipIsSound
    <2>4. CASE BeginEval(s, w)
      BY <1>1, <2>1, <2>4, BeginEvalIsSound
    <2>5. CASE EvalSubject(s, w)
      BY <1>1, <2>1, <2>5, EvalSubjectIsSound
    <2>6. CASE Measure(s, w)
      BY <1>1, <2>1, <2>6, MeasureIsSound
    <2>7. CASE Compare(s, w)
      BY <1>1, <2>1, <2>7, CompareIsSound
    <2>8. CASE Rung(s, w)
      BY <1>1, <2>1, <2>8, RungIsSound
    <2>9. CASE Conclude(s, w)
      BY <1>1, <2>1, <2>9, ConcludeIsSound
    <2>10. CASE Act(s, w)
      BY <1>1, <2>1, <2>10, ActIsSound
    <2>11. CASE PassFails(s, w)
      BY <1>1, <2>1, <2>11, PassFailsIsSound
    <2> QED  BY <1>2, <2>2, <2>3, <2>4, <2>5, <2>6, <2>7, <2>8, <2>9, <2>10, <2>11 DEF PassOf
  <1>3. ASSUME NEW s \in Submissions, NEW w \in Workers, EvaluatorStep(s, w) PROVE Sound(s)'
    <2>1. Sound(s)
      BY <1>1
    <2>2. CASE Brief(s, w)
      BY <1>1, <2>1, <2>2, BriefIsSound
    <2>3. CASE Evaluate(s, w)
      BY <1>1, <2>1, <2>3, EvaluateIsSound
    <2>4. CASE Apply(s, w)
      BY <1>1, <2>1, <2>4, ApplyIsSound
    <2>5. CASE EvaluationFails(s, w)
      BY <1>1, <2>1, <2>5, EvaluationFailsIsSound
    <2> QED  BY <1>3, <2>2, <2>3, <2>4, <2>5 DEF EvaluatorStep
  <1>4. ASSUME NEW s \in Submissions, StepOf(s), NEW t \in Submissions
        PROVE  Sound(t)'
    <2>1. CASE t = s
      <3>1. CASE PersonDecides(s)
        BY <1>1, <2>1, <3>1, PersonDecidesIsSound
      <3>2. CASE Appeal(s)
        BY <1>1, <2>1, <3>2, AppealIsSound
      <3>3. CASE Enqueue(s)
        BY <1>1, <2>1, <3>3, EnqueueIsSound
      <3> QED  BY <1>2, <1>3, <1>4, <2>1, <3>1, <3>2, <3>3 DEF StepOf
    <2>2. CASE t # s
      <3>1. Same(t) /\ config' = config /\ proof' = proof
        BY <1>1, <1>4, <2>2, OthersAreSame
      <3> QED  BY <1>1, <3>1, SameIsSound
    <2> QED  BY <2>1, <2>2
  <1>5. ASSUME (\E s \in Submissions : Removed(s) \/ Restored(s)) \/ UNCHANGED vars, NEW t \in Submissions
        PROVE  Sound(t)'
    <2>1. Same(t) /\ config' = config /\ proof' = proof
      BY <1>5 DEF Removed, Restored, vars, history, Same
    <2> QED  BY <1>1, <2>1, SameIsSound
  <1>6. ASSUME Restart, NEW t \in Submissions PROVE Sound(t)'
    BY <1>1, <1>6, RestartIsSound
  <1>7. ASSUME NEW t \in Submissions PROVE Sound(t)'
    BY <1>4, <1>5, <1>6, Steps
  <1> QED  BY <1>1, <1>7 DEF IInv

LEMMA InvariantHolds == Spec => []IInv
  BY Initially, Inductively, PTL DEF Spec

\* Only two steps let a machine decide: a pass that acts, and an agent that
\* carries out what it had decided.
LEMMA DecidingSteps ==
  ASSUME TypeOK, Next, NEW s \in Submissions, NEW who \in Automated, NEW outcome, Decides(s, who, outcome)
  PROVE  \/ /\ who = "pass"
            /\ \E w \in Workers : PassActs(s, w) /\ outcome = Outcome[pass[s][w].decision]
         \/ /\ who = "agent"
            /\ \E w \in Workers : AgentActs(s, w) /\ agent[s][w].decision = outcome
  <1>1. decider'[s] # decider[s] /\ decider'[s] = who /\ who # "person" /\ who # None /\ status'[s] = outcome
    BY VerdictsAssumption DEF Decides, Automated
  <1>2. ~Restart /\ \A t \in Submissions : ~Removed(t) /\ ~Restored(t)
    BY <1>1 DEF Restart, Removed, Restored, submission
  <1>3. PICK t \in Submissions : StepOf(t)
    BY <1>2, Steps
  <1>4. t = s
    BY <1>1, <1>3, OthersAreSame DEF Same
  <1>5. ASSUME NEW w \in Workers, PassOf(s, w)
        PROVE  who = "pass" /\ PassActs(s, w) /\ outcome = Outcome[pass[s][w].decision]
    <2>1. Act(s, w)
      BY <1>1, <1>5 DEF PassOf, Begin, Skip, BeginEval, EvalSubject, Measure, Compare, Rung, Conclude,
                        PassFails, submission
    <2>2. pass'[s][w] = Idle /\ pass[s][w].at = "act"
      BY <2>1, Moves, PositionTypes DEF Act
    <2>3. decider'[s] = "pass" /\ status'[s] = Outcome[pass[s][w].decision]
      BY <1>1, <2>1 DEF Act, TypeOK
    <2> QED  BY <1>1, <2>2, <2>3 DEF PassActs
  <1>6. ASSUME NEW w \in Workers, EvaluatorStep(s, w)
        PROVE  who = "agent" /\ AgentActs(s, w) /\ agent[s][w].decision = outcome
    <2>1. Apply(s, w)
      BY <1>1, <1>6 DEF EvaluatorStep, Brief, Evaluate, EvaluationFails, submission
    <2> QED  BY <1>1, <2>1 DEF Apply, AgentActs, TypeOK
  <1>7. ~Enqueue(s) /\ ~PersonDecides(s) /\ ~Appeal(s)
    BY <1>1 DEF Enqueue, PersonDecides, Appeal, submission, TypeOK
  <1> QED  BY <1>3, <1>4, <1>5, <1>6, <1>7 DEF StepOf

\* The type invariant holds.
THEOREM VerdictTypes == Spec => []TypeOK
  BY InvariantHolds, PTL DEF IInv

\* No machine approves what it has seen the file condemn, or without the leave
\* and the models that the contract asks for, however the passes overlap.
THEOREM ApprovalsAreEarned == Spec => ApprovalIsEarned
  <1>1. ASSUME IInv, Next, NEW s \in Submissions PROVE EarnedApproval(s)
    <2>1. TypeOK /\ Sound(s) /\ {"pass", "agent"} = Automated
      BY <1>1 DEF IInv, Automated
    <2>2. ASSUME Decides(s, "pass", "approved")
          PROVE  \E w \in Workers : PassActs(s, w) /\ pass[s][w].decision = "approve" /\ Grounded(proof[s], pass[s][w])
      <3>1. PICK w \in Workers : PassActs(s, w) /\ Outcome[pass[s][w].decision] = "approved"
        BY <1>1, <2>1, <2>2, DecidingSteps
      <3>2. pass[s][w].decision = "approve"
        BY <2>1, <3>1, PositionFacts DEF PassActs, TypeOK, Outcome
      <3>3. Grounded(proof[s], pass[s][w])
        BY <2>1, <3>1 DEF PassActs, Sound, Informed
      <3> QED  BY <3>1, <3>2, <3>3
    <2>3. Decides(s, "agent", "approved") => \E w \in Workers : AgentActs(s, w) /\ agent[s][w].decision = "approved"
      BY <1>1, <2>1, DecidingSteps
    <2>4. \A w \in Workers : Weighed(proof[s], config, row[s], agent[s][w])
      BY <2>1 DEF Sound
    <2> QED  BY <2>2, <2>3, <2>4 DEF EarnedApproval, AgentActs, Automated, Grounded, Weighed, OwnReport, Asked
  <1>2. IInv /\ [Next]_vars => [\A s \in Submissions : EarnedApproval(s)]_vars
    BY <1>1
  <1> QED  BY <1>2, InvariantHolds, PTL DEF Spec, ApprovalIsEarned

\* No machine rejects without leave, and without a ground it held itself.
THEOREM RejectionsAreGrounded == Spec => RejectionIsGrounded
  <1>1. ASSUME IInv, Next, NEW s \in Submissions PROVE GroundedRejection(s)
    <2>1. TypeOK /\ Sound(s) /\ {"pass", "agent"} = Automated
      BY <1>1 DEF IInv, Automated
    <2>2. ASSUME Decides(s, "pass", "rejected")
          PROVE  \E w \in Workers : PassActs(s, w) /\ pass[s][w].decision = "reject" /\ Grounded(proof[s], pass[s][w])
      <3>1. PICK w \in Workers : PassActs(s, w) /\ Outcome[pass[s][w].decision] = "rejected"
        BY <1>1, <2>1, <2>2, DecidingSteps
      <3>2. pass[s][w].decision = "reject"
        BY <2>1, <3>1, PositionFacts DEF PassActs, TypeOK, Outcome
      <3>3. Grounded(proof[s], pass[s][w])
        BY <2>1, <3>1 DEF PassActs, Sound, Informed
      <3> QED  BY <3>1, <3>2, <3>3
    <2>3. Decides(s, "agent", "rejected") => \E w \in Workers : AgentActs(s, w) /\ agent[s][w].decision = "rejected"
      BY <1>1, <2>1, DecidingSteps
    <2>4. \A w \in Workers : Weighed(proof[s], config, row[s], agent[s][w])
      BY <2>1 DEF Sound
    <2> QED  BY <2>2, <2>3, <2>4 DEF GroundedRejection, AgentActs, Automated, Grounded, TwoDoubters, Weighed, Asked
  <1>2. IInv /\ [Next]_vars => [\A s \in Submissions : GroundedRejection(s)]_vars
    BY <1>1
  <1> QED  BY <1>2, InvariantHolds, PTL DEF Spec, RejectionIsGrounded

\* The pass and the agent never both stand ready to decide.
THEOREM DecidersAreAlone == Spec => []OneDecider
  <1>1. IInv => OneDecider
    BY DEF IInv, Sound, Informed, Weighed, OneDecider
  <1> QED  BY <1>1, InvariantHolds, PTL

\* A row that one pass at a time has written says what was done.
THEOREM RowsTellOneStory == Spec => []RowTellsOneStory
  <1>1. IInv => RowTellsOneStory
    BY DEF IInv, Sound, OneStory, Clean, Says, Stated, RowTellsOneStory
  <1> QED  BY <1>1, InvariantHolds, PTL

\* What is appealed when the verifiers are done with it is left to people.
THEOREM AppealsAreHuman == Spec => []AppealsStayHuman
  <1>1. IInv => AppealsStayHuman
    <2> SUFFICES ASSUME IInv, NEW s \in settled PROVE decider[s] \notin Automated
      BY DEF AppealsStayHuman
    <2>1. s \in Submissions
      BY DEF IInv, TypeOK
    <2> QED  BY <2>1 DEF IInv, Sound, AtRest
  <1> QED  BY <1>1, InvariantHolds, PTL

-----------------------------------------------------------------------------
(* The measurements and the curves, for every input.                       *)

\* A photograph taken during the attempt is never taken for an old one,
\* whatever zone an offset-less clock was set to; and one that is called old
\* was taken before the quest was assigned in every zone.
THEOREM CaptureWindowIsFair ==
  ASSUME NEW taken \in Int, NEW assignedAt \in Int, NEW submittedAt \in Int,
         NEW hasOffset \in BOOLEAN, NEW zone \in (-MaxUtcOffset)..MaxUtcOffset,
         hasOffset => zone = 0
  PROVE  LET window == CaptureWindow(taken + zone, hasOffset, assignedAt, submittedAt)
         IN  /\ assignedAt <= taken /\ taken <= submittedAt => window = "within_window"
             /\ window = "predates_assignment" => taken < assignedAt
  <1>1. MaxUtcOffset \in Nat /\ SubmissionGrace \in Nat /\ taken + zone # None
    BY ProofPolicyAssumption
  <1>2. CASE hasOffset
    BY <1>1, <1>2 DEF CaptureWindow
  <1>3. CASE ~hasOffset
    BY <1>1, <1>3 DEF CaptureWindow
  <1> QED  BY <1>2, <1>3

\* A picture made brighter or darker throughout keeps its hash: a recoded
\* copy is at distance 0 from its original.
THEOREM HashSurvivesRecoding ==
  ASSUME NEW bitmap \in Bitmaps(Nat), NEW recode \in [Nat -> Nat],
         \A a, b \in Nat : a > b <=> recode[a] > recode[b]
  PROVE  DifferenceHash([p \in DOMAIN bitmap |-> recode[bitmap[p]]]) = DifferenceHash(bitmap)
  <1> DEFINE recoded == [p \in DOMAIN bitmap |-> recode[bitmap[p]]]
             Pixels == (1..HashRows) \X (1..(HashColumns + 1))
  <1>1. \A p \in HashPositions : p \in Pixels /\ <<p[1], p[2] + 1>> \in Pixels
    BY ProofPolicyAssumption DEF HashPositions
  <1>2. \A q \in Pixels : bitmap[q] \in Nat /\ recoded[q] = recode[bitmap[q]]
    BY DEF Bitmaps
  <1>3. \A p \in HashPositions :
          bitmap[p] > bitmap[<<p[1], p[2] + 1>>] <=> recoded[p] > recoded[<<p[1], p[2] + 1>>]
    <2> SUFFICES ASSUME NEW p \in HashPositions
                 PROVE  bitmap[p] > bitmap[<<p[1], p[2] + 1>>] <=> recoded[p] > recoded[<<p[1], p[2] + 1>>]
      OBVIOUS
    <2> DEFINE a == bitmap[p]
               b == bitmap[<<p[1], p[2] + 1>>]
    <2>1. a \in Nat /\ b \in Nat /\ recoded[p] = recode[a] /\ recoded[<<p[1], p[2] + 1>>] = recode[b]
      BY <1>1, <1>2
    <2>2. a > b <=> recode[a] > recode[b]
      BY <2>1
    <2> QED  BY <2>1, <2>2
  <1>4. {p \in HashPositions : recoded[p] > recoded[<<p[1], p[2] + 1>>]}
          = {p \in HashPositions : bitmap[p] > bitmap[<<p[1], p[2] + 1>>]}
    BY <1>3
  <1> HIDE DEF recoded
  <1>5. DifferenceHash(recoded) = DifferenceHash(bitmap)
    BY <1>4 DEF DifferenceHash
  <1> QED  BY <1>5 DEF recoded

LEMMA ClampFacts ==
  ASSUME NEW low \in Int, NEW high \in Int, low <= high
  PROVE  /\ \A v \in Int : Clamp(v, low, high) \in low..high
         /\ \A v, w \in Int : v <= w => Clamp(v, low, high) <= Clamp(w, low, high)
  BY DEF Clamp

\* The two curves' sums before they are clamped.
Worth(travel, difficulty, participants) ==
  MinXp + travel + difficulty + (IF participants > 1 THEN 5 ELSE 0)

LEMMA XpIsClamped ==
  /\ \A v \in Int : Clamp(v, MinXp, MaxXp) \in MinXp..MaxXp
  /\ \A v, w \in Int : v <= w => Clamp(v, MinXp, MaxXp) <= Clamp(w, MinXp, MaxXp)
  <1>1. MinXp \in Int /\ MaxXp \in Int /\ MinXp <= MaxXp
    BY AgentPolicyAssumption
  <1> QED  BY ONLY <1>1, ClampFacts, Zenon

LEMMA MinutesAreClamped ==
  /\ \A v \in Int : Clamp(v, MinMinutes, MaxMinutes) \in MinMinutes..MaxMinutes
  /\ \A v, w \in Int : v <= w => Clamp(v, MinMinutes, MaxMinutes) <= Clamp(w, MinMinutes, MaxMinutes)
  <1>1. MinMinutes \in Int /\ MaxMinutes \in Int /\ MinMinutes <= MaxMinutes
    BY AgentPolicyAssumption
  <1> QED  BY ONLY <1>1, ClampFacts, Zenon

LEMMA XpIsWorth ==
  ASSUME NEW shape
  PROVE  QuestXp(shape) = Clamp(Worth(XpByTravel[TravelBand(shape)], XpByDifficulty[shape.difficulty],
                                      shape.participants), MinXp, MaxXp)
  BY DEF QuestXp, Worth

LEMMA WorthFacts ==
  /\ \A a, d, n \in Nat : Worth(a, d, n) \in Int
  /\ \A a, b, d, n \in Nat : a <= b => Worth(a, d, n) <= Worth(b, d, n)
  BY AgentPolicyAssumption DEF Worth

\* Whatever the model answers, the award and the time stay within the bounds.
THEOREM RecommendationsAreBounded ==
  ASSUME NEW shape \in Shape, NEW answer \in Int \cup {None}
  PROVE  RecommendedXp(shape, answer) \in MinXp..MaxXp /\ RecommendedMinutes(shape, answer) \in MinMinutes..MaxMinutes
  <1>1. TravelBand(shape) \in {"none", "local", "city", "regional", "far", "unknown"}
    BY DEF TravelBand
  <1>2. XpByTravel[TravelBand(shape)] \in Nat /\ HoursByTravel[TravelBand(shape)] \in Nat
    BY <1>1 DEF XpByTravel, HoursByTravel
  <1>3. XpByDifficulty[shape.difficulty] \in Nat /\ shape.participants \in Nat
    BY DEF Shape, Difficulties, XpByDifficulty
  <1>4. QuestXp(shape) \in MinXp..MaxXp
    BY <1>2, <1>3, XpIsClamped, XpIsWorth, WorthFacts
  <1>5. Subtotal(shape) \in Int
    <2> DEFINE hours == HoursByTravel[TravelBand(shape)]
    <2>1. hours \in Nat
      BY <1>2
    <2> HIDE DEF hours
    <2>2. Subtotal(shape) = LET travel == 60 * hours
              thought == IF shape.category = "thinking" /\ travel < 480 THEN 480 ELSE travel
              effort == CASE shape.difficulty = "medium" -> (thought * 3) \div 2
                          [] shape.difficulty = "hard" -> (thought * 5) \div 2
                          [] OTHER -> thought
          IN  IF shape.participants > 1 THEN effort + 1440 ELSE effort
      BY DEF Subtotal, hours
    <2> QED  BY <2>1, <2>2, Z3
  <1>6. QuestMinutes(shape) \in MinMinutes..MaxMinutes
    BY <1>5, MinutesAreClamped DEF QuestMinutes
  <1> QED  BY <1>4, <1>6, XpIsClamped, MinutesAreClamped DEF RecommendedXp, RecommendedMinutes

\* Travelling further is never paid less, nor given less time.
THEOREM FurtherIsNotWorse ==
  ASSUME NEW near \in Shape, NEW distance \in Nat, near.distance \in Nat, near.distance <= distance
  PROVE  LET far == [near EXCEPT !.distance = distance]
         IN  QuestXp(near) <= QuestXp(far) /\ QuestMinutes(near) <= QuestMinutes(far)
  <1> DEFINE far == [near EXCEPT !.distance = distance]
  <1>1. /\ far.destination = near.destination /\ far.category = near.category
        /\ far.difficulty = near.difficulty /\ far.participants = near.participants /\ far.distance = distance
    BY DEF Shape
  <1>2. near.distance # None /\ distance # None
    BY ProofPolicyAssumption
  <1>3. XpByTravel[TravelBand(near)] \in Nat /\ XpByTravel[TravelBand(far)] \in Nat
        /\ XpByTravel[TravelBand(near)] <= XpByTravel[TravelBand(far)]
    BY <1>1, <1>2 DEF TravelBand, XpByTravel
  <1>4. HoursByTravel[TravelBand(near)] \in Nat /\ HoursByTravel[TravelBand(far)] \in Nat
        /\ HoursByTravel[TravelBand(near)] <= HoursByTravel[TravelBand(far)]
    BY <1>1, <1>2 DEF TravelBand, HoursByTravel
  <1>5. XpByDifficulty[near.difficulty] \in Nat /\ near.participants \in Nat
    BY DEF Shape, Difficulties, XpByDifficulty
  <1> HIDE DEF far
  <1>6. QuestXp(near) <= QuestXp(far)
    <2> DEFINE a == XpByTravel[TravelBand(near)]
               b == XpByTravel[TravelBand(far)]
               d == XpByDifficulty[near.difficulty]
               n == near.participants
    <2>1. QuestXp(near) = Clamp(Worth(a, d, n), MinXp, MaxXp) /\ QuestXp(far) = Clamp(Worth(b, d, n), MinXp, MaxXp)
      BY <1>1, XpIsWorth
    <2>2. a \in Nat /\ b \in Nat /\ d \in Nat /\ n \in Nat /\ a <= b
      BY <1>3, <1>5
    <2> HIDE DEF a, b, d, n
    <2> QED  BY <2>1, <2>2, XpIsClamped, WorthFacts
  <1>7. Subtotal(near) \in Int /\ Subtotal(far) \in Int /\ Subtotal(near) <= Subtotal(far)
    BY <1>1, <1>4, <1>5 DEF Subtotal
  <1>8. QuestMinutes(near) <= QuestMinutes(far)
    BY <1>7, MinutesAreClamped DEF QuestMinutes
  <1> QED  BY <1>6, <1>8 DEF far
=============================================================================
