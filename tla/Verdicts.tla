------------------------------ MODULE Verdicts ------------------------------
(***************************************************************************)
(* The two automated verifiers of one submission and what they share: the  *)
(* row of submission_verifications.                                        *)
(*                                                                         *)
(* A proof pass measures the files, compares them with every proof on      *)
(* record, asks the ladder of models, concludes, and carries its decision  *)
(* out if it is the decider.  The agent reads the row as its vision        *)
(* evidence, weighs the network's answer, and carries its own decision out *)
(* if it is the decider.  A person may decide at any moment, the player    *)
(* may appeal a rejection once, and an evaluation ("eval") pass may score  *)
(* what a person decided.                                                  *)
(*                                                                         *)
(* The passes of a submission may overlap, and so may the evaluations.  A  *)
(* claim is a lease, and here it may expire at any moment under a worker   *)
(* that goes on; an eval pass claims nothing; and no pass tests at its end *)
(* whose row it writes.  How often either is claimed, and how a run of the *)
(* agent is kept, are ProofVerification's and AgentRun's.                  *)
(***************************************************************************)
EXTENDS AgentPolicy

CONSTANTS
  Submissions,
  Archive,        \* the submissions decided and measured before the behaviour starts
  Workers,        \* who verifies: consumers, sweeps and backfills, one thing each at a time
  Cases,          \* what the submissions, their quests' contracts and their files may be
  Answers,        \* what a model may say of a proof
  Opinions,       \* what the agent's model may propose
  Configs         \* [agent, shadow]: the two environment flags

-----------------------------------------------------------------------------
Files == [bytes: STRING, bitmap: Bitmaps(Nat), captured: Int \cup {None}, hasOffset: BOOLEAN,
          software: {"none", "editor", "generative"}, camera: BOOLEAN, screenSized: BOOLEAN]
Contracts == [verifiability: {"content", "provenance_only", "none"},
              mayAutoApprove: BOOLEAN, mayAutoReject: BOOLEAN]

\* What a stored report says: the weights of its findings, and whether there
\* was no file it could be made from.
Notes == Weights \cup {"unexamined"}

\* A proof is one file.  located: the quest has a destination.  file: None
\* when it can never be read.
ASSUME VerdictsAssumption ==
  /\ Archive \subseteq Submissions
  /\ \A case \in Cases, s \in Submissions :
       case[s] \in [owner: STRING, assignedAt: Int, submittedAt: Int, located: BOOLEAN,
                   contract: Contracts, file: Files \cup {None}]
  /\ Answers \subseteq [verdict: {"pass", "fail", "unclear"}, confidence: Nat \cup {None},
                        relevance: Nat \cup {None}, observed: BOOLEAN]
  /\ Opinions \subseteq [decision: Proposals, confidence: Nat, conflicts: BOOLEAN]
  /\ Configs \subseteq [agent: BOOLEAN, shadow: BOOLEAN]
  /\ None \notin {"person", "pass", "agent", "supported", "contradicted", "unavailable"}
  /\ \A report \in SUBSET Notes : report # None

VARIABLES
  config,
  proof,      \* the submission, its quest's contract and its file; never changes
  measured,   \* the submissions whose object carries its facts
  gone,       \* deleted by the author or removed by a moderator
  appealed,   \* a rejection may be appealed once
  row,        \* the row of submission_verifications
  pass,       \* the running passes, by submission and worker
  agent,      \* the agent's running evaluations, from their context to their application
  status, decider,
  \* For the properties:
  crowded,    \* the submissions two passes of which have run at once
  settled     \* those appealed when no verifier had anything left to do for them

submission == <<gone, appealed, status, decider>>
history == <<crowded, settled>>
vars == <<config, proof, measured, gone, appealed, row, pass, agent, status, decider, crowded, settled>>

Kinds == {"live", "eval"}
Idle == [at |-> "idle"]
At(kind, at) == [at |-> at, kind |-> kind]

\* The stored verdict is the policy's conclusion.
Verdict == [approve |-> "pass", reject |-> "fail", escalate |-> "unclear"]

\* A row as enqueue() inserts it, and before there is one.
Blank(state) == [state |-> state, verdict |-> None, acted |-> FALSE, stage |-> None,
                 relevance |-> None, observed |-> FALSE, findings |-> None]
Queued == Blank("queued")
Absent == Blank("absent")

\* Variant: a deployment's agent leaves the proof pass its authority.
ActsUnlessShadow == ~config.shadow

\* The proof pass steps aside for the agent, even while the agent is paused.
WillActOnDecisions == ~config.agent /\ ~config.shadow

Free(s, w) == pass[s][w] = Idle /\ agent[s][w] = Idle

Reviewable(s) == status[s] = "pending" /\ s \notin gone

Init ==
  /\ config \in Configs
  /\ proof \in Cases
  /\ measured = {s \in Archive : proof[s].file # None}
  /\ gone = {} /\ appealed = {}
  /\ row = [s \in Submissions |-> Absent]
  /\ pass = [s \in Submissions |-> [w \in Workers |-> Idle]]
  /\ agent = [s \in Submissions |-> [w \in Workers |-> Idle]]
  /\ status = [s \in Submissions |-> IF s \in Archive THEN "approved" ELSE "pending"]
  /\ decider = [s \in Submissions |-> IF s \in Archive THEN "person" ELSE None]
  /\ crowded = {} /\ settled = {}

-----------------------------------------------------------------------------
(* A pass, live or eval.                                                   *)

MovesTo(s, w, position) == pass' = [pass EXCEPT ![s][w] = position]

Joined(s, w) ==
  /\ crowded' = IF \E v \in Workers \ {w} : pass[s][v] # Idle THEN crowded \cup {s} ELSE crowded
  /\ UNCHANGED settled

\* The event's consumer comes when it comes; its first statement leaves a row
\* that is there alone.
Enqueue(s) ==
  /\ row[s] = Absent
  /\ row' = [row EXCEPT ![s] = Queued]
  /\ UNCHANGED <<config, proof, measured, pass, agent, submission, history>>

\* claim(): whoever held the row before may still be at work.
Begin(s, w) ==
  /\ Free(s, w)
  /\ row[s].state \in {"queued", "failed"}
  /\ row' = [row EXCEPT ![s].state = "queued"]
  /\ MovesTo(s, w, At("live", IF status[s] = "pending" THEN "measure" ELSE "skip"))
  /\ Joined(s, w)
  /\ UNCHANGED <<config, proof, measured, agent, submission>>

\* A finished row refuses to be marked: its CHECK keeps a verdict in a
\* complete row.
Skip(s, w) ==
  /\ pass[s][w].at = "skip"
  /\ row' = IF row[s].state = "complete" THEN row ELSE [row EXCEPT ![s].state = "skipped"]
  /\ MovesTo(s, w, Idle)
  /\ UNCHANGED <<config, proof, measured, agent, submission, history>>

DecidedByAPerson(s) == decider[s] = "person" /\ s \notin gone

\* Variant: whatever is settled may be scored, whoever settled it.
BeginEvalOfAnyDecision(s, w) ==
  /\ Free(s, w)
  /\ status[s] # "pending" /\ s \notin gone
  /\ MovesTo(s, w, At("eval", "measure"))
  /\ Joined(s, w)
  /\ UNCHANGED <<config, proof, measured, row, agent, submission>>

\* decidedWithoutVerdict(): the submissions a backfill will go through.
BeginEval(s, w) ==
  /\ Free(s, w)
  /\ DecidedByAPerson(s) /\ row[s].state # "complete"
  /\ MovesTo(s, w, At("eval", "listed"))
  /\ Joined(s, w)
  /\ UNCHANGED <<config, proof, measured, row, agent, submission>>

\* evalSubject() asks again when a submission's turn comes.
EvalSubject(s, w) ==
  /\ pass[s][w].at = "listed"
  /\ MovesTo(s, w, IF DecidedByAPerson(s) THEN At("eval", "measure") ELSE Idle)
  /\ UNCHANGED <<config, proof, measured, row, agent, submission, history>>

\* A file may be out of reach of one pass and not of the next: measure() makes
\* nothing of a storage that throws.
Measure(s, w) ==
  /\ pass[s][w].at = "measure"
  /\ \E read \in BOOLEAN :
       /\ read => proof[s].file # None
       /\ measured' = IF read THEN measured \cup {s} ELSE measured
       /\ MovesTo(s, w, At(pass[s][w].kind, IF read THEN "compare" ELSE "unread"))
  /\ UNCHANGED <<config, proof, row, agent, submission, history>>

Hash(s) == DifferenceHash(proof[s].file.bitmap)
SameBytes(s, o) == proof[s].file.bytes = proof[o].file.bytes
Distance(s, o) == HammingDistance(Hash(s), Hash(o))

\* The proofs findDuplicate may answer with: byte-identical ones before
\* similar ones, similar ones by distance.  It does not look at the dates.
ClosestCopies(s) ==
  LET others == measured \ (gone \cup {s})
      exact == {o \in others : SameBytes(s, o)}
      near == {o \in others : /\ Hash(s) # None /\ Hash(o) # None
                              /\ Distance(s, o) <= NearDistance}
  IN  IF exact # {} THEN exact
      ELSE {o \in near : \A p \in near : Distance(s, o) <= Distance(s, p)}

CopyOf(s, o) == [exact |-> SameBytes(s, o), own |-> proof[s].owner = proof[o].owner]

\* What is reported of a submission that repeats copyOf, or nothing.
Report(submitted, copyOf) ==
  ForensicsReport(IF submitted.file = None THEN NothingMeasured ELSE submitted.file,
                  submitted.assignedAt, submitted.submittedAt, copyOf)
    \cup Finding("unexamined", submitted.file = None)

Reports(s, read) ==
  IF ~read THEN {Report([proof[s] EXCEPT !.file = None], None)}
  ELSE {Report(proof[s], copyOf) : copyOf \in
          IF ClosestCopies(s) = {} THEN {None} ELSE {CopyOf(s, o) : o \in ClosestCopies(s)}}

Asked(s) == proof[s].contract.verifiability = "content"

\* recordForensics() writes the findings at once, whatever the row's state; it
\* is an UPDATE, and without a row they are lost.
Compare(s, w) ==
  /\ pass[s][w].at \in {"compare", "unread"}
  /\ \E report \in Reports(s, pass[s][w].at = "compare") :
       /\ row' = IF row[s] = Absent THEN row ELSE [row EXCEPT ![s].findings = report]
       /\ MovesTo(s, w,
            IF Asked(s) /\ pass[s][w].at = "compare"
            THEN [at |-> "ladder", kind |-> pass[s][w].kind, report |-> report, tier |-> "triage", doubters |-> {}]
            ELSE [at |-> "conclude", kind |-> pass[s][w].kind, report |-> report, analysis |-> None,
                  doubters |-> {}])
  /\ UNCHANGED <<config, proof, measured, agent, submission, history>>

\* doubters: the rungs that found against the proof.
Rung(s, w) ==
  /\ pass[s][w].at = "ladder"
  /\ \E answer \in Answers :
       LET p == pass[s][w]
           floored == ApplyConfidenceFloor(answer, Floor(p.tier))
           next == NextTier(p.tier, floored)
           doubters == IF floored.verdict = "fail" THEN p.doubters \cup {p.tier} ELSE p.doubters
       IN  MovesTo(s, w,
             IF next # None THEN [p EXCEPT !.tier = next, !.doubters = doubters]
             ELSE [at |-> "conclude", kind |-> p.kind, report |-> p.report, doubters |-> doubters, analysis |->
                     [tier |-> p.tier, verdict |-> floored.verdict, confidence |-> floored.confidence,
                      relevance |-> floored.relevance, observed |-> floored.observed]])
  /\ UNCHANGED <<config, proof, measured, row, agent, submission, history>>

WillAct(kind, decision) == kind = "live" /\ WillActOnDecisions /\ decision # "escalate"

\* complete() and completeForEval() write the verdict's columns, and no
\* others, of whatever row is there; the latter inserts one where none is.
Concluded(s, kind, outcome, analysis) ==
  [row[s] EXCEPT
     !.state = "complete", !.verdict = Verdict[outcome.decision], !.stage = outcome.stage,
     !.acted = WillAct(kind, outcome.decision),
     !.relevance = IF analysis = None THEN None ELSE analysis.relevance,
     !.observed = (analysis # None /\ analysis.observed)]

\* record() then, on its own, act().  An eval pass never acts.
Conclude(s, w) ==
  LET p == pass[s][w]
      outcome == Decide(proof[s].contract, p.report, p.analysis)
  IN  /\ p.at = "conclude"
      /\ row' = [row EXCEPT ![s] = Concluded(s, p.kind, outcome, p.analysis)]
      /\ MovesTo(s, w,
           IF WillAct(p.kind, outcome.decision)
           THEN [at |-> "act", kind |-> p.kind, report |-> p.report, analysis |-> p.analysis,
                 doubters |-> p.doubters, decision |-> outcome.decision]
           ELSE Idle)
      /\ UNCHANGED <<config, proof, measured, agent, submission, history>>

Outcome == [approve |-> "approved", reject |-> "rejected"]

\* approve() and reject() refuse a submission that is not open; the refusal
\* is caught, and a finished row is not marked failed.
Act(s, w) ==
  /\ pass[s][w].at = "act"
  /\ IF Reviewable(s)
     THEN /\ status' = [status EXCEPT ![s] = Outcome[pass[s][w].decision]]
          /\ decider' = [decider EXCEPT ![s] = "pass"]
     ELSE UNCHANGED <<status, decider>>
  /\ MovesTo(s, w, Idle)
  /\ UNCHANGED <<config, proof, measured, gone, appealed, row, agent, history>>

\* A measurement, a model or a statement throws.  A backfill leaves the row
\* alone, and a throw in skip() is not caught.
PassFails(s, w) ==
  /\ pass[s][w] # Idle
  /\ row' = IF pass[s][w].kind = "live" /\ pass[s][w].at # "skip" /\ row[s].state # "complete"
            THEN [row EXCEPT ![s].state = "failed"] ELSE row
  /\ MovesTo(s, w, Idle)
  /\ UNCHANGED <<config, proof, measured, agent, submission, history>>

-----------------------------------------------------------------------------
(* The agent.                                                              *)

\* Variant: the context is given for any open submission.
BriefAnyOpen(s, w) ==
  /\ config.agent /\ Free(s, w)
  /\ Reviewable(s)
  /\ agent' = [agent EXCEPT ![s][w] = [at |-> "briefed"]]
  /\ UNCHANGED <<config, proof, measured, row, pass, submission, history>>

\* There is no context, and so no evaluation, for an appeal.
Brief(s, w) ==
  /\ config.agent /\ Free(s, w)
  /\ Reviewable(s) /\ s \notin appealed
  /\ agent' = [agent EXCEPT ![s][w] = [at |-> "briefed"]]
  /\ UNCHANGED <<config, proof, measured, row, pass, submission, history>>

\* The network's summary for a quest with a destination.
LocationStatuses ==
  {MandatoryStatus(outcomes) : outcomes \in [MandatoryCapabilities -> NetworkOutcomes]}

\* The row is read when the evidence is gathered, after the context.  read: the
\* findings that were in it, for the properties.
Evaluate(s, w) ==
  /\ agent[s][w].at = "briefed"
  /\ \E opinion \in Opinions, location \in IF proof[s].located THEN LocationStatuses ELSE {None} :
       LET vision == CvEvidence(row[s], proof[s].contract.verifiability)
       IN  agent' = [agent EXCEPT ![s][w] =
             [at |-> "decided", vision |-> vision, read |-> row[s].findings, location |-> location,
              decision |-> FinalizeDecision(opinion, proof[s].contract, vision, location)]]
  /\ UNCHANGED <<config, proof, measured, row, pass, submission, history>>

Apply(s, w) ==
  /\ agent[s][w].at = "decided"
  /\ agent' = [agent EXCEPT ![s][w] = Idle]
  /\ IF agent[s][w].decision # "human_review" /\ ~config.shadow /\ Reviewable(s)
     THEN /\ status' = [status EXCEPT ![s] = agent[s][w].decision]
          /\ decider' = [decider EXCEPT ![s] = "agent"]
     ELSE UNCHANGED <<status, decider>>
  /\ UNCHANGED <<config, proof, measured, gone, appealed, row, pass, history>>

\* What a failed run is tried again as is a new evaluation.
EvaluationFails(s, w) ==
  /\ agent[s][w] # Idle
  /\ agent' = [agent EXCEPT ![s][w] = Idle]
  /\ UNCHANGED <<config, proof, measured, row, pass, submission, history>>

-----------------------------------------------------------------------------
(* Everybody else.                                                         *)

PersonDecides(s) ==
  /\ Reviewable(s)
  /\ \E decision \in {"approved", "rejected"} : status' = [status EXCEPT ![s] = decision]
  /\ decider' = [decider EXCEPT ![s] = "person"]
  /\ UNCHANGED <<config, proof, measured, gone, appealed, row, pass, agent, history>>

\* No live pass and no evaluation runs, and none is to begin.
NothingLeftToDo(s) ==
  /\ row[s].state \in {"complete", "skipped"}
  /\ \A w \in Workers : agent[s][w] = Idle /\ (pass[s][w] # Idle => pass[s][w].kind = "eval")

\* Once, and it opens the submission again; the row stays as it is.
Appeal(s) ==
  /\ status[s] = "rejected" /\ s \notin appealed /\ s \notin gone
  /\ status' = [status EXCEPT ![s] = "pending"]
  /\ decider' = [decider EXCEPT ![s] = None]
  /\ appealed' = appealed \cup {s}
  /\ settled' = IF NothingLeftToDo(s) THEN settled \cup {s} ELSE settled
  /\ UNCHANGED <<config, proof, measured, gone, row, pass, agent, crowded>>

Removed(s) ==
  /\ s \notin gone
  /\ gone' = gone \cup {s}
  /\ UNCHANGED <<config, proof, measured, appealed, row, pass, agent, status, decider, history>>

\* The author takes a deletion back.
Restored(s) ==
  /\ s \in gone
  /\ gone' = gone \ {s}
  /\ UNCHANGED <<config, proof, measured, appealed, row, pass, agent, status, decider, history>>

\* A deployment with other flags: what was running in the worker is lost.  A
\* backfill is a process of its own.
Restart ==
  /\ config' \in Configs
  /\ pass' = [s \in Submissions |-> [w \in Workers |->
                IF pass[s][w] # Idle /\ pass[s][w].kind = "eval" THEN pass[s][w] ELSE Idle]]
  /\ agent' = [s \in Submissions |-> [w \in Workers |-> Idle]]
  /\ UNCHANGED <<proof, measured, row, submission, history>>

Next ==
  \/ \E s \in Submissions \ Archive :
       \/ \E w \in Workers :
            \/ Begin(s, w) \/ Skip(s, w) \/ BeginEval(s, w) \/ EvalSubject(s, w)
            \/ Measure(s, w) \/ Compare(s, w) \/ Rung(s, w) \/ Conclude(s, w)
            \/ Act(s, w) \/ PassFails(s, w)
            \/ Brief(s, w) \/ Evaluate(s, w) \/ Apply(s, w) \/ EvaluationFails(s, w)
       \/ Enqueue(s) \/ PersonDecides(s) \/ Appeal(s)
  \/ \E s \in Submissions : Removed(s) \/ Restored(s)
  \/ Restart

Spec == Init /\ [][Next]_vars

-----------------------------------------------------------------------------
(* Properties.                                                             *)

Reported == SUBSET Notes
Rows == [state: {"absent", "queued", "failed", "skipped", "complete"}, verdict: {"pass", "fail", "unclear", None},
         acted: BOOLEAN, stage: Tiers \cup {"forensics", None}, relevance: Nat \cup {None},
         observed: BOOLEAN, findings: Reported \cup {None}]

Analyses == [tier: Tiers, verdict: {"pass", "fail", "unclear"}, confidence: Nat \cup {None},
             relevance: Nat \cup {None}, observed: BOOLEAN]
Positions ==
  {Idle}
    \cup [at: {"skip", "listed", "measure", "compare", "unread"}, kind: Kinds]
    \cup [at: {"ladder"}, kind: Kinds, report: Reported, tier: Tiers, doubters: SUBSET Tiers]
    \cup [at: {"conclude"}, kind: Kinds, report: Reported, analysis: Analyses \cup {None}, doubters: SUBSET Tiers]
    \cup [at: {"act"}, kind: {"live"}, report: Reported, analysis: Analyses \cup {None}, doubters: SUBSET Tiers,
          decision: {"approve", "reject"}]
Evidence == [status: {"available", "failed", "unavailable"}, relevance: Nat \cup {None}, blocks: BOOLEAN]
Evaluations ==
  {Idle} \cup [at: {"briefed"}]
    \cup [at: {"decided"}, vision: Evidence, read: Reported \cup {None}, decision: Proposals,
          location: {"supported", "contradicted", "unavailable", None}]

\* The type invariant: the columns of submission_verifications and
\* submissions, and the positions of the passes and of the agent.
TypeOK ==
  /\ config \in Configs
  /\ proof \in Cases
  /\ measured \subseteq Submissions /\ gone \subseteq Submissions /\ appealed \subseteq Submissions
  /\ row \in [Submissions -> Rows]
  /\ pass \in [Submissions -> [Workers -> Positions]]
  /\ agent \in [Submissions -> [Workers -> Evaluations]]
  /\ status \in [Submissions -> {"pending", "approved", "rejected"}]
  /\ decider \in [Submissions -> {"person", "pass", "agent", None}]
  /\ crowded \subseteq Submissions /\ settled \subseteq Submissions

Automated == {"pass", "agent"}

\* The step that decides s, by whom and how.
Decides(s, who, outcome) == decider[s] # who /\ decider'[s] = who /\ status'[s] = outcome

\* What a row says against its file.
Stated(s) == IF row[s].findings = None THEN {} ELSE row[s].findings

\* What the file says of itself, whatever it is compared with.
OwnReport(s) == Report(proof[s], None)

\* There is a report, and a file it is about.
Examined(report) == report # None /\ "unexamined" \notin report

\* Worker w carries its decision out.
PassActs(s, w) == pass[s][w].at = "act" /\ pass'[s][w] = Idle
AgentActs(s, w) == agent[s][w].at = "decided" /\ agent'[s][w] = Idle

EarnedApproval(s) ==
  /\ \A who \in Automated : Decides(s, who, "approved") => proof[s].contract.mayAutoApprove
  /\ Decides(s, "pass", "approved") => \E w \in Workers :
       /\ PassActs(s, w)
       /\ Examined(pass[s][w].report) =>
            /\ "decisive" \notin OwnReport(s)
            /\ "strong" \in OwnReport(s) => proof[s].contract.verifiability = "none"
       /\ Asked(s) =>
            /\ pass[s][w].analysis # None /\ pass[s][w].analysis.verdict = "pass"
            /\ Sure(pass[s][w].analysis, ApproveMin)
  /\ Decides(s, "agent", "approved") => \E w \in Workers :
       /\ AgentActs(s, w) /\ row[s].state = "complete"
       /\ Examined(agent[s][w].read) => OwnReport(s) \cap {"decisive", "strong"} = {}
       /\ proof[s].located => agent[s][w].location = "supported"

GroundedRejection(s) ==
  /\ \A who \in Automated : Decides(s, who, "rejected") => proof[s].contract.mayAutoReject
  /\ Decides(s, "pass", "rejected") => \E w \in Workers :
       /\ PassActs(s, w)
       /\ \/ "decisive" \in pass[s][w].report
          \/ "reject_review" \in pass[s][w].doubters /\ pass[s][w].doubters # {"reject_review"}
  /\ Decides(s, "agent", "rejected") => \E w \in Workers :
       /\ AgentActs(s, w)
       /\ \/ agent[s][w].location = "contradicted"
          \/ /\ row[s].state = "complete"
             /\ proof[s].located => agent[s][w].location = "supported"
             /\ Asked(s) => agent[s][w].vision.relevance # None

\* No machine approves a proof whose own file condemns it (generated, older
\* than its quest in every zone), nor one without the contract's leave, nor,
\* where content decides, without a model that is sure; and a screenshot only
\* where nothing could be seen in a photograph anyway.  The file is what is
\* spoken of, and not the row: a pass that runs late may rewrite the row, but
\* one that read the file never says less than the file does (proof-policy's
\* decide()).  A pass that could not read it knows nothing against it, and the
\* agent answers for the findings it read: a row that a backfill inserted has
\* none, and toIntegrity() has nothing to object to.
ApprovalIsEarned == [][\A s \in Submissions : EarnedApproval(s)]_vars

\* No machine rejects without the contract's leave and a ground it held when
\* it decided: the proof pass a decisive measurement, or two models that found
\* against the proof, the last the most capable; the agent the network's
\* contradiction, or an examined proof and a network that was not silent.
RejectionIsGrounded == [][\A s \in Submissions : GroundedRejection(s)]_vars

\* The two verifiers never both stand ready to decide one submission.
OneDecider ==
  \A s \in Submissions, v, w \in Workers :
    ~(/\ pass[s][v].at = "act" /\ ~config.shadow
      /\ agent[s][w].at = "decided" /\ agent[s][w].decision \in {"approved", "rejected"})

\* As long as no two passes of a submission overlapped, its row is one
\* pass's, although findings and verdict are written apart, and it says what
\* was done: a row that proof:eval may score (not acted on) is never the cause
\* of the decision it is scored against.
RowTellsOneStory ==
  \A s \in Submissions \ crowded :
    /\ row[s].verdict = "pass" => "decisive" \notin Stated(s)
    /\ decider[s] = "pass" =>
         row[s].acted /\ row[s].verdict = (IF status[s] = "approved" THEN "pass" ELSE "fail")
    /\ decider[s] = "agent" /\ status[s] = "approved" =>
         row[s].state = "complete" /\ Stated(s) \cap {"decisive", "strong"} = {}

\* An appeal is a person's to decide once the verifiers were done with the
\* submission, whatever runs, restarts or is retried afterwards.
AppealsStayHuman == \A s \in settled : decider[s] \notin Automated

=============================================================================
