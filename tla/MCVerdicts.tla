----------------------------- MODULE MCVerdicts -----------------------------
EXTENDS Verdicts, TLC

CONSTANTS new, old, w1, w2

\* The workers are alike.
WorkersAreAlike == Permutations(Workers)

\* One row of three pixels, two bits: a rising and a falling frame, and a flat
\* one that has no hash.
Frame(a, b, c) == (<<1, 1>> :> a) @@ (<<1, 2>> :> b) @@ (<<1, 3>> :> c)
Rising == Frame(1, 2, 1)
Falling == Frame(2, 1, 1)
Flat == Frame(1, 1, 1)

File(bytes, bitmap, captured, software, camera, screenSized) ==
  [bytes |-> bytes, bitmap |-> bitmap, captured |-> captured, hasOffset |-> TRUE,
   software |-> software, camera |-> camera, screenSized |-> screenSized]

Proof(owner, assignedAt, located, verifiability, reject, file) ==
  [owner |-> owner, assignedAt |-> assignedAt, submittedAt |-> assignedAt + 2, located |-> located,
   contract |-> [verifiability |-> verifiability, mayAutoApprove |-> TRUE, mayAutoReject |-> reject],
   file |-> file]

\* A new submission, with an old one of ann's on record: a quest of each
\* kind with a good photograph of the player's own, and every other file where
\* it matters most.  Where the quest has a destination, rejecting is allowed.
Late(owner, located, verifiability, file) ==
  (old :> Proof("ann", 0, FALSE, "content", FALSE, File("a", Rising, 1, "none", TRUE, FALSE))) @@
  (new :> Proof(owner, 10, located, verifiability, located, file))

Good == File("g", Falling, 11, "none", TRUE, FALSE)
Similar == File("b", Rising, 11, "none", TRUE, FALSE)
SimilarShot == File("b", Rising, 11, "none", FALSE, TRUE)
Screenshot == File("c", Flat, None, "editor", FALSE, TRUE)

MCCases ==
  {Late("ben", TRUE, "content", Good), Late("ben", FALSE, "content", Screenshot),
   Late("ann", FALSE, "none", SimilarShot), Late("ben", TRUE, "provenance_only", Similar),
   Late("ben", TRUE, "provenance_only", File("e", Flat, 5, "generative", FALSE, FALSE)),
   Late("ben", FALSE, "none", None)}

Answer(verdict, confidence, relevance) ==
  [verdict |-> verdict, confidence |-> confidence, relevance |-> relevance, observed |-> relevance # None]

\* 1: below every bar; 2: enough to approve; 3: enough to reject.
MCAnswers ==
  {Answer("pass", 2, 1), Answer("fail", 2, 0), Answer("fail", 3, 0), Answer("unclear", None, None)}

MCOpinions ==
  [decision: {"approved", "rejected"}, confidence: 1..3, conflicts: {FALSE}]
  \cup [decision: {"approved", "rejected"}, confidence: {3}, conflicts: {TRUE}]

\* An agent under shadow mode decides nothing, as the proof pass does not.
MCConfigs == [agent: BOOLEAN, shadow: BOOLEAN] \ {[agent |-> TRUE, shadow |-> TRUE]}
=============================================================================
