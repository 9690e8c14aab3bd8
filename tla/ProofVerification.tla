-------------------------- MODULE ProofVerification --------------------------
(***************************************************************************)
(* The AI proof pass: one row of submission_verifications per submission,  *)
(* claimed under a lease by whichever worker gets there first (the         *)
(* submission.created consumer, or the sweep), analysed by a vision model, *)
(* recorded, and - when this pass is the decider - carried out through the *)
(* same approve and reject a moderator uses.                               *)
(*                                                                         *)
(* The model call takes minutes.  While it runs the lease may expire, the  *)
(* worker may die, a second worker may claim, a moderator may decide, and  *)
(* the player may appeal or delete.  Each statement of the code that runs  *)
(* in its own transaction is one step.  A decision is one step here:       *)
(* SubmissionReview shows that its transactions do not interleave.         *)
(* create() queues the row in the transaction that inserts the submission, *)
(* so enqueue() finds it there and does nothing.                           *)
(***************************************************************************)
EXTENDS Naturals, FiniteSets

CONSTANTS
  Submissions,
  Workers,
  None,          \* no submission
  MaxAttempts,   \* AI_VERIFICATION_MAX_ATTEMPTS
  Acting         \* willActOnDecisions(): not shadow mode, and no agent pipeline

ASSUME VerificationAssumption ==
  /\ None \notin Submissions
  /\ IsFiniteSet(Workers)
  /\ MaxAttempts \in Nat \ {0}
  /\ Acting \in BOOLEAN

VARIABLES
  row,       \* submission_verifications
  sub,       \* what this pass reads and writes of submissions
  worker,    \* where each worker is in verify()
  analyses   \* model passes begun for each submission

vars == <<row, sub, worker, analyses>>

-----------------------------------------------------------------------------
Verdicts == {"pass", "fail", "unclear"}
Deciders == {"nobody", "moderator", "ai"}

\* leased: claimed_at is within the lease.
Row == [state: {"queued", "failed", "skipped", "complete"}, verdict: Verdicts \cup {"none"},
        acted: BOOLEAN, attempts: 0..MaxAttempts, leased: BOOLEAN]

\* by: who made the last decision; reviewed_by is null for the AI.
Sub == [status: {"pending", "approved", "rejected"}, appealed: BOOLEAN,
        deleted: BOOLEAN, by: Deciders]

\* holds: the lease this worker claimed under has not expired.
Worker == [at: {"idle", "claimed", "analysing", "recorded"}, on: Submissions \cup {None},
           saw: {"pending", "decided"}, verdict: Verdicts \cup {"none"}, holds: BOOLEAN]

IdleWorker == [at |-> "idle", on |-> None, saw |-> "pending", verdict |-> "none", holds |-> FALSE]

Init ==
  /\ row = [s \in Submissions |-> [state |-> "queued", verdict |-> "none", acted |-> FALSE,
                                   attempts |-> 0, leased |-> FALSE]]
  /\ sub = [s \in Submissions |-> [status |-> "pending", appealed |-> FALSE,
                                   deleted |-> FALSE, by |-> "nobody"]]
  /\ worker = [w \in Workers |-> IdleWorker]
  /\ analyses = [s \in Submissions |-> 0]

-----------------------------------------------------------------------------
(* The row.                                                                *)

\* Variants: the claim ignores the lease, never takes an expired one, or
\* forgets the limit on attempts.
ClaimableAnyTime(r) == r.state \in {"queued", "failed"} /\ r.attempts < MaxAttempts
ClaimableOnce(r) ==
  r.state \in {"queued", "failed"} /\ r.attempts < MaxAttempts /\ r.attempts = 0

\* claim(): the WHERE of the UPDATE.
Claimable(r) ==
  /\ r.state \in {"queued", "failed"}
  /\ r.attempts < MaxAttempts
  /\ ~r.leased

\* Variant: the attempt is counted when the pass ends, not when it begins.
ClaimedUncounted(r) == [r EXCEPT !.state = "queued", !.leased = TRUE]

Claimed(r) == [r EXCEPT !.state = "queued", !.attempts = @ + 1, !.leased = TRUE]

\* complete(): unconditional, whatever the row holds by now.
Completed(r, verdict) ==
  [r EXCEPT !.state = "complete", !.verdict = verdict,
            !.acted = Acting /\ verdict # "unclear"]

\* Variant: a late failure downgrades a verdict that was reached.
FailedAlways(r) == [r EXCEPT !.state = "failed", !.verdict = "none"]

\* fail() leaves a complete row alone ...
Failed(r) == IF r.state = "complete" THEN r ELSE [r EXCEPT !.state = "failed"]

\* ... and skip() of one breaks the verdict-state CHECK, so it changes nothing.
Skipped(r) == IF r.state = "complete" THEN r ELSE [r EXCEPT !.state = "skipped"]

-----------------------------------------------------------------------------
(* verify().                                                               *)

\* One statement claims the row and reads the submission's status.
Claim(w, s) ==
  /\ worker[w].at = "idle"
  /\ Claimable(row[s])
  /\ row' = [row EXCEPT ![s] = Claimed(@)]
  /\ worker' = [worker EXCEPT ![w] =
       [IdleWorker EXCEPT !.at = "claimed", !.on = s, !.holds = TRUE,
                          !.saw = IF sub[s].status = "pending" THEN "pending" ELSE "decided"]]
  /\ UNCHANGED <<sub, analyses>>

\* Already reviewed, or there is no contract or no media to measure.
Skip(w) ==
  /\ worker[w].at = "claimed"
  /\ row' = [row EXCEPT ![worker[w].on] = Skipped(@)]
  /\ worker' = [worker EXCEPT ![w] = IdleWorker]
  /\ UNCHANGED <<sub, analyses>>

\* The cascade is called only for a submission that was pending at the claim.
Analyse(w) ==
  /\ worker[w].at = "claimed"
  /\ worker[w].saw = "pending"
  /\ worker' = [worker EXCEPT ![w].at = "analysing"]
  /\ analyses' = [analyses EXCEPT ![worker[w].on] = @ + 1]
  /\ UNCHANGED <<row, sub>>

\* record(): the verdict is stored, with acted already set.
Record(w, verdict) ==
  /\ worker[w].at = "analysing"
  /\ row' = [row EXCEPT ![worker[w].on] = Completed(@, verdict)]
  /\ worker' = [worker EXCEPT ![w].at = "recorded", ![w].verdict = verdict]
  /\ UNCHANGED <<sub, analyses>>

\* A provider error or timeout.
Fail(w) ==
  /\ worker[w].at \in {"claimed", "analysing"}
  /\ worker[w].saw = "pending"
  /\ row' = [row EXCEPT ![worker[w].on] = Failed(@)]
  /\ worker' = [worker EXCEPT ![w] = IdleWorker]
  /\ UNCHANGED <<sub, analyses>>

Reviewable(s) == sub[s].status = "pending" /\ ~sub[s].deleted

Decide(s, status, by) == sub' = [sub EXCEPT ![s].status = status, ![s].by = by]

WillAct(verdict) == Acting /\ verdict # "unclear"

\* act(): approve or reject, which refuse a submission that is not
\* reviewable any more; the refusal ends in fail(), which leaves the row.
Act(w) ==
  /\ worker[w].at = "recorded"
  /\ LET s == worker[w].on
         v == worker[w].verdict
     IN IF WillAct(v) /\ Reviewable(s)
        THEN Decide(s, IF v = "pass" THEN "approved" ELSE "rejected", "ai")
        ELSE UNCHANGED sub
  /\ worker' = [worker EXCEPT ![w] = IdleWorker]
  /\ UNCHANGED <<row, analyses>>

\* The worker process dies, wherever it is.
Crash(w) ==
  /\ worker[w].at # "idle"
  /\ worker' = [worker EXCEPT ![w] = IdleWorker]
  /\ UNCHANGED <<row, sub, analyses>>

\* AI_VERIFICATION_CLAIM_LEASE_SECONDS pass.
LeaseExpires(s) ==
  /\ row[s].leased
  /\ row' = [row EXCEPT ![s].leased = FALSE]
  /\ worker' = [w \in Workers |->
                  IF worker[w].on = s THEN [worker[w] EXCEPT !.holds = FALSE] ELSE worker[w]]
  /\ UNCHANGED <<sub, analyses>>

-----------------------------------------------------------------------------
(* The people.                                                             *)

ModeratorDecides(s, status) ==
  /\ Reviewable(s)
  /\ Decide(s, status, "moderator")
  /\ UNCHANGED <<row, worker, analyses>>

PlayerAppeals(s) ==
  /\ sub[s].status = "rejected" /\ ~sub[s].appealed /\ ~sub[s].deleted
  /\ sub' = [sub EXCEPT ![s].status = "pending", ![s].appealed = TRUE]
  /\ UNCHANGED <<row, worker, analyses>>

PlayerDeletes(s, deleted) ==
  /\ sub[s].deleted # deleted
  /\ sub' = [sub EXCEPT ![s].deleted = deleted]
  /\ UNCHANGED <<row, worker, analyses>>

\* pending(): what a sweep picks up.  The submission.created consumer calls
\* verify() without looking, so a claim needs no such guard.
Swept(s) == row[s].state \in {"queued", "failed"} /\ row[s].attempts < MaxAttempts /\ Reviewable(s)

People ==
  \/ \E s \in Submissions, status \in {"approved", "rejected"} : ModeratorDecides(s, status)
  \/ \E s \in Submissions : PlayerAppeals(s)
  \/ \E s \in Submissions, deleted \in BOOLEAN : PlayerDeletes(s, deleted)

Verifying(w) ==
  \/ Skip(w) \/ Analyse(w) \/ Fail(w) \/ Act(w)
  \/ \E verdict \in Verdicts : Record(w, verdict)

Next ==
  \/ People
  \/ \E w \in Workers, s \in Submissions : Claim(w, s)
  \/ \E w \in Workers : Verifying(w) \/ Crash(w)
  \/ \E s \in Submissions : LeaseExpires(s)

Spec == Init /\ [][Next]_vars

\* The sweep runs for ever, verify() returns, and time passes; nothing is
\* assumed of people, and a worker may die in any pass.
Fairness ==
  /\ \A s \in Submissions : WF_vars(Swept(s) /\ \E w \in Workers : Claim(w, s))
  /\ \A w \in Workers : WF_vars(Verifying(w))
  /\ \A s \in Submissions : WF_vars(LeaseExpires(s))

FairSpec == Spec /\ Fairness

-----------------------------------------------------------------------------
(* Properties.                                                             *)

TypeOK ==
  /\ row \in [Submissions -> Row]
  /\ sub \in [Submissions -> Sub]
  /\ worker \in [Workers -> Worker]
  /\ analyses \in [Submissions -> 0..MaxAttempts]

\* The model is paid for at most MaxAttempts times for one submission, however
\* often a pass kills its worker: the attempt is counted before the call.
AnalysesBounded == \A s \in Submissions : analyses[s] <= row[s].attempts

\* Two workers never analyse one submission under leases that both still run.
LeaseIsExclusive ==
  \A v, w \in Workers : v # w /\ worker[v].holds /\ worker[w].holds => worker[v].on # worker[w].on

\* A verdict that was reached is never taken back, by a late failure, a late
\* skip or another pass; only another verdict may replace it.
VerdictIsKept ==
  [][\A s \in Submissions : row[s].state = "complete" =>
       row'[s].state = "complete" /\ row'[s].verdict \in Verdicts]_vars

\* Every submission left for review is finished with - analysed, skipped, or
\* out of attempts - although workers die and leases have to run out first.
EveryProofSettles ==
  \A s \in Submissions :
    Swept(s) ~> row[s].state \in {"complete", "skipped"} \/ row[s].attempts = MaxAttempts
                  \/ ~Reviewable(s)

=============================================================================
