# Bsheel: a TLA+ model of the backend

Bsheel is a social quest game. A player takes a real-world quest, posts a proof
of it (photos or videos), and a moderator or an automatic verifier decides
whether it counts; approved proofs earn XP. The program is a NestJS backend
(`src/backend`) over PostgreSQL, Redis/BullMQ and an object store, with three
Flutter clients (`src/apps`). This directory models the parts of the backend
whose correctness depends on the order in which things happen, checks them with
TLC and proves what matters most with TLAPS.

All state of record is in PostgreSQL. API processes and worker processes run
the same code against it; every operation is either one SQL statement or a READ
COMMITTED transaction that locks the rows it is about (`SELECT ... FOR UPDATE`).
Anything that has to happen outside the database is put in `outbox_events` by
the transaction that causes it, published to a BullMQ queue, and done by a
worker, at least once.

## 1. Inventory

| component (`src/backend/src/...`) | state | operations | hard behaviours |
|---|---|---|---|
| submissions: create, review, appeal, visibility (`modules/submissions/infrastructure/submissions.repository.ts`) | `user_quests.status`, `submissions`, the XP columns of `profiles` | create, approve, reject, appeal, setVisibility, removeByAdmin | concurrent reviewers, the author deleting during a review, long sequences of approve / delete / restore / takedown / appeal |
| administrators' edits (`modules/admin/...`) | the same XP columns | setXp, updateUserProfile | absolute writes beside relative ones; integer overflow |
| AI proof pass (`modules/submissions/application/proof-verification.service.ts`) | `submission_verifications` | verify, sweep, record, act | minutes between claim and verdict, leases, worker death, late answers, stale reads |
| agent verification (`modules/agent/...`) | `agent_runs`, `network_evidence`, `recommended_xp`, a BullMQ queue | process, verify, start / succeed / fail, late-evidence sweep | queue redelivery against a database lease, retries, two runs of one submission |
| quest intake (`modules/quests/infrastructure/quests.repository.ts`, `quest-assignment-policy.repository.ts`) | `user_quests`, `quest_reroll_log`, per-player advisory lock | assignSpecific, pickerOptions with its charge, abandon, expire | one running quest, cooldowns, the reroll budget of a day, lazy and swept expiry |
| journeys (`journey.repository.ts`, `journey.service.ts`, `journey-progression.service.ts`) | `quest_chain_runs`, participants, steps, feed mode | openJourneyForStep, advance, publish, choose feed mode, abandon unanswered | event-driven progress at least once, sweep against retake, posts withheld from the feed |
| outbox and domain events (`infrastructure/messaging/...`) | `outbox_events`, `processed_messages`, the BullMQ job store | claimBatch, publish, ack / reschedule, process | crash between publish and ack, duplicated jobs, job ids that are still held, exhausted attempts |
| sessions (`modules/auth/...`) | `users.token_version`, `refresh_sessions`, `auth_action_tokens`, `phone_signin_states` | login, refresh, logout, password change and recovery, suspension, sign-in by phone | rotation racing whatever ends sessions, a request that needs a second connection of the pool, circles of locks |
| media (`modules/media/...`) | `media_objects`, links, object storage, branded exports | reserve, upload, complete, bind, delete, reclaim, export | reclaim against bind and against an upload under way, crash between the bucket and the row |
| collaborative quests (`modules/collab/...`) | `collab_groups`, `collab_group_members`, votes | create, join, leave, abandon | capacity against concurrent joins, circles of locks, a group that reopens |
| account (`modules/account/...`, `domain-events.repository.ts`) | deletion requests, exports | request, delete (nothing in the code cancels a request) | files that appear or stay while the storage is emptied |
| notifications and push | notifications, deliveries, device tokens | prepare, deliver, mark | per-device retry, invalid tokens |
| feed, social, search, leaderboard, profiles, discovery, map, analytics, business | their own tables | queries, single-row upserts | none beyond SQL |
| realtime gateway, Telegram, CAMARA and vision adapters | sockets, chats, provider calls | fan-out, commands, requests | provider failure, folded into the callers |
| Flutter apps, deployment | - | - | not part of the state of record |

What makes each correct:

- submissions: one decision at a time, XP held for a post exactly while it is
  approved and not deleted, the balance equal to the sum of the awards, final
  decisions, the two status columns in agreement;
- AI proof pass: bounded and exclusive model calls, a verdict that stays, no
  decision from a pass that may not decide, every proof finished with;
- agent verification: one run per key, no decision dropped in silence, no run
  stuck for ever;
- quest intake: one running quest, a reroll budget that holds under
  concurrency, proof that is never thrown away;
- journeys: progress once per approved stage, no withheld post in the feed, no
  run abandoned that its player answered;
- outbox: every committed event is processed although processes die, none is
  lost, and effects are repeated only where a consumer died in between;
- collaborative quests: seats that fit, a vacated seat that is offered again;
- sessions: one live token per family, no refresh on the strength of a password
  that was changed, codes that work once;
- media: bytes for everything that is bound, none for what is on record as
  erased, quotas.

The hazards of the code, at their lines and with the properties that watch
them, are in `PROJECT.json`.

## 2. Plan

In this order; each module comes with an MC module, its runs and its mutants.

1. `SubmissionReview` with the abstract `AwardLedger`, and its theorems in `ReviewOutboxProofs`.
2. `ProofVerification` and `ProofVerificationProofs`.
3. `AgentRun`, the jobs, runs and leases of the agent pipeline, and `AgentRunProofs`.
4. `Outbox` on `JobQueue`, with the abstract `Delivery`: refinement, liveness; its theorems are the second part of `ReviewOutboxProofs`.
5. `Journey` on `Delivery`: runs, checkpoints, the event-driven advance and the abandonment sweep, and `JourneyProofs`.
6. `ProofPolicy`, `AgentPolicy` and `Verdicts`: what the two verifiers measure and
   conclude while passes, evaluations, appeals and backfills overlap on one row;
   `VerdictProofs`.
7. `QuestIntake`: assignment, cooldown, rerolls and the ends of assignments under
   the per-player lock, and `QuestIntakeProofs`.
8. `CollabGroup`: capacity, reopening and membership, and `CollabProofs`.
9. `RefreshSessions`: rotation, revocation and the sign-in codes of one account.
10. `MediaReclaim`: rows against object storage. `AccountProofs` has the theorems
   of 9 and 10.

All of these are done; what is left out, and why, is at the end of this file.
The abstract specifications are `AwardLedger` and `Delivery`. The theorems are
the invariants of all of them for every set of players, assignments, groups,
workers, events, requests and files, and the two refinements. `SubmissionReview`
and `Outbox`, and `RefreshSessions` and `MediaReclaim`, share a module of proofs
because they share no name. Modules that are proved about use no
RECURSIVE operator; constants and their assumptions are named in the module that
declares them; invariants are conjunctions of named parts. Each module
states one type invariant (`TypeOK`, `OutboxTypeOK`, `MediaTypeOK`). It is a
theorem, or a conjunct of one, and is not repeated among a run's properties.

## 3. The submission aggregate: `SubmissionReview`

Variables: `quest` is `user_quests.status` per assignment, `sub` the columns of
the submissions row the operations read or write (`visibility` stands for
`visibility` and `deleted_at`, always written together), `profile` the numeric
columns of `profiles`, `txn` the open transaction of each client, `edited` the
last way an administrator overwrote a player's balance (a history variable, for
the balance properties only).

A transaction of the code is two steps (three for `approve`): one locks the row,
checks the guards and remembers the row (`txn[c].seen`), the last one writes what
the code computes and commits. `Abort` rolls back at any point between them.
Another transaction may lock anything else in between. What one UPDATE does
(`expire`, `abandon`, `storeRecommendedXp`, `setXp`, `updateUserProfile`) is one
step. PostgreSQL's row locks are `RowLocked` and `ProfileLocked`.

| action | code |
|---|---|
| `Assign` | `assignSpecific` as far as the row is concerned |
| `CreateLock`, `CreateCommit` | `create` |
| `EndAssignment` | `expire`, `expireOverdueForUser`, `expireAndWarn`, `abandon` |
| `ApproveLock`, `ApproveLockProfile`, `ApproveCommit` | `approve`, `lockForReview` |
| `RejectLock`, `RejectCommit` | `reject` |
| `AppealLock`, `AppealCommit` | `appeal` |
| `VisibilityLock`, `VisibilityCommit` | `setVisibility`, `removeByAdmin`, `transitionVisibility` |
| `StoreRecommendedXp` | the agent's write of `recommended_xp` |
| `SetXp`, `UpdateUserProfile` | the two administrator endpoints |

`AwardLedger` is what this promises about XP without rows or locks: a prize is
priced once, is in the balance or not, and only prizes and administrators move a
balance. `Ledger` in `SubmissionReview` is the refinement mapping.

Runs (`MCSubmissionReview`, one player, two assignments, two clients; the
smallest instance in which two transactions of different assignments meet on one
profile and two of the same assignment meet on its row):

- `ReviewLedger` (pass): what an award, a takedown, a balance, a level and the two
  status columns must agree on, final decisions, and the refinement. That a lock
  has one holder and that a remembered row is still the row (`LocksExclusive`,
  `LockedReadsAreCurrent`) follows from the model of the locks; both are
  theorems, since everything else rests on them, and not among the run's
  properties.
  `EditXp = {1, 5}`: an administrator may lower a balance below what a debit
  takes, so that the clamp `GREATEST(0, ...)` is reached, and may type a total
  at `MaxInt`, so that an approval is refused by the column. The bounds scale
  the code's: `SetXpMax` (10^8) plus every award of the two assignments still
  fits `MaxInt` (2^31 - 1).

`ApprovalFits` excepts totals that were typed: the second endpoint that edits
XP, `updateUserProfile`, lacks the bound that `SetUserXpDto` documents
(`admin.dto.ts:62`, `:86`), and its level is whatever was typed.

### Proofs: `ReviewOutboxProofs`, first part

For every set of players, assignments and clients, every reward, bonus and
recommendation, and every edit (assumption `ReviewAssumption`):

- `IInv` is inductive. Besides the checked invariants and the two about locks it needs `GuardsHold`:
  while a transaction is open, the guard it was opened under still holds of the
  row it remembers (which `LockedReadsAreCurrent` makes the row itself), and the
  row exists. Without it nothing says that an approval that commits was of a
  pending, undeleted post.
- `TypeCorrect`, `LockingIsSound`, `ReadsAreCurrent`, `AwardIsSound`,
  `RowsAreSound` and `TakedownsHold` are its conjuncts; `DecisionsFinal` is the action property; `FlowImplementsLedger` is
  the refinement: `ApproveCommit` is `Win`, `VisibilityCommit` is `Revoke` or
  `Reinstate` or a stutter, the two edits are `Override`, all else stutters.
- `BalanceIsSound` is about a sum. A sum over a set of submissions is a
  recursion over data, which the provers cannot take apart; so the balance is
  stated as the number of a player's points (`Points`): one point is a
  submission that holds XP together with a number from 1 to its amount.
  The library's cardinality theorems then say what a step does to it: an award
  adds an interval of points that were not there (`Books`), a takedown takes
  them away.
- `ApprovalsFit` has a hypothesis the code does not state and its constants
  meet: the column holds `SetXpMax` and, on top, an award of at most `P` for
  each assignment, where `P` bounds every price. Then the addition of an
  approval is never refused unless somebody typed a total. It follows from
  `BalanceIsSound`'s invariant and the number of points. `ReviewLedger` takes
  the smallest `MaxInt` that meets it.

## 4. The AI proof pass: `ProofVerification`

`row` is `submission_verifications`; `sub` what the pass reads and writes of the
submission, with `by` naming who decided last (a null `reviewed_by` is the AI);
`worker` is where each caller of `verify()` is; `analyses` counts model calls.
A lease is two booleans: `leased` on the row (`claimed_at` is recent) and
`holds` of the worker that took it; `LeaseExpires` ends both, at any time, even
while the model is being called. `Crash` loses a worker anywhere. Decisions are
one step: `SubmissionReview` shows that their transactions do not interleave.

| action | code |
|---|---|
| `Claim` | `claim` (consumer or sweep) |
| `Skip`, `Analyse`, `Record`, `Act`, `Fail` | the rest of `verify`: `skip`, `runCascade`, `record`/`complete`, `act`, `fail` |
| `ModeratorDecides`, `PlayerAppeals`, `PlayerDeletes` | `approve`, `reject`, `appeal`, `setVisibility` |

Runs (`MCProofVerification`, two workers, three attempts, so that a lease
expires, is retaken and expires again):

- `ProofLease` (pass): `AnalysesBounded`, `LeaseIsExclusive`, `VerdictIsKept`,
  and the liveness property `EveryProofSettles`.

What two overlapping passes do to each other's findings is in `Verdicts` (§8).

Seen while modelling, and not a run. The row says `acted` before `act()` runs
(`proof-verification.service.ts:204`), and keeps it when the decision is refused
because somebody decided meanwhile, or when the worker dies: the comment at
`:173`, that `acted` can never claim an action that did not happen, is true of
escalations only. And the sweep's `pending()`
(`proof-verification.repository.ts:218`) takes every pending submission without a
complete row, an appealed one too, so that the pass can decide an appeal that
`domain-events.processor.ts:102` means for people.

Fairness of `FairSpec`: the sweep runs on a timer and claims what it selects
(weak fairness of a claim of a swept row), `verify()` returns because every
provider call has a timeout (weak fairness of a worker's own steps), and time
passes. Nothing is assumed of people, and `Crash` has no fairness and no bound
except the attempts, which is why the property ends in "or out of attempts".

### Proofs: `ProofVerificationProofs`

For any submissions, any finite set of workers and any limit of attempts
(`VerificationAssumption`):

- `CallsAreBounded`. `AnalysesBounded` is not inductive: a worker that has
  claimed and not yet called the model could still overrun the count. The
  strengthening `AttemptsPaid` adds the open claims of a submission to the calls
  already made; a claim adds one to both sides, the call moves one from the
  first summand to the second, and a crash only takes away.
- `OneHolder` needs `LeasesFit`: who holds a lease works on a row that is
  leased, so a row that may be claimed has no holder.
- `VerdictStays` is the action property, from `VerdictsStored`; `TypeCorrect`
  is the type invariant.

Liveness (`EveryProofSettles`) is checked by TLC only.


## 5. The agent pipeline: `AgentRun`

`queue` is the jobs BullMQ holds, `run` the row of `agent_runs` each job's
idempotency key names, `worker` where each processor slot is in `process()`,
`sub` the submissions, `applied` (history) the runs whose decision was carried
out. Two clocks matter: a job that is not renewed is handed out again (`Stall`),
and a run that is older than its lease may be taken over (`LeaseExpires`). Each
may happen at any time, even while a worker still works.

| action | code |
|---|---|
| `Enqueue`, `Forget` | `queue.add` of the consumer, the late-evidence sweep, the moderators' re-run and the demo; `removeOnComplete` |
| `Fetch`, `Stall`, `Report` | BullMQ (external): delivery, stalled jobs, outcome and retry |
| `NothingToVerify`, `ReadContext`, `StartRun`, `Evaluate`, `EvaluationFails` | `SubmissionVerificationService.verify`, `AgentRunsRepository.start` / `fail` |
| `Apply`, `Finish` | `SubmissionVerificationProcessor.process`: approve / reject, `succeed`, `fail` and rethrow |
| `Throw`, `Crash` | a query fails; the process dies |

Runs (`MCAgentRun`, one submission):

- `AgentJobs` (pass, two workers, two attempts, one stall): `NoDecisionDropped`
  and, under `FairSpec`, `EveryJobEnds`.
- `AgentTwoRuns` (pass): two keys of one submission, by workers that may be
  overtaken at any moment, and `DecidedOnce`. One attempt and one stall: further
  retries of one key are `AgentJobs`' subject.

That one worker at a time evaluates under a key (`LeaseIsExclusive`) is proved
for `TimelySpec`, in which a lease ends only on a worker that is gone, as 900 s
are meant to achieve. Under `Spec` it fails, and no run claims it: `succeed()` and
`fail()` name the run by its id only, so an overdue worker's `fail()` ends the run
of the worker that took over, and `start()` hands the key out a third time.

Seen while modelling, and not a run. A job whose worker died is handed out again
as soon as the queue notices, before the run's lease has ended: `start()` returns
null, the job ends as `ALREADY_RUN`, nobody fetches it again, and the run stays
'running' although the comment at `submission-verification.processor.ts:153`
counts on a retry (`submission-verification.service.ts:183`). And `verify()`'s catch marks the run failed and returns an
ordinary outcome, so `process()` goes on to `succeed()` the same run
(`EvaluationFails` then `Finish`); a run that failed is therefore never started
again, although `submission-verification.processor.ts:151` counts on it.

Fairness: BullMQ serves its queue in order, so a job that waits is taken
eventually although workers are busy in between (strong fairness of `Fetch`); a
job nobody renews stalls; leases run out; `process()` goes on. Crashes and
failing queries are unfair and bounded only by the attempts and stalls of a job.


### Proofs: `AgentRunProofs`

For any submissions, jobs, workers, attempts and stalls (`AgentAssumption`, `JobQueueAssumption`; the lemmas about jobs
come first):

- `NothingIsDropped`: a worker whose `at` is "applied" works on a run that is in
  `applied` (`WorkersFit`), and only such a worker, or one with nothing to
  apply, ends a run as succeeded.
- `OneRunDecides`: a submission some run decided is not pending, or has been
  appealed (`AppliedFits`); the row lock's second look at the status refuses
  everybody else.
- `LeasesExclude` is about `TimelySpec`. `LiveExclusive` says that while a
  worker is between `start()` and the end of its run no other worker is, and
  that the run is then leased; that is what an overdue `fail()` breaks under
  `Spec`.
- `TypeCorrect` needs `JobsFit` (a job that is not over has an attempt left).

Liveness (`EveryJobEnds`) is checked by TLC only.

## 6. The outbox: `JobQueue`, `Delivery`, `Outbox`

`JobQueue` holds what the backend relies on BullMQ for, as operators on one job
(`Added`, `Taken`, `Stalled`, `Retried`, `Done`, `Orphaned`); `AgentRun` and
`Outbox` both extend it, and the proofs about each begin with the lemmas about it. BullMQ is external: it is modelled from the options the processors
give it (job ids, `attempts`, `maxStalledCount`, `removeOnComplete`).

`Outbox` has the two stores and the two kinds of process between them.

| action | code |
|---|---|
| `Emit` | the `INSERT INTO outbox_events` of the causing transaction |
| `Claim`, `ComesDue` | `OutboxPublisher.claimBatch` (`available_at` 30 s ahead, `FOR UPDATE SKIP LOCKED`) |
| `Add`, `AddFails` | `queue.addBulk`; it fails, or only its answer is lost |
| `Ack`, `AckFails`, `Reschedule` | `processed_at = now()`; the catch of `publish()` and its back-off |
| `Fetch`, `Stall`, `Report`, `Forget` | BullMQ (external) |
| `Check`, `Handle`, `Mark`, `Throw` | `DomainEventsProcessor.process`: `wasProcessed`, the handler, `markProcessed`, a failure |
| `PublisherDies`, `WorkerDies` | the process ends between any two of these |

`Delivery` is the contract a consumer may count on, three variables long: an
event that was committed may be in the hands of several workers at once, and
again after one of them failed, but is never handed out once it is recorded.
`Outbox` refines it (`emitted` is the rows that exist, `hand` the event of a
worker from the check of `processed_messages` on), and `Journey` is built on it
instead of on `Outbox`.

Run `Outbox` (pass; one event, two publishers, two workers, two attempts, one
stall). Events do not touch each other's rows, jobs or records, and the writes
that handle several at once are atomic, so that one event shows every
interleaving; the theorems are for any number. `lost` and `handled` are
history variables. Checked: no event falls between the stores
(`AckedMeansQueued`), it is carried out again only for each time a worker lost
its job (`RepeatsArePaid`), the refinement, and that every event is processed or
its job has failed and is kept (`EveryEventIsDelivered`).

Fairness: publishers poll and redo what failed, workers take jobs and finish
what they do, the queue notices a job nobody owns, and Redis does not refuse one
event for ever (strong fairness of `Add`). Deaths, errors and lost answers are
not limited; attempts and stalls of a job are, and end in a failed job.

### Proofs: `ReviewOutboxProofs`, second part

For any events, publishers, attempts and stalls, and any finite set of workers
(`OutboxAssumption`, `JobQueueAssumption`):

- `NothingIsLost`: a publisher whose `at` is "added" holds events that have a job
  or are recorded (`PublishersFit`), and a job leaves the queue only completed,
  which it becomes only when its event is recorded (`JobsFit`).
- `RepeatsHaveCause`: by counting. `Owing(e)` is the workers that may still carry
  `e` out; `handled[e] + Cardinality(Owing(e))` stays within the losses of `e`
  plus one while a job is active or the event recorded (`PaidFor`).
- `OutboxIsDelivery`: `Check` is `Deliver`, `Mark` is `Complete`, a failure with
  the event in hand is `Drop`, `Emit` is `Emit`, everything else stutters.

`EveryEventIsDelivered` is liveness and stays with TLC.

## 7. Journeys: `Journey`

One player, one solo chain. A try is a `user_quests` row and its submission; its
event bears its name. Progress is not stored anywhere in the code: it is derived
from the approved tries (`Remaining` is `unapprovedSteps()`), and so it is here.
`run` is `quest_chain_runs.status`, `opened` the rows of
`journey_stage_unlocks`, `take` the player's open `assignSpecific()`
transaction, `note` what a consumer has read so far, `told` the announcements.
`hand`, `emitted` and `recorded` are `Delivery`'s. A run that an open transaction
inserted is "opening": the unique index over live runs makes a second insert
wait, and a rollback removes it.

| action | code |
|---|---|
| `Takes`, `TakeCommits`, `TakeFails` | `QuestsRepository.assignSpecific` with `openJourneyForStep` |
| `Submits`, `Ends`, `Rejected`, `Appeals`, `Approves` | submission, expiry or abandonment, review, appeal; an approval commits with its event |
| `Abandons` | `QuestMaintenanceService.abandonUnansweredJourneys` |
| `Begins`, `Records`, `Fails` | delivery of the event, `markProcessed`, a failure or death that rolls back an open transaction |
| `Finds`, `Derives`, `Closes`, `Opens`, `OpensNothing` | `JourneyProgressionService.onSubmissionApproved`, statement by statement: each sees what has committed by then |
| `Tells` | `announceUnlock`, `announceCompletion`, after the commit |

Runs (`MCJourney`: two checkpoints, a try of each and a retake of the first, two
workers, both completion rules):

- `Journey` (pass): the order of a sequential chain across runs
  (`CheckpointsInOrder`), completion only when all is approved
  (`CompletedIsWalked`), announcements at most once per run (`ToldOnce`), finished
  runs stay finished (`FinishedRunsRest`), and an approval that is still to be
  handled moves a live run (`ApprovalsMoveTheJourney`). Bounds: `MaxRuns = 2`, so
  that a journey can be abandoned and begun again; one failure of a worker, which
  is one redelivery; one try whose rejection may be appealed.
- `JourneySweep` (violation): the finding about the sweep, which takes a
  journey whose rejected checkpoint was retaken and approved.

Fairness: transactions end, workers finish what they do, and every event is
delivered; that last one is what `EveryEventIsDelivered` says of `Outbox`, for
an event whose job does not fail for good.

Seen while modelling, and not a run: an approval of the first checkpoint that is
delivered again after its run completed finds no live run, adopts a new one,
derives that nothing remains, completes it and announces the end of that run
too (`ToldOnce` is per run); a worker that dies between the commit of an unlock
and its announcement leaves it unannounced; the approval of a later checkpoint
that meets no live run (the sweep came between) is dropped and recorded.

### Proofs: `JourneyProofs`

For any chain length, tries, workers, runs and failures (`JourneyAssumption`):

- `WalkedInOrder`, `CompletionIsEarned`: approval is final, so `Approved` only
  grows and what a consumer derived is still true when it commits (`WalkFits`).
  Order then follows step by step: a take needs only its predecessor approved,
  and the predecessor was itself taken in order. That the first remaining
  checkpoint has all earlier ones approved is the well-ordering of the naturals.
- `AnnouncedOnce`: what a worker is about to tell happened and was not told, and
  no other worker is about to tell it (`TellFits`).
- `FinishedStay`: a run in status "opening" is known to the one transaction that
  inserted it (`RunsFit`, `TakeFits`), so neither a commit nor a rollback of it
  touches any other.

`ApprovalsMoveTheJourney` is liveness and stays with TLC.


## 8. The two verifiers together: `ProofPolicy`, `AgentPolicy`, `Verdicts`

`ProofPolicy` is what the proof pass measures and concludes (`proof-forensics.ts`,
`proof-policy.ts`): the capture window, the difference hash and its distance, the
weights of the findings, the ladder of models with its confidence floors, and
`Decide`. `AgentPolicy` is what bounds the agent (`verification-policy.ts`): the
curves of time and XP, what counts as network and vision evidence, and
`FinalizeDecision`, whose gates can only turn a proposal into a person's case.
Both are operators without state. A finding keeps its weight and loses its
wording; a picture is a small matrix of shades; confidence is a number on a
small scale or None.

`Verdicts` is the state both verifiers share: the row of
`submission_verifications` (`row`, absent until the consumer inserts it), the
objects whose facts are on record (`measured`), the running passes and the
agent's running evaluations, each by submission and worker, the submission's
status, decider and appeal, and the flags of the deployment. Each await of the
code ends a step: a pass measures, compares and writes its findings, asks one
model after the other, stores its verdict, acts; the agent reads its context,
later the row, and later still applies.

Passes of one submission overlap, and so do evaluations. A claim may be retaken
at any moment under a worker that goes on (`Begin` does not ask who is at work;
`claim()`, `proof-verification.repository.ts:94`, takes an expired claim), a
backfill claims nothing, and no statement at a pass's end tests whose row it
writes (`:133`, `:311`, `:414`). How many attempts there are, when a lease really
ends, and how jobs and runs are kept is `ProofVerification`'s and `AgentRun`'s;
here a claim is allowed whenever the row is queued or failed, and an evaluation
whenever there is a context.

| action | code |
|---|---|
| `Enqueue` | the consumer's first statement; until then there is no row, and an UPDATE of it is lost |
| `Begin`, `Skip`, `Measure`, `Compare`, `Rung`, `Conclude`, `Act`, `PassFails` | `claim`, `skip`, `inspect` with `recordObjectFacts` and `recordForensics`, `runCascade`, `record`/`complete`, `act`, `fail` |
| `BeginEval`, `EvalSubject`, and the steps above with kind "eval" | `backfillForEval`: the list, the second look, `completeForEval`; never acts, never fails a row |
| `Brief`, `Evaluate`, `Apply`, `EvaluationFails` | `findSubmissionContext`, `SubmissionVerificationService.verify`, `SubmissionVerificationProcessor.process` |
| `PersonDecides`, `Appeal`, `Removed`, `Restored` | moderators, the player's one appeal, deletion and its undoing |
| `Restart` | a deployment with other flags; what ran in the worker is lost, a backfill is a process of its own |

`crowded` and `settled` are history: the submissions two passes of which have
run at once, and those that were appealed when no verifier had anything left to
do for them. `read` and `report` in a position are what that evaluation or pass
found, whoever has written to the row since.

Run (`MCVerdicts`: a new submission beside an old one that is on record):

- `Verdicts` (pass): two workers, so that any two passes or evaluations of the
  new submission overlap in any order; six cases of quest, contract and file,
  in which each verifiability and each weight of finding occurs, a file that is
  similar, one that repeats the player's own, a generated and old one, a
  screenshot, and none at all; four model answers around the two bars, the
  proposals at every confidence, the three settings of the flags that differ.
  The workers are alike (symmetry), which is sound as the temporal properties
  here are about single steps and name no worker. With overlapping passes,
  an appeal and a backfill in one behaviour the state graph is 27 steps deep.

What the properties say, and why not more:

- `ApprovalIsEarned` and `RejectionIsGrounded` are about the step that decides
  and about what that pass or evaluation itself found, since the row does not
  keep it: `recordForensics` (`proof-verification.repository.ts:414`) of an
  overdue pass or of a backfill rewrites the findings under an automated
  approval, and a backfill that began before the appeal takes the ground of an
  automated rejection away. What no overlap can take away is the file: a report
  made from it says at least what the file says of itself (`OwnReport`), so no
  pass that read a generated file, or one older than its quest, approves it.
- A pass that could not read the file says nothing against it. `measure()`
  makes an ordinary outcome of a storage that throws, so the same proof may be
  condemned by one pass and be "unexamined" for the next.
- The agent answers for the findings it read. `completeForEval` inserts a
  row where the consumer has not yet done so, and its `recordForensics` before
  that updated nothing: the row is complete without forensics, and
  `toIntegrity()` (`local-cv-evidence.provider.ts`) has nothing to object to. The
  order: a person rejects before the consumer came, a backfill measures a
  generated photograph and asks the models, the player appeals while an
  evaluation begun earlier (a re-run, say) still waits, the backfill concludes, the
  evaluation reads a complete row without findings and approves.
- `RowTellsOneStory` is about submissions no two passes of which have overlapped.
  With overlap none of its parts holds. A row that says pass with decisive
  findings: of two live passes one could not read the file and concludes "pass",
  and the other reads it and writes its findings afterwards. And acted = false on a row whose pass
  decided: a moderator rejects, a backfill is begun, the player appeals, the
  sweep's pass concludes with acted = true and decides, and `completeForEval`
  overwrites the row.
- `AppealsStayHuman` is about appeals that find the verifiers done, and holds
  whatever restarts, is retried or backfilled afterwards. Other appeals are
  decided by machines: by an evaluation that had its context, or a pass that
  stood before `act()`, when the appeal came, and by the sweep, which takes any
  pending submission whose row is not complete.
- `OneDecider` is about deployments, one set of flags at a time. During a rolling
  release with two sets of flags, two workers can be deciders; that is not
  modelled.

Constant in a behaviour, and so not modelled either: the quest's contract and
destination, which an administrator may edit while a submission is open, and
the window of the assignment. Every submission has one file: of several, the
first that can be read is the one a report is made from
(`proof-provenance.service.ts:51`). The refusals of a live pass for want of a
contract or of the submission (`proof-verification.service.ts:75`, `:81`) do not
occur: the view has a row for every quest, and submissions are not erased.

Seen while modelling, and not a run.

- `domain-events.processor.ts:101` says that "an appeal can never be auto
  re-decided; appeals stay human-only"; the orders above show how one is.
- `proof-verification.repository.ts:300` says of a backfilled verdict that the
  decision it is scored against "was already made and recorded before this
  verdict existed, so it cannot have influenced it even in principle", and
  `proof-verification.service.ts:173` that `acted` cannot claim what did not
  happen; after an appeal within the backfill the first is false, and so is the
  use that `proof:eval` makes of `acted`.
- `findDuplicate` (`proof-verification.repository.ts:432`) compares with every
  submission on record and has no order in time: an original that is measured
  after its copy is itself the copy, which the comments there (`:421`) and in
  `proof-forensics.ts:237` ("already submitted") exclude.
- A proof whose file could not be read is approved for quests whose contract is
  `none` or `provenance_only`, although `proof-provenance.service.ts:95` says an
  unexamined proof must not be taken for a clean one.

### Proofs: `VerdictProofs`

For any submissions, workers, files, contracts, model answers, proposals and
flags (`ProofPolicyAssumption`, `AgentPolicyAssumption`, `VerdictsAssumption`):

- `IInv` is a conjunction over submissions, and its parts are about values, so
  that a step is a change of their arguments. `Measured` says what the columns
  of any row say together. `Informed` and `Weighed` say what each position of a
  pass and of an evaluation knows: a pass about to act has, in its own position,
  the report and the doubters its decision needs (`Grounded`, `TwoDoubters`), an
  evaluation what it read. They mention nothing another worker can change except
  that the row is complete, and a complete row stays complete: this is why they
  survive overlap.
- While a submission is not `crowded`, `Alone` says that at most one pass runs,
  `OwnRow` that it finds in the row what it wrote there, `Seen` that an
  evaluation about to approve has seen the row as it still is, and `OneStory`
  what `RowTellsOneStory` promises. `AtRest` says of a settled submission that
  only a backfill can be at work on it and that its row is finished; a machine
  needs a claim, a context or a position to decide it and gets none of them.
- `PassStep` and `AgentStep` say what suffices for a step of one worker to keep
  all that; each action has a lemma that shows it.
- `ApprovalsAreEarned`, `RejectionsAreGrounded`, `DecidersAreAlone`,
  `RowsTellOneStory`, `AppealsAreHuman` and `VerdictTypes` follow.
  `DecidingSteps` finds the worker whose step decided.
- Of the measurements, for every input: `CaptureWindowIsFair` (no offset of a
  camera's clock makes an attempt predate its quest), `HashSurvivesRecoding`,
  `RecommendationsAreBounded`, `FurtherIsNotWorse`.

## 9. Quest intake: `QuestIntake`

How a player gets a quest, is charged for looking at others, and how an
assignment ends. `quest` is `user_quests`, `log` is `quest_reroll_log`, `lock`
the per-player advisory lock (`pg_advisory_xact_lock`), `txn` the open
transaction of each request: its kind, its player, the time it began (which is
what `now()` means in it, before it waited for the lock), the rows it has set to
'expired' and holds, and whether its spin is charged. `clock` only orders the
beginnings.

| action | code |
|---|---|
| `Begin`, `LockUser` | `BEGIN`, `QuestAssignmentPolicyRepository.lockUser` |
| `Sweep`, `Check`, `Insert` | `assignSpecific` (player or administrator) and `CollabRepository.join` as far as the assignment is concerned: `expireOverdueForUser` or the displaced quest, the look for an active one and the cooldown, the INSERT behind the unique index |
| `ReadBudget`, `LogRoll` | `pickerOptions` with `chargeRollIfNotFirstOfCycle` |
| `Fail` | every gate of the code that is not about these rows, and a broken connection |
| `Abandon`, `Expire`, `Submit`, `Review`, `Appeal`, `Overdue` | the statements that end or change an assignment and take no advisory lock |

Run `Intake` (pass, `MCQuestIntake`): one player, since players share nothing,
and two requests at a time. `Cooldown = 2`, `Day = 3`, `Budget = 1`, three rolls
and two assignments within six ticks: a window can pass, a budget can be used up
and come back, and a request can begin before another's roll and count after it.
Checked: the index never has to refuse what the lock has let through
(`InsertFindsRoom`), no window holds more charged rerolls than the budget
(`BudgetHolds`), proof that waits for review is not thrown away
(`ProofIsKept`), every request ends (`EveryRequestEnds`).

Fairness: a request that can go on does (weak fairness), and who waits for a lock
gets it (strong fairness of `LockUser`: PostgreSQL serves waiters in order, so
that later requests do not starve an earlier one).

Seen while modelling, and not a run: how many spins are free is not bounded. The
code compares the time a spin was logged with the last `assigned_at`, and both
are the beginnings of their transactions: a spin that waited for the lock while
a quest was taken is logged before that `assigned_at`, so the next one is free
as well, although "every re-spin costs" (`quests.repository.ts:686`). Taking a
quest and giving it up makes one free again.

### Proofs: `QuestIntakeProofs`

For any players, clients, cooldown, day, budget and bounds (`IntakeAssumption`):

- `OneActiveQuest`: who is past the check holds the player's advisory lock, and
  only a holder inserts, so what it saw still holds; the ends that need no lock
  only make room.
- `RerollsAreBounded`, for every window and not only the one a spin looks at.
  Under the lock nothing is logged between the count and the log, so what a spin
  has counted it may still spend (`MayCharge`). It counts all charged rolls that
  are later than a day before it began, those that began after it too; every
  window of a day that holds the new roll is among them, so one more than was
  counted is at most the budget.
- `ProofStays` is the action property; it needs that a
  transaction ends only what it found running (`EndsRunning`). `TypeCorrect` is the type invariant.

`EveryRequestEnds` is liveness and stays with TLC.

## 10. Collaborative quests: `CollabGroup`

`group` is `collab_groups`, `member` the group of each assignment
(`collab_group_members`), `quest` the assignments, `userLock` and `groupLock` the
advisory lock and the `FOR UPDATE` of a group's row, `txn` the transactions of
`join`, `abandon` and `leave`, one statement a step. A statement waits for
whoever holds a row it needs (`Blockers`); what a transaction has written is seen
by others when it commits. The orders of their locks differ: a join locks the
player, the group, its members, then the quest it ends; giving up locks the
quest, the membership, then the group it reopens; leaving locks the group first.
They can wait in a circle, and PostgreSQL then fails one of them
(`BreakDeadlock`).

| action | code |
|---|---|
| `Join`, `LockUser`, `LockGroup`, `SelectMembers`, `FindActive`, `CommitJoin` | `CollabRepository.join`, with or without `abandonActiveQuest` |
| `Abandon`, `EndAssignment`, `DeleteMember`, `Reopen`, `CommitExit` | `abandon`, `releaseAssignment`, `reopenIfRoom` |
| `Leave`, `DeleteMember`, `Reopen`, `CommitExit` | `leave` |
| `Create` | `create`, whose lock on the assignment comes before all else |
| `TakeQuest`, `Submit`, `Review`, `EndElsewhere`, `GroupExpires` | what happens to assignments and groups elsewhere, one step each |
| `Fail`, `BreakDeadlock` | rollback |

Run `Collab` (pass, `MCCollabGroup`): three players, one group of two seats, two
requests at a time, three assignments: a seat can be contended for, vacated while
it is contended for, and taken by a player who must give up a quest in the same
group. Checked: the seats (`SeatsFit`), and that a group which is closed although
it has room is one its creator has left (`VacatedSlotsReopen`). Cooldowns,
blocked players and quests that cannot be shared are failures; votes are single
upserts and left out.

Seen while modelling, and not a run. A creator who leaves closes the group
(`collab.repository.ts:235`), but nothing stored tells it from a group that was
full, so that `reopenIfRoom`, meant for a group that "was closed only because it
had filled" (`:277`), opens it again when another member leaves. A membership
survives when its assignment is given up or expires outside this repository, so a
seat may be held by nobody who plays. `create` tries again after a duplicate code
inside the transaction that the duplicate has aborted (`:38`), where every further
statement fails.

### Proofs: `CollabProofs`

For any players, groups, requests and assignments, and any number of seats from
two (`CollabAssumption`). `GroupsInv` is inductive; no part of it is alone:

- A join decides on members it has counted some statements ago. `JoinFits` says
  that from then on the count is true and the group open, until it commits. That
  rests on the lock of the group's row (`RequestFits`), on the wait for
  memberships that are being deleted (`PlacesApart`), and on `ExitFits`: who
  gives up a place in a group he has not locked holds the ended assignment of
  that place and nothing else. `SeatsAreKept` follows: a commit adds one member to
  fewer than `MaxMembers`, and closes the group with the last.
- A request that gives up a place and finds no room takes no lock of the group.
  `LeaveFits` says why it need not: before it commits, the group is not closed,
  or over, or its creator has gone, and nobody can fill it meanwhile, because a
  join would have to count the very membership that is being deleted.
  `SlotsReopen` follows.
- The proof goes by what a step does to the tables. A statement that writes
  nothing has to keep its own request's part (`Quiet`); a commit, or a step
  elsewhere, has to leave the others what they rely on (`RowsKept`,
  `PlacesKept`, `GroupKept`, `CreatorsKept`, and `RelyFits`).

## 11. Sessions: `RefreshSessions`

One account. `user` is its `token_version` and status, `session` the rows of
`refresh_sessions` with the family each belongs to, `token` the recovery tokens,
`phone` the row of a sign-in by phone, the three locks who holds which row, `txn`
the requests. A transaction keeps its connection until it ends; any other
statement takes one of the pool for itself. So a refresh, which reads the account
again outside of its transaction (`auth.service.ts:445`), holds one connection
and needs a second, and `Free` is part of the model: requests may wait for each
other's connections, which ends when the pool's time-out does (`TimesOut`).

| action | code |
|---|---|
| `ReadAccount`, `TouchLastLogin`, `CreateSession` | `login`, `completePhoneHandoff`, `issueTokenPair` |
| `LockSession`, `CheckSession`, `ReadAgain`, `Rotate`, `FindFamily`, `RevokeFamily` | `refresh`, `findSessionForUpdate`, the revocation after the rollback |
| `RevokeSession` | `logout` |
| `LockToken`, `UpdateAccount`, `FindSessions`, `RevokeAll` | `completePasswordRecovery`, `updatePassword`, `setStatus` |
| `ConsumePending`, `MarkCompleted`, `ConsumeHandoff` | the browser's callback and the app's exchange of the code |
| `RequestRecovery`, `StartPhone`, `ExpireSession`, `ExpireToken`, `Reinstate` | single statements |
| `Connect`, `TimesOut`, `BreakDeadlock`, `Fail` | the pool and PostgreSQL |

Run `Sessions` (pass, `MCRefreshSessions`): two requests at a time over a pool of
two connections (the smallest in which both hold one and want another), three
sessions (a rotation and one more), two recovery tokens, two changes of the
version. Checked: a family has one live session whatever is presented at once
(`OneLivePerFamily`); a refresh that inserts does so for the account as it is,
because it holds it locked from the check to the commit (`RefreshedIsCurrent`;
weaken the lock to the session alone and TLC finds a password change in
between); recovery links and hand-off codes work once (`CodesWorkOnce`).

An UPDATE over several sessions finds its rows when it begins and waits for them
then, so that it is two steps. What follows was seen and is not a run: a family
that is revoked while another refresh of it inserts keeps the new session, which
the UPDATE has not seen; the same holds of a password change and a login that
read the account before it, whose session then fails on its version when it is
next refreshed.

Left out: OAuth, registration and e-mail confirmation (single inserts), the
contents and signatures of tokens. One account is enough: requests of different
accounts share only the pool.

### Proofs: `AccountProofs`, second part

For any requests, pool, sessions, tokens and versions (`SessionsAssumption`), by
the invariant `SessionsInv`:

- A refresh that has passed its check holds the account locked, carries the
  family and version of the session it rotates, and no other session of the
  family is live (`RefreshFits`). Nobody can add one meanwhile: a sign-in begins
  a family of its own, named for its first session, and another refresh would
  need the lock. `FamilyIsAChain` and `RefreshIsCurrent` follow.
- Who ends every session has locked the account since it read the version it
  will raise (`RaisesFit`), so that versions are raised one by one and there is
  one left for each request that has begun (`VersionsFit`; the bound is the
  model's).
- `CodesFit` ties the phone row to the requests: one request at most marks or
  exchanges, while the row says 'failed' or 'consumed'. `CodesAreSingle` is its
  consequence.

A step is first described by what it does to the rows and to the lock of the
account (`Asks`: a dozen descriptions for twenty-seven actions); the invariant
is then proved against the descriptions. A request that does not act keeps its
place, and the account with it if it holds the lock (`SessionBystander`).
Circles of locks are not analysed: a request may be rolled back at any of its
statements, whatever it waits for, so that the theorems hold for every order in
which PostgreSQL grants locks and for every victim it chooses.

## 12. Media: `MediaReclaim`

The files of one player, in two stores: `object` is `media_objects`, `linked` and
`avatar` what refers to them, `stored` the objects whose bytes are in the bucket.
`lock` and `quotaLock` are row locks and the quota's advisory lock. There is no
clock: `grants` holds the objects whose upload URL, with the grace after it, has
not run out, and `leased` those whose reclaim lease has not; either may end at any
time. A file is put by the device, whatever has become of its row since.

| action | code |
|---|---|
| `Reserve`, `ReserveCommits` | `MediaService.createIntent`, `createOrFind` |
| `Upload` | the device's PUT (external) |
| `Complete`, `MarkReady`, `MarkRejected`, `Erase` | `complete`: inspection outside of any transaction, then one UPDATE |
| `Bind`, `BindCommits`, `ClearAvatar` | `SubmissionsRepository.create`, `ProfilesRepository.update` |
| `MarkDeleted`, `Erase` | `delete`, `deleteByKey` |
| `Select`, `LockRows`, `Tombstone` | `claimReclaimable`: the snapshot, `FOR UPDATE SKIP LOCKED`, and the second look under the locks |
| `Deletes`, `Releases`, `MarkReclaimed` | the rest of `MediaReclaimService.sweep` |
| `UploadExpires`, `LeaseEnds`, `RequestDies`, `SweeperDies` | time and crashes |

Run `Media` (pass, `MCMediaReclaim`): two objects, two requests, one sweep that
may die and begin again (its lease ends even while it still works), a quota of
one: enough for two reservations to race for the last place, for a file to be
bound between selection and tombstone, and for an upload to arrive at any point
of the sweep. Checked: quotas under concurrency (`QuotaHolds`), the bytes of what
is bound stay (`BoundStaysStored`), and what is on record as erased is gone
(`ErasedStaysErased`), which holds because nothing is swept before its URL has
run out.

That every unused file is swept in the end is not checked: the owner may delete,
retry and upload for ever, and the sweep takes a limited batch of the oldest.
Posters and branded exports have no upload and are left out, as is the deletion
of an account, which removes all rows: a file its owner deleted while the bucket
refused, or one that is uploaded meanwhile, then leaves bytes no sweep can find
(`domain-events.repository.ts:161`). A worker that dies while rendering leaves an
export 'rendering', which `markRendering` does not take up again
(`branded-export.processor.ts:108`).

### Proofs: `AccountProofs`, first part

For any files, requests, sweeps and quota (`MediaAssumption`), by the invariant
`MediaInv`:

- `ReservesAlone`: who has counted holds the quota's lock, and the count it took
  is still enough: a file enters the count by a reservation only, and leaves it
  at any time. `QuotaIsKept` follows.
- `RequestsFit` and `SweepsFit` say what each request and sweep has seen that is
  still so: who marks a file ready has seen its bytes, who binds one holds its
  row locked and found it ready, a sweep holds the rows of its batch and nothing
  binds them, and what it deletes is closed for ever.
- `FilesFit` is then about the two stores: what is ready has its bytes, what is
  bound is ready until its owner deletes it, and what was recorded as erased has
  neither bytes nor a URL. `BoundIsStored` and `ErasedIsGone` are its
  consequences. `BlankUntilReserved` says that nothing refers to a file that was
  never reserved.

## What is not proved

Liveness under fairness is left to TLC: `EveryProofSettles`, `EveryJobEnds`,
`EveryEventIsDelivered`, `ApprovalsMoveTheJourney` and `EveryRequestEnds`. Every
other property of the passing runs is a theorem.

## What is not modelled

- Relays and their rosters, hidden checkpoints, the feed mode of a journey and
  its post. Their state is columns of the feed, written by single statements in
  the transactions that are modelled; the two places where the code's own rules
  part ways are short enough to say: a post withheld for a one-post journey
  enters the feed when its author hides and shows it
  (`submissions.repository.ts:740`), and the feed mode may be chosen while the
  first checkpoint is being submitted (`journey.repository.ts:147`).
- A pending submission its author deletes cannot be reviewed, and its assignment
  stays 'submitted' unless the post is restored (`submissions.repository.ts:813`);
  an administrator's absolute XP total overwrites an approval since the audit it
  was read from (`admin-users.repository.ts:201`). Both are what the code is
  written to do, and nothing in it promises more.
- The proof pass with its analyser disabled, the evaluation backfill as a job (its
  effect on a row is in `Verdicts`), notification and audit rows.
- Notifications and push, feed, social, search, leaderboard, profiles, discovery,
  analytics: queries and single-row upserts, which PostgreSQL makes atomic.
- The realtime gateway, Telegram, CAMARA and the vision services: their answers
  are arbitrary values of the callers' steps, their failures `Fail` and `Throw`.
- The Flutter clients and the deployment: they hold no state of record. What a
  client may send, it may send at any moment.
- Quest authoring and the catalogue, moderation screens, public forms, health.

Text, wording and layout are left out throughout. PostgreSQL is taken at its
word: READ COMMITTED row locks, atomic statements, rollback, detection of
deadlocks. Crashes of the database itself are outside the model.

## Running

`tlc -config <cfg> <MC module>` for each run of `PROJECT.json`, and
`tlapm <module>` for the proof modules. All passing runs end within a few minutes
on two workers.
