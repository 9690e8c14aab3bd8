------------------------------- MODULE AgentRun -------------------------------
(***************************************************************************)
(* The agent pipeline over submissions: BullMQ jobs 'submission.verify',   *)
(* the workers that process them, and one row of agent_runs per job, which *)
(* is its idempotency key.  A job is the first verification of a           *)
(* submission, a re-run for late geofence evidence, a re-run a moderator   *)
(* asked for, or a demonstration that applies nothing.                     *)
(*                                                                         *)
(* Two clocks govern a run and neither knows of the other: the queue hands *)
(* an unrenewed job to another worker after seconds, and agent_runs lets a *)
(* run be taken over when its lease is over, after minutes.  Each write to *)
(* the database or to the queue is a step of its own.                      *)
(*                                                                         *)
(* What BullMQ does (Fetch, Stall, the outcome of a job) is modelled from  *)
(* how the processor uses it: deterministic job ids, three attempts, one   *)
(* stall.  A decision is one step (see SubmissionReview).                  *)
(***************************************************************************)
EXTENDS JobQueue

CONSTANTS
  Submissions,
  Jobs,          \* job ids
  Subject,       \* the submission of each job
  Recurring,     \* jobs the late-evidence sweep adds as often as it runs
  Advisory,      \* jobs that apply nothing: the demo's, all of them in shadow mode
  Pausable       \* an administrator may pause the pipeline, at any time

ASSUME AgentAssumption ==
  /\ Subject \in [Jobs -> Submissions]
  /\ Recurring \subseteq Jobs /\ Advisory \subseteq Jobs
  /\ None \notin Jobs
  /\ Pausable \in BOOLEAN

VARIABLES
  queue,    \* the jobs in Redis
  run,      \* agent_runs
  sub,      \* what the pipeline reads and writes of submissions
  worker,   \* where each worker is in process()
  applied   \* runs whose decision was carried out

vars == <<queue, run, sub, worker, applied>>

-----------------------------------------------------------------------------
Decisions == {"APPROVED", "REJECTED", "HUMAN_REVIEW"}

\* leased: started_at is within AGENT_RUN_LEASE_SECONDS.
Run == [status: {"absent", "running", "succeeded", "failed"},
        output: Decisions \cup {"none"}, leased: BOOLEAN]

Sub == [status: {"pending", "approved", "rejected"}, appealed: BOOLEAN,
        deleted: BOOLEAN, by: {"nobody", "moderator", "agent"}]

\* holds: the lease this worker started its run under is not over.
Worker == [at: {"idle", "fetched", "briefed", "evaluating", "decided", "applied",
                "returning", "throwing"},
           job: Jobs \cup {None}, decision: Decisions, holds: BOOLEAN]

IdleWorker == [at |-> "idle", job |-> None, decision |-> "HUMAN_REVIEW", holds |-> FALSE]

Init ==
  /\ queue = [j \in Jobs |-> NoJob]
  /\ run = [j \in Jobs |-> [status |-> "absent", output |-> "none", leased |-> FALSE]]
  /\ sub = [s \in Submissions |-> [status |-> "pending", appealed |-> FALSE,
                                   deleted |-> FALSE, by |-> "nobody"]]
  /\ worker = [w \in Workers |-> IdleWorker]
  /\ applied = {}

Goes(w, at) == worker' = [worker EXCEPT ![w].at = at]

\* Variant: the status is not read again under the row lock.
ReviewableStale(s) == ~sub[s].deleted

Reviewable(s) == sub[s].status = "pending" /\ ~sub[s].deleted

-----------------------------------------------------------------------------
(* The queue.                                                              *)

\* queue.add: the sweep looks for submissions still under review, the others
\* do not look.  An id the queue still holds is left alone.
Enqueue(j) ==
  /\ queue[j].state = "absent"
  /\ j \in Recurring => Reviewable(Subject[j])
  /\ queue' = [queue EXCEPT ![j].state = "waiting"]
  /\ UNCHANGED <<run, sub, worker, applied>>

\* removeOnComplete, removeOnFail.  Only the sweep adds the same id again.
Forget(j) ==
  /\ j \in Recurring
  /\ queue[j].state \in {"completed", "failed"}
  /\ queue' = [queue EXCEPT ![j] = NoJob]
  /\ UNCHANGED <<run, sub, worker, applied>>

Fetch(w, j) ==
  /\ worker[w].at = "idle"
  /\ queue[j].state = "waiting"
  /\ queue' = [queue EXCEPT ![j] = Taken(@, w)]
  /\ worker' = [worker EXCEPT ![w] = [IdleWorker EXCEPT !.at = "fetched", !.job = j]]
  /\ UNCHANGED <<run, sub, applied>>

\* The lock was not renewed: the owner is gone, or cut off and still working.
Stall(j) ==
  /\ queue[j].state = "active"
  /\ queue' = [queue EXCEPT ![j] = Stalled(@)]
  /\ UNCHANGED <<run, sub, worker, applied>>

\* process() returned or threw.  The queue does not listen to a worker that
\* no longer owns the job.
Report(w) ==
  /\ worker[w].at \in {"returning", "throwing"}
  /\ LET j == worker[w].job IN
     queue' = [queue EXCEPT ![j] =
       IF @.owner # w THEN @
       ELSE IF worker[w].at = "throwing" THEN Retried(@)
       ELSE Done(@)]
  /\ worker' = [worker EXCEPT ![w] = IdleWorker]
  /\ UNCHANGED <<run, sub, applied>>

-----------------------------------------------------------------------------
(* The run.                                                                *)

\* start(): the ON CONFLICT clause.
Startable(r) == r.status \in {"absent", "failed"} \/ (r.status = "running" /\ ~r.leased)

Started == [status |-> "running", output |-> "none", leased |-> TRUE]

\* succeed() and fail() name the run by its id and look at nothing else.
Succeeded(r, output) == [r EXCEPT !.status = "succeeded", !.output = output]
FailedRun(r) == [r EXCEPT !.status = "failed"]

LeaseExpires(j) ==
  /\ run[j].leased
  /\ run' = [run EXCEPT ![j].leased = FALSE]
  /\ worker' = [w \in Workers |->
                  IF worker[w].job = j THEN [worker[w] EXCEPT !.holds = FALSE] ELSE worker[w]]
  /\ UNCHANGED <<queue, sub, applied>>

-----------------------------------------------------------------------------
(* process() and verify().                                                 *)

Verifiable(s) == Reviewable(s) /\ ~sub[s].appealed

\* The pipeline is paused, or the context query finds nothing to verify: the
\* job is over.
NothingToVerify(w) ==
  /\ worker[w].at = "fetched"
  /\ Pausable \/ ~Verifiable(Subject[worker[w].job])
  /\ Goes(w, "returning")
  /\ UNCHANGED <<queue, run, sub, applied>>

\* The context of a submission under review that is not an appeal.
ReadContext(w) ==
  /\ worker[w].at = "fetched"
  /\ Verifiable(Subject[worker[w].job])
  /\ Goes(w, "briefed")
  /\ UNCHANGED <<queue, run, sub, applied>>

\* The claim.  A key that is held makes the job return, as ALREADY_RUN.
StartRun(w) ==
  /\ worker[w].at = "briefed"
  /\ LET j == worker[w].job IN
     IF Startable(run[j])
     THEN /\ run' = [run EXCEPT ![j] = Started]
          /\ worker' = [worker EXCEPT ![w].at = "evaluating", ![w].holds = TRUE]
     ELSE Goes(w, "returning") /\ UNCHANGED run
  /\ UNCHANGED <<queue, sub, applied>>

\* Evidence, model and policy: minutes of calls, one decision.
Evaluate(w, decision) ==
  /\ worker[w].at = "evaluating"
  /\ worker' = [worker EXCEPT ![w].at = "decided", ![w].decision = decision]
  /\ UNCHANGED <<queue, run, sub, applied>>

\* The catch of verify(): the run is marked failed, and what is returned is
\* an ordinary outcome that asks for human review.
EvaluationFails(w) ==
  /\ worker[w].at = "evaluating"
  /\ run' = [run EXCEPT ![worker[w].job] = FailedRun(@)]
  /\ worker' = [worker EXCEPT ![w].at = "decided", ![w].decision = "HUMAN_REVIEW"]
  /\ UNCHANGED <<queue, sub, applied>>

MayApply(w) == worker[w].decision # "HUMAN_REVIEW" /\ worker[w].job \notin Advisory

\* approve or reject; when that throws, the run fails and so does the attempt.
Apply(w) ==
  /\ worker[w].at = "decided"
  /\ MayApply(w)
  /\ LET j == worker[w].job
         s == Subject[j]
     IN IF Reviewable(s)
        THEN /\ sub' = [sub EXCEPT ![s].by = "agent", ![s].status =
                          IF worker[w].decision = "APPROVED" THEN "approved" ELSE "rejected"]
             /\ applied' = applied \cup {j}
             /\ Goes(w, "applied")
             /\ UNCHANGED run
        ELSE /\ run' = [run EXCEPT ![j] = FailedRun(@)]
             /\ Goes(w, "throwing")
             /\ UNCHANGED <<sub, applied>>
  /\ UNCHANGED queue

\* Variant: the run is finished as soon as there is a decision.
FinishEarly(w) ==
  /\ worker[w].at \in {"decided", "applied"}
  /\ run' = [run EXCEPT ![worker[w].job] = Succeeded(@, worker[w].decision)]
  /\ Goes(w, "returning")
  /\ UNCHANGED <<queue, sub, applied>>

\* The decision is carried out, or there is none to carry out.
Finish(w) ==
  /\ worker[w].at = "applied" \/ (worker[w].at = "decided" /\ ~MayApply(w))
  /\ run' = [run EXCEPT ![worker[w].job] = Succeeded(@, worker[w].decision)]
  /\ Goes(w, "returning")
  /\ UNCHANGED <<queue, sub, applied>>

\* A query fails and process() throws with it.
Throw(w) ==
  /\ worker[w].at \in {"fetched", "briefed", "evaluating", "decided", "applied"}
  /\ Goes(w, "throwing")
  /\ UNCHANGED <<queue, run, sub, applied>>

\* The worker process dies; its job stays active until it stalls.
Crash(w) ==
  /\ worker[w].at # "idle"
  /\ queue' = [queue EXCEPT ![worker[w].job] = Orphaned(@, w)]
  /\ worker' = [worker EXCEPT ![w] = IdleWorker]
  /\ UNCHANGED <<run, sub, applied>>

-----------------------------------------------------------------------------
(* The people.                                                             *)

ModeratorDecides(s, status) ==
  /\ Reviewable(s)
  /\ sub' = [sub EXCEPT ![s].status = status, ![s].by = "moderator"]
  /\ UNCHANGED <<queue, run, worker, applied>>

PlayerAppeals(s) ==
  /\ sub[s].status = "rejected" /\ ~sub[s].appealed /\ ~sub[s].deleted
  /\ sub' = [sub EXCEPT ![s].status = "pending", ![s].appealed = TRUE]
  /\ UNCHANGED <<queue, run, worker, applied>>

PlayerDeletes(s) ==
  /\ ~sub[s].deleted
  /\ sub' = [sub EXCEPT ![s].deleted = TRUE]
  /\ UNCHANGED <<queue, run, worker, applied>>

People ==
  \/ \E s \in Submissions, status \in {"approved", "rejected"} : ModeratorDecides(s, status)
  \/ \E s \in Submissions : PlayerAppeals(s) \/ PlayerDeletes(s)

Processing(w) ==
  \/ NothingToVerify(w) \/ ReadContext(w) \/ StartRun(w)
  \/ \E decision \in Decisions : Evaluate(w, decision)
  \/ EvaluationFails(w) \/ Apply(w) \/ Finish(w) \/ Report(w)

Queueing ==
  \/ \E j \in Jobs : Enqueue(j) \/ Forget(j) \/ Stall(j)
  \/ \E w \in Workers, j \in Jobs : Fetch(w, j)

Next ==
  \/ People
  \/ Queueing
  \/ \E w \in Workers : Processing(w) \/ Throw(w) \/ Crash(w)
  \/ \E j \in Jobs : LeaseExpires(j)

Spec == Init /\ [][Next]_vars

\* Workers take jobs and finish what they do, the queue notices a job that
\* nobody owns, leases run out.  Nothing is assumed of people, crashes, queries
\* that fail, or of the sweep.
Fairness ==
  /\ \A j \in Jobs :
       /\ SF_vars(\E w \in Workers : Fetch(w, j))
       /\ WF_vars(queue[j].owner = None /\ Stall(j))
       /\ WF_vars(LeaseExpires(j))
  /\ \A w \in Workers : WF_vars(Processing(w))

FairSpec == Spec /\ Fairness

\* The pipeline as its lease is meant to be chosen: longer than any evaluation,
\* so that it runs out only on a worker that died or has finished.
TimelyNext ==
  \/ People
  \/ Queueing
  \/ \E w \in Workers : Processing(w) \/ Throw(w) \/ Crash(w)
  \/ \E j \in Jobs : (\A w \in Workers : worker[w].job # j) /\ LeaseExpires(j)

TimelySpec == Init /\ [][TimelyNext]_vars

-----------------------------------------------------------------------------
(* Properties.                                                             *)

TypeOK ==
  /\ queue \in [Jobs -> Job]
  /\ run \in [Jobs -> Run]
  /\ sub \in [Submissions -> Sub]
  /\ worker \in [Workers -> Worker]
  /\ applied \subseteq Jobs

EvaluatesUnderLease(w) == worker[w].at = "evaluating" /\ worker[w].holds

\* start() "returns null when the key is held": two workers never evaluate
\* under one key with leases that both still run, although the queue may hand
\* one job to two of them.
LeaseIsExclusive ==
  \A v, w \in Workers :
    v # w /\ EvaluatesUnderLease(v) /\ EvaluatesUnderLease(w) => worker[v].job # worker[w].job

\* No decision is dropped in silence: a run that says it succeeded with a
\* decision to approve or reject has carried it out.
NoDecisionDropped ==
  \A j \in Jobs \ Advisory :
    run[j].status = "succeeded" /\ run[j].output # "HUMAN_REVIEW" => j \in applied

\* Two runs of one submission never both decide it, unless the player appealed
\* in between: a run that comes second is refused.
DecidedOnce ==
  \A i, j \in applied : i # j /\ Subject[i] = Subject[j] => sub[Subject[i]].appealed

\* Every job ends, whatever crashes, stalls and throws.
EveryJobEnds ==
  \A j \in Jobs : queue[j].state = "waiting" ~> queue[j].state \in {"completed", "failed"}

=============================================================================
