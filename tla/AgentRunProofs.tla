---------------------------- MODULE AgentRunProofs ----------------------------
(***************************************************************************)
(* Theorems about AgentRun, for any submissions, jobs, workers, attempts   *)
(* and stalls.                                                             *)
(*                                                                         *)
(* A run that succeeded with a decision was finished by a worker that had  *)
(* applied it (WorkersFit).  A submission that a run decided is not        *)
(* pending, or was appealed (AppliedFits), so a second run is refused.     *)
(* That leases are exclusive needs them to outlive evaluations; then the   *)
(* worker that may still fail a run is the only one (LiveExclusive).       *)
(***************************************************************************)
EXTENDS AgentRun, TLAPS

-----------------------------------------------------------------------------
(* The jobs of JobQueue: what each operation returns is a job.             *)

\* A job that was never added, or was forgotten, is a job with every attempt left.
LEMMA NoJobType == NoJob \in Job /\ NoJob.owner = None /\ NoJob.attempts < Attempts
  BY JobQueueAssumption DEF NoJob, Job

\* Adding, taking, finishing or orphaning a job touches neither count.
LEMMA MovedType ==
  ASSUME NEW r \in Job, NEW w \in Workers
  PROVE  /\ Added(r) \in Job /\ Taken(r, w) \in Job /\ Done(r) \in Job
         /\ Orphaned(r, w) \in Job
  <1>1. Added(r) \in Job /\ Taken(r, w) \in Job
    BY DEF Added, Taken, Job
  <1>2. Done(r) \in Job /\ Orphaned(r, w) \in Job
    BY DEF Done, Orphaned, Job
  <1> QED
    BY <1>1, <1>2

\* An attempt that threw leaves a job within its number of attempts, as long
\* as it had attempts left.
LEMMA RetriedType ==
  ASSUME NEW r \in Job, r.attempts < Attempts
  PROVE  /\ Retried(r) \in Job /\ Retried(r).owner = None
         /\ Retried(r).state \in {"waiting", "failed"}
         /\ Retried(r).state = "waiting" => Retried(r).attempts < Attempts
  <1>1. r.attempts \in Nat /\ r.attempts + 1 \in 0..Attempts
    BY JobQueueAssumption DEF Job
  <1> QED
    BY <1>1 DEF Retried, Job

\* A job may stall as often as the queue allows, and fails the next time.
LEMMA StalledType ==
  ASSUME NEW r \in Job
  PROVE  /\ Stalled(r) \in Job /\ Stalled(r).owner = None
         /\ Stalled(r).state \in {"waiting", "failed"}
         /\ Stalled(r).attempts = r.attempts
  <1>1. r.stalls < Stalls => r.stalls + 1 \in 0..Stalls
    BY JobQueueAssumption DEF Job
  <1> QED
    BY <1>1 DEF Stalled, Job

-----------------------------------------------------------------------------

\* A busy worker has a job, and one that says it applied a decision has.
WorkersFit ==
  \A w \in Workers :
    /\ worker[w].at # "idle" => worker[w].job \in Jobs
    /\ worker[w].at = "applied" => worker[w].job \in applied

\* A job that is not over has attempts left, and only an active one is owned.
JobsFit ==
  \A j \in Jobs :
    /\ queue[j].state \notin {"completed", "failed"} => queue[j].attempts < Attempts
    /\ queue[j].owner # None => queue[j].state = "active"

AppliedFits ==
  \A j \in applied : sub[Subject[j]].status # "pending" \/ sub[Subject[j]].appealed

IInv ==
  /\ TypeOK
  /\ JobsFit
  /\ WorkersFit
  /\ NoDecisionDropped
  /\ AppliedFits
  /\ DecidedOnce

-----------------------------------------------------------------------------
(* The types of the records the actions build.                             *)

LEMMA IdleWorkerType == IdleWorker \in Worker /\ IdleWorker.at = "idle"
  BY DEF IdleWorker, Worker, Decisions

LEMMA RunTypes ==
  ASSUME NEW r \in Run, NEW decision \in Decisions
  PROVE  Started \in Run /\ Succeeded(r, decision) \in Run /\ FailedRun(r) \in Run
  BY DEF Started, Succeeded, FailedRun, Run

LEMMA InitInv == Init => IInv
  <1> SUFFICES ASSUME Init PROVE IInv
    OBVIOUS
  <1>1. TypeOK
    BY NoJobType, IdleWorkerType DEF Init, TypeOK, Run, Sub
  <1>2. JobsFit /\ WorkersFit
    BY NoJobType, JobQueueAssumption, IdleWorkerType DEF Init, JobsFit, WorkersFit
  <1> QED
    BY <1>1, <1>2 DEF Init, IInv, NoDecisionDropped, AppliedFits, DecidedOnce

-----------------------------------------------------------------------------
(* What a step has to leave alone.                                         *)

\* A step that decides nothing and finishes no run keeps what is said of
\* decisions.
LEMMA FrameInv ==
  ASSUME IInv, TypeOK', JobsFit', WorkersFit', sub' = sub, applied' = applied,
         \A j \in Jobs : run'[j].status = "succeeded" => run'[j] = run[j]
  PROVE  IInv'
  <1>1. NoDecisionDropped'
    BY DEF IInv, NoDecisionDropped
  <1>2. AppliedFits' /\ DecidedOnce'
    BY DEF IInv, AppliedFits, DecidedOnce
  <1> QED
    BY <1>1, <1>2 DEF IInv

\* One worker moves, to anywhere but "applied".
LEMMA WorkerMoves ==
  ASSUME IInv, NEW w \in Workers, NEW r \in Worker, worker' = [worker EXCEPT ![w] = r],
         r.at # "idle" => r.job \in Jobs, r.at # "applied", applied \subseteq applied'
  PROVE  worker' \in [Workers -> Worker] /\ WorkersFit'
  <1>1. \A v \in Workers : worker'[v] = IF v = w THEN r ELSE worker[v]
    BY DEF IInv, TypeOK
  <1> QED
    BY <1>1 DEF IInv, TypeOK, WorkersFit

\* One job of the queue changes.
LEMMA JobMoves ==
  ASSUME IInv, NEW j \in Jobs, NEW r \in Job, queue' = [queue EXCEPT ![j] = r],
         r.state \notin {"completed", "failed"} => r.attempts < Attempts,
         r.owner # None => r.state = "active"
  PROVE  queue' \in [Jobs -> Job] /\ JobsFit'
  <1>1. \A i \in Jobs : queue'[i] = IF i = j THEN r ELSE queue[i]
    BY DEF IInv, TypeOK
  <1> QED
    BY <1>1 DEF IInv, TypeOK, JobsFit

-----------------------------------------------------------------------------
(* The queue.                                                              *)

LEMMA QueueInv ==
  ASSUME IInv, NEW j \in Jobs, Enqueue(j) \/ Forget(j) \/ Stall(j)
  PROVE  IInv'
  <1>1. UNCHANGED <<run, sub, worker, applied>>
    BY DEF Enqueue, Forget, Stall
  <1>2. queue[j] \in Job
    BY DEF IInv, TypeOK
  <1>3. queue' \in [Jobs -> Job] /\ JobsFit'
    <2>1. CASE Enqueue(j)
      <3> DEFINE r == [queue[j] EXCEPT !.state = "waiting"]
      <3>1. queue' = [queue EXCEPT ![j] = r] /\ queue[j].state = "absent"
        BY <2>1 DEF Enqueue
      <3>2. r \in Job /\ r.attempts < Attempts /\ r.owner = None
        BY <1>2, <3>1 DEF IInv, JobsFit, Job
      <3> QED
        BY <3>1, <3>2, JobMoves
    <2>2. CASE Forget(j)
      BY <2>2, NoJobType, JobMoves DEF Forget
    <2>3. CASE Stall(j)
      <3>1. queue[j].state = "active" /\ queue[j].attempts < Attempts
        BY <2>3 DEF Stall, IInv, JobsFit
      <3>2. Stalled(queue[j]) \in Job
        BY <1>2, StalledType
      <3>3. Stalled(queue[j]).attempts = queue[j].attempts /\ Stalled(queue[j]).owner = None
        BY <1>2 DEF Stalled, Job
      <3> QED
        BY <2>3, <3>1, <3>2, <3>3, JobMoves DEF Stall
    <2> QED
      BY <2>1, <2>2, <2>3
  <1>4. TypeOK' /\ WorkersFit'
    BY <1>1, <1>3 DEF IInv, TypeOK, WorkersFit
  <1> QED
    BY <1>1, <1>3, <1>4, FrameInv

LEMMA FetchInv ==
  ASSUME IInv, NEW w \in Workers, NEW j \in Jobs, Fetch(w, j)
  PROVE  IInv'
  <1> DEFINE r == Taken(queue[j], w)
             busy == [IdleWorker EXCEPT !.at = "fetched", !.job = j]
  <1>1. /\ queue' = [queue EXCEPT ![j] = r] /\ queue[j].state = "waiting"
        /\ worker' = [worker EXCEPT ![w] = busy]
        /\ run' = run /\ sub' = sub /\ applied' = applied
    BY DEF Fetch
  <1>2. r \in Job /\ r.attempts < Attempts /\ r.state = "active"
    BY <1>1 DEF IInv, TypeOK, JobsFit, Job, Taken
  <1>3. busy \in Worker /\ busy.at = "fetched" /\ busy.job = j
    BY DEF IdleWorker, Worker, Decisions
  <1> HIDE DEF r, busy
  <1>4. queue' \in [Jobs -> Job] /\ JobsFit'
    BY <1>1, <1>2, JobMoves
  <1>5. worker' \in [Workers -> Worker] /\ WorkersFit'
    BY <1>1, <1>3, WorkerMoves
  <1>6. TypeOK'
    BY <1>1, <1>4, <1>5 DEF IInv, TypeOK
  <1> QED
    BY <1>1, <1>4, <1>5, <1>6, FrameInv

\* A worker becomes idle, because it reported or because it died.
LEMMA LeaveInv ==
  ASSUME IInv, NEW w \in Workers, Report(w) \/ Crash(w)
  PROVE  IInv'
  <1>a. PICK j \in Jobs : j = worker[w].job
    BY DEF Report, Crash, IInv, WorkersFit
  <1>1. /\ worker' = [worker EXCEPT ![w] = IdleWorker]
        /\ run' = run /\ sub' = sub /\ applied' = applied
    BY DEF Report, Crash
  <1>2. queue[j] \in Job
    BY DEF IInv, TypeOK
  <1>3. queue' \in [Jobs -> Job] /\ JobsFit'
    <2>1. ASSUME queue' = [queue EXCEPT ![j] = queue[j]]
          PROVE  queue' \in [Jobs -> Job] /\ JobsFit'
      BY <1>2, <2>1, JobMoves DEF IInv, JobsFit
    <2>2. ASSUME queue[j].owner = w, queue' = [queue EXCEPT ![j] = Retried(queue[j])]
          PROVE  queue' \in [Jobs -> Job] /\ JobsFit'
      <3>1. queue[j].state = "active" /\ queue[j].attempts < Attempts
        BY <2>2, JobQueueAssumption DEF IInv, JobsFit
      <3> QED
        BY <1>2, <2>2, <3>1, RetriedType, JobMoves
    <2>3. ASSUME queue' = [queue EXCEPT ![j] = Done(queue[j])]
          PROVE  queue' \in [Jobs -> Job] /\ JobsFit'
      <3>1. Done(queue[j]) \in Job /\ Done(queue[j]).state = "completed" /\ Done(queue[j]).owner = None
        BY <1>2 DEF Done, Job
      <3> QED
        BY <2>3, <3>1, JobMoves
    <2>4. ASSUME queue' = [queue EXCEPT ![j] = [queue[j] EXCEPT !.owner = None]]
          PROVE  queue' \in [Jobs -> Job] /\ JobsFit'
      <3> DEFINE r == [queue[j] EXCEPT !.owner = None]
      <3>1. r \in Job /\ r.state = queue[j].state /\ r.attempts = queue[j].attempts /\ r.owner = None
        BY <1>2 DEF Job
      <3> QED
        BY <2>4, <3>1, JobMoves DEF IInv, JobsFit
    <2>5. CASE Report(w)
      <3>1. CASE queue[j].owner # w
        BY <1>a, <2>1, <2>5, <3>1 DEF Report
      <3>2. CASE queue[j].owner = w /\ worker[w].at = "throwing"
        BY <1>a, <2>2, <2>5, <3>2 DEF Report
      <3>3. CASE queue[j].owner = w /\ worker[w].at # "throwing"
        BY <1>a, <2>3, <2>5, <3>3 DEF Report
      <3> QED
        BY <3>1, <3>2, <3>3
    <2>6. CASE Crash(w)
      <3>1. queue' = [queue EXCEPT ![j] =
                 [queue[j] EXCEPT !.owner = IF queue[j].owner = w THEN None ELSE queue[j].owner]]
        BY <1>a, <2>6 DEF Crash, Orphaned
      <3>2. CASE queue[j].owner = w
        BY <2>4, <3>1, <3>2
      <3>3. CASE queue[j].owner # w
        <4>1. [queue[j] EXCEPT !.owner = queue[j].owner] = queue[j]
          BY <1>2 DEF Job
        <4> QED
          BY <2>1, <3>1, <3>3, <4>1
      <3> QED
        BY <3>2, <3>3
    <2> QED
      BY <2>5, <2>6
  <1>4. worker' \in [Workers -> Worker] /\ WorkersFit'
    BY <1>1, IdleWorkerType, WorkerMoves
  <1>5. TypeOK'
    BY <1>1, <1>3, <1>4 DEF IInv, TypeOK
  <1> QED
    BY <1>1, <1>3, <1>4, <1>5, FrameInv

-----------------------------------------------------------------------------
(* process() and verify().                                                 *)

\* A step of a worker that touches nothing but itself.
LEMMA MoveInv ==
  ASSUME IInv, NEW w \in Workers, NEW r \in Worker, worker' = [worker EXCEPT ![w] = r],
         r.at # "applied", r.at # "idle" => r.job \in Jobs,
         queue' = queue, sub' = sub, applied' = applied, run' \in [Jobs -> Run],
         \A j \in Jobs : run'[j].status = "succeeded" => run'[j] = run[j]
  PROVE  IInv'
  <1>1. worker' \in [Workers -> Worker] /\ WorkersFit'
    BY WorkerMoves
  <1>2. TypeOK' /\ JobsFit'
    BY <1>1 DEF IInv, TypeOK, JobsFit
  <1> QED
    BY <1>1, <1>2, FrameInv

\* Reading, evaluating and failing queries.
LEMMA ThinkInv ==
  ASSUME IInv, NEW w \in Workers, NEW decision \in Decisions,
         NothingToVerify(w) \/ ReadContext(w) \/ Evaluate(w, decision) \/ Throw(w)
  PROVE  IInv'
  <1>1. /\ worker[w].at # "idle" /\ worker[w].job \in Jobs /\ worker[w] \in Worker
        /\ UNCHANGED <<queue, run, sub, applied>>
    BY DEF NothingToVerify, ReadContext, Evaluate, Throw, IInv, WorkersFit, TypeOK
  <1>2. PICK r : /\ worker' = [worker EXCEPT ![w] = r] /\ r \in Worker
                 /\ r.at # "applied" /\ r.job = worker[w].job
    <2>1. ASSUME NEW at \in {"returning", "throwing", "briefed"}, Goes(w, at)
          PROVE  [worker[w] EXCEPT !.at = at] \in Worker /\
                 worker' = [worker EXCEPT ![w] = [worker[w] EXCEPT !.at = at]]
      BY <1>1, <2>1 DEF Goes, Worker
    <2>2. CASE Evaluate(w, decision)
      <3> DEFINE r == [worker[w] EXCEPT !.at = "decided", !.decision = decision]
      <3>1. worker' = [worker EXCEPT ![w] = r]
        BY <2>2, <1>1 DEF Evaluate, IInv, TypeOK
      <3>2. r \in Worker /\ r.at = "decided" /\ r.job = worker[w].job
        BY <1>1 DEF Worker
      <3> QED
        BY <3>1, <3>2
    <2>3. CASE NothingToVerify(w) \/ ReadContext(w) \/ Throw(w)
      <3>1. PICK at \in {"returning", "throwing", "briefed"} : Goes(w, at)
        BY <2>3 DEF NothingToVerify, ReadContext, Throw
      <3>2. [worker[w] EXCEPT !.at = at].at = at /\ [worker[w] EXCEPT !.at = at].job = worker[w].job
        BY <1>1 DEF Worker
      <3> QED
        BY <2>1, <3>1, <3>2
    <2> QED
      BY <2>2, <2>3
  <1>3. run' \in [Jobs -> Run]
    BY <1>1 DEF IInv, TypeOK
  <1> QED
    BY <1>1, <1>2, <1>3, MoveInv

LEMMA StartRunInv ==
  ASSUME IInv, NEW w \in Workers, StartRun(w)
  PROVE  IInv'
  <1>a. PICK j \in Jobs : j = worker[w].job
    BY DEF StartRun, IInv, WorkersFit
  <1>1. worker[w] \in Worker /\ UNCHANGED <<queue, sub, applied>>
    BY DEF StartRun, IInv, TypeOK
  <1>2. CASE Startable(run[j])
    <2> DEFINE r == [worker[w] EXCEPT !.at = "evaluating", !.holds = TRUE]
    <2>1. /\ run' = [run EXCEPT ![j] = Started]
          /\ worker' = [worker EXCEPT ![w].at = "evaluating", ![w].holds = TRUE]
      BY <1>a, <1>2 DEF StartRun
    <2>2. worker' = [worker EXCEPT ![w] = r]
      BY <2>1 DEF IInv, TypeOK
    <2>3. r \in Worker /\ r.at = "evaluating" /\ r.job = j
      BY <1>a, <1>1 DEF Worker
    <2>4. Started \in Run /\ Started.status = "running"
      BY DEF Started, Run
    <2>5. run' \in [Jobs -> Run]
      BY <2>1, <2>4 DEF IInv, TypeOK
    <2>6. \A i \in Jobs : run'[i].status = "succeeded" => run'[i] = run[i]
      BY <2>1, <2>4 DEF IInv, TypeOK
    <2> QED
      BY <1>1, <2>2, <2>3, <2>5, <2>6, MoveInv
  <1>3. CASE ~Startable(run[j])
    <2> DEFINE r == [worker[w] EXCEPT !.at = "returning"]
    <2>1. worker' = [worker EXCEPT ![w] = r] /\ run' = run
      BY <1>a, <1>3 DEF StartRun, Goes
    <2>2. r \in Worker /\ r.at = "returning" /\ r.job = j
      BY <1>a, <1>1 DEF Worker
    <2>3. run' \in [Jobs -> Run]
      BY <2>1 DEF IInv, TypeOK
    <2> QED
      BY <1>1, <2>1, <2>2, <2>3, MoveInv
  <1> QED
    BY <1>2, <1>3

\* The run of a worker is marked failed: the evaluation threw, or the decision
\* was refused.
LEMMA FailedInv ==
  ASSUME IInv, NEW w \in Workers, NEW r \in Worker, r.at # "applied", r.job = worker[w].job,
         worker[w].at # "idle", worker' = [worker EXCEPT ![w] = r],
         run' = [run EXCEPT ![worker[w].job] = FailedRun(run[worker[w].job])],
         queue' = queue, sub' = sub, applied' = applied
  PROVE  IInv'
  <1>a. PICK j \in Jobs : j = worker[w].job
    BY DEF IInv, WorkersFit
  <1>1. FailedRun(run[j]) \in Run /\ FailedRun(run[j]).status = "failed"
    BY DEF FailedRun, IInv, TypeOK, Run
  <1>2. run' \in [Jobs -> Run]
    BY <1>a, <1>1 DEF IInv, TypeOK
  <1>3. \A i \in Jobs : run'[i].status = "succeeded" => run'[i] = run[i]
    BY <1>a, <1>1 DEF IInv, TypeOK
  <1> QED
    BY <1>a, <1>2, <1>3, MoveInv

LEMMA EvaluationFailsInv ==
  ASSUME IInv, NEW w \in Workers, EvaluationFails(w)
  PROVE  IInv'
  <1> DEFINE r == [worker[w] EXCEPT !.at = "decided", !.decision = "HUMAN_REVIEW"]
  <1>1. worker[w] \in Worker /\ worker[w].at = "evaluating"
    BY DEF EvaluationFails, IInv, TypeOK
  <1>2. worker' = [worker EXCEPT ![w] = r]
    BY DEF EvaluationFails, IInv, TypeOK
  <1>3. r \in Worker /\ r.at = "decided" /\ r.job = worker[w].job
    BY <1>1 DEF Worker, Decisions
  <1>4. /\ run' = [run EXCEPT ![worker[w].job] = FailedRun(run[worker[w].job])]
        /\ queue' = queue /\ sub' = sub /\ applied' = applied
    BY DEF EvaluationFails
  <1> QED
    BY <1>1, <1>2, <1>3, <1>4, FailedInv

LEMMA ApplyInv ==
  ASSUME IInv, NEW w \in Workers, Apply(w)
  PROVE  IInv'
  <1>a. PICK j \in Jobs : j = worker[w].job
    BY DEF Apply, IInv, WorkersFit
  <1>b. PICK s \in Submissions : s = Subject[j]
    BY AgentAssumption
  <1>1. worker[w] \in Worker /\ worker[w].at = "decided" /\ queue' = queue
    BY DEF Apply, IInv, TypeOK
  <1>2. CASE Reviewable(s)
    <2> DEFINE r == [worker[w] EXCEPT !.at = "applied"]
    <2>1. /\ sub' = [sub EXCEPT ![s].by = "agent", ![s].status =
                       IF worker[w].decision = "APPROVED" THEN "approved" ELSE "rejected"]
          /\ applied' = applied \cup {j} /\ worker' = [worker EXCEPT ![w] = r] /\ run' = run
      BY <1>a, <1>b, <1>2 DEF Apply, Goes
    <2>2. r \in Worker /\ r.job = j /\ r.at = "applied"
      BY <1>a, <1>1 DEF Worker
    <2>3. /\ sub' \in [Submissions -> Sub] /\ sub'[s].status # "pending"
          /\ sub'[s].appealed = sub[s].appealed
          /\ \A t \in Submissions \ {s} : sub'[t] = sub[t]
      <3> DEFINE result == IF worker[w].decision = "APPROVED" THEN "approved" ELSE "rejected"
                 u == [[sub[s] EXCEPT !.by = "agent"] EXCEPT !.status = result]
      <3>1. sub \in [Submissions -> Sub] /\ sub[s] \in Sub
        BY DEF IInv, TypeOK
      <3>2. result \in {"approved", "rejected"}
        OBVIOUS
      <3>3. sub' = [sub EXCEPT ![s] = u]
        BY <2>1, <3>1
      <3> HIDE DEF result
      <3>4. u \in Sub /\ u.status # "pending" /\ u.appealed = sub[s].appealed
        BY <3>1, <3>2 DEF Sub
      <3> HIDE DEF u
      <3> QED
        BY <3>1, <3>3, <3>4
    <2>4. \A v \in Workers : worker'[v] = IF v = w THEN r ELSE worker[v]
      BY <2>1 DEF IInv, TypeOK
    <2> HIDE DEF r
    <2>5. TypeOK' /\ JobsFit'
      BY <1>1, <2>1, <2>2, <2>3 DEF IInv, TypeOK, JobsFit
    <2>6. WorkersFit'
      BY <2>1, <2>2, <2>4 DEF IInv, WorkersFit
    <2>7. NoDecisionDropped'
      BY <2>1 DEF IInv, NoDecisionDropped
    <2>8. applied \subseteq Jobs /\ \A i \in Jobs : Subject[i] \in Submissions
      BY AgentAssumption, JobQueueAssumption DEF IInv, TypeOK
    <2>9. AppliedFits'
      BY <1>b, <2>1, <2>3, <2>8 DEF IInv, AppliedFits
    <2>10. \A i \in applied : Subject[i] = s => sub[s].appealed
      BY <1>2 DEF IInv, AppliedFits, Reviewable
    <2>11. DecidedOnce'
      BY <1>b, <2>1, <2>3, <2>8, <2>10 DEF IInv, DecidedOnce
    <2> QED
      BY <2>5, <2>6, <2>7, <2>9, <2>11 DEF IInv
  <1>3. CASE ~Reviewable(s)
    <2> DEFINE r == [worker[w] EXCEPT !.at = "throwing"]
    <2>1. /\ run' = [run EXCEPT ![worker[w].job] = FailedRun(run[worker[w].job])]
          /\ worker' = [worker EXCEPT ![w] = r] /\ sub' = sub /\ applied' = applied
      BY <1>a, <1>b, <1>3 DEF Apply, Goes
    <2>2. r \in Worker /\ r.at = "throwing" /\ r.job = worker[w].job
      BY <1>1 DEF Worker
    <2> QED
      BY <1>1, <2>1, <2>2, FailedInv
  <1> QED
    BY <1>2, <1>3

LEMMA FinishInv ==
  ASSUME IInv, NEW w \in Workers, Finish(w)
  PROVE  IInv'
  <1> DEFINE r == [worker[w] EXCEPT !.at = "returning"]
  <1>a. PICK j \in Jobs : j = worker[w].job
    BY DEF Finish, IInv, WorkersFit
  <1>1. /\ run' = [run EXCEPT ![j] = Succeeded(run[j], worker[w].decision)]
        /\ worker' = [worker EXCEPT ![w] = r] /\ worker[w] \in Worker
        /\ queue' = queue /\ sub' = sub /\ applied' = applied
    BY <1>a DEF Finish, Goes, IInv, TypeOK
  <1>2. r \in Worker /\ r.at = "returning" /\ r.job = j
    BY <1>a, <1>1 DEF Worker
  <1>3. worker' \in [Workers -> Worker] /\ WorkersFit'
    BY <1>1, <1>2, WorkerMoves
  <1>4. /\ Succeeded(run[j], worker[w].decision) \in Run
        /\ Succeeded(run[j], worker[w].decision).output = worker[w].decision
    <2>1. run[j] \in Run /\ worker[w].decision \in Decisions
      BY <1>1 DEF IInv, TypeOK, Worker
    <2> QED
      BY <2>1 DEF Succeeded, Run
  <1>5. TypeOK' /\ JobsFit'
    BY <1>1, <1>3, <1>4 DEF IInv, TypeOK, JobsFit
  <1>6. j \in applied \/ j \in Advisory \/ worker[w].decision = "HUMAN_REVIEW"
    BY <1>a DEF Finish, MayApply, IInv, WorkersFit
  <1>7. \A i \in Jobs : run'[i] = IF i = j THEN Succeeded(run[j], worker[w].decision) ELSE run[i]
    BY <1>1 DEF IInv, TypeOK
  <1>8. NoDecisionDropped'
    BY <1>1, <1>4, <1>6, <1>7 DEF IInv, NoDecisionDropped
  <1>9. AppliedFits' /\ DecidedOnce'
    BY <1>1 DEF IInv, AppliedFits, DecidedOnce
  <1> QED
    BY <1>3, <1>5, <1>8, <1>9 DEF IInv

LEMMA LeaseExpiresInv ==
  ASSUME IInv, NEW j \in Jobs, LeaseExpires(j)
  PROVE  IInv'
  <1>1. /\ run' = [run EXCEPT ![j].leased = FALSE]
        /\ worker' = [w \in Workers |->
              IF worker[w].job = j THEN [worker[w] EXCEPT !.holds = FALSE] ELSE worker[w]]
        /\ queue' = queue /\ sub' = sub /\ applied' = applied
    BY DEF LeaseExpires
  <1>2. \A w \in Workers : /\ worker'[w] \in Worker /\ worker'[w].at = worker[w].at
                           /\ worker'[w].job = worker[w].job
    BY <1>1 DEF IInv, TypeOK, Worker
  <1>3. worker' \in [Workers -> Worker]
    BY <1>1, <1>2
  <1>4. WorkersFit'
    BY <1>1, <1>2 DEF IInv, WorkersFit
  <1>5. /\ run' \in [Jobs -> Run]
        /\ \A i \in Jobs : run'[i].status = run[i].status /\ run'[i].output = run[i].output
    BY <1>1 DEF IInv, TypeOK, Run
  <1>6. TypeOK' /\ JobsFit'
    BY <1>1, <1>3, <1>5 DEF IInv, TypeOK, JobsFit
  <1>7. NoDecisionDropped'
    BY <1>1, <1>5 DEF IInv, NoDecisionDropped
  <1>8. AppliedFits' /\ DecidedOnce'
    BY <1>1 DEF IInv, AppliedFits, DecidedOnce
  <1> QED
    BY <1>4, <1>6, <1>7, <1>8 DEF IInv

-----------------------------------------------------------------------------
(* The people.                                                             *)

LEMMA PeopleInv ==
  ASSUME IInv, People
  PROVE  IInv'
  <1> DEFINE Kept ==
        /\ sub' \in [Submissions -> Sub]
        /\ \A s \in Submissions : /\ sub[s].appealed => sub'[s].appealed
                                  /\ sub'[s].status # "pending" \/ sub'[s].appealed
                                       \/ sub'[s].status = sub[s].status
  <1>1. Kept
    <2>1. ASSUME NEW s \in Submissions, NEW status \in {"approved", "rejected"},
                 ModeratorDecides(s, status)
          PROVE  Kept
      BY <2>1 DEF ModeratorDecides, IInv, TypeOK, Sub
    <2>2. ASSUME NEW s \in Submissions, PlayerAppeals(s)
          PROVE  Kept
      BY <2>2 DEF PlayerAppeals, IInv, TypeOK, Sub
    <2>3. ASSUME NEW s \in Submissions, PlayerDeletes(s)
          PROVE  Kept
      BY <2>3 DEF PlayerDeletes, IInv, TypeOK, Sub
    <2> QED
      BY <2>1, <2>2, <2>3 DEF People
  <1>2. UNCHANGED <<queue, run, worker, applied>>
    BY DEF People, ModeratorDecides, PlayerAppeals, PlayerDeletes
  <1>3. \A j \in applied : j \in Jobs /\ Subject[j] \in Submissions
    BY AgentAssumption, JobQueueAssumption DEF IInv, TypeOK
  <1>4. TypeOK' /\ JobsFit' /\ WorkersFit' /\ NoDecisionDropped'
    BY <1>1, <1>2 DEF IInv, TypeOK, JobsFit, WorkersFit, NoDecisionDropped
  <1>5. AppliedFits' /\ DecidedOnce'
    BY <1>1, <1>2, <1>3 DEF IInv, AppliedFits, DecidedOnce
  <1> QED
    BY <1>4, <1>5 DEF IInv

LEMMA StepInv == IInv /\ [Next]_vars => IInv'
  <1> SUFFICES ASSUME IInv, [Next]_vars PROVE IInv'
    OBVIOUS
  <1>1. CASE People
    BY <1>1, PeopleInv
  <1>2. CASE Queueing
    BY <1>2, QueueInv, FetchInv DEF Queueing
  <1>3. ASSUME NEW w \in Workers, Processing(w) \/ Throw(w) \/ Crash(w) PROVE IInv'
    <2>1. "HUMAN_REVIEW" \in Decisions
      BY DEF Decisions
    <2>2. ASSUME NEW decision \in Decisions, Evaluate(w, decision) PROVE IInv'
      BY <2>2, ThinkInv
    <2>3. ASSUME NothingToVerify(w) \/ ReadContext(w) \/ Throw(w) PROVE IInv'
      BY <2>1, <2>3, ThinkInv
    <2>4. CASE Processing(w)
      BY <2>2, <2>3, <2>4, StartRunInv, EvaluationFailsInv, ApplyInv, FinishInv, LeaveInv
         DEF Processing
    <2> QED
      BY <1>3, <2>3, <2>4, LeaveInv
  <1>4. ASSUME NEW j \in Jobs, LeaseExpires(j) PROVE IInv'
    BY <1>4, LeaseExpiresInv
  <1>5. CASE UNCHANGED vars
    BY <1>5 DEF vars, IInv, TypeOK, JobsFit, WorkersFit, NoDecisionDropped, AppliedFits, DecidedOnce
  <1> QED
    BY <1>1, <1>2, <1>3, <1>4, <1>5 DEF Next

THEOREM Inductive == Spec => []IInv
  BY InitInv, StepInv, PTL DEF Spec

\* Every variable keeps its type: among others, no job is tried more often
\* than it has attempts, and none stalls more often than it may.
THEOREM TypeCorrect == Spec => []TypeOK
  <1>1. IInv => TypeOK
    BY DEF IInv
  <1> QED
    BY <1>1, Inductive, PTL

\* A run that succeeded with a decision has carried it out, wherever workers
\* died and whatever the queue handed out again.
THEOREM NothingIsDropped == Spec => []NoDecisionDropped
  <1>1. IInv => NoDecisionDropped
    BY DEF IInv
  <1> QED
    BY <1>1, Inductive, PTL

\* Of all the runs of a submission one decides it, unless there is an appeal.
THEOREM OneRunDecides == Spec => []DecidedOnce
  <1>1. IInv => DecidedOnce
    BY DEF IInv
  <1> QED
    BY <1>1, Inductive, PTL

-----------------------------------------------------------------------------
(* Leases that outlive evaluations.                                        *)

\* A worker that may still mark its run failed.
Live(w) ==
  worker[w].at = "evaluating" \/ (worker[w].at = "decided" /\ MayApply(w))

\* While one may, its key is held, and it is the only one.
LiveExclusive ==
  /\ \A w \in Workers : Live(w) => ~Startable(run[worker[w].job])
  /\ \A v, w \in Workers : v # w /\ Live(v) /\ Live(w) => worker[v].job # worker[w].job

TInv == IInv /\ LiveExclusive

\* Workers that move without becoming live, and keys that are not let go of.
LEMMA LiveFewer ==
  ASSUME LiveExclusive,
         \A w \in Workers : Live(w)' => Live(w) /\ worker'[w].job = worker[w].job,
         \A w \in Workers : Live(w)' /\ Startable(run[worker[w].job])'
                              => Startable(run[worker[w].job])
  PROVE  LiveExclusive'
  BY DEF LiveExclusive

\* One worker moves and does not become live; runs stay.
LEMMA LiveMove ==
  ASSUME IInv, LiveExclusive, NEW w \in Workers, NEW r, worker' = [worker EXCEPT ![w] = r],
         r.at \notin {"evaluating", "decided"}, run' = run
  PROVE  LiveExclusive'
  <1>1. \A v \in Workers : worker'[v] = IF v = w THEN r ELSE worker[v]
    BY DEF IInv, TypeOK
  <1>2. \A v \in Workers : Live(v)' => Live(v) /\ worker'[v].job = worker[v].job
    BY <1>1 DEF Live, MayApply
  <1>3. \A v \in Workers : Live(v)' /\ Startable(run[worker[v].job])'
                             => Startable(run[worker[v].job])
    BY <1>2 DEF Startable
  <1> QED
    BY <1>2, <1>3, LiveFewer

\* A live worker stops being live, and may leave any run behind: nobody else
\* has its key.
LEMMA LiveEnds ==
  ASSUME IInv, LiveExclusive, NEW w \in Workers, Live(w), NEW r,
         worker' = [worker EXCEPT ![w] = r],
         r.at # "evaluating", r.at # "decided" \/ r.decision = "HUMAN_REVIEW",
         \A j \in Jobs : j # worker[w].job => run'[j] = run[j]
  PROVE  LiveExclusive'
  <1>1. \A v \in Workers : worker'[v] = IF v = w THEN r ELSE worker[v]
    BY DEF IInv, TypeOK
  <1>2. \A v \in Workers : Live(v)' => v # w /\ Live(v) /\ worker'[v] = worker[v]
    BY <1>1 DEF Live, MayApply
  <1>3. \A v \in Workers : Live(v)' => worker[v].job \in Jobs /\ worker[v].job # worker[w].job
    BY <1>2 DEF LiveExclusive, Live, IInv, WorkersFit
  <1>4. \A v \in Workers : Live(v)' => run'[worker'[v].job] = run[worker[v].job]
    BY <1>2, <1>3
  <1>5. \A v \in Workers : Live(v)' /\ Startable(run[worker[v].job])'
                             => Startable(run[worker[v].job])
    BY <1>4 DEF Startable
  <1> QED
    BY <1>2, <1>5, LiveFewer

LEMMA LiveStart ==
  ASSUME IInv, LiveExclusive, NEW w \in Workers, StartRun(w)
  PROVE  LiveExclusive'
  <1>a. PICK j \in Jobs : j = worker[w].job
    BY DEF StartRun, IInv, WorkersFit
  <1>1. CASE ~Startable(run[j])
    <2>1. worker' = [worker EXCEPT ![w] = [worker[w] EXCEPT !.at = "returning"]] /\ run' = run
      BY <1>a, <1>1 DEF StartRun, Goes
    <2>2. [worker[w] EXCEPT !.at = "returning"].at = "returning"
      BY DEF IInv, TypeOK, Worker
    <2> QED
      BY <2>1, <2>2, LiveMove
  <1>2. CASE Startable(run[j])
    <2>1. \A v \in Workers : Live(v) => worker[v].job # j
      BY <1>2 DEF LiveExclusive
    <2>2. /\ run' = [run EXCEPT ![j] = Started]
          /\ worker' = [worker EXCEPT ![w].at = "evaluating", ![w].holds = TRUE]
      BY <1>a, <1>2 DEF StartRun
    <2>3. \A v \in Workers : /\ worker'[v].job = worker[v].job
                             /\ v # w => worker'[v] = worker[v]
      BY <2>2 DEF IInv, TypeOK, Worker
    <2>4. \A v \in Workers : v # w /\ Live(v)' => Live(v)
      BY <2>3 DEF Live, MayApply
    <2>5. run'[j] = Started /\ \A i \in Jobs \ {j} : run'[i] = run[i]
      BY <2>2 DEF IInv, TypeOK
    <2>6. \A v \in Workers : Live(v) => worker[v].job \in Jobs
      BY DEF Live, IInv, WorkersFit
    <2>7. \A v \in Workers : Live(v)' => ~Startable(run[worker[v].job])'
      <3> SUFFICES ASSUME NEW v \in Workers, Live(v)'
                   PROVE  ~Startable(run'[worker'[v].job])
        OBVIOUS
      <3>1. CASE v = w
        BY <1>a, <2>3, <2>5, <3>1 DEF Startable, Started
      <3>2. CASE v # w
        BY <2>1, <2>3, <2>4, <2>5, <2>6, <3>2 DEF LiveExclusive
      <3> QED
        BY <3>1, <3>2
    <2>8. \A u, v \in Workers : u # v /\ Live(u)' /\ Live(v)' => worker'[u].job # worker'[v].job
      BY <1>a, <2>1, <2>3, <2>4 DEF LiveExclusive
    <2> QED
      BY <2>7, <2>8 DEF LiveExclusive
  <1> QED
    BY <1>1, <1>2

LEMMA LiveProcessing ==
  ASSUME IInv, LiveExclusive, NEW w \in Workers, Processing(w) \/ Throw(w) \/ Crash(w)
  PROVE  LiveExclusive'
  <1>1. worker[w] \in Worker
    BY DEF IInv, TypeOK
  <1>2. ASSUME NEW at \in {"returning", "throwing", "briefed", "applied"}, Goes(w, at), run' = run
        PROVE  LiveExclusive'
    <2>1. [worker[w] EXCEPT !.at = at].at = at
      BY <1>1 DEF Worker
    <2> QED
      BY <1>2, <2>1, LiveMove DEF Goes
  <1>3. CASE NothingToVerify(w) \/ ReadContext(w) \/ Throw(w)
    BY <1>2, <1>3 DEF NothingToVerify, ReadContext, Throw
  <1>4. CASE StartRun(w)
    BY <1>4, LiveStart
  <1>5. ASSUME NEW decision \in Decisions, Evaluate(w, decision) PROVE LiveExclusive'
    <2>1. /\ worker[w].at = "evaluating" /\ run' = run
          /\ worker' = [worker EXCEPT ![w].at = "decided", ![w].decision = decision]
      BY <1>5 DEF Evaluate
    <2>2. \A v \in Workers : worker'[v].job = worker[v].job /\ (v # w => worker'[v] = worker[v])
      BY <2>1 DEF IInv, TypeOK, Worker
    <2>3. \A v \in Workers : Live(v)' => Live(v)
      BY <2>1, <2>2 DEF Live, MayApply
    <2>4. \A v \in Workers : Live(v)' /\ Startable(run[worker[v].job])'
                               => Startable(run[worker[v].job])
      BY <2>1, <2>2 DEF Startable
    <2> QED
      BY <2>2, <2>3, <2>4, LiveFewer
  <1>6. CASE EvaluationFails(w)
    <2> DEFINE r == [worker[w] EXCEPT !.at = "decided", !.decision = "HUMAN_REVIEW"]
    <2>1. worker' = [worker EXCEPT ![w] = r] /\ Live(w)
      BY <1>6 DEF EvaluationFails, Live, IInv, TypeOK
    <2>2. r.at = "decided" /\ r.decision = "HUMAN_REVIEW"
      BY <1>1 DEF Worker
    <2>3. \A j \in Jobs : j # worker[w].job => run'[j] = run[j]
      BY <1>6 DEF EvaluationFails, IInv, TypeOK
    <2> QED
      BY <2>1, <2>2, <2>3, LiveEnds
  <1>7. CASE Apply(w)
    <2>1. Live(w)
      BY <1>7 DEF Apply, Live
    <2>2. CASE Goes(w, "applied") /\ run' = run
      BY <1>2, <2>2
    <2>3. CASE Goes(w, "throwing") /\ run' = [run EXCEPT ![worker[w].job] = FailedRun(@)]
      <3>1. [worker[w] EXCEPT !.at = "throwing"].at = "throwing"
        BY <1>1 DEF Worker
      <3>2. \A j \in Jobs : j # worker[w].job => run'[j] = run[j]
        BY <2>3 DEF IInv, TypeOK
      <3> QED
        BY <2>1, <2>3, <3>1, <3>2, LiveEnds DEF Goes
    <2> QED
      BY <1>7, <2>2, <2>3 DEF Apply
  <1>8. CASE Finish(w)
    <2>1. /\ worker' = [worker EXCEPT ![w] = [worker[w] EXCEPT !.at = "returning"]]
          /\ run' = [run EXCEPT ![worker[w].job] = Succeeded(run[worker[w].job], worker[w].decision)]
      BY <1>8 DEF Finish, Goes
    <2>2. [worker[w] EXCEPT !.at = "returning"].at = "returning"
      BY <1>1 DEF Worker
    <2>3. \A j \in Jobs : run'[j] = run[j] \/ ~Startable(run'[j])
      BY <2>1 DEF IInv, TypeOK, Succeeded, Run, Startable
    <2>4. \A v \in Workers : Live(v)' => Live(v) /\ worker'[v] = worker[v]
      BY <2>1, <2>2 DEF Live, MayApply, IInv, TypeOK
    <2>5. \A v \in Workers : Live(v)' /\ Startable(run[worker[v].job])'
                               => Startable(run[worker[v].job])
      <3> SUFFICES ASSUME NEW v \in Workers, Live(v)', Startable(run'[worker'[v].job])
                   PROVE  Startable(run[worker[v].job])
        OBVIOUS
      <3>1. worker[v].job \in Jobs /\ worker'[v].job = worker[v].job
        BY <2>4 DEF Live, IInv, WorkersFit
      <3> QED
        BY <2>3, <3>1
    <2> QED
      BY <2>4, <2>5, LiveFewer
  <1>9. CASE Report(w) \/ Crash(w)
    BY <1>9, IdleWorkerType, LiveMove DEF Report, Crash
  <1> QED
    BY <1>3, <1>4, <1>5, <1>6, <1>7, <1>8, <1>9 DEF Processing

LEMMA TimelyStep == TInv /\ [TimelyNext]_vars => TInv'
  <1> SUFFICES ASSUME IInv, LiveExclusive, [TimelyNext]_vars PROVE TInv'
    BY DEF TInv
  <1>1. IInv'
    BY StepInv DEF TimelyNext, Next
  <1>2. LiveExclusive'
    <2>1. ASSUME worker' = worker, run' = run PROVE LiveExclusive'
      BY <2>1 DEF LiveExclusive, Live, MayApply, Startable
    <2>2. CASE People \/ UNCHANGED vars
      BY <2>1, <2>2 DEF People, ModeratorDecides, PlayerAppeals, PlayerDeletes, vars
    <2>3. CASE Queueing
      <3>1. ASSUME NEW w \in Workers, NEW j \in Jobs, Fetch(w, j) PROVE LiveExclusive'
        <4>1. [IdleWorker EXCEPT !.at = "fetched", !.job = j].at = "fetched"
          BY DEF IdleWorker
        <4> QED
          BY <3>1, <4>1, LiveMove DEF Fetch
      <3> QED
        BY <2>1, <2>3, <3>1 DEF Queueing, Enqueue, Forget, Stall
    <2>4. ASSUME NEW w \in Workers, Processing(w) \/ Throw(w) \/ Crash(w) PROVE LiveExclusive'
      BY <2>4, LiveProcessing
    <2>5. ASSUME NEW j \in Jobs, \A w \in Workers : worker[w].job # j, LeaseExpires(j)
          PROVE  LiveExclusive'
      <3>1. worker' = worker
        BY <2>5 DEF LeaseExpires, IInv, TypeOK
      <3>2. \A i \in Jobs \ {j} : run'[i] = run[i]
        BY <2>5 DEF LeaseExpires, IInv, TypeOK
      <3>3. \A w \in Workers : Live(w) => worker[w].job \in Jobs \ {j}
        BY <2>5 DEF Live, IInv, WorkersFit
      <3>4. \A w \in Workers : Live(w)' => Live(w)
        BY <3>1 DEF Live, MayApply
      <3>5. \A w \in Workers : Live(w)' /\ Startable(run[worker[w].job])'
                                 => Startable(run[worker[w].job])
        BY <3>1, <3>2, <3>3, <3>4
      <3> QED
        BY <3>1, <3>4, <3>5, LiveFewer
    <2> QED
      BY <2>2, <2>3, <2>4, <2>5 DEF TimelyNext
  <1> QED
    BY <1>1, <1>2 DEF TInv

\* Two workers never evaluate one key at once, however often the queue hands
\* its job out, as long as a lease outlives the evaluation it was taken for.
THEOREM LeasesExclude == TimelySpec => []LeaseIsExclusive
  <1>1. Init => TInv
    <2> SUFFICES ASSUME Init PROVE TInv
      OBVIOUS
    <2>1. \A w \in Workers : worker[w].at = "idle"
      BY DEF Init, IdleWorker
    <2> QED
      BY <2>1, InitInv DEF TInv, LiveExclusive, Live
  <1>2. TInv => LeaseIsExclusive
    BY DEF TInv, LiveExclusive, Live, LeaseIsExclusive, EvaluatesUnderLease
  <1> QED
    BY <1>1, <1>2, TimelyStep, PTL DEF TimelySpec

=============================================================================
