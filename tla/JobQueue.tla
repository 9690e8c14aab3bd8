------------------------------- MODULE JobQueue -------------------------------
(***************************************************************************)
(* What the backend relies on BullMQ for: jobs with a deterministic id, an *)
(* owner while they are active, a number of attempts, and a number of      *)
(* times a job may stall.  Modelled from how the processors use it.        *)
(***************************************************************************)
EXTENDS Naturals

CONSTANTS
  Workers,
  None,      \* no worker, or no job
  Attempts,  \* attempts of a job
  Stalls     \* maxStalledCount

ASSUME JobQueueAssumption ==
  /\ None \notin Workers
  /\ Attempts \in Nat \ {0} /\ Stalls \in Nat

-----------------------------------------------------------------------------
\* owner: the worker that renews the lock of an active job.
Job == [state: {"absent", "waiting", "active", "completed", "failed"},
        attempts: 0..Attempts, stalls: 0..Stalls, owner: Workers \cup {None}]

NoJob == [state |-> "absent", attempts |-> 0, stalls |-> 0, owner |-> None]

\* Variant: the id of a job does not matter.
AddedAnyway(r) == [NoJob EXCEPT !.state = "waiting"]

\* add(): an id the queue still holds is left alone.
Added(r) == IF r.state = "absent" THEN [r EXCEPT !.state = "waiting"] ELSE r

Taken(r, w) == [r EXCEPT !.state = "active", !.owner = w]

\* A job that stalled waits again, or has stalled too often.
Stalled(r) ==
  IF r.stalls < Stalls
  THEN [r EXCEPT !.state = "waiting", !.stalls = @ + 1, !.owner = None]
  ELSE [r EXCEPT !.state = "failed", !.owner = None]

\* Variant: the job has no limit of attempts.
RetriedForever(r) == [r EXCEPT !.owner = None, !.state = "waiting"]

\* A job whose attempt threw: tried again, with backoff, or given up.
Retried(r) ==
  [r EXCEPT !.owner = None, !.attempts = @ + 1,
            !.state = IF r.attempts + 1 < Attempts THEN "waiting" ELSE "failed"]

Done(r) == [r EXCEPT !.state = "completed", !.owner = None]

\* The worker died; nobody renews the lock.
Orphaned(r, w) == [r EXCEPT !.owner = IF @ = w THEN None ELSE @]

=============================================================================
