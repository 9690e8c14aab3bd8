-------------------------------- MODULE Outbox --------------------------------
(***************************************************************************)
(* The transactional outbox and its consumer.  A transaction that causes   *)
(* something outside the database inserts a row of outbox_events; the      *)
(* publishers (one per API process) move rows to a BullMQ queue whose job  *)
(* id is the row's id; workers carry the event out and then record its id  *)
(* in processed_messages.                                                  *)
(*                                                                         *)
(* Redis and PostgreSQL are written one after the other, and a process may *)
(* die, or a call may fail or seem to fail, between any two writes.        *)
(***************************************************************************)
EXTENDS JobQueue, FiniteSets

CONSTANTS
  Events,
  Publishers

ASSUME OutboxAssumption == None \notin Events /\ IsFiniteSet(Workers)

VARIABLES
  outbox,     \* outbox_events
  publisher,  \* where each publisher is in drainBatch()
  job,        \* the jobs in Redis
  worker,     \* where each worker is in process()
  recorded,   \* processed_messages
  handled,    \* how often each event was carried out
  lost        \* how often a worker lost the job of each event not yet recorded

outboxVars == <<outbox, publisher, job, worker, recorded, handled, lost>>

-----------------------------------------------------------------------------
\* due: available_at has passed; held: it lies ahead.
RowState == {"absent", "due", "held", "published"}

Publisher == [at: {"idle", "claimed", "added", "failing"}, batch: SUBSET Events]

Worker == [at: {"idle", "fetched", "handling", "handled", "returning", "throwing"},
           event: Events \cup {None}]

IdlePublisher == [at |-> "idle", batch |-> {}]
IdleWorker == [at |-> "idle", event |-> None]

OutboxInit ==
  /\ outbox = [e \in Events |-> "absent"]
  /\ publisher = [p \in Publishers |-> IdlePublisher]
  /\ job = [e \in Events |-> NoJob]
  /\ worker = [w \in Workers |-> IdleWorker]
  /\ recorded = {}
  /\ handled = [e \in Events |-> 0]
  /\ lost = [e \in Events |-> 0]

\* INSERT INTO outbox_events, by the transaction that caused the event.
Emit(e) ==
  /\ outbox[e] = "absent"
  /\ outbox' = [outbox EXCEPT ![e] = "due"]
  /\ UNCHANGED <<publisher, job, worker, recorded, handled, lost>>

-----------------------------------------------------------------------------
(* The publisher.                                                          *)

Proceeds(p, at) == publisher' = [publisher EXCEPT ![p].at = at]
Drained(p) == publisher' = [publisher EXCEPT ![p] = IdlePublisher]

\* The rows of the batch that fit a state now have another.
Rows(batch, states, new) ==
  [e \in Events |-> IF e \in batch /\ outbox[e] \in states THEN new ELSE outbox[e]]

\* Variant: claiming takes the row out of the table for good.
ClaimForGood(p) ==
  /\ publisher[p].at = "idle"
  /\ LET due == {e \in Events : outbox[e] = "due"} IN
     /\ due # {}
     /\ outbox' = Rows(due, {"due"}, "published")
     /\ publisher' = [publisher EXCEPT ![p] = [at |-> "claimed", batch |-> due]]
  /\ UNCHANGED <<job, worker, recorded, handled, lost>>

\* claimBatch(): the due rows, for 30 seconds.  (The size of a batch is not
\* reached.)
Claim(p) ==
  /\ publisher[p].at = "idle"
  /\ LET due == {e \in Events : outbox[e] = "due"} IN
     /\ due # {}
     /\ outbox' = Rows(due, {"due"}, "held")
     /\ publisher' = [publisher EXCEPT ![p] = [at |-> "claimed", batch |-> due]]
  /\ UNCHANGED <<job, worker, recorded, handled, lost>>

AddedBatch(batch) == [e \in Events |-> IF e \in batch THEN Added(job[e]) ELSE job[e]]

\* addBulk(): one atomic write.
Add(p) ==
  /\ publisher[p].at = "claimed"
  /\ job' = AddedBatch(publisher[p].batch)
  /\ Proceeds(p, "added")
  /\ UNCHANGED <<outbox, worker, recorded, handled, lost>>

\* Redis fails, or only its answer is lost.
AddFails(p) ==
  /\ publisher[p].at = "claimed"
  /\ job' \in {job, AddedBatch(publisher[p].batch)}
  /\ Proceeds(p, "failing")
  /\ UNCHANGED <<outbox, worker, recorded, handled, lost>>

\* Variant: the batch is acknowledged before it is in the queue.
AckEarly(p) ==
  /\ publisher[p].at \in {"claimed", "added"}
  /\ outbox' = Rows(publisher[p].batch, RowState, "published")
  /\ Drained(p)
  /\ UNCHANGED <<job, worker, recorded, handled, lost>>

\* processed_at = now().
Ack(p) ==
  /\ publisher[p].at = "added"
  /\ outbox' = Rows(publisher[p].batch, RowState, "published")
  /\ Drained(p)
  /\ UNCHANGED <<job, worker, recorded, handled, lost>>

AckFails(p) ==
  /\ publisher[p].at = "added"
  /\ outbox' \in {outbox, Rows(publisher[p].batch, RowState, "published")}
  /\ Proceeds(p, "failing")
  /\ UNCHANGED <<job, worker, recorded, handled, lost>>

\* The catch of publish(): back off, unless the row is acknowledged.
Reschedule(p) ==
  /\ publisher[p].at = "failing"
  /\ outbox' = Rows(publisher[p].batch, {"due", "held"}, "held")
  /\ Drained(p)
  /\ UNCHANGED <<job, worker, recorded, handled, lost>>

\* The process dies, or the catch fails as well.
PublisherDies(p) ==
  /\ publisher[p].at # "idle"
  /\ Drained(p)
  /\ UNCHANGED <<outbox, job, worker, recorded, handled, lost>>

\* available_at passes.
ComesDue(e) ==
  /\ outbox[e] = "held"
  /\ outbox' = [outbox EXCEPT ![e] = "due"]
  /\ UNCHANGED <<publisher, job, worker, recorded, handled, lost>>

-----------------------------------------------------------------------------
(* The queue.                                                              *)

Fetch(w, e) ==
  /\ worker[w].at = "idle"
  /\ job[e].state = "waiting"
  /\ job' = [job EXCEPT ![e] = Taken(@, w)]
  /\ worker' = [worker EXCEPT ![w] = [at |-> "fetched", event |-> e]]
  /\ UNCHANGED <<outbox, publisher, recorded, handled, lost>>

Lose(e) == lost' = IF e \in recorded THEN lost ELSE [lost EXCEPT ![e] = @ + 1]

\* The lock was not renewed: the owner is gone, or cut off and still working.
Stall(e) ==
  /\ job[e].state = "active"
  /\ job' = [job EXCEPT ![e] = Stalled(@)]
  /\ Lose(e)
  /\ UNCHANGED <<outbox, publisher, worker, recorded, handled>>

\* removeOnComplete, by age or by number.  (Failed jobs are kept for a week.)
Forget(e) ==
  /\ job[e].state = "completed"
  /\ job' = [job EXCEPT ![e] = NoJob]
  /\ UNCHANGED <<outbox, publisher, worker, recorded, handled, lost>>

\* process() returned or threw.  The queue does not listen to a worker that
\* no longer owns the job.
Report(w) ==
  /\ worker[w].at \in {"returning", "throwing"}
  /\ LET e == worker[w].event IN
     \/ job[e].owner # w /\ UNCHANGED <<job, lost>>
     \/ /\ job[e].owner = w /\ worker[w].at = "returning"
        /\ job' = [job EXCEPT ![e] = Done(@)]
        /\ UNCHANGED lost
     \/ /\ job[e].owner = w /\ worker[w].at = "throwing"
        /\ job' = [job EXCEPT ![e] = Retried(@)]
        /\ Lose(e)
  /\ worker' = [worker EXCEPT ![w] = IdleWorker]
  /\ UNCHANGED <<outbox, publisher, recorded, handled>>

-----------------------------------------------------------------------------
(* The consumer: process().                                                *)

Goes(w, at) == worker' = [worker EXCEPT ![w].at = at]

\* Variant: an event that was processed is processed again.
CheckNothing(w) ==
  /\ worker[w].at = "fetched"
  /\ Goes(w, "handling")
  /\ UNCHANGED <<outbox, publisher, job, recorded, handled, lost>>

\* wasProcessed().
Check(w) ==
  /\ worker[w].at = "fetched"
  /\ Goes(w, IF worker[w].event \in recorded THEN "returning" ELSE "handling")
  /\ UNCHANGED <<outbox, publisher, job, recorded, handled, lost>>

\* Realtime, Telegram and the handler of the event's type.
Handle(w) ==
  /\ worker[w].at = "handling"
  /\ handled' = [handled EXCEPT ![worker[w].event] = @ + 1]
  /\ Goes(w, "handled")
  /\ UNCHANGED <<outbox, publisher, job, recorded, lost>>

\* markProcessed().
Mark(w) ==
  /\ worker[w].at = "handled"
  /\ recorded' = recorded \cup {worker[w].event}
  /\ Goes(w, "returning")
  /\ UNCHANGED <<outbox, publisher, job, handled, lost>>

\* A query, Redis, Telegram or a provider fails, and process() with it.
Throw(w) ==
  /\ worker[w].at \in {"fetched", "handling", "handled"}
  /\ Goes(w, "throwing")
  /\ UNCHANGED <<outbox, publisher, job, recorded, handled, lost>>

WorkerDies(w) ==
  /\ worker[w].at # "idle"
  /\ job' = [job EXCEPT ![worker[w].event] = Orphaned(@, w)]
  /\ worker' = [worker EXCEPT ![w] = IdleWorker]
  /\ UNCHANGED <<outbox, publisher, recorded, handled, lost>>

-----------------------------------------------------------------------------
Publishing(p) ==
  \/ Claim(p) \/ Add(p) \/ AddFails(p) \/ Ack(p) \/ AckFails(p) \/ Reschedule(p)
  \/ PublisherDies(p)

Processing(w) == Check(w) \/ Handle(w) \/ Mark(w) \/ Report(w)

Queueing == \E e \in Events : ComesDue(e) \/ Stall(e) \/ Forget(e)

OutboxNext ==
  \/ \E e \in Events : Emit(e)
  \/ \E p \in Publishers : Publishing(p)
  \/ Queueing
  \/ \E w \in Workers, e \in Events : Fetch(w, e)
  \/ \E w \in Workers : Processing(w) \/ Throw(w) \/ WorkerDies(w)

OutboxSpec == OutboxInit /\ [][OutboxNext]_outboxVars

\* Publishers poll and redo what failed, workers take jobs and finish what they
\* do, the queue notices a job that nobody owns, and Redis does not refuse one
\* event for ever.  Nothing is assumed of the other failures.
OutboxFairness ==
  /\ \A e \in Events :
       /\ WF_outboxVars(ComesDue(e))
       /\ SF_outboxVars(\E p \in Publishers : e \in publisher[p].batch /\ Add(p))
       /\ SF_outboxVars(\E w \in Workers : Fetch(w, e))
       /\ WF_outboxVars(job[e].owner = None /\ Stall(e))
  /\ \A p \in Publishers : WF_outboxVars(Publishing(p))
  /\ \A w \in Workers : WF_outboxVars(Processing(w))

FairOutboxSpec == OutboxSpec /\ OutboxFairness

-----------------------------------------------------------------------------
(* Properties.                                                             *)

OutboxTypeOK ==
  /\ outbox \in [Events -> RowState]
  /\ publisher \in [Publishers -> Publisher]
  /\ job \in [Events -> Job]
  /\ worker \in [Workers -> Worker]
  /\ recorded \subseteq Events
  /\ handled \in [Events -> Nat]
  /\ lost \in [Events -> Nat]

\* No event falls between the two stores: a row that is acknowledged has a job,
\* or was processed.
AckedMeansQueued ==
  \A e \in Events : outbox[e] = "published" => job[e].state # "absent" \/ e \in recorded

\* However often an event is published, it is carried out again only because a
\* worker lost its job before the event was recorded.
RepeatsArePaid == \A e \in Events : handled[e] <= lost[e] + 1

\* Every committed event is processed, or its job has failed for good and is
\* kept, whatever dies on the way.
EveryEventIsDelivered ==
  \A e \in Events : outbox[e] # "absent" ~> e \in recorded \/ job[e].state = "failed"

\* To its consumers the outbox is a Delivery: a worker has an event in hand
\* from the check of processed_messages on.
Emitted == {e \in Events : outbox[e] # "absent"}
Hand == [w \in Workers |->
           IF worker[w].at \in {"handling", "handled"} THEN worker[w].event ELSE None]

D == INSTANCE Delivery WITH emitted <- Emitted, hand <- Hand

ImplementsDelivery == D!DeliverySpec

=============================================================================
