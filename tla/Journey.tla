------------------------------- MODULE Journey -------------------------------
(***************************************************************************)
(* One player walking one solo chain of quests, and what moves the journey *)
(* on.  An approval commits together with its 'submission.approved' event; *)
(* a consumer of the event (Delivery) opens the next checkpoint or closes  *)
(* the run, and then tells the player.  A sweep closes journeys whose      *)
(* rejection was left unanswered.                                          *)
(*                                                                         *)
(* A try is one user_quests row with its submission; its event has its     *)
(* name.  Progress is not stored: it is derived from the approved tries.   *)
(* Left out: relays, hidden checkpoints, the feed, deleted submissions.    *)
(***************************************************************************)
EXTENDS Delivery, Naturals

CONSTANTS
  StageOf,     \* the checkpoint of each try
  Last,        \* the last checkpoint of the chain
  Appealable,  \* bound: tries whose rejection may be appealed
  MaxRuns,     \* bound: runs of the chain
  MaxFailures  \* bound: failures of workers

Stages == 1..Last
Runs == 1..MaxRuns

ASSUME JourneyAssumption ==
  /\ Last \in Nat \ {0} /\ MaxRuns \in Nat /\ MaxFailures \in Nat
  /\ StageOf \in [Events -> Stages]
  /\ None \notin Events
  /\ Appealable \subseteq Events

VARIABLES
  sequential,  \* completion_rule; otherwise all_steps_any_order
  try,         \* user_quests.status and submissions.appealed of each try
  take,        \* the player's open assignSpecific() transaction
  run,         \* quest_chain_runs.status
  opened,      \* journey_stage_unlocks of each run
  note,        \* what each worker knows of the journey
  told,        \* notifications sent about each run
  failures     \* how often workers failed

journeyVars == <<sequential, try, take, run, opened, note, told, failures>>
vars == <<deliveryVars, journeyVars>>

-----------------------------------------------------------------------------
Try == [status: {"none", "assigned", "submitted", "approved", "rejected"},
        appealed: BOOLEAN]

\* opening: inserted by a transaction that has not committed.
RunStatus == {"absent", "opening", "active", "completed", "abandoned"}

\* A checkpoint, or 0 for the end of the journey.
Target == 0..Last

Take == [try: Events \cup {None}, run: 0..MaxRuns]
NoTake == [try |-> None, run |-> 0]

Note == [at: {"start", "found", "derived", "telling", "handled"},
         run: 0..MaxRuns, next: Target]
NoNote == [at |-> "start", run |-> 0, next |-> 0]

Init ==
  /\ DeliveryInit
  /\ sequential \in BOOLEAN
  /\ try = [t \in Events |-> [status |-> "none", appealed |-> FALSE]]
  /\ take = NoTake
  /\ run = [r \in Runs |-> "absent"]
  /\ opened = [r \in Runs |-> {}]
  /\ note = [w \in Workers |-> NoNote]
  /\ told = [r \in Runs |-> [s \in Target |-> 0]]
  /\ failures = 0

In(status) == {t \in Events : try[t].status = status}
RunsIn(status) == {r \in Runs : run[r] = status}
Moves(t, status) == try' = [try EXCEPT ![t].status = status]
Becomes(r, status) == run' = [run EXCEPT ![r] = status]

\* The smallest of a set of checkpoints or runs; 0 if there is none.
First(S) == IF S = {} THEN 0 ELSE CHOOSE s \in S : \A i \in S : s <= i

Approved(s) == \E t \in In("approved") : StageOf[t] = s

\* Variant: proof that is under review counts.
RemainingUnsubmitted ==
  {s \in Stages : \A t \in In("approved") \cup In("submitted") : StageOf[t] # s}

\* unapprovedSteps().
Remaining == {s \in Stages : ~Approved(s)}

\* INSERT INTO quest_chain_runs: the unique index over live runs makes a
\* second insert wait for the first one.
MayOpen(r) == RunsIn("active") \cup RunsIn("opening") = {} /\ r = First(RunsIn("absent")) /\ r # 0

-----------------------------------------------------------------------------
(* The player and the reviewers.                                           *)

\* openJourneyForStep(): the run the checkpoint belongs to is found, or
\* inserted; an any-order chain needs none.
Takes(t) ==
  /\ take = NoTake
  /\ try[t].status = "none"
  /\ \/ /\ ~sequential \/ RunsIn("active") # {}
        /\ take' = [try |-> t, run |-> 0]
        /\ UNCHANGED run
     \/ /\ sequential
        /\ \E r \in Runs : MayOpen(r) /\ take' = [try |-> t, run |-> r] /\ Becomes(r, "opening")
  /\ UNCHANGED <<deliveryVars, sequential, try, opened, note, told, failures>>

\* The end of the transaction, for the run it inserted.
TakeEnds(status) ==
  /\ take' = NoTake
  /\ run' = [r \in Runs |-> IF r = take.run THEN status ELSE run[r]]
  /\ UNCHANGED <<deliveryVars, sequential, opened, note, told, failures>>

\* Variant: the order of the checkpoints is not looked at.
TakeAnyCommits ==
  /\ take # NoTake
  /\ In("assigned") = {}
  /\ Moves(take.try, "assigned")
  /\ TakeEnds("active")

\* One running quest; a checkpoint whose predecessor is approved.
TakeCommits ==
  /\ take # NoTake
  /\ In("assigned") = {}
  /\ sequential /\ StageOf[take.try] > 1 => Approved(StageOf[take.try] - 1)
  /\ Moves(take.try, "assigned")
  /\ TakeEnds("active")

TakeFails ==
  /\ take # NoTake
  /\ TakeEnds("absent")
  /\ UNCHANGED try

Keeps == UNCHANGED <<sequential, take, run, opened, note, told, failures>>

Submits(t) ==
  /\ try[t].status = "assigned"
  /\ Moves(t, "submitted")
  /\ UNCHANGED deliveryVars /\ Keeps

\* The timer, or the player gives up: a row that nothing here reads any more,
\* and its name may be used again.
Ends(t) ==
  /\ try[t].status = "assigned"
  /\ Moves(t, "none")
  /\ UNCHANGED deliveryVars /\ Keeps

Rejected(t) ==
  /\ try[t].status = "submitted"
  /\ Moves(t, "rejected")
  /\ UNCHANGED deliveryVars /\ Keeps

Appeals(t) ==
  /\ t \in Appealable
  /\ try[t].status = "rejected" /\ ~try[t].appealed
  /\ try' = [try EXCEPT ![t] = [status |-> "submitted", appealed |-> TRUE]]
  /\ UNCHANGED deliveryVars /\ Keeps

Approves(t) ==
  /\ try[t].status = "submitted"
  /\ Moves(t, "approved")
  /\ Emit(t)
  /\ Keeps

\* abandonUnansweredJourneys(), when the deadline of a rejection has passed.
Abandons(r) ==
  /\ run[r] = "active"
  /\ In("assigned") \cup In("submitted") = {}
  /\ \E t \in In("rejected") : ~try[t].appealed
  /\ Becomes(r, "abandoned")
  /\ UNCHANGED <<deliveryVars, sequential, try, take, opened, note, told, failures>>

-----------------------------------------------------------------------------
(* onSubmissionApproved(), by the worker that has the event in hand: one   *)
(* transaction, each of whose statements sees what has committed.          *)

Begins(w, e) ==
  /\ Deliver(w, e)
  /\ UNCHANGED journeyVars

Steps(w, at) == hand[w] # None /\ note[w].at = at
Notes(w, at) == note' = [note EXCEPT ![w].at = at]
Forgets(w, at) == note' = [note EXCEPT ![w] = [NoNote EXCEPT !.at = at]]

\* Variant: the place of the checkpoint is looked at before the live run.
FindsFirst(w) ==
  /\ Steps(w, "start")
  /\ LET first == StageOf[hand[w]] = 1
         Found(r) == note' = [note EXCEPT ![w] = [@ EXCEPT !.at = "found", !.run = r]]
     IN \/ first /\ \E r \in RunsIn("active") : Found(r) /\ UNCHANGED run
        \/ first /\ \E r \in Runs : MayOpen(r) /\ Found(r) /\ Becomes(r, "opening")
        \/ ~first /\ Forgets(w, "handled") /\ UNCHANGED run
  /\ UNCHANGED <<deliveryVars, sequential, try, take, opened, told, failures>>

\* liveRunFor(); without a live run the first checkpoint starts one, and the
\* event of any other one is dropped.
Finds(w) ==
  /\ Steps(w, "start")
  /\ LET first == StageOf[hand[w]] = 1
         Found(r) == note' = [note EXCEPT ![w] = [@ EXCEPT !.at = "found", !.run = r]]
     IN \/ \E r \in RunsIn("active") : Found(r) /\ UNCHANGED run
        \/ first /\ \E r \in Runs : MayOpen(r) /\ Found(r) /\ Becomes(r, "opening")
        \/ ~first /\ RunsIn("active") = {} /\ Forgets(w, "handled") /\ UNCHANGED run
  /\ UNCHANGED <<deliveryVars, sequential, try, take, opened, told, failures>>

Derives(w) ==
  /\ Steps(w, "found")
  /\ note' = [note EXCEPT ![w] = [@ EXCEPT !.at = "derived", !.next = First(Remaining)]]
  /\ UNCHANGED <<deliveryVars, sequential, try, take, run, opened, told, failures>>

Commits(w) ==
  /\ Steps(w, "derived")
  /\ UNCHANGED <<deliveryVars, sequential, try, take, told, failures>>

Live(r) == run[r] \in {"opening", "active"}
Settled(r) == IF run[r] = "opening" THEN "active" ELSE run[r]

\* Variant: completeRun() does not look at the status.
ClosesAny(w) ==
  /\ Commits(w)
  /\ LET r == note[w].run IN
     /\ note[w].next = 0
     /\ Becomes(r, "completed") /\ Notes(w, "telling")
  /\ UNCHANGED opened

\* completeRun(), which answers whether it closed the run.
Closes(w) ==
  /\ Commits(w)
  /\ LET r == note[w].run IN
     /\ note[w].next = 0
     /\ \/ Live(r) /\ Becomes(r, "completed") /\ Notes(w, "telling")
        \/ ~Live(r) /\ Forgets(w, "handled") /\ UNCHANGED run
  /\ UNCHANGED opened

\* Variant: the checkpoint is announced whether or not this call opened it.
OpensAgain(w) ==
  /\ Commits(w)
  /\ LET r == note[w].run
         s == note[w].next
     IN /\ s # 0 /\ sequential
        /\ Becomes(r, Settled(r))
        /\ opened' = [opened EXCEPT ![r] = @ \cup {s}]
        /\ Notes(w, "telling")

\* recordUnlock(), which answers whether it opened the checkpoint.
Opens(w) ==
  /\ Commits(w)
  /\ LET r == note[w].run
         s == note[w].next
     IN /\ s # 0 /\ sequential
        /\ Becomes(r, Settled(r))
        /\ opened' = [opened EXCEPT ![r] = @ \cup {s}]
        /\ IF s \in opened[r] THEN Forgets(w, "handled") ELSE Notes(w, "telling")

\* An any-order chain has every checkpoint open from the start.
OpensNothing(w) ==
  /\ Commits(w)
  /\ note[w].next # 0 /\ ~sequential
  /\ Becomes(note[w].run, Settled(note[w].run))
  /\ Forgets(w, "handled")
  /\ UNCHANGED opened

\* announceUnlock() and announceCompletion(): a transaction of their own.
Tells(w) ==
  /\ Steps(w, "telling")
  /\ told' = [told EXCEPT ![note[w].run][note[w].next] = @ + 1]
  /\ Forgets(w, "handled")
  /\ UNCHANGED <<deliveryVars, sequential, try, take, run, opened, failures>>

Records(w) ==
  /\ Steps(w, "handled")
  /\ Complete(w)
  /\ Forgets(w, "start")
  /\ UNCHANGED <<sequential, try, take, run, opened, told, failures>>

\* An open transaction is rolled back, with the run it inserted.
Fails(w) ==
  /\ failures < MaxFailures
  /\ failures' = failures + 1
  /\ Drop(w)
  /\ Forgets(w, "start")
  /\ run' = [r \in Runs |->
               IF run[r] = "opening" /\ note[w].run = r THEN "absent" ELSE run[r]]
  /\ UNCHANGED <<sequential, try, take, opened, told>>

-----------------------------------------------------------------------------
Taking == TakeCommits \/ TakeFails

Handling(w) ==
  Finds(w) \/ Derives(w) \/ Closes(w) \/ Opens(w) \/ OpensNothing(w) \/ Tells(w) \/ Records(w)

Next ==
  \/ \E t \in Events :
       Takes(t) \/ Submits(t) \/ Ends(t) \/ Rejected(t) \/ Appeals(t) \/ Approves(t)
  \/ Taking
  \/ \E r \in Runs : Abandons(r)
  \/ \E w \in Workers, e \in Events : Begins(w, e)
  \/ \E w \in Workers : Handling(w) \/ Fails(w)

\* Transactions end, workers finish what they do, and every event is delivered
\* (EveryEventIsDelivered of Outbox; the failures here are within its attempts).
Fairness ==
  /\ WF_vars(Taking)
  /\ \A w \in Workers : WF_vars(Handling(w))
  /\ \A e \in Events : SF_vars(\E w \in Workers : Begins(w, e))

Spec == Init /\ [][Next]_vars /\ Fairness

-----------------------------------------------------------------------------
(* Properties.                                                             *)

TypeOK ==
  /\ emitted \subseteq Events /\ recorded \subseteq Events
  /\ hand \in [Workers -> Events \cup {None}]
  /\ sequential \in BOOLEAN
  /\ try \in [Events -> Try]
  /\ take \in Take
  /\ run \in [Runs -> RunStatus]
  /\ opened \in [Runs -> SUBSET Stages]
  /\ note \in [Workers -> Note]
  /\ told \in [Runs -> [Target -> Nat]]
  /\ failures \in 0..MaxFailures

\* A sequential chain is walked in order: whatever has been taken or opened has
\* every earlier checkpoint approved, whichever run was live at the time.
CheckpointsInOrder ==
  sequential =>
    /\ \A t \in Events \ In("none") : \A s \in 1..(StageOf[t] - 1) : Approved(s)
    /\ \A r \in Runs : \A s \in opened[r] : \A i \in 1..(s - 1) : Approved(i)

\* A completed journey has every checkpoint approved.
CompletedIsWalked == RunsIn("completed") # {} => Remaining = {}

\* However often an approval is delivered, of a run the player is told once of
\* each checkpoint that opened and once of the end, and of nothing else.
ToldOnce ==
  \A r \in Runs, s \in Target :
    /\ told[r][s] <= 1
    /\ told[r][s] = 1 => IF s = 0 THEN run[r] = "completed" ELSE s \in opened[r]

\* A run that was completed or abandoned stays so, whatever a consumer that saw
\* it alive still does.
FinishedRunsRest ==
  [][\A r \in Runs : run[r] \in {"completed", "abandoned"} => run'[r] = run[r]]_vars

\* While a run is live an approval moves it: if the event of one is still to be
\* handled, the run is closed or its first open end is a checkpoint that was
\* opened.  (An any-order chain has nothing to open.)
ApprovalsMoveTheJourney ==
  \A r \in Runs :
    (/\ run[r] = "active"
     /\ sequential \/ Remaining = {}
     /\ \E e \in emitted \ recorded : \A w \in Workers : hand[w] # e)
    ~> (run[r] # "active" \/ First(Remaining) \in opened[r])

\* A rejection that was answered, by an appeal or by a retake, closes no journey.
AnsweredIsLeftAlone ==
  [][\A r \in Runs : run[r] = "active" /\ run'[r] = "abandoned" =>
       \E t \in In("rejected") : ~try[t].appealed /\ ~Approved(StageOf[t])]_vars

=============================================================================
