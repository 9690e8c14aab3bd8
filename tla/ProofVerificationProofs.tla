----------------------- MODULE ProofVerificationProofs -----------------------
(***************************************************************************)
(* Theorems about ProofVerification, for every set of submissions, every   *)
(* finite set of workers and every limit on attempts.                      *)
(*                                                                         *)
(* A claim is a promise of one model call.  AnalysesBounded becomes        *)
(* inductive when the promises that are still open are counted with the    *)
(* calls that were made (AttemptsPaid), and a lease is exclusive because a *)
(* worker that holds one works on a row that is leased (LeasesFit).        *)
(***************************************************************************)
EXTENDS ProofVerification, FiniteSetTheorems, TLAPS

\* The workers that have claimed s and not yet begun, or given up.
ClaimedOn(s) == {w \in Workers : worker[w].at = "claimed" /\ worker[w].on = s}

AttemptsPaid ==
  \A s \in Submissions : Cardinality(ClaimedOn(s)) + analyses[s] <= row[s].attempts

LeasesFit ==
  \A w \in Workers : worker[w].holds => worker[w].on \in Submissions /\ row[worker[w].on].leased

WorkersFit ==
  \A w \in Workers :
    /\ worker[w].at # "idle" => worker[w].on \in Submissions
    /\ worker[w].at = "recorded" => worker[w].verdict \in Verdicts

VerdictsStored ==
  \A s \in Submissions : row[s].state = "complete" => row[s].verdict \in Verdicts

IInv ==
  /\ TypeOK
  /\ WorkersFit
  /\ LeasesFit
  /\ LeaseIsExclusive
  /\ VerdictsStored
  /\ AttemptsPaid

-----------------------------------------------------------------------------
(* The operators on a row.                                                 *)

\* Whatever is done to a row leaves a row, and only a claim counts an attempt.
LEMMA RowOps ==
  ASSUME NEW r \in Row, NEW verdict \in Verdicts
  PROVE  /\ Completed(r, verdict) \in Row /\ Failed(r) \in Row /\ Skipped(r) \in Row
         /\ Completed(r, verdict).attempts = r.attempts
         /\ Failed(r).attempts = r.attempts /\ Skipped(r).attempts = r.attempts
         /\ Completed(r, verdict).leased = r.leased
         /\ Failed(r).leased = r.leased /\ Skipped(r).leased = r.leased
  BY VerificationAssumption DEF Row, Completed, Failed, Skipped, Verdicts

\* A verdict survives a failure and a skip, and complete() stores one.
LEMMA VerdictOps ==
  ASSUME NEW r \in Row, NEW verdict \in Verdicts,
         r.state = "complete" => r.verdict \in Verdicts
  PROVE  /\ Completed(r, verdict).state = "complete" /\ Completed(r, verdict).verdict \in Verdicts
         /\ Failed(r).state = "complete" => r.state = "complete" /\ Failed(r).verdict \in Verdicts
         /\ Skipped(r).state = "complete" => r.state = "complete" /\ Skipped(r).verdict \in Verdicts
         /\ r.state = "complete" => Failed(r) = r /\ Skipped(r) = r
  BY DEF Row, Completed, Failed, Skipped, Verdicts

\* A claim takes an attempt and the lease of a row that has no verdict.
LEMMA ClaimOps ==
  ASSUME NEW r \in Row, Claimable(r)
  PROVE  /\ Claimed(r) \in Row
         /\ Claimed(r).attempts = r.attempts + 1 /\ Claimed(r).leased
         /\ Claimed(r).state = "queued" /\ r.state # "complete" /\ ~r.leased
  <1>1. r.attempts \in 0..MaxAttempts /\ r.attempts < MaxAttempts
    BY DEF Row, Claimable
  <1>2. r.attempts + 1 \in 0..MaxAttempts
    BY <1>1, VerificationAssumption
  <1> QED
    BY <1>2 DEF Row, Claimable, Claimed

LEMMA IdleWorkerType == IdleWorker \in Worker
  BY DEF IdleWorker, Worker

-----------------------------------------------------------------------------
(* The count of open claims.                                               *)

LEMMA ClaimedFinite ==
  ASSUME NEW s
  PROVE  IsFiniteSet(ClaimedOn(s)) /\ Cardinality(ClaimedOn(s)) \in Nat
  <1>1. ClaimedOn(s) \subseteq Workers
    BY DEF ClaimedOn
  <1>2. IsFiniteSet(ClaimedOn(s))
    BY <1>1, VerificationAssumption, FS_Subset
  <1> QED
    BY <1>2, FS_CardinalityType

\* Workers that leave a claim, without a call, only shorten the count.
LEMMA PaidWhenFewer ==
  ASSUME TypeOK, AttemptsPaid, analyses' = analyses,
         \A s \in Submissions : row'[s].attempts = row[s].attempts,
         \A s \in Submissions : ClaimedOn(s)' \subseteq ClaimedOn(s)
  PROVE  AttemptsPaid'
  <1> SUFFICES ASSUME NEW s \in Submissions
               PROVE  Cardinality(ClaimedOn(s)') + analyses'[s] <= row'[s].attempts
    BY DEF AttemptsPaid
  <1>1. IsFiniteSet(ClaimedOn(s)) /\ Cardinality(ClaimedOn(s)) \in Nat
    BY ClaimedFinite
  <1>2. ClaimedOn(s)' \in SUBSET ClaimedOn(s)
    OBVIOUS
  <1>3. IsFiniteSet(ClaimedOn(s)') /\ Cardinality(ClaimedOn(s)') <= Cardinality(ClaimedOn(s))
    BY <1>1, <1>2, FS_Subset
  <1>4. Cardinality(ClaimedOn(s)') \in Nat
    BY <1>3, FS_CardinalityType
  <1>5. Cardinality(ClaimedOn(s)) + analyses[s] <= row[s].attempts
    BY DEF AttemptsPaid
  <1>6. analyses[s] \in Nat /\ row[s].attempts \in Nat
    BY VerificationAssumption DEF TypeOK, Row
  <1> QED
    BY <1>1, <1>3, <1>4, <1>5, <1>6

-----------------------------------------------------------------------------
(* Each action keeps the invariant.                                        *)

LEMMA InitInv == Init => IInv
  <1> SUFFICES ASSUME Init PROVE IInv
    OBVIOUS
  <1>1. TypeOK
    BY VerificationAssumption, IdleWorkerType DEF Init, TypeOK, Row, Sub, Deciders
  <1>2. \A w \in Workers : worker[w].at = "idle" /\ ~worker[w].holds
    BY DEF Init, IdleWorker
  <1>3. \A s \in Submissions : /\ row[s].state = "queued" /\ row[s].attempts = 0
                               /\ analyses[s] = 0
    BY DEF Init
  <1>4. \A s \in Submissions : Cardinality(ClaimedOn(s)) = 0
    BY <1>2, FS_EmptySet DEF ClaimedOn
  <1>5. AttemptsPaid
    BY <1>3, <1>4 DEF AttemptsPaid
  <1> QED
    BY <1>1, <1>2, <1>3, <1>5
       DEF IInv, WorkersFit, LeasesFit, LeaseIsExclusive, VerdictsStored

\* What each action of a worker that becomes idle does to the rest: the count
\* of claims shrinks, and no lease is taken.
LEMMA IdleInv ==
  ASSUME IInv, NEW w \in Workers, TypeOK', VerdictsStored',
         worker' = [worker EXCEPT ![w] = IdleWorker], analyses' = analyses,
         \A s \in Submissions : /\ row'[s].attempts = row[s].attempts
                                /\ row'[s].leased = row[s].leased
  PROVE  IInv'
  <1>1. \A v \in Workers : worker'[v] = IF v = w THEN IdleWorker ELSE worker[v]
    BY DEF IInv, TypeOK
  <1>2. ~IdleWorker.holds /\ IdleWorker.at = "idle"
    BY DEF IdleWorker
  <1>3. WorkersFit' /\ LeasesFit' /\ LeaseIsExclusive'
    BY <1>1, <1>2 DEF IInv, WorkersFit, LeasesFit, LeaseIsExclusive
  <1>4. \A s \in Submissions : ClaimedOn(s)' \subseteq ClaimedOn(s)
    BY <1>1, <1>2 DEF ClaimedOn
  <1>5. AttemptsPaid'
    BY <1>4, PaidWhenFewer DEF IInv
  <1> QED
    BY <1>3, <1>5 DEF IInv

LEMMA ClaimInv ==
  ASSUME IInv, NEW w \in Workers, NEW s \in Submissions, Claim(w, s)
  PROVE  IInv'
  <1> DEFINE claimed == [IdleWorker EXCEPT !.at = "claimed", !.on = s, !.holds = TRUE,
                           !.saw = IF sub[s].status = "pending" THEN "pending" ELSE "decided"]
  <1>1. /\ worker[w].at = "idle" /\ Claimable(row[s]) /\ row[s] \in Row
        /\ row' = [row EXCEPT ![s] = Claimed(row[s])]
        /\ worker' = [worker EXCEPT ![w] = claimed]
        /\ sub' = sub /\ analyses' = analyses
    BY DEF Claim, IInv, TypeOK
  <1>2. /\ claimed \in Worker /\ claimed.at = "claimed" /\ claimed.on = s
    BY DEF IdleWorker, Worker
  <1>3. /\ \A v \in Workers : worker'[v] = IF v = w THEN claimed ELSE worker[v]
        /\ \A t \in Submissions : row'[t] = IF t = s THEN Claimed(row[s]) ELSE row[t]
    BY <1>1 DEF IInv, TypeOK
  <1> HIDE DEF claimed
  <1>4. TypeOK'
    BY <1>1, <1>2, ClaimOps DEF IInv, TypeOK
  <1>5. WorkersFit'
    BY <1>2, <1>3 DEF IInv, WorkersFit
  <1>6. LeasesFit' /\ LeaseIsExclusive'
    <2>1. \A v \in Workers : worker[v].holds => worker[v].on # s
      BY <1>1, ClaimOps DEF IInv, LeasesFit
    <2>2. Claimed(row[s]).leased
      BY <1>1, ClaimOps
    <2> QED
      BY <1>2, <1>3, <2>1, <2>2 DEF IInv, LeasesFit, LeaseIsExclusive
  <1>7. VerdictsStored'
    BY <1>1, <1>3, ClaimOps DEF IInv, VerdictsStored
  <1>8. AttemptsPaid'
    <2> SUFFICES ASSUME NEW t \in Submissions
                 PROVE  Cardinality(ClaimedOn(t)') + analyses'[t] <= row'[t].attempts
      BY DEF AttemptsPaid
    <2>1. Cardinality(ClaimedOn(t)) + analyses[t] <= row[t].attempts
      BY DEF IInv, AttemptsPaid
    <2>2. CASE t = s
      <3>1. ClaimedOn(s)' = ClaimedOn(s) \cup {w} /\ w \notin ClaimedOn(s)
        BY <1>1, <1>2, <1>3 DEF ClaimedOn
      <3>2. Cardinality(ClaimedOn(s)') = Cardinality(ClaimedOn(s)) + 1
        BY <3>1, ClaimedFinite, FS_AddElement
      <3>3. row'[s].attempts = row[s].attempts + 1
        BY <1>1, <1>3, ClaimOps
      <3>4. Cardinality(ClaimedOn(s)) \in Nat /\ analyses[s] \in Nat /\ row[s].attempts \in Nat
        BY <1>1, ClaimedFinite, VerificationAssumption DEF IInv, TypeOK, Row
      <3> QED
        BY <1>1, <2>1, <2>2, <3>2, <3>3, <3>4
    <2>3. CASE t # s
      <3>1. ClaimedOn(t)' = ClaimedOn(t)
        BY <1>1, <1>2, <1>3, <2>3 DEF ClaimedOn
      <3> QED
        BY <1>1, <1>3, <2>1, <2>3, <3>1
    <2> QED
      BY <2>2, <2>3
  <1> QED
    BY <1>4, <1>5, <1>6, <1>7, <1>8 DEF IInv

LEMMA AnalyseInv ==
  ASSUME IInv, NEW w \in Workers, Analyse(w)
  PROVE  IInv'
  <1>a. PICK s \in Submissions : s = worker[w].on
    BY DEF Analyse, IInv, WorkersFit
  <1>1. /\ worker[w].at = "claimed" /\ row' = row /\ sub' = sub
        /\ worker' = [worker EXCEPT ![w].at = "analysing"]
        /\ analyses' = [analyses EXCEPT ![s] = analyses[s] + 1]
    BY <1>a DEF Analyse
  <1>2. \A v \in Workers : /\ worker'[v].on = worker[v].on
                           /\ worker'[v].holds = worker[v].holds
                           /\ worker'[v].verdict = worker[v].verdict
                           /\ worker'[v].at = IF v = w THEN "analysing" ELSE worker[v].at
    BY <1>1 DEF IInv, TypeOK, Worker
  <1>3. \A t \in Submissions : Cardinality(ClaimedOn(t)) \in Nat /\ analyses[t] \in Nat
                                /\ row[t].attempts \in Nat /\ row[t].attempts <= MaxAttempts
    BY ClaimedFinite, VerificationAssumption DEF IInv, TypeOK, Row
  <1>4. ClaimedOn(s)' = ClaimedOn(s) \ {w} /\ w \in ClaimedOn(s)
    BY <1>a, <1>1, <1>2 DEF ClaimedOn
  <1>5. Cardinality(ClaimedOn(s)') = Cardinality(ClaimedOn(s)) - 1
    BY <1>4, ClaimedFinite, FS_RemoveElement
  <1>6. \A t \in Submissions \ {s} : ClaimedOn(t)' = ClaimedOn(t)
    BY <1>a, <1>1, <1>2 DEF ClaimedOn
  <1>7. \A t \in Submissions : analyses'[t] = IF t = s THEN analyses[s] + 1 ELSE analyses[t]
    BY <1>1 DEF IInv, TypeOK
  <1>8. AttemptsPaid'
    BY <1>1, <1>3, <1>5, <1>6, <1>7 DEF IInv, AttemptsPaid
  <1>9. TypeOK'
    <2>1. Cardinality(ClaimedOn(s)') \in Nat
      BY <1>4, ClaimedFinite, FS_RemoveElement, FS_CardinalityType
    <2>2. analyses[s] + 1 <= row[s].attempts
      BY <1>3, <1>5, <2>1 DEF IInv, AttemptsPaid
    <2>3. analyses[s] + 1 \in 0..MaxAttempts
      BY <1>3, <2>2, VerificationAssumption
    <2>4. analyses' \in [Submissions -> 0..MaxAttempts]
      BY <1>1, <2>3 DEF IInv, TypeOK
    <2>5. worker' \in [Workers -> Worker]
      BY <1>1 DEF IInv, TypeOK, Worker
    <2> QED
      BY <1>1, <2>4, <2>5 DEF IInv, TypeOK
  <1>10. WorkersFit' /\ LeasesFit' /\ LeaseIsExclusive' /\ VerdictsStored'
    BY <1>1, <1>2 DEF IInv, WorkersFit, LeasesFit, LeaseIsExclusive, VerdictsStored
  <1> QED
    BY <1>8, <1>9, <1>10 DEF IInv

\* Skip and Fail write the row they claimed, and leave a verdict alone.
LEMMA GiveUpInv ==
  ASSUME IInv, NEW w \in Workers, Skip(w) \/ Fail(w)
  PROVE  IInv'
  <1>a. PICK s \in Submissions : s = worker[w].on
    BY DEF Skip, Fail, IInv, WorkersFit
  <1>1. PICK r : /\ r \in {Skipped(row[s]), Failed(row[s])}
                 /\ row' = [row EXCEPT ![s] = r]
    BY <1>a DEF Skip, Fail
  <1>2. /\ worker' = [worker EXCEPT ![w] = IdleWorker] /\ sub' = sub /\ analyses' = analyses
    BY DEF Skip, Fail
  <1>3. row[s] \in Row /\ "pass" \in Verdicts
    BY DEF IInv, TypeOK, Verdicts
  <1>4. r \in Row /\ r.attempts = row[s].attempts /\ r.leased = row[s].leased
    BY <1>1, <1>3, RowOps
  <1>5. r.state = "complete" => r.verdict \in Verdicts
    BY <1>1, <1>3, VerdictOps DEF IInv, VerdictsStored
  <1>6. \A t \in Submissions : row'[t] = IF t = s THEN r ELSE row[t]
    BY <1>1 DEF IInv, TypeOK
  <1>7. TypeOK'
    BY <1>1, <1>2, <1>4, IdleWorkerType DEF IInv, TypeOK
  <1>8. VerdictsStored'
    BY <1>5, <1>6 DEF IInv, VerdictsStored
  <1> QED
    BY <1>2, <1>4, <1>6, <1>7, <1>8, IdleInv

LEMMA RecordInv ==
  ASSUME IInv, NEW w \in Workers, NEW verdict \in Verdicts, Record(w, verdict)
  PROVE  IInv'
  <1>a. PICK s \in Submissions : s = worker[w].on
    BY DEF Record, IInv, WorkersFit
  <1>1. /\ row' = [row EXCEPT ![s] = Completed(row[s], verdict)] /\ worker[w].at = "analysing"
        /\ worker' = [worker EXCEPT ![w].at = "recorded", ![w].verdict = verdict]
        /\ sub' = sub /\ analyses' = analyses
    BY <1>a DEF Record
  <1>2. row[s] \in Row
    BY DEF IInv, TypeOK
  <1>3. /\ Completed(row[s], verdict) \in Row /\ Completed(row[s], verdict).verdict \in Verdicts
        /\ Completed(row[s], verdict).attempts = row[s].attempts
        /\ Completed(row[s], verdict).leased = row[s].leased
    BY <1>2, RowOps, VerdictOps DEF IInv, VerdictsStored
  <1>4. \A t \in Submissions : row'[t] = IF t = s THEN Completed(row[s], verdict) ELSE row[t]
    BY <1>1 DEF IInv, TypeOK
  <1>5. \A v \in Workers : /\ worker'[v].on = worker[v].on
                           /\ worker'[v].holds = worker[v].holds
                           /\ worker'[v].at = IF v = w THEN "recorded" ELSE worker[v].at
                           /\ worker'[v].verdict = IF v = w THEN verdict ELSE worker[v].verdict
    BY <1>1 DEF IInv, TypeOK, Worker
  <1>6. TypeOK'
    <2>1. row' \in [Submissions -> Row]
      BY <1>1, <1>3 DEF IInv, TypeOK
    <2>2. [[worker[w] EXCEPT !.at = "recorded"] EXCEPT !.verdict = verdict] \in Worker
      BY DEF IInv, TypeOK, Worker
    <2>3. worker' \in [Workers -> Worker]
      BY <1>1, <2>2 DEF IInv, TypeOK
    <2> QED
      BY <1>1, <2>1, <2>3 DEF IInv, TypeOK
  <1>7. WorkersFit'
    BY <1>a, <1>5 DEF IInv, WorkersFit
  <1>8. \A t \in Submissions : row'[t].leased = row[t].leased /\ row'[t].attempts = row[t].attempts
    BY <1>3, <1>4
  <1>9. LeasesFit' /\ LeaseIsExclusive'
    BY <1>5, <1>8 DEF IInv, LeasesFit, LeaseIsExclusive
  <1>10. VerdictsStored'
    BY <1>3, <1>4 DEF IInv, VerdictsStored
  <1>11. \A t \in Submissions : ClaimedOn(t)' \subseteq ClaimedOn(t)
    BY <1>5 DEF ClaimedOn
  <1>12. AttemptsPaid'
    BY <1>1, <1>8, <1>11, PaidWhenFewer DEF IInv
  <1> QED
    BY <1>6, <1>7, <1>9, <1>10, <1>12 DEF IInv

LEMMA LeaseExpiresInv ==
  ASSUME IInv, NEW s \in Submissions, LeaseExpires(s)
  PROVE  IInv'
  <1>1. /\ row' = [row EXCEPT ![s].leased = FALSE] /\ sub' = sub /\ analyses' = analyses
        /\ worker' = [w \in Workers |->
              IF worker[w].on = s THEN [worker[w] EXCEPT !.holds = FALSE] ELSE worker[w]]
    BY DEF LeaseExpires
  <1>2. \A v \in Workers : /\ worker'[v].on = worker[v].on /\ worker'[v].at = worker[v].at
                           /\ worker'[v].verdict = worker[v].verdict
                           /\ worker'[v].holds => worker[v].holds /\ worker[v].on # s
    BY <1>1 DEF IInv, TypeOK, Worker
  <1>3. \A t \in Submissions : /\ row'[t].attempts = row[t].attempts
                               /\ row'[t].state = row[t].state /\ row'[t].verdict = row[t].verdict
                               /\ t # s => row'[t].leased = row[t].leased
    BY <1>1 DEF IInv, TypeOK, Row
  <1>4. TypeOK'
    <2>1. row' \in [Submissions -> Row]
      BY <1>1 DEF IInv, TypeOK, Row
    <2>2. \A v \in Workers : [worker[v] EXCEPT !.holds = FALSE] \in Worker
      BY DEF IInv, TypeOK, Worker
    <2>3. worker' \in [Workers -> Worker]
      BY <1>1, <2>2 DEF IInv, TypeOK
    <2> QED
      BY <1>1, <2>1, <2>3 DEF IInv, TypeOK
  <1>5. WorkersFit' /\ LeaseIsExclusive' /\ VerdictsStored'
    BY <1>2, <1>3 DEF IInv, WorkersFit, LeaseIsExclusive, VerdictsStored
  <1>6. LeasesFit'
    BY <1>2, <1>3 DEF IInv, LeasesFit
  <1>7. \A t \in Submissions : ClaimedOn(t)' \subseteq ClaimedOn(t)
    BY <1>2 DEF ClaimedOn
  <1>8. AttemptsPaid'
    BY <1>1, <1>3, <1>4, <1>7, PaidWhenFewer DEF IInv
  <1> QED
    BY <1>4, <1>5, <1>6, <1>8 DEF IInv

\* A step that leaves rows, workers and calls alone.
LEMMA SameRowsInv ==
  ASSUME IInv, UNCHANGED <<row, worker, analyses>>, sub' \in [Submissions -> Sub]
  PROVE  IInv'
  <1>1. \A s \in Submissions : ClaimedOn(s)' = ClaimedOn(s)
    BY DEF ClaimedOn
  <1> QED
    BY <1>1 DEF IInv, TypeOK, WorkersFit, LeasesFit, LeaseIsExclusive, VerdictsStored, AttemptsPaid

LEMMA ActInv ==
  ASSUME IInv, NEW w \in Workers, Act(w)
  PROVE  IInv'
  <1>1. /\ worker' = [worker EXCEPT ![w] = IdleWorker] /\ row' = row /\ analyses' = analyses
    BY DEF Act
  <1>2. sub' \in [Submissions -> Sub]
    BY DEF Act, Decide, IInv, TypeOK, Sub, Deciders
  <1>3. TypeOK' /\ VerdictsStored'
    BY <1>1, <1>2, IdleWorkerType DEF IInv, TypeOK, VerdictsStored
  <1> QED
    BY <1>1, <1>3, IdleInv

LEMMA PeopleInv ==
  ASSUME IInv, People
  PROVE  IInv'
  <1>1. sub' \in [Submissions -> Sub]
    <2>1. ASSUME NEW s \in Submissions, NEW status \in {"approved", "rejected"},
                 ModeratorDecides(s, status)
          PROVE  sub' \in [Submissions -> Sub]
      <3>1. [[sub[s] EXCEPT !.status = status] EXCEPT !.by = "moderator"] \in Sub
        BY DEF IInv, TypeOK, Sub, Deciders
      <3> QED
        BY <2>1, <3>1 DEF ModeratorDecides, Decide, IInv, TypeOK
    <2>2. ASSUME NEW s \in Submissions, PlayerAppeals(s)
          PROVE  sub' \in [Submissions -> Sub]
      BY <2>2 DEF PlayerAppeals, IInv, TypeOK, Sub
    <2>3. ASSUME NEW s \in Submissions, NEW deleted \in BOOLEAN, PlayerDeletes(s, deleted)
          PROVE  sub' \in [Submissions -> Sub]
      BY <2>3 DEF PlayerDeletes, IInv, TypeOK, Sub
    <2> QED
      BY <2>1, <2>2, <2>3 DEF People
  <1>2. UNCHANGED <<row, worker, analyses>>
    BY DEF People, ModeratorDecides, PlayerAppeals, PlayerDeletes
  <1> QED
    BY <1>1, <1>2, SameRowsInv

LEMMA StepInv == IInv /\ [Next]_vars => IInv'
  <1> SUFFICES ASSUME IInv, [Next]_vars PROVE IInv'
    OBVIOUS
  <1>1. CASE People
    BY <1>1, PeopleInv
  <1>2. ASSUME NEW w \in Workers, NEW s \in Submissions, Claim(w, s) PROVE IInv'
    BY <1>2, ClaimInv
  <1>3. ASSUME NEW w \in Workers, Verifying(w) PROVE IInv'
    BY <1>3, GiveUpInv, AnalyseInv, ActInv, RecordInv DEF Verifying
  <1>4. ASSUME NEW w \in Workers, Crash(w) PROVE IInv'
    <2>1. /\ worker' = [worker EXCEPT ![w] = IdleWorker]
          /\ row' = row /\ sub' = sub /\ analyses' = analyses
      BY <1>4 DEF Crash
    <2>2. TypeOK' /\ VerdictsStored'
      BY <2>1, IdleWorkerType DEF IInv, TypeOK, VerdictsStored
    <2> QED
      BY <2>1, <2>2, IdleInv
  <1>5. ASSUME NEW s \in Submissions, LeaseExpires(s) PROVE IInv'
    BY <1>5, LeaseExpiresInv
  <1>6. CASE UNCHANGED vars
    BY <1>6, SameRowsInv DEF vars, IInv, TypeOK
  <1> QED
    BY <1>1, <1>2, <1>3, <1>4, <1>5, <1>6 DEF Next

THEOREM Inductive == Spec => []IInv
  BY InitInv, StepInv, PTL DEF Spec

-----------------------------------------------------------------------------
(* The results.                                                            *)

\* Every variable keeps its type; the model is called at most MaxAttempts
\* times for one submission.
THEOREM TypeCorrect == Spec => []TypeOK
  <1>1. IInv => TypeOK
    BY DEF IInv
  <1> QED
    BY <1>1, Inductive, PTL

\* Every call of the model was paid for with an attempt, whatever died.
THEOREM CallsAreBounded == Spec => []AnalysesBounded
  <1>1. IInv => AnalysesBounded
    <2> SUFFICES ASSUME IInv, NEW s \in Submissions PROVE analyses[s] <= row[s].attempts
      BY DEF AnalysesBounded
    <2>1. Cardinality(ClaimedOn(s)) \in Nat /\ analyses[s] \in Nat /\ row[s].attempts \in Nat
      BY ClaimedFinite, VerificationAssumption DEF IInv, TypeOK, Row
    <2> QED
      BY <2>1 DEF IInv, AttemptsPaid
  <1> QED
    BY <1>1, Inductive, PTL

\* One lease has one holder, however many workers race for the row.
THEOREM OneHolder == Spec => []LeaseIsExclusive
  <1>1. IInv => LeaseIsExclusive
    BY DEF IInv
  <1> QED
    BY <1>1, Inductive, PTL

\* A stored verdict is only ever replaced by another verdict.
LEMMA VerdictStep == IInv /\ [Next]_vars =>
  \A s \in Submissions : row[s].state = "complete" =>
    row'[s].state = "complete" /\ row'[s].verdict \in Verdicts
  <1> SUFFICES ASSUME IInv, [Next]_vars, NEW s \in Submissions, row[s].state = "complete"
               PROVE  row'[s].state = "complete" /\ row'[s].verdict \in Verdicts
    OBVIOUS
  <1>1. row[s].verdict \in Verdicts /\ row[s] \in Row /\ "pass" \in Verdicts
    BY DEF IInv, VerdictsStored, TypeOK, Verdicts
  <1>2. ASSUME row' = row PROVE row'[s].state = "complete" /\ row'[s].verdict \in Verdicts
    BY <1>1, <1>2
  <1>3. ASSUME NEW w \in Workers, NEW t \in Submissions, Claim(w, t)
        PROVE  row'[s].state = "complete" /\ row'[s].verdict \in Verdicts
    <2>1. t # s
      BY <1>3 DEF Claim, Claimable
    <2> QED
      BY <1>1, <1>3, <2>1 DEF Claim, IInv, TypeOK
  <1>4. ASSUME NEW w \in Workers, Skip(w) \/ Fail(w)
        PROVE  row'[s].state = "complete" /\ row'[s].verdict \in Verdicts
    <2>1. worker[w].on = s => row' = row
      BY <1>1, <1>4, VerdictOps DEF Skip, Fail, IInv, TypeOK
    <2>2. worker[w].on # s => row'[s] = row[s]
      BY <1>4 DEF Skip, Fail, IInv, TypeOK
    <2> QED
      BY <1>1, <2>1, <2>2
  <1>5. ASSUME NEW w \in Workers, NEW verdict \in Verdicts, Record(w, verdict)
        PROVE  row'[s].state = "complete" /\ row'[s].verdict \in Verdicts
    <2>1. worker[w].on = s => row'[s] = Completed(row[s], verdict)
      BY <1>5 DEF Record, IInv, TypeOK
    <2>2. worker[w].on # s => row'[s] = row[s]
      BY <1>5 DEF Record, IInv, TypeOK
    <2> QED
      BY <1>1, <2>1, <2>2, VerdictOps
  <1>6. ASSUME NEW t \in Submissions, LeaseExpires(t)
        PROVE  row'[s].state = "complete" /\ row'[s].verdict \in Verdicts
    BY <1>1, <1>6 DEF LeaseExpires, IInv, TypeOK, Row
  <1> QED
    BY <1>2, <1>3, <1>4, <1>5, <1>6
       DEF Next, People, ModeratorDecides, PlayerAppeals, PlayerDeletes, Verifying, Analyse,
           Act, Crash, vars

\* So no late failure, skip or second pass takes a verdict back.
THEOREM VerdictStays == Spec => VerdictIsKept
  <1>1. IInv /\ [Next]_vars =>
          [\A s \in Submissions : row[s].state = "complete" =>
             row'[s].state = "complete" /\ row'[s].verdict \in Verdicts]_vars
    BY VerdictStep
  <1> QED
    BY <1>1, Inductive, PTL DEF Spec, VerdictIsKept

=============================================================================
