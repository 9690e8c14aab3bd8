-------------------------- MODULE ReviewOutboxProofs --------------------------
(***************************************************************************)
(* Theorems about SubmissionReview, and about the Outbox that announces    *)
(* what a review has decided, for every value of their constants.          *)
(*                                                                         *)
(* None of the invariants of SubmissionReview is inductive alone.  What    *)
(* makes them so is that the guard a transaction checked when it locked    *)
(* its row still holds at every later step of it (GuardsHold), which in    *)
(* turn rests on the locks being exclusive and on the row being what the   *)
(* transaction read.                                                       *)
(*                                                                         *)
(* No event the Outbox acknowledged is lost, because a publisher           *)
(* acknowledges only after its batch was added, and since then a job of    *)
(* the batch can have been forgotten only because it completed, which it   *)
(* does only when its event is recorded (JobsFit).                         *)
(***************************************************************************)
EXTENDS SubmissionReview, Outbox, FiniteSetTheorems, TLAPS

\* The guard of an open transaction still holds of the row it locked.
GuardsHold ==
  \A c \in Clients : txn[c] # Idle =>
    LET s == sub[txn[c].on] IN
    /\ txn[c].op = "create" => quest[txn[c].on] = "assigned"
    /\ txn[c].op \in {"approve", "credit", "reject"} => Reviewable(s)
    /\ txn[c].op = "appeal" => Appealable(s)
    /\ txn[c].op = "visibility" => MayChange(s, txn[c].ask)

IInv ==
  /\ TypeOK
  /\ LocksExclusive
  /\ LockedReadsAreCurrent
  /\ GuardsHold
  /\ StatusesAgree
  /\ AwardFollowsPost
  /\ TakedownHolds

-----------------------------------------------------------------------------
\* GREATEST(0, m - n) of two naturals is a natural.
LEMMA MonusType == \A m, n \in Nat : Monus(m, n) \in Nat
  BY DEF Monus

\* A level computed from XP is a natural.
LEMMA LevelType == \A xp \in Nat : LevelOf(xp) \in Nat
  BY ReviewAssumption DEF LevelOf

\* A price is a natural.
LEMMA PriceType ==
  ASSUME NEW s \in Submission, NEW reward \in Rewards, NEW bonus \in Bonuses
  PROVE  Price(s, reward, bonus) \in Nat
  <1>1. reward \in Nat /\ bonus \in Nat
    BY ReviewAssumption
  <1>2. s.recommended \in Nat \cup {NullXp}
    BY DEF Submission
  <1> QED
    BY <1>1, <1>2 DEF Price, NullXp

\* A balance with an award added or taken back is a balance.
LEMMA CreditType ==
  ASSUME NEW p \in Profile, NEW n \in Nat
  PROVE  Credited(p, n) \in Profile /\ Debited(p, n) \in Profile
  <1>1. p.xp \in Nat /\ p.completed \in Nat
    BY DEF Profile
  <1>2. p.xp + n \in Nat /\ p.completed + 1 \in Nat
    BY <1>1
  <1>3. Monus(p.xp, n) \in Nat /\ Monus(p.completed, 1) \in Nat
    BY <1>1, MonusType
  <1>4. LevelOf(p.xp + n) \in Nat /\ LevelOf(Monus(p.xp, n)) \in Nat
    BY <1>2, <1>3, LevelType
  <1> QED
    BY <1>2, <1>3, <1>4 DEF Credited, Debited, Profile

\* A submission moved to another visibility is a submission.
LEMMA MovedType ==
  ASSUME NEW s \in Submission, NEW ask \in Ask
  PROVE  Moved(s, ask) \in Submission
  BY DEF Moved, Submission, Target, Ask, Visibility, Revokes, Restores

\* An open transaction has the type of one, and is not idle.
LEMMA OpenTxn ==
  ASSUME TypeOK, NEW c \in Clients, txn[c] # Idle
  PROVE  txn[c] \in Txn
  BY DEF TypeOK

LEMMA TxnNotIdle == Idle \notin Txn
  BY DEF Idle, Txn

-----------------------------------------------------------------------------
\* The first state has the types.
LEMMA InitInv == Init => IInv
  <1> SUFFICES ASSUME Init PROVE IInv
    OBVIOUS
  <1>1. NewProfile \in Profile
    BY DEF NewProfile, Profile
  <1>2. [NewSubmission EXCEPT !.status = "absent"] \in Submission
    BY DEF NewSubmission, Submission, SubmissionStatus, Visibility, NullXp
  <1>3. TypeOK
    BY <1>1, <1>2 DEF Init, TypeOK, QuestStatus
  <1>4. \A c \in Clients : txn[c] = Idle
    BY DEF Init
  <1>5. \A a \in Assignments : /\ sub[a].status = "absent" /\ ~sub[a].awarded
                               /\ ~sub[a].moderationRemoved /\ quest[a] = "unassigned"
    BY DEF Init, NewSubmission
  <1>6. LocksExclusive /\ LockedReadsAreCurrent /\ GuardsHold
    BY <1>4 DEF LocksExclusive, LockedReadsAreCurrent, GuardsHold
  <1>7. StatusesAgree /\ AwardFollowsPost /\ TakedownHolds
    BY <1>5 DEF StatusesAgree, AwardFollowsPost, TakedownHolds
  <1> QED
    BY <1>3, <1>6, <1>7 DEF IInv

\* Locking a row: nothing but the list of open transactions changes, and the
\* new one has read the row as it is.
LEMMA BeginInv ==
  ASSUME IInv, NEW c \in Clients, NEW a \in Assignments,
         NEW op \in {"create", "appeal", "approve", "reject", "visibility"},
         NEW award \in Nat, NEW ask \in Ask,
         Begin(c, op, a, award, ask),
         op = "create" => quest[a] = "assigned",
         op \in {"approve", "reject"} => Reviewable(sub[a]),
         op = "appeal" => Appealable(sub[a]),
         op = "visibility" => MayChange(sub[a], ask)
  PROVE  IInv'
  <1> DEFINE t == [op |-> op, on |-> a, seen |-> sub[a], old |-> NewProfile,
                   award |-> award, ask |-> ask]
  <1> USE DEF IInv
  <1>1. /\ txn' = [txn EXCEPT ![c] = t] /\ txn[c] = Idle
        /\ UNCHANGED <<quest, sub, profile, edited>>
    BY DEF Begin
  <1>2. t \in Txn /\ t # Idle
    BY DEF Txn, TypeOK, NewProfile, Profile, Idle
  <1>3. TypeOK'
    BY <1>1, <1>2 DEF TypeOK
  <1>4. txn'[c] = t /\ \A d \in Clients \ {c} : txn'[d] = txn[d]
    BY <1>1 DEF TypeOK
  <1>5. \A d \in Clients : txn[d] # Idle => txn[d].on # a
    BY DEF Begin, RowLocked
  <1>6. LocksExclusive'
    BY <1>2, <1>4, <1>5 DEF LocksExclusive
  <1>7. LockedReadsAreCurrent'
    BY <1>1, <1>2, <1>4 DEF LockedReadsAreCurrent
  <1>8. GuardsHold'
    BY <1>1, <1>2, <1>4 DEF GuardsHold, Reviewable, Appealable, MayChange
  <1>9. StatusesAgree' /\ AwardFollowsPost' /\ TakedownHolds'
    BY <1>1 DEF StatusesAgree, AwardFollowsPost, TakedownHolds
  <1> QED
    BY <1>3, <1>6, <1>7, <1>8, <1>9

\* What StatusesAgree, AwardFollowsPost and TakedownHolds say of one row.
RowOK(q, s) ==
  /\ q \in {"unassigned", "assigned", "expired", "abandoned"} <=> s.status = "absent"
  /\ q = "submitted" <=> s.status = "pending"
  /\ q \in {"approved", "rejected"} => s.status = q
  /\ s.awarded <=> s.status = "approved" /\ s.visibility # "deleted"
  /\ s.moderationRemoved => s.visibility = "deleted"

LEMMA RowsOK ==
  (StatusesAgree /\ AwardFollowsPost /\ TakedownHolds)
    <=> \A a \in Assignments : RowOK(quest[a], sub[a])
  BY DEF StatusesAgree, AwardFollowsPost, TakedownHolds, RowOK

\* A commit: one row and one balance are written, and the lock is released.
LEMMA CommitInv ==
  ASSUME IInv, NEW c \in Clients, txn[c] # Idle,
         NEW q \in QuestStatus, NEW s \in Submission,
         quest' = [quest EXCEPT ![txn[c].on] = q],
         sub' = [sub EXCEPT ![txn[c].on] = s],
         RowOK(q, s),
         profile' \in [Users -> Profile],
         \A d \in Clients \ {c} : txn[d] # Idle /\ txn[d].op = "credit" =>
           profile'[Owner[txn[d].on]] = profile[Owner[txn[d].on]],
         End(c), edited' = edited
  PROVE  IInv'
  <1> USE DEF IInv
  <1> DEFINE a == txn[c].on
  <1>1. a \in Assignments /\ txn[c] \in Txn
    BY OpenTxn DEF Txn
  <1>2. TypeOK'
    BY <1>1 DEF TypeOK, End
  <1>3. txn'[c] = Idle /\ \A d \in Clients \ {c} : txn'[d] = txn[d]
    BY DEF End, TypeOK
  <1>4. \A d \in Clients \ {c} : txn[d] # Idle => txn[d] \in Txn /\ txn[d].on # a
    BY OpenTxn DEF LocksExclusive
  <1>5. \A d \in Clients \ {c} : txn[d] # Idle =>
           sub'[txn[d].on] = sub[txn[d].on] /\ quest'[txn[d].on] = quest[txn[d].on]
    <2> SUFFICES ASSUME NEW d \in Clients \ {c}, txn[d] # Idle
                 PROVE  sub'[txn[d].on] = sub[txn[d].on] /\ quest'[txn[d].on] = quest[txn[d].on]
      OBVIOUS
    <2>1. txn[d].on \in Assignments
      BY <1>4 DEF Txn
    <2> QED
      BY <1>4, <2>1 DEF TypeOK
  <1>6. LocksExclusive'
    BY <1>3 DEF LocksExclusive
  <1>7. LockedReadsAreCurrent'
    BY <1>3, <1>5 DEF LockedReadsAreCurrent
  <1>8. GuardsHold'
    BY <1>3, <1>5 DEF GuardsHold, Reviewable, Appealable, MayChange
  <1>9. \A b \in Assignments : RowOK(quest'[b], sub'[b])
    <2>1. RowOK(quest'[a], sub'[a])
      BY <1>1 DEF TypeOK
    <2>2. \A b \in Assignments \ {a} : quest'[b] = quest[b] /\ sub'[b] = sub[b]
      BY DEF TypeOK
    <2> QED
      BY <2>1, <2>2, RowsOK
  <1>10. (StatusesAgree /\ AwardFollowsPost /\ TakedownHolds)'
    BY <1>9 DEF StatusesAgree, AwardFollowsPost, TakedownHolds, RowOK
  <1> QED
    BY <1>2, <1>6, <1>7, <1>8, <1>10

LEMMA CreateCommitInv ==
  ASSUME IInv, NEW c \in Clients, CreateCommit(c)
  PROVE  IInv'
  <1>1. txn[c] # Idle /\ txn[c].op = "create" /\ End(c)
    BY DEF CreateCommit, Holds
  <1>2. NewSubmission \in Submission /\ RowOK("submitted", NewSubmission)
    BY DEF NewSubmission, Submission, SubmissionStatus, Visibility, NullXp, RowOK
  <1>3. profile' = profile /\ edited' = edited /\ profile \in [Users -> Profile]
    BY DEF CreateCommit, IInv, TypeOK
  <1>4. /\ quest' = [quest EXCEPT ![txn[c].on] = "submitted"]
        /\ sub' = [sub EXCEPT ![txn[c].on] = NewSubmission]
    BY DEF CreateCommit
  <1> QED
    BY <1>1, <1>2, <1>3, <1>4, CommitInv DEF QuestStatus

LEMMA RejectCommitInv ==
  ASSUME IInv, NEW c \in Clients, RejectCommit(c)
  PROVE  IInv'
  <1> DEFINE a == txn[c].on
             s == [sub[a] EXCEPT !.status = "rejected"]
  <1>1. txn[c] # Idle /\ txn[c].op = "reject" /\ End(c) /\ a \in Assignments
    BY OpenTxn DEF RejectCommit, Holds, IInv, Txn
  <1>2. Reviewable(sub[a]) /\ RowOK(quest[a], sub[a]) /\ sub[a] \in Submission
    BY <1>1, RowsOK DEF IInv, GuardsHold, TypeOK
  <1>3. s \in Submission /\ RowOK("rejected", s)
    BY <1>2 DEF Submission, SubmissionStatus, RowOK, Reviewable
  <1>4. profile' = profile /\ edited' = edited /\ profile \in [Users -> Profile]
    BY DEF RejectCommit, IInv, TypeOK
  <1>5. quest' = [quest EXCEPT ![a] = "rejected"] /\ sub' = [sub EXCEPT ![a] = s]
    BY <1>1 DEF RejectCommit, IInv, TypeOK
  <1> QED
    BY <1>1, <1>3, <1>4, <1>5, CommitInv DEF QuestStatus

LEMMA AppealCommitInv ==
  ASSUME IInv, NEW c \in Clients, AppealCommit(c)
  PROVE  IInv'
  <1> DEFINE a == txn[c].on
             s == [sub[a] EXCEPT !.status = "pending", !.appealed = TRUE]
  <1>1. txn[c] # Idle /\ txn[c].op = "appeal" /\ End(c) /\ a \in Assignments
    BY OpenTxn DEF AppealCommit, Holds, IInv, Txn
  <1>2. Appealable(sub[a]) /\ RowOK(quest[a], sub[a]) /\ sub[a] \in Submission
    BY <1>1, RowsOK DEF IInv, GuardsHold, TypeOK
  <1>3. s \in Submission /\ RowOK("submitted", s)
    BY <1>2 DEF Submission, SubmissionStatus, RowOK, Appealable
  <1>4. profile' = profile /\ edited' = edited /\ profile \in [Users -> Profile]
    BY DEF AppealCommit, IInv, TypeOK
  <1>5. quest' = [quest EXCEPT ![a] = "submitted"] /\ sub' = [sub EXCEPT ![a] = s]
    BY <1>1 DEF AppealCommit, IInv, TypeOK
  <1> QED
    BY <1>1, <1>3, <1>4, <1>5, CommitInv DEF QuestStatus

\* The award: no other transaction holds this player's balance.
LEMMA ApproveCommitInv ==
  ASSUME IInv, NEW c \in Clients, ApproveCommit(c)
  PROVE  IInv'
  <1> DEFINE a == txn[c].on
             u == Owner[a]
             s == [sub[a] EXCEPT !.status = "approved", !.awarded = TRUE,
                                 !.amount = txn[c].award]
  <1>1. /\ txn[c] # Idle /\ txn[c].op = "credit" /\ End(c)
        /\ a \in Assignments /\ u \in Users /\ txn[c].award \in Nat
    BY OpenTxn, ReviewAssumption DEF ApproveCommit, Holds, IInv, Txn
  <1>2. Reviewable(sub[a]) /\ RowOK(quest[a], sub[a]) /\ sub[a] \in Submission
    BY <1>1, RowsOK DEF IInv, GuardsHold, TypeOK
  <1>3. s \in Submission /\ RowOK("approved", s)
    BY <1>1, <1>2 DEF Submission, SubmissionStatus, RowOK, Reviewable
  <1>4. quest' = [quest EXCEPT ![a] = "approved"] /\ sub' = [sub EXCEPT ![a] = s]
    BY <1>1 DEF ApproveCommit, IInv, TypeOK
  <1>5. /\ profile \in [Users -> Profile] /\ edited' = edited
        /\ profile' = [profile EXCEPT ![u] = Credited(profile[u], txn[c].award)]
    BY DEF ApproveCommit, IInv, TypeOK
  <1>6. profile' \in [Users -> Profile]
    BY <1>1, <1>5, CreditType
  <1>7. \A d \in Clients \ {c} : txn[d] # Idle /\ txn[d].op = "credit" =>
           profile'[Owner[txn[d].on]] = profile[Owner[txn[d].on]]
    <2> SUFFICES ASSUME NEW d \in Clients \ {c}, txn[d] # Idle, txn[d].op = "credit"
                 PROVE  profile'[Owner[txn[d].on]] = profile[Owner[txn[d].on]]
      OBVIOUS
    <2>1. Owner[txn[d].on] # u /\ Owner[txn[d].on] \in Users
      BY <1>1, OpenTxn, ReviewAssumption DEF IInv, LocksExclusive, Txn
    <2> QED
      BY <1>5, <2>1
  <1> QED
    BY <1>1, <1>3, <1>4, <1>5, <1>6, <1>7, CommitInv DEF QuestStatus

\* A visibility change: the award moves with the post.
LEMMA VisibilityCommitInv ==
  ASSUME IInv, NEW c \in Clients, VisibilityCommit(c)
  PROVE  IInv'
  <1> DEFINE a == txn[c].on
             u == Owner[a]
             old == txn[c].seen
             ask == txn[c].ask
             s == Moved(old, ask)
  <1>1. /\ txn[c] # Idle /\ txn[c].op = "visibility" /\ End(c)
        /\ a \in Assignments /\ u \in Users /\ ask \in Ask /\ old \in Submission
    BY OpenTxn, ReviewAssumption DEF VisibilityCommit, Holds, IInv, Txn
  <1>2. MayChange(sub[a], ask) /\ RowOK(quest[a], sub[a]) /\ old = sub[a]
    BY <1>1, RowsOK DEF IInv, GuardsHold, TypeOK, LockedReadsAreCurrent
  <1>3. s \in Submission
    BY <1>1, MovedType
  <1>4. RowOK(quest[a], s)
    BY <1>1, <1>2 DEF Submission, Ask, Target, RowOK, MayChange, Moved, Revokes, Restores
  <1>5. /\ quest[a] \in QuestStatus /\ quest' = [quest EXCEPT ![a] = quest[a]]
        /\ sub' = [sub EXCEPT ![a] = s]
    BY <1>1 DEF VisibilityCommit, IInv, TypeOK
  <1>6. /\ profile \in [Users -> Profile] /\ edited' = edited
        /\ profile' = [profile EXCEPT ![u] =
                         IF Revokes(old, ask) THEN Debited(profile[u], old.amount)
                         ELSE IF Restores(old, ask) THEN Credited(profile[u], old.amount)
                         ELSE profile[u]]
        /\ Revokes(old, ask) \/ Restores(old, ask) => ~ProfileLocked(u)
    BY <1>1 DEF VisibilityCommit, IInv, TypeOK
  <1>7. profile' \in [Users -> Profile]
    <2>1. old.amount \in Nat /\ profile[u] \in Profile
      BY <1>1, <1>6 DEF Submission
    <2>2. Debited(profile[u], old.amount) \in Profile /\ Credited(profile[u], old.amount) \in Profile
      BY <2>1, CreditType
    <2> QED
      BY <1>6, <2>1, <2>2
  <1>8. \A d \in Clients \ {c} : txn[d] # Idle /\ txn[d].op = "credit" =>
           profile'[Owner[txn[d].on]] = profile[Owner[txn[d].on]]
    <2> SUFFICES ASSUME NEW d \in Clients \ {c}, txn[d] # Idle, txn[d].op = "credit"
                 PROVE  profile'[Owner[txn[d].on]] = profile[Owner[txn[d].on]]
      OBVIOUS
    <2>1. Owner[txn[d].on] \in Users
      BY OpenTxn, ReviewAssumption DEF IInv, Txn
    <2>2. CASE Owner[txn[d].on] = u
      BY <1>6, <2>1, <2>2 DEF ProfileLocked
    <2>3. CASE Owner[txn[d].on] # u
      BY <1>6, <2>1, <2>3
    <2> QED
      BY <2>2, <2>3
  <1> QED
    BY <1>1, <1>3, <1>4, <1>5, <1>6, <1>7, <1>8, CommitInv

\* One UPDATE of a row nobody holds.
LEMMA RowWriteInv ==
  ASSUME IInv, NEW a \in Assignments, ~RowLocked(a),
         NEW q \in QuestStatus, NEW s \in Submission, RowOK(q, s),
         quest' = [quest EXCEPT ![a] = q], sub' = [sub EXCEPT ![a] = s],
         UNCHANGED <<profile, txn, edited>>
  PROVE  IInv'
  <1> USE DEF IInv
  <1>1. TypeOK'
    BY DEF TypeOK
  <1>2. \A d \in Clients : txn[d] # Idle =>
           sub'[txn[d].on] = sub[txn[d].on] /\ quest'[txn[d].on] = quest[txn[d].on]
    <2> SUFFICES ASSUME NEW d \in Clients, txn[d] # Idle
                 PROVE  sub'[txn[d].on] = sub[txn[d].on] /\ quest'[txn[d].on] = quest[txn[d].on]
      OBVIOUS
    <2>1. txn[d].on \in Assignments /\ txn[d].on # a
      BY OpenTxn DEF Txn, RowLocked
    <2> QED
      BY <2>1 DEF TypeOK
  <1>3. LocksExclusive'
    BY DEF LocksExclusive
  <1>4. LockedReadsAreCurrent'
    BY <1>2 DEF LockedReadsAreCurrent
  <1>5. GuardsHold'
    BY <1>2 DEF GuardsHold, Reviewable, Appealable, MayChange
  <1>6. \A b \in Assignments : RowOK(quest'[b], sub'[b])
    <2>1. RowOK(quest'[a], sub'[a])
      BY DEF TypeOK
    <2>2. \A b \in Assignments \ {a} : quest'[b] = quest[b] /\ sub'[b] = sub[b]
      BY DEF TypeOK
    <2> QED
      BY <2>1, <2>2, RowsOK
  <1>7. (StatusesAgree /\ AwardFollowsPost /\ TakedownHolds)'
    BY <1>6 DEF StatusesAgree, AwardFollowsPost, TakedownHolds, RowOK
  <1> QED
    BY <1>1, <1>3, <1>4, <1>5, <1>7

\* A new assignment: no transaction can hold a row that was not there.
LEMMA AssignInv ==
  ASSUME IInv, NEW a \in Assignments, Assign(a)
  PROVE  IInv'
  <1>1. /\ quest[a] = "unassigned" /\ quest' = [quest EXCEPT ![a] = "assigned"]
        /\ UNCHANGED <<profile, txn, edited>>
    BY DEF Assign
  <1>2. sub[a] \in Submission /\ sub' = [sub EXCEPT ![a] = sub[a]]
    BY DEF Assign, IInv, TypeOK
  <1>3. RowOK(quest[a], sub[a])
    BY RowsOK DEF IInv
  <1>4. RowOK("assigned", sub[a])
    BY <1>1, <1>3 DEF RowOK
  <1>5. ~RowLocked(a)
    <2> SUFFICES ASSUME NEW c \in Clients, txn[c] # Idle, txn[c].on = a
                 PROVE  FALSE
      BY DEF RowLocked
    <2>1. txn[c] \in Txn
      BY OpenTxn DEF IInv
    <2>2. sub[a].status = "absent"
      BY <1>1, <1>3 DEF RowOK
    <2> QED
      BY <1>1, <2>1, <2>2 DEF IInv, GuardsHold, Txn, Reviewable, Appealable, MayChange
  <1> QED
    BY <1>1, <1>2, <1>4, <1>5, RowWriteInv DEF QuestStatus

LEMMA EndAssignmentInv ==
  ASSUME IInv, NEW a \in Assignments, NEW status \in {"expired", "abandoned"},
         EndAssignment(a, status)
  PROVE  IInv'
  <1>1. /\ quest[a] = "assigned" /\ ~RowLocked(a)
        /\ quest' = [quest EXCEPT ![a] = status] /\ UNCHANGED <<profile, txn, edited>>
    BY DEF EndAssignment
  <1>2. sub[a] \in Submission /\ sub' = [sub EXCEPT ![a] = sub[a]]
    BY DEF EndAssignment, IInv, TypeOK
  <1>3. RowOK(status, sub[a]) /\ status \in QuestStatus
    BY <1>1, RowsOK DEF IInv, RowOK, QuestStatus
  <1> QED
    BY <1>1, <1>2, <1>3, RowWriteInv

LEMMA StoreRecommendedXpInv ==
  ASSUME IInv, NEW a \in Assignments, NEW xp \in Recommendations, StoreRecommendedXp(a, xp)
  PROVE  IInv'
  <1> DEFINE s == [sub[a] EXCEPT !.recommended = xp]
  <1>1. ~RowLocked(a) /\ UNCHANGED <<profile, txn, edited>> /\ xp \in Nat
    BY ReviewAssumption DEF StoreRecommendedXp
  <1>2. /\ sub[a] \in Submission /\ sub' = [sub EXCEPT ![a] = s]
        /\ quest[a] \in QuestStatus /\ quest' = [quest EXCEPT ![a] = quest[a]]
    BY DEF StoreRecommendedXp, IInv, TypeOK
  <1>3. s \in Submission /\ RowOK(quest[a], s)
    BY <1>1, <1>2, RowsOK DEF IInv, RowOK, Submission
  <1> QED
    BY <1>1, <1>2, <1>3, RowWriteInv

\* One UPDATE of a balance nobody holds.
LEMMA BalanceWriteInv ==
  ASSUME IInv, NEW u \in Users, NEW p \in Profile, ~ProfileLocked(u),
         NEW how \in {"set", "typed"},
         profile' = [profile EXCEPT ![u] = p], edited' = [edited EXCEPT ![u] = how],
         UNCHANGED <<quest, sub, txn>>
  PROVE  IInv'
  <1> USE DEF IInv
  <1>1. TypeOK'
    BY DEF TypeOK
  <1>2. \A d \in Clients : txn[d] # Idle /\ txn[d].op = "credit" =>
           profile'[Owner[txn[d].on]] = profile[Owner[txn[d].on]]
    <2> SUFFICES ASSUME NEW d \in Clients, txn[d] # Idle, txn[d].op = "credit"
                 PROVE  profile'[Owner[txn[d].on]] = profile[Owner[txn[d].on]]
      OBVIOUS
    <2>1. Owner[txn[d].on] \in Users /\ Owner[txn[d].on] # u
      BY OpenTxn, ReviewAssumption DEF Txn, ProfileLocked
    <2> QED
      BY <2>1 DEF TypeOK
  <1>3. LocksExclusive' /\ GuardsHold'
    BY DEF LocksExclusive, GuardsHold, Reviewable, Appealable, MayChange
  <1>4. LockedReadsAreCurrent'
    BY <1>2 DEF LockedReadsAreCurrent
  <1>5. (StatusesAgree /\ AwardFollowsPost /\ TakedownHolds)'
    BY DEF StatusesAgree, AwardFollowsPost, TakedownHolds
  <1> QED
    BY <1>1, <1>3, <1>4, <1>5

LEMMA SetXpInv ==
  ASSUME IInv, NEW u \in Users, NEW xp \in EditXp, NEW completed \in EditCounts,
         SetXp(u, xp, completed)
  PROVE  IInv'
  <1> DEFINE p == [xp |-> xp, completed |-> completed, level |-> LevelOf(xp)]
  <1>1. p \in Profile
    BY ReviewAssumption, LevelType DEF Profile
  <1> QED
    BY <1>1, BalanceWriteInv DEF SetXp

LEMMA UpdateUserProfileInv ==
  ASSUME IInv, NEW u \in Users, NEW p \in Typed(u), UpdateUserProfile(u, p)
  PROVE  IInv'
  <1>1. p \in Profile
    BY ReviewAssumption DEF Typed, Profile, IInv, TypeOK
  <1> QED
    BY <1>1, BalanceWriteInv DEF UpdateUserProfile

\* approve takes the second lock: it now holds the balance it read.
LEMMA ApproveLockProfileInv ==
  ASSUME IInv, NEW c \in Clients, ApproveLockProfile(c)
  PROVE  IInv'
  <1> USE DEF IInv
  <1> DEFINE u == Owner[txn[c].on]
             t == [txn[c] EXCEPT !.op = "credit", !.old = profile[u]]
  <1>1. /\ txn[c] \in Txn /\ txn[c] # Idle /\ txn[c].op = "approve"
        /\ ~ProfileLocked(u) /\ u \in Users
    BY OpenTxn, ReviewAssumption DEF ApproveLockProfile, Holds, Txn
  <1>2. txn' = [txn EXCEPT ![c] = t] /\ UNCHANGED <<quest, sub, profile, edited>>
    BY DEF ApproveLockProfile, TypeOK
  <1>3. /\ t \in Txn /\ t.on = txn[c].on /\ t.seen = txn[c].seen /\ t.op = "credit"
        /\ t.old = profile[u]
    BY <1>1 DEF Txn, TypeOK
  <1>4. t # Idle
    BY <1>3, TxnNotIdle
  <1>5. txn'[c] = t /\ \A d \in Clients \ {c} : txn'[d] = txn[d]
    BY <1>2 DEF TypeOK
  <1>6. TypeOK'
    BY <1>2, <1>3 DEF TypeOK
  <1>7. LocksExclusive'
    <2>1. \A d \in Clients \ {c} : txn[d] # Idle =>
             /\ txn[d].on # t.on
             /\ txn[d].op = "credit" => Owner[txn[d].on] # Owner[t.on]
      BY <1>1, <1>3 DEF LocksExclusive, ProfileLocked
    <2>2. \A d \in Clients \ {c} : txn'[d] # Idle =>
             /\ txn'[d].on # txn'[c].on
             /\ txn'[d].op = "credit" => Owner[txn'[d].on] # Owner[txn'[c].on]
      BY <1>5, <2>1
    <2>3. \A d, e \in Clients \ {c} : d # e /\ txn'[d] # Idle /\ txn'[e] # Idle =>
             /\ txn'[d].on # txn'[e].on
             /\ txn'[d].op = "credit" /\ txn'[e].op = "credit" =>
                  Owner[txn'[d].on] # Owner[txn'[e].on]
      BY <1>5 DEF LocksExclusive
    <2> QED
      BY <2>2, <2>3 DEF LocksExclusive
  <1>8. LockedReadsAreCurrent'
    BY <1>1, <1>2, <1>3, <1>5 DEF LockedReadsAreCurrent
  <1>9. GuardsHold'
    BY <1>1, <1>2, <1>3, <1>5 DEF GuardsHold, Reviewable, Appealable, MayChange
  <1>10. StatusesAgree' /\ AwardFollowsPost' /\ TakedownHolds'
    BY <1>2 DEF StatusesAgree, AwardFollowsPost, TakedownHolds
  <1> QED
    BY <1>6, <1>7, <1>8, <1>9, <1>10

LEMMA AbortInv ==
  ASSUME IInv, NEW c \in Clients, Abort(c)
  PROVE  IInv'
  <1> USE DEF IInv
  <1>1. UNCHANGED <<quest, sub, profile, edited>> /\ txn' = [txn EXCEPT ![c] = Idle]
    BY DEF Abort, End
  <1>2. txn'[c] = Idle /\ \A d \in Clients \ {c} : txn'[d] = txn[d]
    BY <1>1 DEF TypeOK
  <1>3. TypeOK'
    BY <1>1 DEF TypeOK
  <1>4. LocksExclusive' /\ LockedReadsAreCurrent'
    BY <1>1, <1>2 DEF LocksExclusive, LockedReadsAreCurrent
  <1>5. GuardsHold'
    BY <1>1, <1>2 DEF GuardsHold, Reviewable, Appealable, MayChange
  <1>6. StatusesAgree' /\ AwardFollowsPost' /\ TakedownHolds'
    BY <1>1 DEF StatusesAgree, AwardFollowsPost, TakedownHolds
  <1> QED
    BY <1>3, <1>4, <1>5, <1>6

-----------------------------------------------------------------------------
\* Every step preserves the inductive invariant.
LEMMA NextInv == IInv /\ [Next]_vars => IInv'
  <1> SUFFICES ASSUME IInv, [Next]_vars PROVE IInv'
    OBVIOUS
  <1>1. CASE Intake
    <2>1. ASSUME NEW c \in Clients, NEW a \in Assignments, CreateLock(c, a) PROVE IInv'
      BY <2>1, BeginInv DEF CreateLock, CanSubmit, Ask, Visibility
    <2> QED
      BY <1>1, <2>1, AssignInv, CreateCommitInv, EndAssignmentInv DEF Intake
  <1>2. CASE Review
    <2>1. ASSUME NEW c \in Clients, NEW a \in Assignments, NEW reward \in Rewards,
                 NEW bonus \in Bonuses, ApproveLock(c, a, reward, bonus)
          PROVE  IInv'
      <3>1. sub[a] \in Submission
        BY DEF IInv, TypeOK
      <3>2. Price(sub[a], reward, bonus) \in Nat
        BY <3>1, PriceType
      <3> QED
        BY <2>1, <3>2, BeginInv DEF ApproveLock, Ask, Visibility
    <2>2. ASSUME NEW c \in Clients, NEW a \in Assignments, RejectLock(c, a) PROVE IInv'
      BY <2>2, BeginInv DEF RejectLock, Ask, Visibility
    <2>3. ASSUME NEW c \in Clients, NEW a \in Assignments, AppealLock(c, a) PROVE IInv'
      BY <2>3, BeginInv DEF AppealLock, Ask, Visibility
    <2> QED
      BY <1>2, <2>1, <2>2, <2>3, ApproveLockProfileInv, ApproveCommitInv, RejectCommitInv,
         AppealCommitInv, StoreRecommendedXpInv DEF Review
  <1>3. CASE Moderation
    <2>1. ASSUME NEW c \in Clients, NEW a \in Assignments, NEW ask \in Ask,
                 VisibilityLock(c, a, ask)
          PROVE  IInv'
      BY <2>1, BeginInv DEF VisibilityLock
    <2> QED
      BY <1>3, <2>1, VisibilityCommitInv DEF Moderation
  <1>4. CASE Administration
    BY <1>4, SetXpInv, UpdateUserProfileInv DEF Administration
  <1>5. ASSUME NEW c \in Clients, Abort(c) PROVE IInv'
    BY <1>5, AbortInv
  <1>6. CASE UNCHANGED vars
    BY <1>6 DEF vars, IInv, TypeOK, LocksExclusive, LockedReadsAreCurrent, GuardsHold, Reviewable,
                Appealable, MayChange, StatusesAgree, AwardFollowsPost, TakedownHolds
  <1> QED
    BY <1>1, <1>2, <1>3, <1>4, <1>5, <1>6 DEF Next

\* The inductive invariant holds in every reachable state.
LEMMA Inductive == Spec => []IInv
  BY InitInv, NextInv, PTL DEF Spec

\* Every variable keeps its type.
THEOREM TypeCorrect == Spec => []TypeOK
  BY Inductive, PTL DEF IInv

\* Transactions never overlap on a row.
THEOREM LockingIsSound == Spec => []LocksExclusive
  BY Inductive, PTL DEF IInv

\* What a transaction read under its lock is what the row holds when it
\* writes: the guards of approve, reject, appeal and setVisibility are
\* checked on current data.
THEOREM ReadsAreCurrent == Spec => []LockedReadsAreCurrent
  BY Inductive, PTL DEF IInv

\* XP is held for a post exactly while it is approved and not deleted.
THEOREM AwardIsSound == Spec => []AwardFollowsPost
  BY Inductive, PTL DEF IInv

\* The two rows of an assignment agree, whoever wrote last.
THEOREM RowsAreSound == Spec => []StatusesAgree
  BY Inductive, PTL DEF IInv

\* A post a moderator removed stays deleted.
THEOREM TakedownsHold == Spec => []TakedownHolds
  BY Inductive, PTL DEF IInv

-----------------------------------------------------------------------------
(* What a step may do to decisions, and the refinement of AwardLedger.     *)

\* Approval, its amount, and a re-rejection are final, and nothing is decided
\* about a deleted post.
THEOREM DecisionsFinal == Spec => DecisionsAreFinal
  <1> DEFINE Final(a) ==
        /\ sub[a].status = "approved" =>
             sub'[a].status = "approved" /\ sub'[a].amount = sub[a].amount
        /\ sub[a].status = "rejected" /\ sub[a].appealed => sub'[a].status = "rejected"
        /\ sub'[a].status # sub[a].status => sub'[a].visibility # "deleted"
  <1>1. ASSUME IInv, NEW c \in Clients, txn[c] # Idle,
               txn[c].op \in {"create", "credit", "reject", "appeal", "visibility"},
               CreateCommit(c) \/ ApproveCommit(c) \/ RejectCommit(c) \/ AppealCommit(c)
                 \/ VisibilityCommit(c)
        PROVE  \A a \in Assignments : Final(a)
    <2> DEFINE b == txn[c].on
    <2>1. /\ b \in Assignments /\ sub[b] \in Submission /\ txn[c].seen = sub[b]
          /\ RowOK(quest[b], sub[b])
      BY <1>1, OpenTxn, RowsOK DEF IInv, Txn, TypeOK, LockedReadsAreCurrent
    <2>2. \A a \in Assignments \ {b} : sub'[a] = sub[a]
      BY <1>1 DEF IInv, TypeOK, CreateCommit, ApproveCommit, RejectCommit, AppealCommit,
                  VisibilityCommit
    <2>3. CASE CreateCommit(c)
      <3>1. sub[b].status = "absent" /\ sub'[b] = NewSubmission
        BY <1>1, <2>1, <2>3 DEF IInv, TypeOK, GuardsHold, CreateCommit, Holds, RowOK
      <3> QED
        BY <2>2, <3>1 DEF NewSubmission
    <2>4. CASE ApproveCommit(c)
      <3>1. Reviewable(sub[b])
        BY <1>1, <2>4 DEF IInv, GuardsHold, ApproveCommit, Holds
      <3>2. sub'[b].visibility = sub[b].visibility
        BY <1>1, <2>1, <2>4 DEF IInv, TypeOK, ApproveCommit, Submission
      <3> QED
        BY <2>2, <3>1, <3>2 DEF Reviewable
    <2>5. CASE RejectCommit(c)
      <3>1. Reviewable(sub[b])
        BY <1>1, <2>5 DEF IInv, GuardsHold, RejectCommit, Holds
      <3>2. sub'[b].visibility = sub[b].visibility
        BY <1>1, <2>1, <2>5 DEF IInv, TypeOK, RejectCommit, Submission
      <3> QED
        BY <2>2, <3>1, <3>2 DEF Reviewable
    <2>6. CASE AppealCommit(c)
      <3>1. Appealable(sub[b])
        BY <1>1, <2>6 DEF IInv, GuardsHold, AppealCommit, Holds
      <3>2. sub'[b].visibility = sub[b].visibility
        BY <1>1, <2>1, <2>6 DEF IInv, TypeOK, AppealCommit, Submission
      <3> QED
        BY <2>2, <3>1, <3>2 DEF Appealable
    <2>7. CASE VisibilityCommit(c)
      <3>1. sub'[b].status = sub[b].status /\ sub'[b].amount = sub[b].amount
        BY <1>1, <2>1, <2>7 DEF IInv, TypeOK, VisibilityCommit, Moved, Submission
      <3> QED
        BY <2>2, <3>1
    <2> QED
      BY <1>1, <2>3, <2>4, <2>5, <2>6, <2>7
  <1>2. ASSUME IInv, NEW a \in Assignments, NEW xp \in Recommendations, StoreRecommendedXp(a, xp)
        PROVE  \A b \in Assignments : Final(b)
    BY <1>2 DEF StoreRecommendedXp, IInv, TypeOK, Submission
  <1>3. ASSUME UNCHANGED sub
        PROVE  \A a \in Assignments : Final(a)
    BY <1>3
  <1>4. IInv /\ [Next]_vars => [\A a \in Assignments : Final(a)]_vars
    <2> SUFFICES ASSUME IInv, [Next]_vars
                 PROVE  \A a \in Assignments : Final(a)
      OBVIOUS
    <2>1. CASE Intake
      <3>1. ASSUME NEW c \in Clients, CreateCommit(c) PROVE \A a \in Assignments : Final(a)
        BY <1>1, <3>1 DEF CreateCommit, Holds
      <3> QED
        BY <2>1, <1>3, <3>1 DEF Intake, Assign, CreateLock, Begin, EndAssignment
    <2>2. CASE Review
      <3>1. ASSUME NEW c \in Clients, ApproveCommit(c) PROVE \A a \in Assignments : Final(a)
        BY <1>1, <3>1 DEF ApproveCommit, Holds
      <3>2. ASSUME NEW c \in Clients, RejectCommit(c) PROVE \A a \in Assignments : Final(a)
        BY <1>1, <3>2 DEF RejectCommit, Holds
      <3>3. ASSUME NEW c \in Clients, AppealCommit(c) PROVE \A a \in Assignments : Final(a)
        BY <1>1, <3>3 DEF AppealCommit, Holds
      <3> QED
        BY <2>2, <1>2, <1>3, <3>1, <3>2, <3>3
           DEF Review, ApproveLock, RejectLock, AppealLock, Begin, ApproveLockProfile
    <2>3. CASE Moderation
      <3>1. ASSUME NEW c \in Clients, VisibilityCommit(c) PROVE \A a \in Assignments : Final(a)
        BY <1>1, <3>1 DEF VisibilityCommit, Holds
      <3> QED
        BY <2>3, <1>3, <3>1 DEF Moderation, VisibilityLock, Begin
    <2>4. CASE Administration
      BY <2>4, <1>3 DEF Administration, SetXp, UpdateUserProfile
    <2>5. ASSUME NEW c \in Clients, Abort(c) PROVE UNCHANGED sub
      BY <2>5 DEF Abort
    <2>6. CASE UNCHANGED vars
      BY <2>6, <1>3 DEF vars
    <2> QED
      BY <2>1, <2>2, <2>3, <2>4, <2>5, <2>6, <1>3 DEF Next
  <1> QED
    BY <1>4, Inductive, PTL DEF Spec, DecisionsAreFinal

-----------------------------------------------------------------------------
\* The substitution under which a submission is a prize of the ledger.
PriceOf == [a \in Assignments |-> IF sub[a].status = "approved" THEN sub[a].amount ELSE -1]
Paid == {a \in Assignments : sub[a].awarded}
BalanceOf == [u \in Users |-> [xp |-> profile[u].xp, completed |-> profile[u].completed]]

LEMMA LedgerVars == Ledger!ledger = <<PriceOf, Paid, BalanceOf>>
  BY DEF Ledger!ledger, PriceOf, Paid, BalanceOf

LEMMA LedgerInit == Init => Ledger!Init
  BY DEF Init, Ledger!Init, Ledger!Unpriced, NewSubmission, NewProfile

\* Nothing of a row the ledger sees has changed.
LEMMA SameLedger ==
  ASSUME IInv, profile' = profile,
         \A a \in Assignments : /\ sub'[a].awarded = sub[a].awarded
                                /\ sub'[a].amount = sub[a].amount
                                /\ sub'[a].status = "approved" <=> sub[a].status = "approved"
  PROVE  UNCHANGED Ledger!ledger
  <1>1. UNCHANGED PriceOf
    BY DEF PriceOf
  <1>2. UNCHANGED Paid
    BY DEF Paid
  <1>3. UNCHANGED BalanceOf
    BY DEF BalanceOf
  <1> QED
    BY <1>1, <1>2, <1>3 DEF Ledger!ledger, PriceOf, Paid, BalanceOf

\* A step of one prize is a step of the ledger.
LEMMA PrizeStep ==
  ASSUME NEW z \in Assignments, Ledger!Win(z) \/ Ledger!Revoke(z) \/ Ledger!Reinstate(z)
  PROVE  Ledger!Next
  BY DEF Ledger!Next

\* Approving is winning the prize.
LEMMA ApproveWins ==
  ASSUME IInv, NEW c \in Clients, ApproveCommit(c)
  PROVE  Ledger!Next
  <1>a. PICK a \in Assignments : a = txn[c].on
    BY OpenTxn DEF ApproveCommit, Holds, IInv, Txn
  <1> DEFINE u == Owner[a]
             n == txn[c].award
  <1>1. /\ txn[c] # Idle /\ a \in Assignments /\ u \in Users /\ n \in Nat
        /\ Reviewable(sub[a]) /\ RowOK(quest[a], sub[a]) /\ sub[a] \in Submission
    BY <1>a, OpenTxn, RowsOK, ReviewAssumption
       DEF ApproveCommit, Holds, IInv, Txn, GuardsHold, TypeOK
  <1>2. sub'[a].status = "approved" /\ sub'[a].awarded = TRUE /\ sub'[a].amount = n
    BY <1>a, <1>1 DEF ApproveCommit, IInv, TypeOK, Submission
  <1>3. \A b \in Assignments \ {a} : sub'[b] = sub[b]
    BY <1>a DEF ApproveCommit, IInv, TypeOK
  <1>4. PriceOf[a] = -1 /\ PriceOf' = [PriceOf EXCEPT ![a] = n] /\ PriceOf'[a] = n
    BY <1>1, <1>2, <1>3 DEF PriceOf, Reviewable
  <1>5. a \notin Paid /\ Paid' = Paid \cup {a}
    BY <1>1, <1>2, <1>3 DEF Paid, Reviewable, RowOK
  <1>6. BalanceOf' = [BalanceOf EXCEPT ![u] =
                        [xp |-> BalanceOf[u].xp + n, completed |-> BalanceOf[u].completed + 1]]
    <2>1. profile' = [profile EXCEPT ![u] = Credited(profile[u], n)]
          /\ profile \in [Users -> Profile]
      BY <1>a DEF ApproveCommit, IInv, TypeOK
    <2> QED
      BY <1>1, <2>1 DEF BalanceOf, Credited
  <1>7. Ledger!Win(a)
    BY <1>1, <1>4, <1>5, <1>6 DEF Ledger!Win, Ledger!Pay, Ledger!Unpriced, PriceOf, Paid, BalanceOf
  <1> QED
    BY <1>1, <1>7, PrizeStep

\* Deleting an awarded post revokes its prize, restoring an approved one
\* reinstates it, and every other change of visibility is no step at all.
LEMMA VisibilityMoves ==
  ASSUME IInv, NEW c \in Clients, VisibilityCommit(c)
  PROVE  Ledger!Next \/ UNCHANGED Ledger!ledger
  <1>a. PICK a \in Assignments : a = txn[c].on
    BY OpenTxn DEF VisibilityCommit, Holds, IInv, Txn
  <1> DEFINE u == Owner[a]
             s == sub[a]
             ask == txn[c].ask
  <1>1. /\ txn[c] # Idle /\ a \in Assignments /\ u \in Users /\ ask \in Ask
        /\ RowOK(quest[a], s) /\ s \in Submission /\ txn[c].seen = s /\ s.amount \in Nat
    BY <1>a, OpenTxn, RowsOK, ReviewAssumption
       DEF VisibilityCommit, Holds, IInv, Txn, TypeOK, LockedReadsAreCurrent, Submission
  <1>2. /\ sub'[a].status = s.status /\ sub'[a].amount = s.amount
        /\ sub'[a].awarded = ((s.awarded /\ ~Revokes(s, ask)) \/ Restores(s, ask))
    BY <1>a, <1>1 DEF VisibilityCommit, IInv, TypeOK, Submission, Moved
  <1>3. \A b \in Assignments \ {a} : sub'[b] = sub[b]
    BY <1>a DEF VisibilityCommit, IInv, TypeOK
  <1>4. PriceOf' = PriceOf
    BY <1>2, <1>3 DEF PriceOf
  <1>5. /\ profile \in [Users -> Profile]
        /\ profile' = [profile EXCEPT ![u] =
                         IF Revokes(s, ask) THEN Debited(profile[u], s.amount)
                         ELSE IF Restores(s, ask) THEN Credited(profile[u], s.amount)
                         ELSE profile[u]]
    BY <1>a, <1>1 DEF VisibilityCommit, IInv, TypeOK
  <1>6. s.awarded \in BOOLEAN
    BY <1>1 DEF Submission
  <1>7. CASE Revokes(s, ask)
    <2>1. a \in Paid /\ Paid' = Paid \ {a} /\ PriceOf[a] = s.amount
      BY <1>1, <1>2, <1>3, <1>7 DEF Paid, PriceOf, Revokes, Restores, RowOK
    <2>2. BalanceOf' = [BalanceOf EXCEPT ![u] =
                          [xp |-> Ledger!Less(BalanceOf[u].xp, s.amount),
                           completed |-> Ledger!Less(BalanceOf[u].completed, 1)]]
      BY <1>1, <1>5, <1>7 DEF BalanceOf, Debited, Monus, Ledger!Less
    <2>3. Ledger!Revoke(a)
      BY <1>4, <2>1, <2>2 DEF Ledger!Revoke, PriceOf, Paid, BalanceOf
    <2> QED
      BY <1>1, <2>3, PrizeStep
  <1>8. CASE ~Revokes(s, ask) /\ Restores(s, ask)
    <2>1. a \notin Paid /\ Paid' = Paid \cup {a} /\ PriceOf[a] = s.amount /\ s.amount # -1
      <3>1. s.status = "approved" /\ ~s.awarded
        BY <1>8 DEF Restores
      <3>2. sub'[a].awarded
        BY <1>2, <1>8
      <3> QED
        BY <1>1, <1>3, <3>1, <3>2 DEF Paid, PriceOf
    <2>2. BalanceOf' = [BalanceOf EXCEPT ![u] =
                          [xp |-> BalanceOf[u].xp + s.amount,
                           completed |-> BalanceOf[u].completed + 1]]
      BY <1>1, <1>5, <1>8 DEF BalanceOf, Credited
    <2>3. Ledger!Reinstate(a)
      BY <1>4, <2>1, <2>2 DEF Ledger!Reinstate, Ledger!Pay, Ledger!Unpriced, PriceOf, Paid, BalanceOf
    <2> QED
      BY <1>1, <2>3, PrizeStep
  <1>9. CASE ~Revokes(s, ask) /\ ~Restores(s, ask)
    <2>1. profile' = profile
      BY <1>1, <1>5, <1>9
    <2>2. sub'[a].awarded = s.awarded
      BY <1>2, <1>6, <1>9
    <2> QED
      BY <1>2, <1>3, <2>1, <2>2, SameLedger
  <1> QED
    BY <1>7, <1>8, <1>9

\* An administrator's edit overrides one balance.
LEMMA EditOverrides ==
  ASSUME IInv, NEW u \in Users, NEW p \in Profile,
         profile' = [profile EXCEPT ![u] = p], sub' = sub
  PROVE  Ledger!Next
  <1> DEFINE b == [xp |-> p.xp, completed |-> p.completed]
  <1>1. BalanceOf' = [BalanceOf EXCEPT ![u] = b] /\ BalanceOf'[u] = b
    BY DEF BalanceOf, IInv, TypeOK
  <1>2. b \in [xp: Nat, completed: Nat]
    BY DEF Profile
  <1>3. PriceOf' = PriceOf /\ Paid' = Paid
    BY DEF PriceOf, Paid
  <1>4. Ledger!Override(u)
    BY <1>1, <1>2, <1>3 DEF Ledger!Override, PriceOf, Paid, BalanceOf
  <1> QED
    BY <1>4 DEF Ledger!Next

LEMMA LedgerStep == IInv /\ [Next]_vars => [Ledger!Next]_(Ledger!ledger)
  <1> SUFFICES ASSUME IInv, [Next]_vars
               PROVE  Ledger!Next \/ UNCHANGED Ledger!ledger
    OBVIOUS
  <1>1. ASSUME UNCHANGED <<sub, profile>>
        PROVE  UNCHANGED Ledger!ledger
    BY <1>1, SameLedger
  <1>2. CASE Intake
    <2>1. ASSUME NEW c \in Clients, CreateCommit(c)
          PROVE  UNCHANGED Ledger!ledger
      <3> DEFINE a == txn[c].on
      <3>1. /\ a \in Assignments /\ RowOK(quest[a], sub[a]) /\ quest[a] = "assigned"
            /\ sub[a] \in Submission
        BY <2>1, OpenTxn, RowsOK DEF CreateCommit, Holds, IInv, Txn, GuardsHold, TypeOK
      <3>2. sub'[a] = NewSubmission /\ \A b \in Assignments \ {a} : sub'[b] = sub[b]
        BY <2>1, <3>1 DEF CreateCommit, IInv, TypeOK
      <3>3. UNCHANGED PriceOf
        BY <3>1, <3>2 DEF PriceOf, NewSubmission, RowOK
      <3>4. UNCHANGED Paid
        BY <3>1, <3>2 DEF Paid, NewSubmission, RowOK
      <3>5. UNCHANGED BalanceOf
        BY <2>1 DEF CreateCommit, BalanceOf
      <3> QED
        BY <3>3, <3>4, <3>5 DEF Ledger!ledger, PriceOf, Paid, BalanceOf
    <2> QED
      BY <1>2, <1>1, <2>1 DEF Intake, Assign, CreateLock, Begin, EndAssignment
  <1>3. CASE Review
    <2>1. ASSUME NEW c \in Clients, RejectCommit(c) \/ AppealCommit(c)
          PROVE  UNCHANGED Ledger!ledger
      <3> DEFINE a == txn[c].on
      <3>1. /\ a \in Assignments /\ sub[a] \in Submission
            /\ sub[a].status \in {"pending", "rejected"}
        BY <2>1, OpenTxn DEF RejectCommit, AppealCommit, Holds, IInv, Txn, GuardsHold, TypeOK,
                             Reviewable, Appealable
      <3>2. /\ sub'[a].status \in {"pending", "rejected"}
            /\ sub'[a].awarded = sub[a].awarded /\ sub'[a].amount = sub[a].amount
            /\ \A b \in Assignments \ {a} : sub'[b] = sub[b]
        BY <2>1, <3>1 DEF RejectCommit, AppealCommit, IInv, TypeOK, Submission
      <3> QED
        BY <2>1, <3>1, <3>2, SameLedger DEF RejectCommit, AppealCommit
    <2>2. ASSUME NEW a \in Assignments, NEW xp \in Recommendations, StoreRecommendedXp(a, xp)
          PROVE  UNCHANGED Ledger!ledger
      <3>1. \A b \in Assignments : /\ sub'[b].awarded = sub[b].awarded
                                   /\ sub'[b].amount = sub[b].amount
                                   /\ sub'[b].status = sub[b].status
        BY <2>2 DEF StoreRecommendedXp, IInv, TypeOK, Submission
      <3> QED
        BY <2>2, <3>1, SameLedger DEF StoreRecommendedXp
    <2> QED
      BY <1>3, <1>1, <2>1, <2>2, ApproveWins
         DEF Review, ApproveLock, RejectLock, AppealLock, Begin, ApproveLockProfile
  <1>4. CASE Moderation
    BY <1>4, <1>1, VisibilityMoves DEF Moderation, VisibilityLock, Begin
  <1>5. CASE Administration
    <2>1. ASSUME NEW u \in Users, NEW xp \in EditXp, NEW completed \in EditCounts,
                 SetXp(u, xp, completed)
          PROVE  Ledger!Next
      <3>1. [xp |-> xp, completed |-> completed, level |-> LevelOf(xp)] \in Profile
        BY ReviewAssumption, LevelType DEF Profile
      <3> QED
        BY <2>1, <3>1, EditOverrides DEF SetXp
    <2>2. ASSUME NEW u \in Users, NEW p \in Typed(u), UpdateUserProfile(u, p)
          PROVE  Ledger!Next
      <3>1. p \in Profile
        BY ReviewAssumption DEF Typed, Profile, IInv, TypeOK
      <3> QED
        BY <2>2, <3>1, EditOverrides DEF UpdateUserProfile
    <2> QED
      BY <1>5, <2>1, <2>2 DEF Administration
  <1>6. ASSUME NEW c \in Clients, Abort(c) PROVE UNCHANGED Ledger!ledger
    BY <1>6, <1>1 DEF Abort
  <1>7. CASE UNCHANGED vars
    BY <1>7, <1>1 DEF vars
  <1> QED
    BY <1>2, <1>3, <1>4, <1>5, <1>6, <1>7 DEF Next

\* The submission flow implements the award ledger: a prize is won once, at
\* a price that stays, and a balance moves only as prizes or administrators do.
THEOREM FlowImplementsLedger == Spec => ImplementsLedger
  BY LedgerInit, LedgerStep, Inductive, PTL DEF Spec, Ledger!Spec, ImplementsLedger

-----------------------------------------------------------------------------
(* What a step does to the balances: nothing, one award paid or taken back, *)
(* or one edit.                                                             *)

KeepsBalances ==
  /\ profile' = profile /\ edited' = edited
  /\ \A a \in Assignments :
       /\ sub'[a].awarded = sub[a].awarded
       /\ sub[a].awarded => sub'[a].amount = sub[a].amount

OthersKept(a) == edited' = edited /\ \A b \in Assignments \ {a} : sub'[b] = sub[b]

PaysOut(a, n) ==
  /\ OthersKept(a)
  /\ ~sub[a].awarded /\ sub'[a].awarded /\ sub'[a].amount = n
  /\ profile' = [profile EXCEPT ![Owner[a]] = Credited(profile[Owner[a]], n)]

TakesBack(a) ==
  /\ OthersKept(a)
  /\ sub[a].awarded /\ ~sub'[a].awarded
  /\ profile' = [profile EXCEPT ![Owner[a]] = Debited(profile[Owner[a]], sub[a].amount)]

Edits(u, p, how) ==
  /\ sub' = sub
  /\ profile' = [profile EXCEPT ![u] = p] /\ edited' = [edited EXCEPT ![u] = how]
  /\ how = "set" => p.xp <= SetXpMax

MovesBalances ==
  \/ KeepsBalances
  \/ \E a \in Assignments, n \in Nat : PaysOut(a, n)
  \/ \E a \in Assignments : TakesBack(a)
  \/ \E u \in Users, p \in Profile, how \in {"set", "typed"} : Edits(u, p, how)

LEMMA ApprovePays ==
  ASSUME IInv, NEW c \in Clients, ApproveCommit(c)
  PROVE  MovesBalances
  <1>1. PICK a \in Assignments : a = txn[c].on
    BY OpenTxn DEF ApproveCommit, Holds, IInv, Txn
  <1>2. /\ txn[c].award \in Nat /\ Reviewable(sub[a]) /\ RowOK(quest[a], sub[a])
        /\ sub[a] \in Submission
    BY <1>1, OpenTxn, RowsOK DEF ApproveCommit, Holds, IInv, Txn, GuardsHold, TypeOK
  <1>3. ~sub[a].awarded
    BY <1>2 DEF RowOK, Reviewable
  <1>4. sub'[a].awarded /\ sub'[a].amount = txn[c].award
    BY <1>1, <1>2 DEF ApproveCommit, IInv, TypeOK, Submission
  <1>5. OthersKept(a)
    BY <1>1 DEF ApproveCommit, IInv, TypeOK, OthersKept
  <1>6. profile' = [profile EXCEPT ![Owner[a]] = Credited(profile[Owner[a]], txn[c].award)]
    BY <1>1 DEF ApproveCommit, IInv, TypeOK
  <1>7. PaysOut(a, txn[c].award)
    BY <1>3, <1>4, <1>5, <1>6 DEF PaysOut
  <1> QED
    BY <1>2, <1>7 DEF MovesBalances

LEMMA VisibilityPays ==
  ASSUME IInv, NEW c \in Clients, VisibilityCommit(c)
  PROVE  MovesBalances
  <1>a. PICK a \in Assignments : a = txn[c].on
    BY OpenTxn DEF VisibilityCommit, Holds, IInv, Txn
  <1> DEFINE u == Owner[a]
             s == sub[a]
             ask == txn[c].ask
  <1>1. /\ u \in Users /\ s \in Submission /\ txn[c].seen = s /\ s.amount \in Nat
        /\ s.awarded \in BOOLEAN /\ ask \in Ask /\ edited' = edited
    BY <1>a, OpenTxn, ReviewAssumption
       DEF VisibilityCommit, Holds, IInv, Txn, TypeOK, LockedReadsAreCurrent, Submission
  <1>2. sub'[a].awarded = ((s.awarded /\ ~Revokes(s, ask)) \/ Restores(s, ask))
    BY <1>a, <1>1 DEF VisibilityCommit, IInv, TypeOK, Submission, Moved
  <1>3. sub'[a].amount = s.amount
    BY <1>a, <1>1 DEF VisibilityCommit, IInv, TypeOK, Submission, Moved
  <1>4. OthersKept(a)
    BY <1>a, <1>1 DEF VisibilityCommit, IInv, TypeOK, OthersKept
  <1>5. /\ profile \in [Users -> Profile]
        /\ profile' = [profile EXCEPT ![u] =
                         IF Revokes(s, ask) THEN Debited(profile[u], s.amount)
                         ELSE IF Restores(s, ask) THEN Credited(profile[u], s.amount)
                         ELSE profile[u]]
    BY <1>a, <1>1 DEF VisibilityCommit, IInv, TypeOK
  <1>6. CASE Revokes(s, ask)
    <2>1. s.awarded /\ ~Restores(s, ask)
      BY <1>6 DEF Revokes, Restores
    <2>2. ~sub'[a].awarded
      BY <1>2, <1>6, <2>1
    <2>3. profile' = [profile EXCEPT ![u] = Debited(profile[u], s.amount)]
      BY <1>5, <1>6
    <2>4. TakesBack(a)
      BY <1>4, <2>1, <2>2, <2>3 DEF TakesBack
    <2> QED
      BY <2>4 DEF MovesBalances
  <1>7. CASE ~Revokes(s, ask) /\ Restores(s, ask)
    <2>1. ~s.awarded
      BY <1>7 DEF Restores
    <2>2. sub'[a].awarded
      BY <1>2, <1>7
    <2>3. profile' = [profile EXCEPT ![u] = Credited(profile[u], s.amount)]
      BY <1>5, <1>7
    <2>4. PaysOut(a, s.amount)
      BY <1>3, <1>4, <2>1, <2>2, <2>3 DEF PaysOut
    <2> QED
      BY <1>1, <2>4 DEF MovesBalances
  <1>8. CASE ~Revokes(s, ask) /\ ~Restores(s, ask)
    <2>1. profile' = profile
      BY <1>1, <1>5, <1>8
    <2>2. sub'[a].awarded = s.awarded
      BY <1>1, <1>2, <1>8
    <2>3. KeepsBalances
      BY <1>1, <1>3, <1>4, <2>1, <2>2 DEF KeepsBalances, OthersKept
    <2> QED
      BY <2>3 DEF MovesBalances
  <1> QED
    BY <1>6, <1>7, <1>8

LEMMA BalanceStep == IInv /\ [Next]_vars => MovesBalances
  <1> SUFFICES ASSUME IInv, [Next]_vars
               PROVE  MovesBalances
    OBVIOUS
  <1>1. ASSUME UNCHANGED <<sub, profile, edited>>
        PROVE  MovesBalances
    BY <1>1 DEF MovesBalances, KeepsBalances
  <1>2. CASE Intake
    <2>1. ASSUME NEW c \in Clients, CreateCommit(c)
          PROVE  MovesBalances
      <3>a. PICK a \in Assignments : a = txn[c].on
        BY <2>1, OpenTxn DEF CreateCommit, Holds, IInv, Txn
      <3>1. RowOK(quest[a], sub[a]) /\ quest[a] = "assigned" /\ sub[a] \in Submission
        BY <2>1, <3>a, RowsOK DEF CreateCommit, Holds, IInv, GuardsHold, TypeOK
      <3>2. sub[a].awarded = FALSE
        BY <3>1 DEF RowOK, Submission
      <3>3. sub'[a].awarded = FALSE /\ \A b \in Assignments \ {a} : sub'[b] = sub[b]
        BY <2>1, <3>a DEF CreateCommit, IInv, TypeOK, NewSubmission
      <3>4. KeepsBalances
        BY <2>1, <3>2, <3>3 DEF CreateCommit, KeepsBalances
      <3> QED
        BY <3>4 DEF MovesBalances
    <2> QED
      BY <1>2, <1>1, <2>1 DEF Intake, Assign, CreateLock, Begin, EndAssignment
  <1>3. CASE Review
    <2>1. ASSUME NEW c \in Clients, RejectCommit(c) \/ AppealCommit(c)
          PROVE  MovesBalances
      <3>a. PICK a \in Assignments : a = txn[c].on
        BY <2>1, OpenTxn DEF RejectCommit, AppealCommit, Holds, IInv, Txn
      <3>1. /\ sub'[a].awarded = sub[a].awarded /\ sub'[a].amount = sub[a].amount
            /\ \A b \in Assignments \ {a} : sub'[b] = sub[b]
            /\ profile' = profile /\ edited' = edited
        BY <2>1, <3>a DEF RejectCommit, AppealCommit, IInv, TypeOK, Submission
      <3>2. KeepsBalances
        BY <3>1 DEF KeepsBalances
      <3> QED
        BY <3>2 DEF MovesBalances
    <2>2. ASSUME NEW a \in Assignments, NEW xp \in Recommendations, StoreRecommendedXp(a, xp)
          PROVE  MovesBalances
      <3>1. \A b \in Assignments : sub'[b].awarded = sub[b].awarded /\ sub'[b].amount = sub[b].amount
        BY <2>2 DEF StoreRecommendedXp, IInv, TypeOK, Submission
      <3>2. KeepsBalances
        BY <2>2, <3>1 DEF StoreRecommendedXp, KeepsBalances
      <3> QED
        BY <3>2 DEF MovesBalances
    <2> QED
      BY <1>3, <1>1, <2>1, <2>2, ApprovePays
         DEF Review, ApproveLock, RejectLock, AppealLock, Begin, ApproveLockProfile
  <1>4. CASE Moderation
    BY <1>4, <1>1, VisibilityPays DEF Moderation, VisibilityLock, Begin
  <1>5. CASE Administration
    <2>1. ASSUME NEW u \in Users, NEW xp \in EditXp, NEW completed \in EditCounts,
                 SetXp(u, xp, completed)
          PROVE  MovesBalances
      <3> DEFINE p == [xp |-> xp, completed |-> completed, level |-> LevelOf(xp)]
      <3>1. p \in Profile
        BY ReviewAssumption, LevelType DEF Profile
      <3>2. Edits(u, p, "set")
        BY <2>1 DEF SetXp, Settable, Edits
      <3> QED
        BY <3>1, <3>2 DEF MovesBalances
    <2>2. ASSUME NEW u \in Users, NEW p \in Typed(u), UpdateUserProfile(u, p)
          PROVE  MovesBalances
      <3>1. p \in Profile
        BY ReviewAssumption DEF Typed, Profile, IInv, TypeOK
      <3>2. Edits(u, p, "typed")
        BY <2>2 DEF UpdateUserProfile, Edits
      <3> QED
        BY <3>1, <3>2 DEF MovesBalances
    <2> QED
      BY <1>5, <2>1, <2>2 DEF Administration
  <1>6. ASSUME NEW c \in Clients, Abort(c) PROVE MovesBalances
    BY <1>6, <1>1 DEF Abort
  <1>7. CASE UNCHANGED vars
    BY <1>7, <1>1 DEF vars
  <1> QED
    BY <1>2, <1>3, <1>4, <1>5, <1>6, <1>7 DEF Next

-----------------------------------------------------------------------------
(* The quest counter and the XP of an unedited player, counted award by     *)
(* award and point by point.                                                *)

\* What the balances are worth: counts that match, and totals that are never
\* more than an administrator may set and the awards add.
BooksFit(u) ==
  /\ IsFiniteSet(Points(u))
  /\ edited[u] = "never" =>
       /\ profile[u].completed = Cardinality(Awarded(u))
       /\ profile[u].xp = Cardinality(Points(u))
  /\ edited[u] # "typed" => profile[u].xp <= SetXpMax + Cardinality(Points(u))

Books == \A u \in Users : BooksFit(u)

\* The awarded posts of a player are finitely many.
LEMMA AwardedFinite ==
  ASSUME NEW u \in Users
  PROVE  IsFiniteSet(Awarded(u)) /\ Cardinality(Awarded(u)) \in Nat
  <1>1. Awarded(u) \subseteq Assignments
    BY DEF Awarded
  <1> QED
    BY <1>1, ReviewAssumption, FS_Subset, FS_CardinalityType

\* An award of n has n points.
LEMMA PointsOfOne ==
  ASSUME NEW a, NEW n \in Nat
  PROVE  IsFiniteSet({a} \X (1..n)) /\ Cardinality({a} \X (1..n)) = n
  <1> DEFINE A == {a}
             B == 1..n
  <1>1. IsFiniteSet(A) /\ Cardinality(A) = 1
    BY FS_Singleton
  <1>2. IsFiniteSet(B) /\ Cardinality(B) = n
    BY FS_Interval
  <1> HIDE DEF A, B
  <1>3. IsFiniteSet(A \X B) /\ Cardinality(A \X B) = Cardinality(A) * Cardinality(B)
    BY <1>1, <1>2, FS_Product
  <1>4. Cardinality(A \X B) = 1 * n
    BY <1>1, <1>2, <1>3
  <1>5. 1 * n = n
    OBVIOUS
  <1> QED
    BY <1>3, <1>4, <1>5 DEF A, B

\* The points of an award are among its owner's, and of nobody else's award.
LEMMA PointsOf ==
  ASSUME NEW u \in Users, NEW p
  PROVE  p \in Points(u) <=> \E a \in Awarded(u) : \E i \in 1..sub[a].amount : p = <<a, i>>
  BY DEF Points


\* Two sets of points with nothing in common add up.
LEMMA PointsAddUp ==
  ASSUME NEW S, NEW T, IsFiniteSet(S), IsFiniteSet(T), S \cap T = {}
  PROVE  /\ IsFiniteSet(S \cup T) /\ Cardinality(S) \in Nat /\ Cardinality(T) \in Nat
         /\ Cardinality(S \cup T) = Cardinality(S) + Cardinality(T)
  <1>1. Cardinality(S) \in Nat /\ Cardinality(T) \in Nat
    BY FS_CardinalityType
  <1>2. /\ IsFiniteSet(S \cup T)
        /\ Cardinality(S \cup T) = Cardinality(S) + Cardinality(T) - Cardinality(S \cap T)
    BY FS_Union
  <1>3. Cardinality(S \cap T) = 0
    BY FS_EmptySet
  <1> QED
    BY <1>1, <1>2, <1>3

\* The books of a player nothing happened to.
LEMMA BooksKept ==
  ASSUME NEW u \in Users, BooksFit(u), profile'[u] = profile[u], edited'[u] = edited[u],
         \A a \in Assignments : Owner[a] = u =>
           /\ sub'[a].awarded = sub[a].awarded
           /\ sub[a].awarded => sub'[a].amount = sub[a].amount
  PROVE  BooksFit(u)'
  <1>1. Awarded(u)' = Awarded(u)
    BY DEF Awarded
  <1>2. \A a \in Awarded(u) : sub'[a].amount = sub[a].amount
    BY DEF Awarded
  <1>3. Points(u)' = Points(u)
    BY <1>1, <1>2 DEF Points
  <1> QED
    BY <1>1, <1>3 DEF BooksFit

\* An award paid out is one quest and n points more.
LEMMA BooksPaid ==
  ASSUME IInv, Books, NEW a \in Assignments, NEW n \in Nat, PaysOut(a, n)
  PROVE  Books'
  <1> SUFFICES ASSUME NEW u \in Users PROVE BooksFit(u)'
    BY DEF Books
  <1>1. BooksFit(u) /\ profile[u].xp \in Nat /\ profile[u].completed \in Nat
    BY DEF Books, IInv, TypeOK, Profile
  <1>2. CASE u # Owner[a]
    <2>1. profile'[u] = profile[u] /\ edited'[u] = edited[u]
      BY <1>2 DEF PaysOut, OthersKept, IInv, TypeOK
    <2>2. \A b \in Assignments : Owner[b] = u => sub'[b] = sub[b]
      BY <1>2 DEF PaysOut, OthersKept
    <2> QED
      BY <1>1, <2>1, <2>2, BooksKept
  <1>3. CASE u = Owner[a]
    <2> DEFINE S == Points(u)
               T == {a} \X (1..n)
    <2>1. a \notin Awarded(u) /\ Awarded(u)' = Awarded(u) \cup {a}
      BY <1>3 DEF Awarded, PaysOut, OthersKept
    <2>2. Cardinality(Awarded(u) \cup {a}) = Cardinality(Awarded(u)) + 1
      BY <2>1, AwardedFinite, FS_AddElement
    <2>3. \A b \in Awarded(u) : sub'[b].amount = sub[b].amount
      BY <2>1 DEF PaysOut, OthersKept, Awarded
    <2>4. Points(u)' = S \cup T
      BY <2>1, <2>3 DEF Points, PaysOut
    <2>5. S \cap T = {}
      BY <2>1 DEF Points
    <2>6. IsFiniteSet(S) /\ IsFiniteSet(T) /\ Cardinality(T) = n
      BY <1>1, PointsOfOne DEF BooksFit
    <2> HIDE DEF S, T
    <2>7. /\ IsFiniteSet(S \cup T) /\ Cardinality(S) \in Nat
          /\ Cardinality(S \cup T) = Cardinality(S) + n
      BY <2>5, <2>6, PointsAddUp
    <2>8. /\ profile'[u].completed = profile[u].completed + 1
          /\ profile'[u].xp = profile[u].xp + n /\ edited'[u] = edited[u]
      BY <1>3 DEF PaysOut, OthersKept, IInv, TypeOK, Credited
    <2>9. /\ edited[u] = "never" =>
               /\ profile[u].completed = Cardinality(Awarded(u))
               /\ profile[u].xp = Cardinality(S)
          /\ edited[u] # "typed" => profile[u].xp <= SetXpMax + Cardinality(S)
      BY <1>1 DEF BooksFit, S
    <2>10. SetXpMax \in Nat
      BY ReviewAssumption
    <2>11. edited'[u] = "never" => /\ profile'[u].completed = Cardinality(Awarded(u) \cup {a})
                                   /\ profile'[u].xp = Cardinality(S \cup T)
      BY <2>2, <2>7, <2>8, <2>9
    <2>12. edited'[u] # "typed" => profile'[u].xp <= SetXpMax + Cardinality(S \cup T)
      BY <1>1, <2>7, <2>8, <2>9, <2>10
    <2> QED
      BY <2>1, <2>4, <2>7, <2>11, <2>12 DEF BooksFit
  <1> QED
    BY <1>2, <1>3

\* An award taken back is one quest and its points less, and they were there.
LEMMA BooksDebited ==
  ASSUME IInv, Books, NEW a \in Assignments, TakesBack(a)
  PROVE  Books'
  <1> SUFFICES ASSUME NEW u \in Users PROVE BooksFit(u)'
    BY DEF Books
  <1>1. BooksFit(u) /\ profile[u].xp \in Nat /\ profile[u].completed \in Nat
    BY DEF Books, IInv, TypeOK, Profile
  <1>2. CASE u # Owner[a]
    <2>1. profile'[u] = profile[u] /\ edited'[u] = edited[u]
      BY <1>2 DEF TakesBack, OthersKept, IInv, TypeOK
    <2>2. \A b \in Assignments : Owner[b] = u => sub'[b] = sub[b]
      BY <1>2 DEF TakesBack, OthersKept
    <2> QED
      BY <1>1, <2>1, <2>2, BooksKept
  <1>3. CASE u = Owner[a]
    <2> DEFINE n == sub[a].amount
               A == Awarded(u) \ {a}
               T == {a} \X (1..n)
               S == Points(u) \ T
    <2>1. a \in Awarded(u) /\ Awarded(u)' = A /\ n \in Nat
      BY <1>3 DEF Awarded, TakesBack, OthersKept, IInv, TypeOK, Submission
    <2>2. /\ Cardinality(Awarded(u)) \in Nat /\ Cardinality(A) \in Nat
          /\ Cardinality(A) = Cardinality(Awarded(u)) - 1
      BY <2>1, AwardedFinite, FS_RemoveElement, FS_CardinalityType
    <2>3. \A b \in A : sub'[b].amount = sub[b].amount
      BY DEF TakesBack, OthersKept, Awarded
    <2>4. Points(u)' = S
      BY <2>1, <2>3 DEF Points
    <2>5. T \subseteq Points(u)
      BY <2>1 DEF Points
    <2>6. IsFiniteSet(Points(u)) /\ IsFiniteSet(T) /\ Cardinality(T) = n
      BY <1>1, <2>1, PointsOfOne DEF BooksFit
    <2>7. IsFiniteSet(S)
      BY <2>6, FS_Difference
    <2>8. S \cap T = {} /\ S \cup T = Points(u)
      BY <2>5
    <2>9. /\ profile'[u].completed = Monus(profile[u].completed, 1)
          /\ profile'[u].xp = Monus(profile[u].xp, n) /\ edited'[u] = edited[u]
      BY <1>3 DEF TakesBack, OthersKept, IInv, TypeOK, Debited
    <2> HIDE DEF S, T, n
    <2>10. Cardinality(S) \in Nat /\ Cardinality(Points(u)) = Cardinality(S) + n
      BY <2>6, <2>7, <2>8, PointsAddUp
    <2>11. /\ edited[u] = "never" =>
                /\ profile[u].completed = Cardinality(Awarded(u))
                /\ profile[u].xp = Cardinality(S) + n
           /\ edited[u] # "typed" => profile[u].xp <= SetXpMax + (Cardinality(S) + n)
      BY <1>1, <2>10 DEF BooksFit
    <2>12. SetXpMax \in Nat
      BY ReviewAssumption
    <2>13. edited'[u] = "never" => /\ profile'[u].completed = Cardinality(A)
                                   /\ profile'[u].xp = Cardinality(S)
      BY <1>1, <2>1, <2>2, <2>9, <2>10, <2>11 DEF Monus
    <2>14. edited'[u] # "typed" => profile'[u].xp <= SetXpMax + Cardinality(S)
      BY <1>1, <2>1, <2>9, <2>10, <2>11, <2>12 DEF Monus
    <2> QED
      BY <2>1, <2>4, <2>7, <2>13, <2>14 DEF BooksFit
  <1> QED
    BY <1>2, <1>3

\* An edited player is not counted any more, and what may be set is bounded.
LEMMA BooksEdited ==
  ASSUME IInv, Books, NEW u \in Users, NEW p \in Profile, NEW how \in {"set", "typed"},
         Edits(u, p, how)
  PROVE  Books'
  <1> SUFFICES ASSUME NEW v \in Users PROVE BooksFit(v)'
    BY DEF Books
  <1>1. BooksFit(v)
    BY DEF Books
  <1>2. CASE v # u
    <2>1. profile'[v] = profile[v] /\ edited'[v] = edited[v] /\ sub' = sub
      BY <1>2 DEF Edits, IInv, TypeOK
    <2> QED
      BY <1>1, <2>1, BooksKept
  <1>3. CASE v = u
    <2>1. profile'[u] = p /\ edited'[u] = how /\ Points(u)' = Points(u)
      BY DEF Edits, IInv, TypeOK, Points, Awarded
    <2>2. IsFiniteSet(Points(u)) /\ Cardinality(Points(u)) \in Nat
      BY <1>1, <1>3, FS_CardinalityType DEF BooksFit
    <2>3. p.xp \in Nat /\ SetXpMax \in Nat /\ (how = "set" => p.xp <= SetXpMax)
      BY ReviewAssumption DEF Profile, Edits
    <2>4. how = "set" => p.xp <= SetXpMax + Cardinality(Points(u))
      BY <2>2, <2>3
    <2> QED
      BY <1>3, <2>1, <2>2, <2>4 DEF BooksFit
  <1> QED
    BY <1>2, <1>3

LEMMA BooksInductive == Spec => []Books
  <1>1. Init => Books
    <2> SUFFICES ASSUME Init, NEW u \in Users PROVE BooksFit(u)
      BY DEF Books
    <2>1. Awarded(u) = {} /\ profile[u].completed = 0 /\ profile[u].xp = 0
      BY DEF Init, Awarded, NewSubmission, NewProfile
    <2>2. Points(u) = {}
      BY <2>1 DEF Points
    <2> QED
      BY <2>1, <2>2, FS_EmptySet, ReviewAssumption DEF BooksFit
  <1>2. IInv /\ Books /\ [Next]_vars => Books'
    <2> SUFFICES ASSUME IInv, Books, [Next]_vars PROVE Books'
      OBVIOUS
    <2>1. CASE KeepsBalances
      <3> SUFFICES ASSUME NEW u \in Users PROVE BooksFit(u)'
        BY DEF Books
      <3> QED
        BY <2>1, BooksKept DEF KeepsBalances, Books
    <2>2. MovesBalances
      BY BalanceStep
    <2> QED
      BY <2>1, <2>2, BooksPaid, BooksDebited, BooksEdited DEF MovesBalances
  <1> QED
    BY <1>1, <1>2, Inductive, PTL DEF Spec

\* The quest counter and the XP of a player no administrator has edited are the
\* number and the sum of the awards in the ledger, whatever races, aborts,
\* takedowns and restores happened.
THEOREM BalanceIsSound == Spec => []BalanceMatchesLedger
  <1>1. Books => BalanceMatchesLedger
    BY DEF Books, BooksFit, BalanceMatchesLedger, CompletedMatchesLedger
  <1> QED
    BY <1>1, BooksInductive, PTL

-----------------------------------------------------------------------------
(* An approval that has reached the balance fits it, if what may be set and *)
(* what the assignments can be worth fit the column together.               *)

PricesUpTo(P) == \A bonus \in Bonuses : \A r \in Rewards \cup Recommendations : r + bonus <= P

PricesFit(P) ==
  /\ \A a \in Assignments :
       sub[a].recommended \in Recommendations \cup {NullXp} /\ sub[a].amount <= P
  /\ \A c \in Clients : Holds(c, "approve") \/ Holds(c, "credit") => txn[c].award <= P

\* No price is above P, with or without a recommendation.
LEMMA PriceUpTo ==
  ASSUME NEW P \in Nat, PricesUpTo(P), NEW s, s.recommended \in Recommendations \cup {NullXp},
         NEW reward \in Rewards, NEW bonus \in Bonuses
  PROVE  Price(s, reward, bonus) <= P
  BY DEF PricesUpTo, Price

\* A step that writes one row with an amount and a recommendation that fit.
LEMMA PricesWritten ==
  ASSUME NEW P \in Nat, PricesFit(P), IInv, NEW a \in Assignments, NEW s \in Submission,
         sub' = [sub EXCEPT ![a] = s],
         s.recommended \in Recommendations \cup {NullXp}, s.amount <= P,
         \A c \in Clients : txn'[c] = Idle \/ txn'[c] = txn[c]
  PROVE  PricesFit(P)'
  <1>1. \A b \in Assignments : sub'[b] = IF b = a THEN s ELSE sub[b]
    BY DEF IInv, TypeOK
  <1> QED
    BY <1>1 DEF PricesFit, Holds

\* A step that writes no row and begins, moves or ends a transaction.
LEMMA PricesCarried ==
  ASSUME NEW P \in Nat, PricesFit(P), IInv, sub' = sub,
         \A c \in Clients : Holds(c, "approve")' \/ Holds(c, "credit")' =>
           \/ (Holds(c, "approve") \/ Holds(c, "credit")) /\ txn'[c].award = txn[c].award
           \/ txn'[c].award <= P
  PROVE  PricesFit(P)'
  BY DEF PricesFit

LEMMA PricesBegun ==
  ASSUME NEW P \in Nat, PricesFit(P), IInv, NEW c \in Clients, NEW a \in Assignments,
         NEW op, NEW award, NEW ask, Begin(c, op, a, award, ask),
         op = "approve" => award <= P, op # "credit"
  PROVE  PricesFit(P)'
  <1>1. sub' = sub /\ \A d \in Clients \ {c} : txn'[d] = txn[d]
    BY DEF Begin, IInv, TypeOK
  <1>2. txn'[c].op = op /\ txn'[c].award = award
    BY DEF Begin, IInv, TypeOK
  <1> QED
    BY <1>1, <1>2, PricesCarried DEF Holds

LEMMA PricesStep ==
  ASSUME NEW P \in Nat, PricesUpTo(P), IInv, PricesFit(P), [Next]_vars
  PROVE  PricesFit(P)'
  <1>1. ASSUME sub' = sub, \A c \in Clients : txn'[c] = Idle \/ txn'[c] = txn[c]
        PROVE  PricesFit(P)'
    BY <1>1, PricesCarried DEF Holds
  <1>2. ASSUME NEW c \in Clients, End(c)
        PROVE  \A d \in Clients : txn'[d] = Idle \/ txn'[d] = txn[d]
    BY <1>2 DEF End, IInv, TypeOK
  <1>3. ASSUME NEW c \in Clients, txn[c] # Idle
        PROVE  /\ txn[c].on \in Assignments /\ sub[txn[c].on] \in Submission
               /\ txn[c].seen = sub[txn[c].on] /\ txn[c].award \in Nat /\ txn[c].ask \in Ask
    BY <1>3, OpenTxn DEF IInv, TypeOK, Txn, LockedReadsAreCurrent
  <1>4. CASE Intake
    <2>1. ASSUME NEW c \in Clients, NEW a \in Assignments, CreateLock(c, a)
          PROVE  PricesFit(P)'
      BY <2>1, PricesBegun DEF CreateLock
    <2>2. ASSUME NEW c \in Clients, CreateCommit(c)
          PROVE  PricesFit(P)'
      <3>1. /\ NewSubmission \in Submission /\ NewSubmission.recommended = NullXp
            /\ NewSubmission.amount <= P
        BY DEF NewSubmission, Submission, SubmissionStatus, Visibility, NullXp
      <3>2. txn[c] # Idle /\ End(c) /\ sub' = [sub EXCEPT ![txn[c].on] = NewSubmission]
        BY <2>2 DEF CreateCommit, Holds
      <3> QED
        BY <1>2, <1>3, <3>1, <3>2, PricesWritten
    <2> QED
      BY <1>1, <1>4, <2>1, <2>2 DEF Intake, Assign, EndAssignment
  <1>5. CASE Review
    <2>1. ASSUME NEW c \in Clients, NEW a \in Assignments, NEW reward \in Rewards,
                 NEW bonus \in Bonuses, ApproveLock(c, a, reward, bonus)
          PROVE  PricesFit(P)'
      <3>1. Price(sub[a], reward, bonus) <= P
        BY PriceUpTo DEF PricesFit
      <3> QED
        BY <2>1, <3>1, PricesBegun DEF ApproveLock
    <2>2. ASSUME NEW c \in Clients, ApproveLockProfile(c)
          PROVE  PricesFit(P)'
      <3>1. sub' = sub /\ \A d \in Clients \ {c} : txn'[d] = txn[d]
        BY <2>2 DEF ApproveLockProfile, IInv, TypeOK
      <3>2. Holds(c, "approve") /\ txn[c] \in Txn
        BY <2>2, OpenTxn DEF ApproveLockProfile, Holds, IInv
      <3>3. txn'[c].award = txn[c].award
        BY <2>2, <3>2 DEF ApproveLockProfile, IInv, TypeOK, Txn
      <3> QED
        BY <3>1, <3>2, <3>3, PricesCarried DEF Holds
    <2>3. ASSUME NEW c \in Clients, ApproveCommit(c)
          PROVE  PricesFit(P)'
      <3> DEFINE a == txn[c].on
                 s == [sub[a] EXCEPT !.status = "approved", !.awarded = TRUE, !.amount = txn[c].award]
      <3>1. txn[c] # Idle /\ Holds(c, "credit") /\ End(c)
        BY <2>3 DEF ApproveCommit, Holds
      <3>2. sub' = [sub EXCEPT ![a] = s]
        BY <2>3 DEF ApproveCommit, IInv, TypeOK
      <3>2a. sub[a] \in Submission /\ txn[c].award \in Nat
        BY <1>3, <3>1
      <3>2b. s \in Submission
        BY <3>2a DEF Submission, SubmissionStatus
      <3>3. s.recommended = sub[a].recommended /\ s.amount = txn[c].award
        BY <3>2a DEF Submission
      <3>4. s.recommended \in Recommendations \cup {NullXp} /\ s.amount <= P
        BY <1>3, <3>1, <3>3 DEF PricesFit
      <3> HIDE DEF s
      <3> QED
        BY <1>2, <1>3, <3>1, <3>2, <3>2b, <3>4, PricesWritten
    <2>4. ASSUME NEW c \in Clients, NEW a \in Assignments, RejectLock(c, a) \/ AppealLock(c, a)
          PROVE  PricesFit(P)'
      BY <2>4, PricesBegun DEF RejectLock, AppealLock
    <2>5. ASSUME NEW c \in Clients, RejectCommit(c)
          PROVE  PricesFit(P)'
      <3> DEFINE a == txn[c].on
                 s == [sub[a] EXCEPT !.status = "rejected"]
      <3>1. txn[c] # Idle /\ End(c)
        BY <2>5 DEF RejectCommit, Holds
      <3>2. sub' = [sub EXCEPT ![a] = s]
        BY <2>5 DEF RejectCommit, IInv, TypeOK
      <3>3. /\ s \in Submission
            /\ s.recommended = sub[a].recommended /\ s.amount = sub[a].amount
        BY <1>3, <3>1 DEF Submission, SubmissionStatus
      <3>4. s.recommended \in Recommendations \cup {NullXp} /\ s.amount <= P
        BY <1>3, <3>1, <3>3 DEF PricesFit
      <3> HIDE DEF s
      <3> QED
        BY <1>2, <1>3, <3>1, <3>2, <3>3, <3>4, PricesWritten
    <2>5b. ASSUME NEW c \in Clients, AppealCommit(c)
          PROVE  PricesFit(P)'
      <3> DEFINE a == txn[c].on
                 s == [sub[a] EXCEPT !.status = "pending", !.appealed = TRUE]
      <3>1. txn[c] # Idle /\ End(c)
        BY <2>5b DEF AppealCommit, Holds
      <3>2. sub' = [sub EXCEPT ![a] = s]
        BY <2>5b DEF AppealCommit, IInv, TypeOK
      <3>3. /\ s \in Submission
            /\ s.recommended = sub[a].recommended /\ s.amount = sub[a].amount
        BY <1>3, <3>1 DEF Submission, SubmissionStatus
      <3>4. s.recommended \in Recommendations \cup {NullXp} /\ s.amount <= P
        BY <1>3, <3>1, <3>3 DEF PricesFit
      <3> HIDE DEF s
      <3> QED
        BY <1>2, <1>3, <3>1, <3>2, <3>3, <3>4, PricesWritten
    <2>6. ASSUME NEW a \in Assignments, NEW xp \in Recommendations, StoreRecommendedXp(a, xp)
          PROVE  PricesFit(P)'
      <3> DEFINE s == [sub[a] EXCEPT !.recommended = xp]
      <3>1. sub' = [sub EXCEPT ![a] = s] /\ txn' = txn
        BY <2>6 DEF StoreRecommendedXp, IInv, TypeOK
      <3>2. s \in Submission /\ s.recommended = xp /\ s.amount = sub[a].amount
        BY ReviewAssumption DEF IInv, TypeOK, Submission
      <3> HIDE DEF s
      <3> QED
        BY <3>1, <3>2, PricesWritten DEF PricesFit
    <2> QED
      BY <1>5, <2>1, <2>2, <2>3, <2>4, <2>5, <2>5b, <2>6 DEF Review
  <1>6. CASE Moderation
    <2>1. ASSUME NEW c \in Clients, NEW a \in Assignments, NEW ask \in Ask, VisibilityLock(c, a, ask)
          PROVE  PricesFit(P)'
      BY <2>1, PricesBegun DEF VisibilityLock
    <2>2. ASSUME NEW c \in Clients, VisibilityCommit(c)
          PROVE  PricesFit(P)'
      <3> DEFINE a == txn[c].on
                 s == Moved(txn[c].seen, txn[c].ask)
      <3>1. txn[c] # Idle /\ End(c) /\ sub' = [sub EXCEPT ![a] = s]
        BY <2>2 DEF VisibilityCommit, Holds
      <3>2. s \in Submission
        BY <1>3, <3>1, MovedType
      <3>3. s.recommended = sub[a].recommended /\ s.amount = sub[a].amount
        BY <1>3, <3>1 DEF Moved, Submission
      <3> HIDE DEF s
      <3> QED
        BY <1>2, <1>3, <3>1, <3>2, <3>3, PricesWritten DEF PricesFit
    <2> QED
      BY <1>6, <2>1, <2>2 DEF Moderation
  <1>7. CASE Administration
    BY <1>1, <1>7 DEF Administration, SetXp, UpdateUserProfile
  <1>8. ASSUME NEW c \in Clients, Abort(c)
        PROVE  PricesFit(P)'
    BY <1>1, <1>2, <1>8 DEF Abort
  <1>9. CASE UNCHANGED vars
    BY <1>1, <1>9 DEF vars
  <1> QED
    BY <1>4, <1>5, <1>6, <1>7, <1>8, <1>9 DEF Next

\* The points a player holds and those of an award not yet made are among as
\* many as there can be.
LEMMA PointsBounded ==
  ASSUME NEW P \in Nat, IInv, Books, PricesFit(P), NEW a \in Assignments, ~sub[a].awarded,
         NEW n \in Nat, n <= P
  PROVE  Cardinality(Points(Owner[a])) + n <= Cardinality(Assignments) * P
  <1> DEFINE S == Points(Owner[a])
             T == {a} \X (1..n)
             U == Assignments \X (1..P)
  <1>1. IsFiniteSet(S) /\ IsFiniteSet(T) /\ Cardinality(T) = n
    BY PointsOfOne, ReviewAssumption DEF Books, BooksFit
  <1>2. S \cap T = {}
    BY DEF Points, Awarded
  <1>3. S \subseteq U
    <2> SUFFICES ASSUME NEW b \in Assignments, NEW i \in 1..sub[b].amount
                 PROVE  <<b, i>> \in U
      BY DEF Points, Awarded
    <2>1. sub[b].amount \in Nat /\ sub[b].amount <= P
      BY DEF PricesFit, IInv, TypeOK, Submission
    <2> QED
      BY <2>1
  <1>4. T \subseteq U
    OBVIOUS
  <1>5. IsFiniteSet(1..P) /\ Cardinality(1..P) = P
    BY FS_Interval
  <1>6. IsFiniteSet(Assignments)
    BY ReviewAssumption
  <1> DEFINE Interval == 1..P
  <1> HIDE DEF Interval
  <1>7. /\ IsFiniteSet(Assignments \X Interval)
        /\ Cardinality(Assignments \X Interval) = Cardinality(Assignments) * Cardinality(Interval)
    BY <1>5, <1>6, FS_Product DEF Interval
  <1>8. IsFiniteSet(U) /\ Cardinality(U) = Cardinality(Assignments) * P
    BY <1>5, <1>7 DEF Interval
  <1> HIDE DEF S, T, U
  <1>9. Cardinality(S \cup T) = Cardinality(S) + n
    BY <1>1, <1>2, PointsAddUp
  <1>10. Cardinality(S \cup T) <= Cardinality(U)
    BY <1>3, <1>4, <1>8, FS_Subset
  <1> QED
    BY <1>8, <1>9, <1>10 DEF S

\* An approval that has reached the balance can commit, for any P no price
\* exceeds: if what an administrator may set and P for each assignment fit the
\* column together, only a typed total can make the sum overflow.
THEOREM ApprovalsFit ==
  ASSUME NEW P \in Nat, PricesUpTo(P), SetXpMax + Cardinality(Assignments) * P <= MaxInt
  PROVE  Spec => []ApprovalFits
  <1>1. Init => PricesFit(P)
    BY DEF Init, PricesFit, NewSubmission, Holds
  <1>2. IInv /\ PricesFit(P) /\ [Next]_vars => PricesFit(P)'
    BY PricesStep
  <1>3. IInv /\ Books /\ PricesFit(P) => ApprovalFits
    <2> SUFFICES ASSUME IInv, Books, PricesFit(P), NEW c \in Clients, Holds(c, "credit"),
                        edited[Owner[txn[c].on]] # "typed"
                 PROVE  profile[Owner[txn[c].on]].xp + txn[c].award <= MaxInt
      BY DEF ApprovalFits
    <2>1. PICK a \in Assignments : a = txn[c].on
      BY OpenTxn DEF Holds, IInv, Txn
    <2>2. /\ Owner[a] \in Users /\ txn[c].award \in Nat /\ txn[c].award <= P
          /\ Reviewable(sub[a]) /\ RowOK(quest[a], sub[a])
      BY <2>1, OpenTxn, RowsOK, ReviewAssumption DEF Holds, IInv, Txn, GuardsHold, PricesFit
    <2>3. ~sub[a].awarded
      BY <2>2 DEF Reviewable, RowOK
    <2>4. Cardinality(Points(Owner[a])) + txn[c].award <= Cardinality(Assignments) * P
      BY <2>2, <2>3, PointsBounded
    <2>5. BooksFit(Owner[a]) /\ profile[Owner[a]].xp \in Nat
      BY <2>2 DEF Books, IInv, TypeOK, Profile
    <2>6. profile[Owner[a]].xp <= SetXpMax + Cardinality(Points(Owner[a]))
      BY <2>1, <2>5 DEF BooksFit
    <2>7. /\ Cardinality(Points(Owner[a])) \in Nat /\ Cardinality(Assignments) \in Nat
          /\ SetXpMax \in Nat /\ MaxInt \in Nat
      BY <2>5, ReviewAssumption, FS_CardinalityType DEF BooksFit
    <2> DEFINE most == Cardinality(Assignments) * P
               held == Cardinality(Points(Owner[a]))
               xp == profile[Owner[a]].xp
               n == txn[c].award
    <2>8. most \in Nat /\ held \in Nat /\ xp \in Nat /\ n \in Nat
      BY <2>2, <2>5, <2>7
    <2>9. held + n <= most /\ xp <= SetXpMax + held /\ SetXpMax + most <= MaxInt
      BY <2>4, <2>6
    <2> HIDE DEF most, held, xp, n
    <2>10. xp + n <= MaxInt
      BY <2>7, <2>8, <2>9
    <2> QED
      BY <2>1, <2>10 DEF xp, n
  <1> QED
    BY <1>1, <1>2, <1>3, Inductive, BooksInductive, PTL DEF Spec

-----------------------------------------------------------------------------
(***************************************************************************)
(* Outbox: any events, publishers, workers, attempts and stalls.           *)
(***************************************************************************)

(* The jobs of JobQueue: what each operation returns is a job.             *)

\* A job that was never added, or was forgotten, is a job with every attempt left.
LEMMA NoJobType == NoJob \in Job /\ NoJob.owner = None /\ NoJob.attempts < Attempts
  BY JobQueueAssumption DEF NoJob, Job

\* Adding, taking, finishing or orphaning a job touches neither count.
LEMMA JobMovedType ==
  ASSUME NEW r \in Job, NEW w \in Workers
  PROVE  /\ Added(r) \in Job /\ Taken(r, w) \in Job /\ Done(r) \in Job
         /\ Orphaned(r, w) \in Job
  <1>1. Added(r) \in Job /\ Taken(r, w) \in Job
    BY DEF Added, Taken, Job
  <1>2. Done(r) \in Job /\ Orphaned(r, w) \in Job
    BY DEF Done, Orphaned, Job
  <1> QED
    BY <1>1, <1>2

\* An attempt that threw leaves a job within its number of attempts, as long
\* as it had attempts left.
LEMMA RetriedType ==
  ASSUME NEW r \in Job, r.attempts < Attempts
  PROVE  /\ Retried(r) \in Job /\ Retried(r).owner = None
         /\ Retried(r).state \in {"waiting", "failed"}
         /\ Retried(r).state = "waiting" => Retried(r).attempts < Attempts
  <1>1. r.attempts \in Nat /\ r.attempts + 1 \in 0..Attempts
    BY JobQueueAssumption DEF Job
  <1> QED
    BY <1>1 DEF Retried, Job

\* A job may stall as often as the queue allows, and fails the next time.
LEMMA StalledType ==
  ASSUME NEW r \in Job
  PROVE  /\ Stalled(r) \in Job /\ Stalled(r).owner = None
         /\ Stalled(r).state \in {"waiting", "failed"}
         /\ Stalled(r).attempts = r.attempts
  <1>1. r.stalls < Stalls => r.stalls + 1 \in 0..Stalls
    BY JobQueueAssumption DEF Job
  <1> QED
    BY <1>1 DEF Stalled, Job

-----------------------------------------------------------------------------

\* Jobs are of events that were committed; one that completed was recorded.
JobsFit ==
  \A e \in Events :
    /\ job[e].state \notin {"completed", "failed"} => job[e].attempts < Attempts
    /\ job[e].owner # None => job[e].state = "active"
    /\ job[e].state # "absent" => outbox[e] # "absent"
    /\ job[e].state = "completed" => e \in recorded

WorkersFit ==
  \A w \in Workers :
    /\ worker[w].at # "idle" => worker[w].event \in Events /\ outbox[worker[w].event] # "absent"
    /\ worker[w].at = "returning" => worker[w].event \in recorded

\* What a publisher holds was committed, and once added is in the queue.
PublishersFit ==
  \A p \in Publishers : \A e \in publisher[p].batch :
    /\ outbox[e] # "absent"
    /\ publisher[p].at = "added" => job[e].state # "absent" \/ e \in recorded

OutboxInv ==
  /\ OutboxTypeOK
  /\ JobsFit
  /\ WorkersFit
  /\ PublishersFit
  /\ AckedMeansQueued

-----------------------------------------------------------------------------
LEMMA IdleTypes ==
  IdlePublisher \in Publisher /\ IdlePublisher.batch = {}
  /\ IdleWorker \in Worker /\ IdleWorker.at = "idle"
  BY DEF IdlePublisher, Publisher, IdleWorker, Worker

LEMMA OutboxInitInv == OutboxInit => OutboxInv
  <1> SUFFICES ASSUME OutboxInit PROVE OutboxInv
    OBVIOUS
  <1>1. OutboxTypeOK
    BY NoJobType, IdleTypes DEF OutboxInit, OutboxTypeOK, RowState
  <1>2. JobsFit
    BY NoJobType DEF OutboxInit, JobsFit, NoJob
  <1>3. WorkersFit /\ PublishersFit /\ AckedMeansQueued
    BY IdleTypes DEF OutboxInit, WorkersFit, PublishersFit, AckedMeansQueued
  <1> QED
    BY <1>1, <1>2, <1>3 DEF OutboxInv

-----------------------------------------------------------------------------
(* The rows.  A row that is there stays there.                             *)

LEMMA RowsType ==
  ASSUME OutboxInv, NEW batch \in SUBSET Events, NEW states \in SUBSET RowState,
         NEW new \in RowState \ {"absent"}
  PROVE  /\ Rows(batch, states, new) \in [Events -> RowState]
         /\ \A e \in Events : outbox[e] # "absent" => Rows(batch, states, new)[e] # "absent"
         /\ \A e \in Events : Rows(batch, states, new)[e] \in {outbox[e], new}
         /\ \A e \in Events \ batch : Rows(batch, states, new)[e] = outbox[e]
  BY DEF Rows, OutboxInv, OutboxTypeOK

\* A step of publishers and rows alone.
LEMMA PublishInv ==
  ASSUME OutboxInv, UNCHANGED <<job, worker, recorded, handled, lost>>,
         outbox' \in [Events -> RowState],
         \A e \in Events : outbox[e] # "absent" => outbox'[e] # "absent",
         publisher' \in [Publishers -> Publisher], PublishersFit', AckedMeansQueued'
  PROVE  OutboxInv'
  <1>1. OutboxTypeOK'
    BY DEF OutboxInv, OutboxTypeOK
  <1>2. JobsFit'
    BY <1>1 DEF OutboxInv, JobsFit
  <1>3. WorkersFit'
    BY <1>1 DEF OutboxInv, WorkersFit
  <1> QED
    BY <1>1, <1>2, <1>3 DEF OutboxInv

LEMMA EmitInv ==
  ASSUME OutboxInv, NEW e \in Events, Emit(e) \/ ComesDue(e)
  PROVE  OutboxInv'
  <1>1. /\ outbox' = [outbox EXCEPT ![e] = "due"] /\ publisher' = publisher
        /\ UNCHANGED <<job, worker, recorded, handled, lost>>
    BY DEF Emit, ComesDue
  <1>2. outbox' \in [Events -> RowState] /\ \A i \in Events : outbox[i] # "absent" => outbox'[i] # "absent"
    BY <1>1 DEF OutboxInv, OutboxTypeOK, RowState
  <1>3. PublishersFit'
    BY <1>1, <1>2 DEF OutboxInv, OutboxTypeOK, PublishersFit, Publisher
  <1>4. AckedMeansQueued'
    BY <1>1 DEF OutboxInv, OutboxTypeOK, AckedMeansQueued
  <1> QED
    BY <1>1, <1>2, <1>3, <1>4, PublishInv DEF OutboxInv, OutboxTypeOK

\* One publisher moves on with its rows; nothing is acknowledged.
LEMMA HoldInv ==
  ASSUME OutboxInv, NEW p \in Publishers, NEW r \in Publisher, NEW states \in SUBSET RowState,
         publisher' = [publisher EXCEPT ![p] = r], r.at # "added",
         \A e \in r.batch : outbox[e] # "absent",
         outbox' \in {outbox, Rows(publisher[p].batch, states, "held"), Rows(r.batch, states, "held")},
         UNCHANGED <<job, worker, recorded, handled, lost>>
  PROVE  OutboxInv'
  <1>1. publisher[p].batch \in SUBSET Events /\ r.batch \in SUBSET Events
    BY DEF OutboxInv, OutboxTypeOK, Publisher
  <1>2. "held" \in RowState \ {"absent"}
    BY DEF RowState
  <1>3. /\ outbox' \in [Events -> RowState]
        /\ \A e \in Events : outbox[e] # "absent" => outbox'[e] # "absent"
        /\ \A e \in Events : outbox'[e] \in {outbox[e], "held"}
    <2>1. CASE outbox' = outbox
      BY <2>1 DEF OutboxInv, OutboxTypeOK
    <2>2. ASSUME NEW batch \in SUBSET Events, outbox' = Rows(batch, states, "held")
          PROVE  <1>3!1 /\ <1>3!2 /\ <1>3!3
      BY <1>2, <2>2, RowsType
    <2> QED
      BY <1>1, <2>1, <2>2
  <1>4. publisher' \in [Publishers -> Publisher]
    BY DEF OutboxInv, OutboxTypeOK
  <1>5. \A q \in Publishers : publisher'[q] = IF q = p THEN r ELSE publisher[q]
    BY DEF OutboxInv, OutboxTypeOK
  <1>6. PublishersFit'
    <2> SUFFICES ASSUME NEW q \in Publishers, NEW e \in publisher'[q].batch
                 PROVE  /\ outbox'[e] # "absent"
                        /\ publisher'[q].at = "added" => job[e].state # "absent" \/ e \in recorded
      BY DEF PublishersFit
    <2>1. e \in Events
      BY <1>4 DEF Publisher
    <2> QED
      BY <1>3, <1>5, <2>1 DEF OutboxInv, PublishersFit
  <1>7. AckedMeansQueued'
    BY <1>3 DEF OutboxInv, AckedMeansQueued
  <1> QED
    BY <1>3, <1>4, <1>6, <1>7, PublishInv

LEMMA AckInv ==
  ASSUME OutboxInv, NEW p \in Publishers, Ack(p) \/ AckFails(p)
  PROVE  OutboxInv'
  <1> DEFINE batch == publisher[p].batch
             acked == Rows(batch, RowState, "published")
  <1>1. publisher[p] \in Publisher /\ batch \in SUBSET Events /\ publisher[p].at = "added"
    BY DEF OutboxInv, OutboxTypeOK, Publisher, Ack, AckFails
  <1>2. outbox' \in {outbox, acked} /\ UNCHANGED <<job, worker, recorded, handled, lost>>
    BY DEF Ack, AckFails
  <1>3. "published" \in RowState \ {"absent"}
    BY DEF RowState
  <1>4. /\ acked \in [Events -> RowState]
        /\ \A e \in Events : outbox[e] # "absent" => acked[e] # "absent"
        /\ \A e \in Events \ batch : acked[e] = outbox[e]
    BY <1>1, <1>3, RowsType
  <1> HIDE DEF acked
  <1>5. /\ outbox' \in [Events -> RowState]
        /\ \A e \in Events : outbox[e] # "absent" => outbox'[e] # "absent"
    BY <1>2, <1>4 DEF OutboxInv, OutboxTypeOK
  <1>6. PICK r \in Publisher : /\ publisher' = [publisher EXCEPT ![p] = r]
                               /\ r.at # "added" /\ r.batch \subseteq batch
    <2>1. CASE Ack(p)
      BY <2>1, IdleTypes DEF Ack, Drained, IdlePublisher
    <2>2. CASE AckFails(p)
      <3> DEFINE r == [publisher[p] EXCEPT !.at = "failing"]
      <3>1. r \in Publisher /\ r.at # "added" /\ r.batch = batch
        BY <1>1 DEF Publisher
      <3> QED
        BY <2>2, <3>1 DEF AckFails, Proceeds
    <2> QED
      BY <2>1, <2>2
  <1>7. publisher' \in [Publishers -> Publisher]
    BY <1>6 DEF OutboxInv, OutboxTypeOK
  <1>8. PublishersFit'
    <2> SUFFICES ASSUME NEW q \in Publishers, NEW e \in publisher'[q].batch
                 PROVE  /\ outbox'[e] # "absent"
                        /\ publisher'[q].at = "added" => job[e].state # "absent" \/ e \in recorded
      BY <1>2 DEF PublishersFit
    <2>1. e \in Events /\ publisher'[q] = IF q = p THEN r ELSE publisher[q]
      BY <1>6, <1>7 DEF OutboxInv, OutboxTypeOK, Publisher
    <2> QED
      BY <1>5, <1>6, <2>1 DEF OutboxInv, PublishersFit
  <1>9. AckedMeansQueued'
    BY <1>1, <1>2, <1>4 DEF OutboxInv, AckedMeansQueued, PublishersFit
  <1> QED
    BY <1>2, <1>5, <1>7, <1>8, <1>9, PublishInv

-----------------------------------------------------------------------------
(* The jobs.                                                               *)

\* A step of the queue and the workers.
LEMMA ConsumeInv ==
  ASSUME OutboxInv, outbox' = outbox, publisher' = publisher,
         job' \in [Events -> Job], JobsFit',
         worker' \in [Workers -> Worker], WorkersFit',
         recorded \subseteq recorded', recorded' \subseteq Events,
         handled' \in [Events -> Nat], lost' \in [Events -> Nat],
         \A e \in Events : job[e].state # "absent" => job'[e].state # "absent" \/ e \in recorded'
  PROVE  OutboxInv'
  <1>1. OutboxTypeOK'
    BY DEF OutboxInv, OutboxTypeOK
  <1>2. PublishersFit'
    BY DEF OutboxInv, OutboxTypeOK, PublishersFit, Publisher
  <1>3. AckedMeansQueued'
    BY DEF OutboxInv, AckedMeansQueued
  <1> QED
    BY <1>1, <1>2, <1>3 DEF OutboxInv

LEMMA JobMoves ==
  ASSUME OutboxInv, NEW e \in Events, NEW r \in Job, job' = [job EXCEPT ![e] = r],
         outbox' = outbox, recorded \subseteq recorded',
         r.state \notin {"completed", "failed"} => r.attempts < Attempts,
         r.owner # None => r.state = "active",
         r.state # "absent" => outbox[e] # "absent",
         r.state = "completed" => e \in recorded'
  PROVE  job' \in [Events -> Job] /\ JobsFit'
  <1>1. \A i \in Events : job'[i] = IF i = e THEN r ELSE job[i]
    BY DEF OutboxInv, OutboxTypeOK
  <1> QED
    BY <1>1 DEF OutboxInv, OutboxTypeOK, JobsFit

LEMMA WorkerMoves ==
  ASSUME OutboxInv, NEW w \in Workers, NEW r \in Worker, worker' = [worker EXCEPT ![w] = r],
         outbox' = outbox, recorded \subseteq recorded',
         r.at # "idle" => r.event \in Events /\ outbox[r.event] # "absent",
         r.at = "returning" => r.event \in recorded'
  PROVE  worker' \in [Workers -> Worker] /\ WorkersFit'
  <1>1. \A v \in Workers : worker'[v] = IF v = w THEN r ELSE worker[v]
    BY DEF OutboxInv, OutboxTypeOK
  <1> QED
    BY <1>1 DEF OutboxInv, OutboxTypeOK, WorkersFit

LEMMA LoseType ==
  ASSUME OutboxInv, NEW e \in Events, Lose(e)
  PROVE  lost' \in [Events -> Nat]
  BY DEF Lose, OutboxInv, OutboxTypeOK

\* addBulk(), whether or not the publisher learns of it.
LEMMA AddInv ==
  ASSUME OutboxInv, NEW p \in Publishers, Add(p) \/ AddFails(p)
  PROVE  OutboxInv'
  <1> DEFINE batch == publisher[p].batch
  <1>1. publisher[p] \in Publisher /\ batch \in SUBSET Events
    BY DEF OutboxInv, OutboxTypeOK, Publisher
  <1>2. job' \in {job, AddedBatch(batch)} /\ UNCHANGED <<outbox, worker, recorded, handled, lost>>
    BY DEF Add, AddFails
  <1>3. \A e \in Events : job'[e] = job[e] \/ (e \in batch /\ job'[e] = Added(job[e]))
    BY <1>2 DEF AddedBatch
  <1>4. \A e \in Events : Added(job[e]) \in Job
    BY DEF Added, Job, OutboxInv, OutboxTypeOK
  <1>5. job' \in [Events -> Job]
    BY <1>2, <1>4 DEF AddedBatch, OutboxInv, OutboxTypeOK
  <1>6. \A e \in Events : /\ job'[e].attempts = job[e].attempts /\ job'[e].owner = job[e].owner
                          /\ \/ job'[e].state = job[e].state
                             \/ e \in batch /\ job[e].state = "absent" /\ job'[e].state = "waiting"
    BY <1>3 DEF Added, Job, OutboxInv, OutboxTypeOK
  <1>7. JobsFit'
    BY <1>1, <1>2, <1>6 DEF OutboxInv, JobsFit, PublishersFit
  <1>8. publisher' = [publisher EXCEPT ![p] = [publisher[p] EXCEPT
                        !.at = IF Add(p) THEN "added" ELSE "failing"]]
    BY DEF Add, AddFails, Proceeds
  <1>9. \A q \in Publishers : publisher'[q].batch = publisher[q].batch
    BY <1>1, <1>8 DEF OutboxInv, OutboxTypeOK, Publisher
  <1>10. publisher' \in [Publishers -> Publisher]
    BY <1>1, <1>8 DEF OutboxInv, OutboxTypeOK, Publisher
  <1>11. PublishersFit'
    <2> SUFFICES ASSUME NEW q \in Publishers, NEW e \in publisher[q].batch
                 PROVE  /\ outbox[e] # "absent"
                        /\ publisher'[q].at = "added" => job'[e].state # "absent" \/ e \in recorded
      BY <1>2, <1>9 DEF PublishersFit
    <2>1. e \in Events /\ outbox[e] # "absent"
      BY DEF OutboxInv, OutboxTypeOK, PublishersFit, Publisher
    <2>2. CASE q # p
      BY <1>6, <1>8, <2>1, <2>2 DEF OutboxInv, OutboxTypeOK, PublishersFit
    <2>3. CASE q = p /\ Add(p)
      <3>1. job'[e] = Added(job[e])
        BY <2>1, <2>3 DEF Add, AddedBatch
      <3> QED
        BY <2>1, <3>1 DEF Added, Job, OutboxInv, OutboxTypeOK
    <2>4. CASE q = p /\ ~Add(p)
      BY <1>1, <1>8, <2>1, <2>4 DEF OutboxInv, OutboxTypeOK, Publisher
    <2> QED
      BY <2>2, <2>3, <2>4
  <1>12. AckedMeansQueued'
    BY <1>2, <1>6 DEF OutboxInv, AckedMeansQueued
  <1>13. WorkersFit' /\ OutboxTypeOK'
    BY <1>2, <1>5, <1>10 DEF OutboxInv, OutboxTypeOK, WorkersFit
  <1> QED
    BY <1>7, <1>11, <1>12, <1>13 DEF OutboxInv

LEMMA StallInv ==
  ASSUME OutboxInv, NEW e \in Events, Stall(e) \/ Forget(e)
  PROVE  OutboxInv'
  <1>1. UNCHANGED <<outbox, publisher, worker, recorded, handled>> /\ job[e] \in Job
    BY DEF Stall, Forget, OutboxInv, OutboxTypeOK
  <1>2. lost' \in [Events -> Nat]
    BY LoseType DEF Stall, Forget, OutboxInv, OutboxTypeOK
  <1>3. PICK r \in Job : /\ job' = [job EXCEPT ![e] = r] /\ r.attempts < Attempts /\ r.owner = None
                         /\ r.state # "completed" /\ (r.state # "absent" => job[e].state # "absent")
                         /\ r.state = "absent" => e \in recorded
    <2>1. CASE Stall(e)
      <3>1. job[e].state = "active" /\ job' = [job EXCEPT ![e] = Stalled(job[e])]
        BY <2>1 DEF Stall
      <3>2. job[e].attempts < Attempts
        BY <3>1 DEF OutboxInv, JobsFit
      <3> QED
        BY <1>1, <3>1, <3>2, StalledType
    <2>2. CASE Forget(e)
      BY <2>2, NoJobType DEF Forget, NoJob, OutboxInv, JobsFit
    <2> QED
      BY <2>1, <2>2
  <1>4. job' \in [Events -> Job] /\ JobsFit'
    BY <1>1, <1>3, JobMoves DEF OutboxInv, JobsFit
  <1>5. \A i \in Events : job[i].state # "absent" => job'[i].state # "absent" \/ i \in recorded'
    BY <1>1, <1>3 DEF OutboxInv, OutboxTypeOK
  <1>6. WorkersFit'
    BY <1>1 DEF OutboxInv, WorkersFit
  <1> QED
    BY <1>1, <1>2, <1>4, <1>5, <1>6, ConsumeInv DEF OutboxInv, OutboxTypeOK

LEMMA FetchInv ==
  ASSUME OutboxInv, NEW w \in Workers, NEW e \in Events, Fetch(w, e)
  PROVE  OutboxInv'
  <1> DEFINE r == Taken(job[e], w)
             busy == [at |-> "fetched", event |-> e]
  <1>1. /\ job' = [job EXCEPT ![e] = r] /\ job[e].state = "waiting" /\ job[e] \in Job
        /\ worker' = [worker EXCEPT ![w] = busy]
        /\ UNCHANGED <<outbox, publisher, recorded, handled, lost>>
    BY DEF Fetch, OutboxInv, OutboxTypeOK
  <1>2. outbox[e] # "absent" /\ job[e].attempts < Attempts
    BY <1>1 DEF OutboxInv, JobsFit
  <1>3. r \in Job /\ r.attempts < Attempts /\ r.state = "active"
    BY <1>1, <1>2 DEF Job, Taken
  <1>4. busy \in Worker /\ busy.at = "fetched" /\ busy.event = e
    BY DEF Worker
  <1> HIDE DEF r, busy
  <1>5. job' \in [Events -> Job] /\ JobsFit'
    BY <1>1, <1>2, <1>3, JobMoves
  <1>6. worker' \in [Workers -> Worker] /\ WorkersFit'
    BY <1>1, <1>2, <1>4, WorkerMoves
  <1>7. \A i \in Events : job[i].state # "absent" => job'[i].state # "absent"
    BY <1>1, <1>3 DEF OutboxInv, OutboxTypeOK
  <1> QED
    BY <1>1, <1>5, <1>6, <1>7, ConsumeInv DEF OutboxInv, OutboxTypeOK

-----------------------------------------------------------------------------
(* The workers.                                                            *)

LEMMA LeaveInv ==
  ASSUME OutboxInv, NEW w \in Workers, Report(w) \/ WorkerDies(w)
  PROVE  OutboxInv'
  <1> DEFINE e == worker[w].event
  <1>1. /\ worker' = [worker EXCEPT ![w] = IdleWorker]
        /\ UNCHANGED <<outbox, publisher, recorded, handled>>
    BY DEF Report, WorkerDies
  <1>2. e \in Events /\ outbox[e] # "absent" /\ job[e] \in Job
    BY DEF Report, WorkerDies, OutboxInv, WorkersFit, OutboxTypeOK
  <1>3. lost' \in [Events -> Nat]
    BY <1>2, LoseType DEF Report, WorkerDies, OutboxInv, OutboxTypeOK
  <1>4. /\ job' \in [Events -> Job] /\ JobsFit'
        /\ \A i \in Events : job[i].state # "absent" => job'[i].state # "absent"
    <2>1. CASE job' = job
      BY <1>1, <2>1 DEF OutboxInv, OutboxTypeOK, JobsFit
    <2>2. ASSUME NEW r \in Job, job' = [job EXCEPT ![e] = r],
                 r.state \notin {"completed", "failed"} => r.attempts < Attempts,
                 r.owner # None => r.state = "active", r.state # "absent",
                 r.state = "completed" => e \in recorded
          PROVE  /\ job' \in [Events -> Job] /\ JobsFit'
                 /\ \A i \in Events : job[i].state # "absent" => job'[i].state # "absent"
      <3>1. job' \in [Events -> Job] /\ JobsFit'
        BY <1>1, <1>2, <2>2, JobMoves
      <3>2. \A i \in Events : job'[i] = IF i = e THEN r ELSE job[i]
        BY <2>2 DEF OutboxInv, OutboxTypeOK
      <3> QED
        BY <2>2, <3>1, <3>2
    <2>3. CASE Report(w) /\ job[e].owner = w /\ worker[w].at = "returning"
      <3>1. job' = [job EXCEPT ![e] = Done(job[e])] /\ e \in recorded
        BY <2>3 DEF Report, OutboxInv, WorkersFit
      <3>2. /\ Done(job[e]) \in Job /\ Done(job[e]).state = "completed"
            /\ Done(job[e]).owner = None
        BY <1>2 DEF Done, Job
      <3> QED
        BY <2>2, <3>1, <3>2
    <2>4. CASE Report(w) /\ job[e].owner = w /\ worker[w].at = "throwing"
      <3>1. job' = [job EXCEPT ![e] = Retried(job[e])]
        BY <2>4 DEF Report
      <3>2. job[e].state = "active" /\ job[e].attempts < Attempts
        BY <1>2, <2>4, JobQueueAssumption DEF OutboxInv, JobsFit
      <3> QED
        BY <1>2, <2>2, <3>1, <3>2, RetriedType
    <2>5. CASE WorkerDies(w) /\ job[e].owner = w
      <3>1. job' = [job EXCEPT ![e] = Orphaned(job[e], w)]
        BY <2>5 DEF WorkerDies
      <3>2. job[e].state = "active" /\ job[e].attempts < Attempts
        BY <1>2, <2>5, JobQueueAssumption DEF OutboxInv, JobsFit
      <3>3. /\ Orphaned(job[e], w) \in Job /\ Orphaned(job[e], w).state = "active"
            /\ Orphaned(job[e], w).attempts < Attempts
        BY <1>2, <3>2 DEF Orphaned, Job
      <3> QED
        BY <2>2, <3>1, <3>3
    <2>6. CASE WorkerDies(w) /\ job[e].owner # w
      <3>1. Orphaned(job[e], w) = job[e]
        BY <1>2, <2>6 DEF Orphaned, Job
      <3> QED
        BY <2>1, <2>6, <3>1 DEF WorkerDies, OutboxInv, OutboxTypeOK
    <2> QED
      BY <2>1, <2>3, <2>4, <2>5, <2>6 DEF Report
  <1>5. worker' \in [Workers -> Worker] /\ WorkersFit'
    BY <1>1, IdleTypes, WorkerMoves
  <1> QED
    BY <1>1, <1>3, <1>4, <1>5, ConsumeInv DEF OutboxInv, OutboxTypeOK

LEMMA ProcessInv ==
  ASSUME OutboxInv, NEW w \in Workers, Check(w) \/ Handle(w) \/ Mark(w) \/ Throw(w)
  PROVE  OutboxInv'
  <1> DEFINE e == worker[w].event
  <1>1. UNCHANGED <<outbox, publisher, job, lost>> /\ worker[w] \in Worker
    BY DEF Check, Handle, Mark, Throw, OutboxInv, OutboxTypeOK
  <1>2. worker[w].at # "idle" /\ e \in Events /\ outbox[e] # "absent"
    BY DEF Check, Handle, Mark, Throw, OutboxInv, WorkersFit
  <1>3. /\ recorded \subseteq recorded' /\ recorded' \subseteq Events
        /\ handled' \in [Events -> Nat]
    BY <1>2 DEF Check, Handle, Mark, Throw, OutboxInv, OutboxTypeOK
  <1>4. PICK at \in {"handling", "handled", "returning", "throwing"} :
          /\ worker' = [worker EXCEPT ![w].at = at]
          /\ at = "returning" => e \in recorded'
    BY DEF Check, Handle, Mark, Throw, Goes
  <1> DEFINE r == [worker[w] EXCEPT !.at = at]
  <1>5. r \in Worker /\ r.at = at /\ r.event = e /\ worker' = [worker EXCEPT ![w] = r]
    BY <1>1, <1>4 DEF Worker
  <1> HIDE DEF r
  <1>6. worker' \in [Workers -> Worker] /\ WorkersFit'
    BY <1>1, <1>2, <1>3, <1>4, <1>5, WorkerMoves
  <1>7. JobsFit'
    BY <1>1, <1>3 DEF OutboxInv, JobsFit
  <1> QED
    BY <1>1, <1>3, <1>6, <1>7, ConsumeInv DEF OutboxInv, OutboxTypeOK

LEMMA PublishingInv ==
  ASSUME OutboxInv, NEW p \in Publishers, Publishing(p)
  PROVE  OutboxInv'
  <1>1. CASE Claim(p)
    <2> DEFINE due == {e \in Events : outbox[e] = "due"}
               r == [at |-> "claimed", batch |-> due]
    <2>1. /\ outbox' = Rows(due, {"due"}, "held") /\ publisher' = [publisher EXCEPT ![p] = r]
          /\ UNCHANGED <<job, worker, recorded, handled, lost>>
      BY <1>1 DEF Claim
    <2>2. r \in Publisher /\ r.at # "added" /\ r.batch = due /\ \A e \in due : outbox[e] # "absent"
      BY DEF Publisher
    <2> DEFINE states == {"due"}
    <2>3. outbox' = Rows(r.batch, states, "held") /\ states \in SUBSET RowState
      BY <2>1, <2>2 DEF RowState
    <2>4. \A e \in r.batch : outbox[e] # "absent"
      BY <2>2
    <2> HIDE DEF r, due, states
    <2> QED
      BY <2>1, <2>2, <2>3, <2>4, HoldInv
  <1>2. CASE Reschedule(p) \/ PublisherDies(p)
    <2>1. /\ outbox' \in {outbox, Rows(publisher[p].batch, {"due", "held"}, "held")}
          /\ publisher' = [publisher EXCEPT ![p] = IdlePublisher]
          /\ UNCHANGED <<job, worker, recorded, handled, lost>>
      BY <1>2 DEF Reschedule, PublisherDies, Drained
    <2> DEFINE states == {"due", "held"}
    <2>2. outbox' \in {outbox, Rows(publisher[p].batch, states, "held")} /\ states \in SUBSET RowState
      BY <2>1 DEF RowState
    <2>3. /\ IdlePublisher \in Publisher /\ IdlePublisher.at # "added"
          /\ \A e \in IdlePublisher.batch : outbox[e] # "absent"
      BY IdleTypes DEF IdlePublisher
    <2> HIDE DEF states
    <2> QED
      BY <2>1, <2>2, <2>3, HoldInv
  <1>3. CASE Add(p) \/ AddFails(p) \/ Ack(p) \/ AckFails(p)
    BY <1>3, AddInv, AckInv
  <1> QED
    BY <1>1, <1>2, <1>3 DEF Publishing

LEMMA OutboxNextInv == OutboxInv /\ [OutboxNext]_outboxVars => OutboxInv'
  <1> SUFFICES ASSUME OutboxInv, [OutboxNext]_outboxVars PROVE OutboxInv'
    OBVIOUS
  <1>1. CASE \E e \in Events : Emit(e)
    BY <1>1, EmitInv
  <1>2. CASE \E p \in Publishers : Publishing(p)
    BY <1>2, PublishingInv
  <1>3. CASE Queueing
    BY <1>3, EmitInv, StallInv DEF Queueing
  <1>4. CASE \E w \in Workers, e \in Events : Fetch(w, e)
    BY <1>4, FetchInv
  <1>5. CASE \E w \in Workers : Processing(w) \/ Throw(w) \/ WorkerDies(w)
    BY <1>5, ProcessInv, LeaveInv DEF Processing
  <1>6. CASE UNCHANGED outboxVars
    BY <1>6 DEF outboxVars, OutboxInv, OutboxTypeOK, JobsFit, WorkersFit, PublishersFit, AckedMeansQueued
  <1> QED
    BY <1>1, <1>2, <1>3, <1>4, <1>5, <1>6 DEF OutboxNext

THEOREM OutboxInvariance == OutboxSpec => []OutboxInv
  BY OutboxInitInv, OutboxNextInv, PTL DEF OutboxSpec

\* Rows, publishers, jobs and workers keep their types.
THEOREM OutboxTyped == OutboxSpec => []OutboxTypeOK
  <1>1. OutboxInv => OutboxTypeOK
    BY DEF OutboxInv
  <1> QED
    BY <1>1, OutboxInvariance, PTL

\* An acknowledged event has a job or was processed, whatever dies, fails or
\* is published twice.
THEOREM NothingIsLost == OutboxSpec => []AckedMeansQueued
  <1>1. OutboxInv => AckedMeansQueued
    BY DEF OutboxInv
  <1> QED
    BY <1>1, OutboxInvariance, PTL

-----------------------------------------------------------------------------
(* Repetition.  A worker that has an event yet to carry out was given it   *)
(* for the first time, or because another lost it.                         *)

\* The workers that may still carry e out.
Owing(e) ==
  {w \in Workers : /\ worker[w].event = e
                   /\ \/ worker[w].at = "handling"
                      \/ worker[w].at = "fetched" /\ e \notin recorded}

Grant(e) == lost[e] + (IF e \in recorded \/ job[e].state = "active" THEN 1 ELSE 0)

PaidFor == \A e \in Events : handled[e] + Cardinality(Owing(e)) <= Grant(e)

\* Counting a set of workers that changes by one.
LEMMA Counting ==
  ASSUME NEW S \in SUBSET Workers, NEW T \in SUBSET Workers, NEW w \in Workers
  PROVE  /\ Cardinality(S) \in Nat /\ Cardinality(T) \in Nat
         /\ T \subseteq S => Cardinality(T) <= Cardinality(S)
         /\ T \subseteq S \cup {w} => Cardinality(T) <= Cardinality(S) + 1
         /\ w \in S /\ T \subseteq S \ {w} => Cardinality(T) + 1 <= Cardinality(S)
  <1>1. IsFiniteSet(S) /\ IsFiniteSet(T)
    BY OutboxAssumption, FS_Subset
  <1>2. Cardinality(S) \in Nat /\ Cardinality(T) \in Nat
    BY <1>1, FS_CardinalityType
  <1>3. T \subseteq S => Cardinality(T) <= Cardinality(S)
    BY <1>1, FS_Subset
  <1>4. ASSUME T \subseteq S \cup {w} PROVE Cardinality(T) <= Cardinality(S) + 1
    <2>1. IsFiniteSet(S \cup {w}) /\ Cardinality(S \cup {w}) <= Cardinality(S) + 1
      BY <1>1, <1>2, FS_AddElement
    <2>2. Cardinality(T) <= Cardinality(S \cup {w}) /\ Cardinality(S \cup {w}) \in Nat
      BY <1>4, <2>1, FS_Subset, FS_CardinalityType
    <2> QED
      BY <1>2, <2>1, <2>2
  <1>5. ASSUME w \in S, T \subseteq S \ {w} PROVE Cardinality(T) + 1 <= Cardinality(S)
    <2>1. IsFiniteSet(S \ {w}) /\ Cardinality(S \ {w}) = Cardinality(S) - 1
      BY <1>1, <1>5, FS_RemoveElement
    <2>2. Cardinality(T) <= Cardinality(S \ {w})
      BY <1>5, <2>1, FS_Subset
    <2> QED
      BY <1>2, <2>1, <2>2
  <1> QED
    BY <1>2, <1>3, <1>4, <1>5

\* What one event owes and is granted before and after a step.
LEMMA RepeatPaid ==
  ASSUME OutboxInv, OutboxInv', PaidFor, NEW e \in Events, NEW w \in Workers,
         \/ /\ handled'[e] = handled[e] /\ Owing(e)' \subseteq Owing(e) /\ Grant(e)' >= Grant(e)
         \/ /\ handled'[e] = handled[e] /\ Owing(e)' \subseteq Owing(e) \cup {w}
            /\ Grant(e)' >= Grant(e) + 1
         \/ /\ handled'[e] = handled[e] + 1 /\ w \in Owing(e) /\ Owing(e)' \subseteq Owing(e) \ {w}
            /\ Grant(e)' >= Grant(e)
  PROVE  handled'[e] + Cardinality(Owing(e)') <= Grant(e)'
  <1>1. Owing(e) \in SUBSET Workers /\ Owing(e)' \in SUBSET Workers
    BY DEF Owing
  <1>2. handled[e] \in Nat /\ lost[e] \in Nat /\ lost'[e] \in Nat
    BY DEF OutboxInv, OutboxTypeOK
  <1>3. Grant(e) \in Nat /\ Grant(e)' \in Nat
    BY <1>2 DEF Grant
  <1>4. handled[e] + Cardinality(Owing(e)) <= Grant(e)
    BY DEF PaidFor
  <1> DEFINE S == Owing(e)
             T == Owing(e)'
             g == Grant(e)
             h == Grant(e)'
  <1>5. /\ Cardinality(S) \in Nat /\ Cardinality(T) \in Nat
        /\ T \subseteq S => Cardinality(T) <= Cardinality(S)
        /\ T \subseteq S \cup {w} => Cardinality(T) <= Cardinality(S) + 1
        /\ w \in S /\ T \subseteq S \ {w} => Cardinality(T) + 1 <= Cardinality(S)
    BY <1>1, Counting
  <1>6. /\ S = Owing(e) /\ T = Owing(e)' /\ g = Grant(e) /\ h = Grant(e)'
    OBVIOUS
  <1> HIDE DEF S, T, g, h
  <1> QED
    BY <1>2, <1>3, <1>4, <1>5, <1>6

\* Workers hold nothing more than before, and no loss is forgotten.
LEMMA NothingNew ==
  ASSUME OutboxInv, OutboxInv', PaidFor, NEW w \in Workers,
         handled' = handled, \A e \in Events : Owing(e)' \subseteq Owing(e) /\ Grant(e)' >= Grant(e)
  PROVE  PaidFor'
  BY RepeatPaid DEF PaidFor

LEMMA PublisherPays ==
  ASSUME OutboxInv, OutboxInv', PaidFor, NEW p \in Publishers, Publishing(p)
  PROVE  PaidFor'
  <1>1. UNCHANGED <<worker, recorded, handled, lost>>
    BY DEF Publishing, Claim, Add, AddFails, Ack, AckFails, Reschedule, PublisherDies
  <1>2. \A e \in Events : (job'[e].state = "active") <=> (job[e].state = "active")
    <2>1. CASE job' = job
      BY <2>1
    <2>2. CASE job' = AddedBatch(publisher[p].batch)
      BY <2>2 DEF AddedBatch, Added, Job, OutboxInv, OutboxTypeOK
    <2> QED
      BY <2>1, <2>2 DEF Publishing, Claim, Add, AddFails, Ack, AckFails, Reschedule, PublisherDies
  <1>3. \A e \in Events : Owing(e)' = Owing(e) /\ Grant(e)' = Grant(e)
    BY <1>1, <1>2 DEF Owing, Grant
  <1> QED
    BY <1>1, <1>3 DEF PaidFor

LEMMA QueuePays ==
  ASSUME OutboxInv, OutboxInv', PaidFor, NEW e \in Events, Emit(e) \/ ComesDue(e) \/ Stall(e) \/ Forget(e)
  PROVE  PaidFor'
  <1>1. UNCHANGED <<worker, recorded, handled>>
    BY DEF Emit, ComesDue, Stall, Forget
  <1>2. \A i \in Events : Owing(i)' = Owing(i)
    BY <1>1 DEF Owing
  <1>3. \A i \in Events : lost[i] \in Nat /\ job[i] \in Job
    BY DEF OutboxInv, OutboxTypeOK
  <1>4. \A i \in Events : Grant(i)' >= Grant(i)
    <2>1. CASE Emit(e) \/ ComesDue(e)
      BY <1>1, <1>3, <2>1 DEF Emit, ComesDue, Grant
    <2>2. CASE Stall(e)
      <3>1. \A i \in Events : /\ i # e => job'[i] = job[i] /\ lost'[i] = lost[i]
                              /\ e \in recorded => lost'[i] = lost[i]
                              /\ e \notin recorded => lost'[e] = lost[e] + 1
        BY <2>2 DEF Stall, Lose, OutboxInv, OutboxTypeOK
      <3> QED
        BY <1>1, <1>3, <3>1 DEF Grant
    <2>3. CASE Forget(e)
      <3>1. e \in recorded /\ lost' = lost /\ \A i \in Events : i # e => job'[i] = job[i]
        BY <2>3 DEF Forget, OutboxInv, OutboxTypeOK, JobsFit
      <3> QED
        BY <1>1, <1>3, <3>1 DEF Grant
    <2> QED
      BY <2>1, <2>2, <2>3
  <1>5. \A i \in Events : Grant(i)' \in Nat /\ Grant(i) \in Nat /\ handled[i] \in Nat
                         /\ Cardinality(Owing(i)) \in Nat
    <2>1. \A i \in Events : Grant(i)' \in Nat /\ Grant(i) \in Nat /\ handled[i] \in Nat
      BY DEF Grant, OutboxInv, OutboxTypeOK
    <2>2. \A i \in Events : IsFiniteSet(Owing(i))
      BY OutboxAssumption, FS_Subset DEF Owing
    <2> QED
      BY <2>1, <2>2, FS_CardinalityType
  <1> QED
    BY <1>1, <1>2, <1>4, <1>5 DEF PaidFor

\* Where a worker goes decides what it owes.
LEMMA OwingMoves ==
  ASSUME OutboxInv, NEW w \in Workers, NEW r, worker' = [worker EXCEPT ![w] = r],
         recorded \subseteq recorded', NEW e \in Events
  PROVE  /\ Owing(e)' \subseteq Owing(e) \cup {w}
         /\ r.at \notin {"fetched", "handling"} \/ r.event # e => Owing(e)' \subseteq Owing(e) \ {w}
         /\ r.event = worker[w].event /\ worker[w].at = "fetched" /\ worker[w].event \notin recorded
              => Owing(e)' \subseteq Owing(e)
  <1>1. \A v \in Workers : worker'[v] = IF v = w THEN r ELSE worker[v]
    BY DEF OutboxInv, OutboxTypeOK
  <1>3. Owing(e)' \subseteq Owing(e) \cup {w}
    BY <1>1 DEF Owing
  <1>4. ASSUME r.at \notin {"fetched", "handling"} \/ r.event # e PROVE Owing(e)' \subseteq Owing(e) \ {w}
    BY <1>1, <1>4 DEF Owing
  <1>5. ASSUME r.event = worker[w].event, worker[w].at = "fetched", worker[w].event \notin recorded
        PROVE  Owing(e)' \subseteq Owing(e)
    BY <1>1, <1>5 DEF Owing
  <1> QED
    BY <1>3, <1>4, <1>5

LEMMA FetchPays ==
  ASSUME OutboxInv, OutboxInv', PaidFor, NEW w \in Workers, NEW e \in Events, Fetch(w, e)
  PROVE  PaidFor'
  <1> DEFINE busy == [at |-> "fetched", event |-> e]
  <1>1. /\ worker' = [worker EXCEPT ![w] = busy] /\ busy.event = e
        /\ job[e].state = "waiting" /\ UNCHANGED <<recorded, handled, lost>>
    BY DEF Fetch
  <1>2. job'[e].state = "active" /\ \A i \in Events : i # e => job'[i] = job[i]
    BY DEF Fetch, Taken, Job, OutboxInv, OutboxTypeOK
  <1> HIDE DEF busy
  <1>3. \A i \in Events : lost[i] \in Nat
    BY DEF OutboxInv, OutboxTypeOK
  <1>4. ASSUME NEW i \in Events, i # e
        PROVE  Owing(i)' \subseteq Owing(i) /\ Grant(i)' >= Grant(i)
    <2>1. Owing(i)' \subseteq Owing(i)
      BY <1>1, <1>4, OwingMoves
    <2>2. Grant(i)' = Grant(i) /\ Grant(i) \in Nat
      BY <1>1, <1>2, <1>3, <1>4 DEF Grant
    <2> QED
      BY <2>1, <2>2
  <1>5. CASE e \notin recorded
    <2>1. Owing(e)' \subseteq Owing(e) \cup {w}
      BY <1>1, OwingMoves
    <2>2. Grant(e)' >= Grant(e) + 1
      BY <1>1, <1>2, <1>3, <1>5 DEF Grant
    <2> QED
      BY <1>1, <1>4, <2>1, <2>2, RepeatPaid DEF PaidFor
  <1>6. CASE e \in recorded
    <2>1. \A v \in Workers : worker'[v] = IF v = w THEN busy ELSE worker[v]
      BY <1>1 DEF OutboxInv, OutboxTypeOK
    <2>2. busy.at = "fetched"
      BY DEF busy
    <2>3. Owing(e)' \subseteq Owing(e) /\ Grant(e)' >= Grant(e)
      BY <1>1, <1>3, <1>6, <2>1, <2>2 DEF Owing, Grant
    <2> QED
      BY <1>1, <1>4, <2>3, NothingNew
  <1> QED
    BY <1>5, <1>6

LEMMA LeavePays ==
  ASSUME OutboxInv, OutboxInv', PaidFor, NEW w \in Workers, Report(w) \/ WorkerDies(w)
  PROVE  PaidFor'
  <1> DEFINE e == worker[w].event
  <1>1. /\ worker' = [worker EXCEPT ![w] = IdleWorker] /\ UNCHANGED <<recorded, handled>>
    BY DEF Report, WorkerDies
  <1>2. e \in Events /\ job[e] \in Job /\ \A i \in Events : lost[i] \in Nat
    BY DEF Report, WorkerDies, OutboxInv, WorkersFit, OutboxTypeOK
  <1>3. \A i \in Events : Owing(i)' \subseteq Owing(i)
    BY <1>1, IdleTypes, OwingMoves
  <1>4. \A i \in Events : Grant(i)' >= Grant(i)
    <2>1. CASE job' = job /\ lost' = lost
      BY <1>1, <1>2, <2>1 DEF Grant
    <2>2. CASE Report(w) /\ worker[w].at = "returning" /\ job' = [job EXCEPT ![e] = Done(@)] /\ lost' = lost
      <3>1. e \in recorded /\ \A i \in Events : i # e => job'[i] = job[i]
        BY <2>2 DEF OutboxInv, WorkersFit, OutboxTypeOK
      <3> QED
        BY <1>1, <1>2, <2>2, <3>1 DEF Grant
    <2>3. CASE Report(w) /\ job' = [job EXCEPT ![e] = Retried(@)] /\ Lose(e)
      <3>1. \A i \in Events : /\ i # e => job'[i] = job[i] /\ lost'[i] = lost[i]
                              /\ e \in recorded => lost'[i] = lost[i]
                              /\ e \notin recorded => lost'[e] = lost[e] + 1
        BY <1>2, <2>3 DEF Lose, OutboxInv, OutboxTypeOK
      <3> QED
        BY <1>1, <1>2, <3>1 DEF Grant
    <2>4. CASE WorkerDies(w)
      <3>1. lost' = lost /\ \A i \in Events : job'[i].state = job[i].state
        BY <1>2, <2>4 DEF WorkerDies, Orphaned, Job, OutboxInv, OutboxTypeOK
      <3> QED
        BY <1>1, <1>2, <3>1 DEF Grant
    <2> QED
      BY <2>1, <2>2, <2>3, <2>4 DEF Report
  <1> QED
    BY <1>1, <1>3, <1>4, NothingNew

LEMMA ProcessPays ==
  ASSUME OutboxInv, OutboxInv', PaidFor, NEW w \in Workers, Check(w) \/ Handle(w) \/ Mark(w) \/ Throw(w)
  PROVE  PaidFor'
  <1> DEFINE e == worker[w].event
  <1>1. UNCHANGED <<job, lost>> /\ recorded \subseteq recorded' /\ worker[w] \in Worker
    BY DEF Check, Handle, Mark, Throw, OutboxInv, OutboxTypeOK
  <1>2. e \in Events /\ \A i \in Events : lost[i] \in Nat /\ handled[i] \in Nat
    BY DEF Check, Handle, Mark, Throw, OutboxInv, WorkersFit, OutboxTypeOK
  <1>3. \A i \in Events : Grant(i)' >= Grant(i)
    BY <1>1, <1>2 DEF Grant
  <1>4. ASSUME NEW at \in {"handled", "returning", "throwing"}, Goes(w, at)
        PROVE  \A i \in Events : Owing(i)' \subseteq Owing(i) \ {w}
    <2> DEFINE r == [worker[w] EXCEPT !.at = at]
    <2>1. r.at = at /\ worker' = [worker EXCEPT ![w] = r]
      BY <1>1, <1>4 DEF Goes, Worker
    <2> HIDE DEF r
    <2> QED
      BY <1>1, <1>4, <2>1, OwingMoves
  <1>5. CASE handled' = handled /\ \E at \in {"returning", "throwing"} : Goes(w, at)
    BY <1>3, <1>4, <1>5, NothingNew
  <1>6. CASE Check(w) /\ e \notin recorded
    <2> DEFINE r == [worker[w] EXCEPT !.at = "handling"]
    <2>1. worker' = [worker EXCEPT ![w] = r] /\ handled' = handled /\ worker[w].at = "fetched"
      BY <1>6 DEF Check, Goes
    <2>2. r.event = worker[w].event /\ worker[w].event \notin recorded
      BY <1>1, <1>6 DEF Worker
    <2> HIDE DEF r, e
    <2>3. ASSUME NEW i \in Events PROVE Owing(i)' \subseteq Owing(i)
      BY <1>1, <2>1, <2>2, OwingMoves
    <2> QED
      BY <1>3, <2>1, <2>3, NothingNew
  <1>7. CASE Handle(w)
    <2>1. /\ \A i \in Events : handled'[i] = IF i = e THEN handled[i] + 1 ELSE handled[i]
          /\ Goes(w, "handled") /\ worker[w].at = "handling"
      BY <1>2, <1>7 DEF Handle, OutboxInv, OutboxTypeOK
    <2>2. \A i \in Events : Owing(i)' \subseteq Owing(i) \ {w}
      BY <1>4, <2>1
    <2>3. w \in Owing(e)
      BY <2>1 DEF Owing
    <2> QED
      BY <1>2, <1>3, <2>1, <2>2, <2>3, RepeatPaid DEF PaidFor
  <1> QED
    BY <1>5, <1>6, <1>7 DEF Check, Mark, Throw

THEOREM RepeatsCounted == OutboxSpec => []PaidFor
  <1>1. OutboxInit => PaidFor
    <2> SUFFICES ASSUME OutboxInit, NEW e \in Events
                 PROVE  handled[e] + Cardinality(Owing(e)) <= Grant(e)
      BY DEF PaidFor
    <2>1. Owing(e) = {}
      BY IdleTypes DEF OutboxInit, Owing, IdleWorker
    <2>2. handled[e] = 0 /\ Grant(e) \in Nat
      BY DEF OutboxInit, Grant
    <2> QED
      BY <2>1, <2>2, FS_EmptySet
  <1>2. OutboxInv /\ OutboxInv' /\ PaidFor /\ [OutboxNext]_outboxVars => PaidFor'
    <2> SUFFICES ASSUME OutboxInv, OutboxInv', PaidFor, [OutboxNext]_outboxVars PROVE PaidFor'
      OBVIOUS
    <2>1. CASE \E e \in Events : Emit(e) \/ ComesDue(e) \/ Stall(e) \/ Forget(e)
      BY <2>1, QueuePays
    <2>2. CASE \E p \in Publishers : Publishing(p)
      BY <2>2, PublisherPays
    <2>3. CASE \E w \in Workers, e \in Events : Fetch(w, e)
      BY <2>3, FetchPays
    <2>4. CASE \E w \in Workers : Processing(w) \/ Throw(w) \/ WorkerDies(w)
      BY <2>4, ProcessPays, LeavePays DEF Processing
    <2>5. CASE UNCHANGED outboxVars
      BY <2>5 DEF outboxVars, PaidFor, Owing, Grant
    <2> QED
      BY <2>1, <2>2, <2>3, <2>4, <2>5 DEF OutboxNext, Queueing
  <1> QED
    BY <1>1, <1>2, OutboxInvariance, PTL DEF OutboxSpec

\* However often an event is published, whoever dies or stalls, it is carried
\* out again only when a worker lost its job before it was recorded.
THEOREM RepeatsHaveCause == OutboxSpec => []RepeatsArePaid
  <1>1. OutboxInv /\ PaidFor => RepeatsArePaid
    <2> SUFFICES ASSUME OutboxInv, PaidFor, NEW e \in Events PROVE handled[e] <= lost[e] + 1
      BY DEF RepeatsArePaid
    <2>1. handled[e] \in Nat /\ lost[e] \in Nat
      BY DEF OutboxInv, OutboxTypeOK
    <2>2. IsFiniteSet(Owing(e))
      BY OutboxAssumption, FS_Subset DEF Owing
    <2>3. Cardinality(Owing(e)) \in Nat
      BY <2>2, FS_CardinalityType
    <2> QED
      BY <2>1, <2>3 DEF PaidFor, Grant
  <1> QED
    BY <1>1, OutboxInvariance, RepeatsCounted, PTL

-----------------------------------------------------------------------------
(* Refinement.  Only a worker's check, its record and its failure while it *)
(* has the event in hand are steps of Delivery.                            *)

\* Publishers and the queue do not add to the committed events.
LEMMA EmittedStays ==
  ASSUME OutboxInv, Queueing \/ \E p \in Publishers : Publishing(p)
  PROVE  Emitted' = Emitted /\ UNCHANGED <<worker, recorded>>
  <1>1. CASE \E e \in Events : ComesDue(e)
    BY <1>1 DEF ComesDue, Emitted, OutboxInv, OutboxTypeOK
  <1>2. CASE \E e \in Events : Stall(e) \/ Forget(e)
    BY <1>2 DEF Stall, Forget, Emitted
  <1>3. ASSUME NEW p \in Publishers, Publishing(p)
        PROVE  Emitted' = Emitted /\ UNCHANGED <<worker, recorded>>
    <2>1. UNCHANGED <<worker, recorded>>
      BY <1>3 DEF Publishing, Claim, Add, AddFails, Ack, AckFails, Reschedule, PublisherDies
    <2>2. CASE outbox' = outbox
      BY <2>1, <2>2 DEF Emitted
    <2>3. CASE Claim(p)
      BY <2>1, <2>3 DEF Claim, Rows, Emitted
    <2>4. CASE outbox' = Rows(publisher[p].batch, RowState, "published")
      BY <2>1, <2>4 DEF Rows, Emitted, OutboxInv, PublishersFit
    <2>5. CASE Reschedule(p)
      BY <2>1, <2>5 DEF Reschedule, Rows, Emitted
    <2> QED
      BY <1>3, <2>2, <2>3, <2>4, <2>5 DEF Publishing, Add, AddFails, Ack, AckFails, PublisherDies
  <1> QED
    BY <1>1, <1>2, <1>3 DEF Queueing

LEMMA HandMoves ==
  ASSUME OutboxInv, NEW w \in Workers, NEW r, worker' = [worker EXCEPT ![w] = r]
  PROVE  Hand' = [Hand EXCEPT ![w] = IF r.at \in {"handling", "handled"} THEN r.event ELSE None]
  BY DEF Hand, OutboxInv, OutboxTypeOK

LEMMA GoesMoves ==
  ASSUME OutboxInv, NEW w \in Workers, NEW at, Goes(w, at)
  PROVE  Hand' = [Hand EXCEPT ![w] = IF at \in {"handling", "handled"} THEN worker[w].event ELSE None]
  <1> DEFINE r == [worker[w] EXCEPT !.at = at]
  <1>1. worker[w] \in Worker /\ worker' = [worker EXCEPT ![w] = r]
    BY DEF Goes, OutboxInv, OutboxTypeOK
  <1>2. r.at = at /\ r.event = worker[w].event
    BY <1>1 DEF Worker
  <1> HIDE DEF r
  <1> QED
    BY <1>1, <1>2, HandMoves

LEMMA WorkerRefines ==
  ASSUME OutboxInv, NEW w \in Workers,
         Processing(w) \/ Throw(w) \/ WorkerDies(w) \/ \E e \in Events : Fetch(w, e)
  PROVE  [D!DeliveryNext]_(D!deliveryVars)
  <1>1. Hand \in [Workers -> Events \cup {None}] /\ Emitted' = Emitted
    BY DEF Hand, Emitted, OutboxInv, OutboxTypeOK, Worker, Processing, Check, Handle, Mark, Report,
           Throw, WorkerDies, Fetch
  <1>2. /\ worker[w].at \in {"handling", "handled"} =>
             Hand[w] = worker[w].event /\ Hand[w] \in Events /\ Hand[w] # None
        /\ worker[w].at \notin {"handling", "handled"} => Hand[w] = None
    BY OutboxAssumption DEF Hand, OutboxInv, WorkersFit
  <1>3. ASSUME Hand' = [Hand EXCEPT ![w] = None], recorded' = recorded
        PROVE  [D!DeliveryNext]_(D!deliveryVars)
    <2>1. CASE Hand[w] = None
      BY <1>1, <1>3, <2>1 DEF D!deliveryVars
    <2>2. CASE Hand[w] # None
      BY <1>1, <1>3, <2>2 DEF D!DeliveryNext, D!Drop
    <2> QED
      BY <2>1, <2>2
  <1>4. CASE Report(w) \/ WorkerDies(w)
    BY <1>3, <1>4, HandMoves, IdleTypes DEF Report, WorkerDies
  <1>5. CASE Throw(w)
    BY <1>3, <1>5, GoesMoves DEF Throw
  <1>6. CASE \E e \in Events : Fetch(w, e)
    <2>1. PICK e \in Events : Fetch(w, e)
      BY <1>6
    <2> DEFINE busy == [at |-> "fetched", event |-> e]
    <2>2. worker' = [worker EXCEPT ![w] = busy] /\ recorded' = recorded
      BY <2>1 DEF Fetch
    <2>3. busy.at = "fetched"
      OBVIOUS
    <2> HIDE DEF busy
    <2> QED
      BY <1>3, <2>2, <2>3, HandMoves
  <1>7. CASE Check(w) /\ worker[w].event \in recorded
    BY <1>3, <1>7, GoesMoves DEF Check
  <1>8. CASE Check(w) /\ worker[w].event \notin recorded
    <2>1. Hand' = [Hand EXCEPT ![w] = worker[w].event] /\ recorded' = recorded
      BY <1>8, GoesMoves DEF Check
    <2>2. worker[w].event \in Events /\ worker[w].event \in Emitted \ recorded
      BY <1>8 DEF Check, Emitted, OutboxInv, WorkersFit
    <2>3. D!Deliver(w, worker[w].event)
      BY <1>1, <1>2, <1>8, <2>1, <2>2 DEF D!Deliver, Check
    <2> QED
      BY <2>2, <2>3 DEF D!DeliveryNext
  <1>9. CASE Handle(w)
    <2>1. Hand' = [Hand EXCEPT ![w] = worker[w].event] /\ recorded' = recorded
      BY <1>9, GoesMoves DEF Handle
    <2> QED
      BY <1>1, <1>2, <1>9, <2>1 DEF Handle, D!deliveryVars
  <1>10. CASE Mark(w)
    <2>1. Hand' = [Hand EXCEPT ![w] = None] /\ recorded' = recorded \cup {worker[w].event}
      BY <1>10, GoesMoves DEF Mark
    <2>2. D!Complete(w)
      BY <1>1, <1>2, <1>10, <2>1 DEF D!Complete, Mark
    <2> QED
      BY <2>2 DEF D!DeliveryNext
  <1> QED
    BY <1>4, <1>5, <1>6, <1>7, <1>8, <1>9, <1>10 DEF Processing

\* Consumers get what Delivery promises: only committed events, none that is
\* recorded when it is handed out.
THEOREM OutboxIsDelivery == OutboxSpec => ImplementsDelivery
  <1>1. OutboxInit => D!DeliveryInit
    BY IdleTypes DEF OutboxInit, D!DeliveryInit, Emitted, Hand
  <1>2. OutboxInv /\ [OutboxNext]_outboxVars => [D!DeliveryNext]_(D!deliveryVars)
    <2> SUFFICES ASSUME OutboxInv, [OutboxNext]_outboxVars PROVE [D!DeliveryNext]_(D!deliveryVars)
      OBVIOUS
    <2>1. ASSUME NEW e \in Events, Emit(e) PROVE [D!DeliveryNext]_(D!deliveryVars)
      <3>1. e \notin Emitted /\ Emitted' = Emitted \cup {e} /\ UNCHANGED <<Hand, recorded>>
        BY <2>1 DEF Emit, Emitted, Hand, OutboxInv, OutboxTypeOK
      <3> QED
        BY <3>1 DEF D!DeliveryNext, D!Emit
    <2>2. CASE Queueing \/ \E p \in Publishers : Publishing(p)
      BY <2>2, EmittedStays DEF D!deliveryVars, Hand
    <2>3. CASE \E w \in Workers : Processing(w) \/ Throw(w) \/ WorkerDies(w)
                                 \/ \E e \in Events : Fetch(w, e)
      BY <2>3, WorkerRefines
    <2>4. CASE UNCHANGED outboxVars
      BY <2>4 DEF outboxVars, D!deliveryVars, Emitted, Hand
    <2> QED
      BY <2>1, <2>2, <2>3, <2>4 DEF OutboxNext
  <1> QED
    BY <1>1, <1>2, OutboxInvariance, PTL DEF OutboxSpec, ImplementsDelivery, D!DeliverySpec

=============================================================================
