--------------------------- MODULE SubmissionReview ---------------------------
(***************************************************************************)
(* The submission aggregate of the backend: a quest assignment (a row of   *)
(* user_quests), the one submission made for it, its review, its appeal,   *)
(* its visibility, and the balance of the player (a row of profiles).      *)
(*                                                                         *)
(* Every operation of submissions.repository.ts is a READ COMMITTED        *)
(* transaction that first locks a row (SELECT ... FOR UPDATE), checks what *)
(* it read, and then writes what it computed from that read.  Here it is a *)
(* step that locks, checks and remembers the row, and a step that commits; *)
(* approve also locks the profile row in between.  A single UPDATE is one  *)
(* step.  A row is locked while an open transaction works on it.           *)
(*                                                                         *)
(* An assignment is one element of Assignments: its user_quests row and    *)
(* its submissions row go by the same name, because a submission is only   *)
(* made while the assignment is 'assigned', and no write returns it there. *)
(* "visibility" stands for the columns visibility and deleted_at, which    *)
(* are always written together.  show_in_feed is not modelled here.        *)
(***************************************************************************)
EXTENDS Integers, FiniteSets

CONSTANTS
  Users,            \* rows of profiles
  Assignments,      \* rows of user_quests
  Owner,            \* the player of each assignment
  Clients,          \* requests and workers that may hold a transaction open
  Rewards,          \* what quests.xp_reward may be when a review reads it
  Bonuses,          \* quest_of_the_day.bonus_xp; 0 when there is none
  Recommendations,  \* what the agent may store in recommended_xp
  EditXp,           \* totals an administrator may type
  EditLevels,       \* levels an administrator may type
  EditCounts,       \* quests_completed values an administrator may type
  SetXpMax,         \* @Max of SetUserXpDto.xp
  MaxInt,           \* the largest value of an integer column
  LevelSpan         \* XP per level

ASSUME ReviewAssumption ==
  /\ Owner \in [Assignments -> Users]
  /\ IsFiniteSet(Assignments)
  /\ Rewards \subseteq Nat /\ Bonuses \subseteq Nat /\ Recommendations \subseteq Nat
  /\ EditXp \subseteq Nat /\ EditCounts \subseteq Nat
  /\ EditLevels \subseteq Nat \ {0}
  /\ SetXpMax \in Nat /\ MaxInt \in Nat
  /\ LevelSpan \in Nat \ {0}

VARIABLES
  quest,    \* user_quests.status
  sub,      \* the submissions row, "absent" before it is inserted
  profile,  \* xp, level and quests_completed of profiles
  txn,      \* the transaction each client holds open
  edited    \* how an administrator last overwrote a player's totals, if at all

vars == <<quest, sub, profile, txn, edited>>

-----------------------------------------------------------------------------
NullXp == -1                       \* recommended_xp IS NULL

\* "unassigned" is a row assignSpecific has not inserted yet.
QuestStatus == {"unassigned", "assigned", "submitted", "approved", "rejected", "expired", "abandoned"}
SubmissionStatus == {"absent", "pending", "approved", "rejected"}
Visibility == {"visible", "hidden_from_feed", "deleted"}
\* What a visibility change asks for: an owner names a visibility, a
\* moderator's removal is a deletion of its own kind.
Ask == Visibility \cup {"takedown"}

Submission ==
  [status: SubmissionStatus, visibility: Visibility, moderationRemoved: BOOLEAN,
   appealed: BOOLEAN, awarded: BOOLEAN, amount: Nat, recommended: Nat \cup {NullXp}]

Profile == [xp: Nat, completed: Nat, level: Nat]

NewSubmission ==
  [status |-> "pending", visibility |-> "visible", moderationRemoved |-> FALSE,
   appealed |-> FALSE, awarded |-> FALSE, amount |-> 0, recommended |-> NullXp]

NewProfile == [xp |-> 0, completed |-> 0, level |-> 1]

\* GREATEST(1, xp / 100 + 1) and Math.max(1, Math.floor(xp / 100) + 1)
LevelOf(xp) == (xp \div LevelSpan) + 1

Monus(m, n) == IF n <= m THEN m - n ELSE 0      \* GREATEST(0, m - n)

Txn == [op: {"create", "appeal", "approve", "credit", "reject", "visibility"},
        on: Assignments, seen: Submission, old: Profile, award: Nat, ask: Ask]

Idle == [op |-> "idle"]

\* Somebody holds the row of assignment a: user_quests before the submission
\* exists, submissions afterwards.
RowLocked(a) == \E c \in Clients : txn[c] # Idle /\ txn[c].on = a

\* Only approve keeps a profile row locked from one statement to another.
ProfileLocked(u) ==
  \E c \in Clients : txn[c] # Idle /\ txn[c].op = "credit" /\ Owner[txn[c].on] = u

\* BEGIN and the first SELECT ... FOR UPDATE: waits for the row, then reads it.
Begin(c, op, a, award, ask) ==
  /\ txn[c] = Idle
  /\ ~RowLocked(a)
  /\ txn' = [txn EXCEPT ![c] = [op |-> op, on |-> a, seen |-> sub[a], old |-> NewProfile,
                                award |-> award, ask |-> ask]]
  /\ UNCHANGED <<quest, sub, profile, edited>>

Holds(c, op) == txn[c] # Idle /\ txn[c].op = op

End(c) == txn' = [txn EXCEPT ![c] = Idle]

Init ==
  /\ quest = [a \in Assignments |-> "unassigned"]
  /\ sub = [a \in Assignments |-> [NewSubmission EXCEPT !.status = "absent"]]
  /\ profile = [u \in Users |-> NewProfile]
  /\ txn = [c \in Clients |-> Idle]
  /\ edited = [u \in Users |-> "never"]

-----------------------------------------------------------------------------
(* The assignment: taken, then submitted once, or expired, or abandoned.   *)

\* assignSpecific inserts the row; a player runs one quest at a time (the
\* rest of the intake rules are in QuestIntake).
Assign(a) ==
  /\ quest[a] = "unassigned"
  /\ \A b \in Assignments : quest[b] = "assigned" => Owner[b] # Owner[a]
  /\ quest' = [quest EXCEPT ![a] = "assigned"]
  /\ UNCHANGED <<sub, profile, txn, edited>>

CanSubmit(a) == quest[a] = "assigned"

\* create: the user_quests row is locked and must still be 'assigned'.
CreateLock(c, a) == CanSubmit(a) /\ Begin(c, "create", a, 0, "visible")

\* create: the submission is inserted and the assignment becomes 'submitted'.
CreateCommit(c) ==
  /\ Holds(c, "create")
  /\ LET a == txn[c].on IN
     /\ sub' = [sub EXCEPT ![a] = NewSubmission]
     /\ quest' = [quest EXCEPT ![a] = "submitted"]
  /\ End(c)
  /\ UNCHANGED <<profile, edited>>

\* Variant: the UPDATE forgets that only a running assignment can end.
EndAnyAssignment(a, status) ==
  /\ quest[a] \in {"assigned", "submitted"}
  /\ ~RowLocked(a)
  /\ quest' = [quest EXCEPT ![a] = status]
  /\ UNCHANGED <<sub, profile, txn, edited>>

\* expire, the maintenance sweep and the lazy expiry (status 'expired'), and
\* abandon: one UPDATE each, and each only of an 'assigned' row.
EndAssignment(a, status) ==
  /\ quest[a] = "assigned"
  /\ ~RowLocked(a)
  /\ quest' = [quest EXCEPT ![a] = status]
  /\ UNCHANGED <<sub, profile, txn, edited>>

-----------------------------------------------------------------------------
(* Review and appeal.                                                      *)

\* Variants: only the status is checked, or only the deletion.
ReviewableDeleted(s) == s.status = "pending"
ReviewableTwice(s) == s.status # "absent" /\ s.visibility # "deleted"

Reviewable(s) == s.status = "pending" /\ s.visibility # "deleted"

\* COALESCE(s.recommended_xp, q.xp_reward) + COALESCE(d.bonus_xp, 0)
Price(s, reward, bonus) ==
  (IF s.recommended = NullXp THEN reward ELSE s.recommended) + bonus

\* approve: lockForReview.
ApproveLock(c, a, reward, bonus) ==
  /\ Reviewable(sub[a])
  /\ Begin(c, "approve", a, Price(sub[a], reward, bonus), "visible")

\* approve: SELECT xp, level FROM profiles ... FOR UPDATE.
ApproveLockProfile(c) ==
  /\ Holds(c, "approve")
  /\ ~ProfileLocked(Owner[txn[c].on])
  /\ txn' = [txn EXCEPT ![c].op = "credit", ![c].old = profile[Owner[txn[c].on]]]
  /\ UNCHANGED <<quest, sub, profile, edited>>

\* One award added to a balance; the UPDATE fails with 22003 above MaxInt.
Credited(p, amount) ==
  [xp |-> p.xp + amount, completed |-> p.completed + 1, level |-> LevelOf(p.xp + amount)]

\* Variant: the completed quest is not taken back with the XP.
DebitedXpOnly(p, amount) ==
  [p EXCEPT !.xp = Monus(@, amount), !.level = LevelOf(Monus(p.xp, amount))]

\* One award taken back from a balance.
Debited(p, amount) ==
  [xp |-> Monus(p.xp, amount), completed |-> Monus(p.completed, 1),
   level |-> LevelOf(Monus(p.xp, amount))]

\* approve: the decision, the award and the balance commit together.
ApproveCommit(c) ==
  /\ Holds(c, "credit")
  /\ LET a == txn[c].on
         u == Owner[a]
     IN /\ profile[u].xp + txn[c].award <= MaxInt
        /\ sub' = [sub EXCEPT ![a].status = "approved", ![a].awarded = TRUE,
                              ![a].amount = txn[c].award]
        /\ quest' = [quest EXCEPT ![a] = "approved"]
        /\ profile' = [profile EXCEPT ![u] = Credited(@, txn[c].award)]
  /\ End(c)
  /\ UNCHANGED edited

\* reject: lockForReview, then the decision.
RejectLock(c, a) == Reviewable(sub[a]) /\ Begin(c, "reject", a, 0, "visible")

RejectCommit(c) ==
  /\ Holds(c, "reject")
  /\ LET a == txn[c].on IN
     /\ sub' = [sub EXCEPT ![a].status = "rejected"]
     /\ quest' = [quest EXCEPT ![a] = "rejected"]
  /\ End(c)
  /\ UNCHANGED <<profile, edited>>

\* Variant: the spent appeal is not checked.
AppealableAgain(s) == s.status = "rejected" /\ s.visibility # "deleted"

Appealable(s) == s.status = "rejected" /\ ~s.appealed /\ s.visibility # "deleted"

\* appeal: back to 'pending', with the one appeal spent.
AppealLock(c, a) == Appealable(sub[a]) /\ Begin(c, "appeal", a, 0, "visible")

AppealCommit(c) ==
  /\ Holds(c, "appeal")
  /\ LET a == txn[c].on IN
     /\ sub' = [sub EXCEPT ![a].status = "pending", ![a].appealed = TRUE]
     /\ quest' = [quest EXCEPT ![a] = "submitted"]
  /\ End(c)
  /\ UNCHANGED <<profile, edited>>

\* The agent's figure, written without a guard when its run gets that far.
StoreRecommendedXp(a, xp) ==
  /\ sub[a].status # "absent"
  /\ ~RowLocked(a)
  /\ sub' = [sub EXCEPT ![a].recommended = xp]
  /\ UNCHANGED <<quest, profile, txn, edited>>

-----------------------------------------------------------------------------
(* Visibility: the author hides, shows, deletes and restores a post; a     *)
(* moderator's removal is permanent.                                       *)

Target(ask) == IF ask = "takedown" THEN "deleted" ELSE ask

\* Variant: the author may restore what a moderator removed.
MayAlwaysChange(s, ask) == s.status # "absent"

MayChange(s, ask) ==
  /\ s.status # "absent"
  /\ s.moderationRemoved => Target(ask) = "deleted"

VisibilityLock(c, a, ask) ==
  /\ MayChange(sub[a], ask)
  /\ Begin(c, "visibility", a, 0, ask)

\* The award goes when an awarded post is deleted ...
Revokes(s, ask) == Target(ask) = "deleted" /\ s.visibility # "deleted" /\ s.awarded

\* ... and comes back when an approved post is restored.
Restores(s, ask) ==
  /\ s.visibility = "deleted" /\ Target(ask) # "deleted"
  /\ s.status = "approved" /\ ~s.awarded

\* The row after the change; asking for what it already has changes nothing
\* but the moderator's mark.
Moved(s, ask) ==
  [s EXCEPT !.visibility = Target(ask),
            !.moderationRemoved = @ \/ ask = "takedown",
            !.awarded = (@ /\ ~Revokes(s, ask)) \/ Restores(s, ask)]

VisibilityCommit(c) ==
  /\ Holds(c, "visibility")
  /\ LET a == txn[c].on
         u == Owner[a]
         s == txn[c].seen
         ask == txn[c].ask
     IN /\ sub' = [sub EXCEPT ![a] = Moved(s, ask)]
        /\ Revokes(s, ask) \/ Restores(s, ask) => ~ProfileLocked(u)
        /\ Restores(s, ask) => profile[u].xp + s.amount <= MaxInt
        /\ profile' = [profile EXCEPT ![u] =
                         IF Revokes(s, ask) THEN Debited(@, s.amount)
                         ELSE IF Restores(s, ask) THEN Credited(@, s.amount) ELSE @]
  /\ End(c)
  /\ UNCHANGED <<quest, edited>>

-----------------------------------------------------------------------------
(* The administrator's edits of a balance.                                 *)

\* setXp: an absolute total within the DTO's bound, and the level derived.
\* Variant: the DTO has no upper bound.
SettableUnbounded(xp) == xp <= MaxInt

Settable(xp) == xp <= SetXpMax

SetXp(u, xp, completed) ==
  /\ Settable(xp)
  /\ ~ProfileLocked(u)
  /\ profile' = [profile EXCEPT ![u] = [xp |-> xp, completed |-> completed,
                                        level |-> LevelOf(xp)]]
  /\ edited' = [edited EXCEPT ![u] = "set"]
  /\ UNCHANGED <<quest, sub, txn>>

\* updateUserProfile: each of the three columns may be typed on its own, and
\* keeps its value when it is not.
Typed(u) ==
  [xp: EditXp \cup {profile[u].xp}, completed: EditCounts \cup {profile[u].completed},
   level: EditLevels \cup {profile[u].level}]

UpdateUserProfile(u, p) ==
  /\ p.xp <= MaxInt /\ p.completed <= MaxInt /\ p.level <= MaxInt
  /\ ~ProfileLocked(u)
  /\ profile' = [profile EXCEPT ![u] = p]
  /\ edited' = [edited EXCEPT ![u] = "typed"]
  /\ UNCHANGED <<quest, sub, txn>>

\* A failing statement, a lost connection or a crash rolls back.
Abort(c) ==
  /\ txn[c] # Idle
  /\ End(c)
  /\ UNCHANGED <<quest, sub, profile, edited>>

-----------------------------------------------------------------------------
Intake ==
  \/ \E a \in Assignments : Assign(a)
  \/ \E c \in Clients, a \in Assignments : CreateLock(c, a)
  \/ \E c \in Clients : CreateCommit(c)
  \/ \E a \in Assignments, status \in {"expired", "abandoned"} : EndAssignment(a, status)

Review ==
  \/ \E c \in Clients, a \in Assignments, reward \in Rewards, bonus \in Bonuses :
       ApproveLock(c, a, reward, bonus)
  \/ \E c \in Clients : ApproveLockProfile(c)
  \/ \E c \in Clients : ApproveCommit(c)
  \/ \E c \in Clients, a \in Assignments : RejectLock(c, a)
  \/ \E c \in Clients : RejectCommit(c)
  \/ \E c \in Clients, a \in Assignments : AppealLock(c, a)
  \/ \E c \in Clients : AppealCommit(c)
  \/ \E a \in Assignments, xp \in Recommendations : StoreRecommendedXp(a, xp)

Moderation ==
  \/ \E c \in Clients, a \in Assignments, ask \in Ask : VisibilityLock(c, a, ask)
  \/ \E c \in Clients : VisibilityCommit(c)

Administration ==
  \/ \E u \in Users, xp \in EditXp, completed \in EditCounts : SetXp(u, xp, completed)
  \/ \E u \in Users : \E p \in Typed(u) : UpdateUserProfile(u, p)

Next ==
  \/ Intake \/ Review \/ Moderation \/ Administration
  \/ \E c \in Clients : Abort(c)

Spec == Init /\ [][Next]_vars

-----------------------------------------------------------------------------
(* Properties.                                                             *)

\* Every variable has its type; an open transaction is one of the six kinds.
TypeOK ==
  /\ quest \in [Assignments -> QuestStatus]
  /\ sub \in [Assignments -> Submission]
  /\ profile \in [Users -> Profile]
  /\ txn \in [Clients -> Txn \cup {Idle}]
  /\ edited \in [Users -> {"never", "set", "typed"}]

\* At most one transaction works on an assignment, and at most one holds a
\* profile: two moderators, or a moderator and the author, never overlap.
LocksExclusive ==
  \A c, d \in Clients : c # d /\ txn[c] # Idle /\ txn[d] # Idle =>
    /\ txn[c].on # txn[d].on
    /\ txn[c].op = "credit" /\ txn[d].op = "credit" => Owner[txn[c].on] # Owner[txn[d].on]

\* What a transaction read under its lock is still what the row holds when it
\* writes, so a guard checked in JavaScript is never stale; the same of the
\* old XP and level the leaderboard and level-up notices are computed from.
LockedReadsAreCurrent ==
  \A c \in Clients : txn[c] # Idle =>
    /\ txn[c].seen = sub[txn[c].on]
    /\ txn[c].op = "credit" => txn[c].old = profile[Owner[txn[c].on]]

\* The two rows of an assignment tell the same story, whoever decided last.
StatusesAgree ==
  \A a \in Assignments :
    /\ quest[a] \in {"unassigned", "assigned", "expired", "abandoned"} <=> sub[a].status = "absent"
    /\ quest[a] = "submitted" <=> sub[a].status = "pending"
    /\ quest[a] \in {"approved", "rejected"} => sub[a].status = quest[a]

\* XP is held for a post exactly while it is approved and not deleted: no
\* award outlives its post, and no restored post loses its award.
AwardFollowsPost ==
  \A a \in Assignments :
    sub[a].awarded <=> sub[a].status = "approved" /\ sub[a].visibility # "deleted"

\* A moderator's removal holds: the post is deleted and stays so.
TakedownHolds ==
  \A a \in Assignments : sub[a].moderationRemoved => sub[a].visibility = "deleted"

Awarded(u) == {a \in Assignments : Owner[a] = u /\ sub[a].awarded}

\* The quest counter of a player no administrator has edited counts the awards
\* the submissions record: none lost to a race, counted twice or left behind.
CompletedMatchesLedger ==
  \A u \in Users : edited[u] = "never" => profile[u].completed = Cardinality(Awarded(u))

\* The XP of a player's awards, point by point: as many as the amounts add up to.
Points(u) == UNION {{a} \X (1..sub[a].amount) : a \in Awarded(u)}

\* So does the XP: it is the sum of the awards, which is what xpAudit expects.
BalanceMatchesLedger ==
  /\ CompletedMatchesLedger
  /\ \A u \in Users : edited[u] = "never" => profile[u].xp = Cardinality(Points(u))

\* Approval is final, at the amount it was made for; so is the rejection of a
\* submission whose one appeal is spent; and nothing is decided about a post
\* that is deleted at that moment.
DecisionsAreFinal ==
  [][\A a \in Assignments :
       /\ sub[a].status = "approved" =>
            sub'[a].status = "approved" /\ sub'[a].amount = sub[a].amount
       /\ sub[a].status = "rejected" /\ sub[a].appealed => sub'[a].status = "rejected"
       /\ sub'[a].status # sub[a].status => sub'[a].visibility # "deleted"]_vars

\* Seen as prizes and balances, the submission flow is the award ledger.
Ledger == INSTANCE AwardLedger WITH
  Prizes <- Assignments,
  price <- [a \in Assignments |-> IF sub[a].status = "approved" THEN sub[a].amount ELSE -1],
  paid <- {a \in Assignments : sub[a].awarded},
  balance <- [u \in Users |-> [xp |-> profile[u].xp, completed |-> profile[u].completed]]

ImplementsLedger == Ledger!Spec

\* An approval that has reached the balance can commit: the sum fits the
\* column, unless the total was typed.  (The bound on SetUserXpDto.xp is there
\* so that it always does; UpdateUserProfileDto has none.)
ApprovalFits ==
  \A c \in Clients : Holds(c, "credit") =>
    LET u == Owner[txn[c].on]
    IN  edited[u] # "typed" => profile[u].xp + txn[c].award <= MaxInt

=============================================================================
