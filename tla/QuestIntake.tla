----------------------------- MODULE QuestIntake -----------------------------
(***************************************************************************)
(* How players get quests: the picker that offers them and charges the     *)
(* rerolls, the assignment of one (by the player, by an administrator, by  *)
(* joining a group), and the ways an assignment ends.  Requests run as     *)
(* READ COMMITTED transactions that take the user's advisory lock, then    *)
(* read, then write; ends of assignments take no such lock.                *)
(*                                                                         *)
(* now() is the time a transaction began, which is before it got the lock; *)
(* no two transactions begin at the same time.                             *)
(* Whether a quest may be taken at all (locked steps, closed windows,      *)
(* hidden quests, group rules) is an arbitrary refusal here.               *)
(***************************************************************************)
EXTENDS Integers, FiniteSets

CONSTANTS
  Users,
  Clients,      \* concurrent requests
  None,
  Cooldown,     \* QUEST_ASSIGNMENT_COOLDOWN_SECONDS
  Day,          \* the 24 hours of the reroll window
  Budget,       \* rerolls in a window: 5 in the code
  MaxQuests,    \* bound: rows of user_quests
  MaxRolls,     \* bound: rows of quest_reroll_log
  MaxTime       \* bound on the clock

ASSUME IntakeAssumption ==
  /\ None \notin Users /\ None \notin Clients
  /\ Cooldown \in Nat /\ Day \in Nat \ {0} /\ Budget \in Nat
  /\ MaxQuests \in Nat /\ MaxRolls \in Nat /\ MaxTime \in Nat

VARIABLES
  clock,
  quest,  \* user_quests
  log,    \* quest_reroll_log
  lock,   \* pg_advisory_xact_lock of each user
  txn     \* the transaction of each client

vars == <<clock, quest, log, lock, txn>>

-----------------------------------------------------------------------------
Time == 0..MaxTime
Assignments == 1..MaxQuests
Rolls == 1..MaxRolls

\* overdue: expires_at has passed.
Quest == [user: Users \cup {None}, at: Time,
          status: {"none", "assigned", "submitted", "decided", "expired", "abandoned"},
          overdue: BOOLEAN]
NoQuest == [user |-> None, at |-> 0, status |-> "none", overdue |-> FALSE]

Roll == [user: Users \cup {None}, at: Time, charged: BOOLEAN]
NoRoll == [user |-> None, at |-> 0, charged |-> FALSE]

\* assign, override: assignSpecific() with displaceActive false or true.
\* join, swap: CollabRepository.join() with abandonActiveQuest false or true.
Kinds == {"assign", "override", "join", "swap", "pick"}

\* ends: the rows it has set to 'expired' and holds until it commits.
Txn == [kind: Kinds, user: Users \cup {None}, now: Time,
        at: {"idle", "waiting", "locked", "swept", "checked"},
        ends: SUBSET Assignments, charged: BOOLEAN]
Idle == [kind |-> "pick", user |-> None, now |-> 0, at |-> "idle", ends |-> {}, charged |-> FALSE]

Init ==
  /\ clock = 0
  /\ quest = [a \in Assignments |-> NoQuest]
  /\ log = [r \in Rolls |-> NoRoll]
  /\ lock = [u \in Users |-> None]
  /\ txn = [c \in Clients |-> Idle]

-----------------------------------------------------------------------------
(* Transactions *)

Running(u) == {a \in Assignments : quest[a].user = u /\ quest[a].status = "assigned"}
\* Variant: the rows to end are remembered, not locked.
HeldByNobody(a) == a \notin Assignments

Held(a) == \E c \in Clients : a \in txn[c].ends

\* Bound: a request begins only if there are rows left for what is under way.
RowsLeft ==
  LET busy == Cardinality({c \in Clients : txn[c].at # "idle"})
  IN /\ busy < Cardinality({a \in Assignments : quest[a].status = "none"})
     /\ busy < Cardinality({r \in Rolls : log[r] = NoRoll})

Begin(c, u, kind) ==
  /\ txn[c].at = "idle" /\ RowsLeft /\ clock < MaxTime
  /\ clock' = clock + 1
  /\ txn' = [txn EXCEPT ![c] =
       [Idle EXCEPT !.kind = kind, !.user = u, !.now = clock', !.at = "waiting"]]
  /\ UNCHANGED <<quest, log, lock>>

\* Variant: the lock is not waited for.
GrantableToAll(u) == lock[u] \in Clients \cup {None}

Grantable(u) == lock[u] = None

LockUser(c) ==
  /\ txn[c].at = "waiting"
  /\ Grantable(txn[c].user)
  /\ lock' = [lock EXCEPT ![txn[c].user] = c]
  /\ txn' = [txn EXCEPT ![c].at = "locked"]
  /\ UNCHANGED <<clock, quest, log>>

\* Variant: a session lock, which only a commit would release.
UnlockedByCommit(c) ==
  [u \in Users |-> IF lock[u] = c /\ txn[c].at = "checked" THEN None ELSE lock[u]]

\* COMMIT or ROLLBACK of c: its advisory lock and its rows are free again.
Unlocked(c) == [u \in Users |-> IF lock[u] = c THEN None ELSE lock[u]]

End(c) ==
  /\ lock' = Unlocked(c)
  /\ txn' = [txn EXCEPT ![c] = Idle]

Rollback(c) ==
  /\ End(c)
  /\ UNCHANGED <<clock, quest, log>>

\* A gate refuses, or the connection breaks.
Fail(c) == txn[c].at # "idle" /\ Rollback(c)

-----------------------------------------------------------------------------
(* assignSpecific() and join() *)

\* What the transaction ends before it looks for an active quest.
Displaced(c) ==
  {a \in Running(txn[c].user) :
     \/ txn[c].kind \in {"assign", "override"} /\ quest[a].overdue
     \/ txn[c].kind = "override"
     \/ txn[c].kind = "swap"}

Sweep(c) ==
  /\ txn[c].kind # "pick" /\ txn[c].at = "locked"
  /\ \A a \in Displaced(c) : ~Held(a)
  /\ txn' = [txn EXCEPT ![c].at = "swept", ![c].ends = Displaced(c)]
  /\ UNCHANGED <<clock, quest, log, lock>>

Active(c) == Running(txn[c].user) \ txn[c].ends

CoolingDown(c) ==
  \E a \in Assignments :
    /\ quest[a].user = txn[c].user
    /\ quest[a].status \in {"assigned", "submitted"}
    /\ a \notin txn[c].ends \/ txn[c].kind = "swap"
    /\ quest[a].at > txn[c].now - Cooldown

Refused(c) ==
  \/ Active(c) # {}
  \/ txn[c].kind # "override" /\ Cooldown > 0 /\ CoolingDown(c)

Check(c) ==
  /\ txn[c].at = "swept"
  /\ IF Refused(c) THEN Rollback(c)
     ELSE /\ txn' = [txn EXCEPT ![c].at = "checked"]
          /\ UNCHANGED <<clock, quest, log, lock>>

Given(c) ==
  [user |-> txn[c].user, at |-> txn[c].now, status |-> "assigned", overdue |-> FALSE]

\* The INSERT, which user_quests_one_assigned_idx refuses when there is an
\* assigned row, and the COMMIT.
Insert(c, a) ==
  /\ txn[c].kind # "pick" /\ txn[c].at = "checked"
  /\ IF Active(c) # {} THEN UNCHANGED quest
     ELSE /\ quest[a].status = "none"
          /\ \A b \in Assignments : b < a => quest[b].status # "none"
          /\ quest' = [b \in Assignments |->
               IF b = a THEN Given(c)
               ELSE IF b \in txn[c].ends THEN [quest[b] EXCEPT !.status = "expired"]
               ELSE quest[b]]
  /\ End(c)
  /\ UNCHANGED <<clock, log>>

-----------------------------------------------------------------------------
(* pickerOptions() *)

\* A roll was logged since the last assignment: this one is not free.
Costs(c) ==
  \E r \in Rolls :
    /\ log[r].user = txn[c].user
    /\ \A a \in Assignments : quest[a].user = txn[c].user => log[r].at > quest[a].at

Counted(u, from) == {r \in Rolls : log[r].user = u /\ log[r].charged /\ log[r].at > from}
\* Variant: rerolls count from the last midnight.
SpentToday(c) == Cardinality(Counted(txn[c].user, (txn[c].now \div Day) * Day - 1))

Spent(c) == Cardinality(Counted(txn[c].user, txn[c].now - Day))

ReadBudget(c) ==
  /\ txn[c].kind = "pick" /\ txn[c].at = "locked"
  /\ IF Costs(c) /\ Spent(c) >= Budget THEN Rollback(c)
     ELSE /\ txn' = [txn EXCEPT ![c].at = "checked", ![c].charged = Costs(c)]
          /\ UNCHANGED <<clock, quest, log, lock>>

LogRoll(c, r) ==
  /\ txn[c].kind = "pick" /\ txn[c].at = "checked"
  /\ log[r] = NoRoll /\ \A s \in Rolls : s < r => log[s] # NoRoll
  /\ log' = [log EXCEPT ![r] =
       [user |-> txn[c].user, at |-> txn[c].now, charged |-> txn[c].charged]]
  /\ End(c)
  /\ UNCHANGED <<clock, quest>>

-----------------------------------------------------------------------------
(* What else becomes of an assignment; each of these is one statement. *)

Set(a, status) ==
  /\ ~Held(a)
  /\ quest' = [quest EXCEPT ![a].status = status]
  /\ UNCHANGED <<clock, log, lock, txn>>

\* QuestsRepository.abandon()
Abandon(a) == quest[a].status = "assigned" /\ Set(a, "abandoned")

\* expire(), expireAndWarn(), CollabRepository.abandon()
Expire(a) == quest[a].status = "assigned" /\ Set(a, "expired")

Submit(a) == quest[a].status = "assigned" /\ ~quest[a].overdue /\ Set(a, "submitted")

Review(a) == quest[a].status = "submitted" /\ Set(a, "decided")

\* Of a rejection.
Appeal(a) == quest[a].status = "decided" /\ Set(a, "submitted")

\* Time passes the deadline, or the agent moves it.
Overdue(a) ==
  /\ quest[a].status = "assigned" /\ ~Held(a)
  /\ quest' = [quest EXCEPT ![a].overdue = ~@]
  /\ UNCHANGED <<clock, log, lock, txn>>

Tick ==
  /\ clock < MaxTime
  /\ clock' = clock + 1
  /\ UNCHANGED <<quest, log, lock, txn>>

-----------------------------------------------------------------------------
Request(c) ==
  \/ LockUser(c) \/ Sweep(c) \/ Check(c) \/ ReadBudget(c)
  \/ \E a \in Assignments : Insert(c, a)
  \/ \E r \in Rolls : LogRoll(c, r)

Ends(a) == Abandon(a) \/ Expire(a) \/ Submit(a) \/ Review(a) \/ Appeal(a) \/ Overdue(a)

Next ==
  \/ \E c \in Clients : Request(c) \/ Fail(c)
  \/ \E c \in Clients, u \in Users, kind \in Kinds : Begin(c, u, kind)
  \/ \E a \in Assignments : Ends(a)
  \/ Tick

Spec == Init /\ [][Next]_vars

\* A request runs on, and waiters of a lock are served in their order.
Fairness ==
  \A c \in Clients : WF_vars(Request(c)) /\ SF_vars(LockUser(c))
LiveSpec == Spec /\ Fairness

-----------------------------------------------------------------------------
TypeOK ==
  /\ clock \in Time
  /\ quest \in [Assignments -> Quest]
  /\ log \in [Rolls -> Roll]
  /\ lock \in [Users -> Clients \cup {None}]
  /\ txn \in [Clients -> Txn]

\* user_quests_one_assigned_idx only backs the advisory lock up: what a
\* transaction has checked, that the player has no other active quest, still
\* holds when it inserts, however many requests the player sends at once.
InsertFindsRoom ==
  \A c \in Clients :
    txn[c].kind # "pick" /\ txn[c].at = "checked" => Active(c) = {}

\* In no window of 24 hours is a player charged for more rerolls than the
\* budget, whatever spins run at once and however long they wait.
BudgetHolds ==
  \A u \in Users, t \in Time :
    Cardinality({r \in Counted(u, t - 1) : log[r].at < t + Day}) <= Budget

\* Proof that waits for a moderator is never thrown away: no request, sweep
\* or administrator ends an assignment whose proof was handed in.
ProofIsKept ==
  [][\A a \in Assignments :
       quest[a].status = "submitted" => quest'[a].status \in {"submitted", "decided"}]_vars

\* Every request comes to an end: none waits for a lock that nobody gives back.
EveryRequestEnds == \A c \in Clients : txn[c].at # "idle" ~> txn[c].at = "idle"

=============================================================================
