-------------------------- MODULE QuestIntakeProofs --------------------------
(***************************************************************************)
(* Proofs about QuestIntake, for any players, requests, windows and        *)
(* budgets.  The argument is the advisory lock: while a request holds it,  *)
(* nobody else inserts an assignment or a roll for that player, so what    *)
(* it has counted stays an upper bound until it commits.                   *)
(***************************************************************************)
EXTENDS QuestIntake, FiniteSetTheorems, TLAPS

Holding == {"locked", "swept", "checked"}

HoldsLock(c) ==
  /\ txn[c].at # "idle" => txn[c].user \in Users
  /\ txn[c].at \in Holding => lock[txn[c].user] = c

\* What a request ends, it has found running.
EndsRunning(c) ==
  /\ txn[c].ends \subseteq Running(txn[c].user)
  /\ txn[c].ends # {} => txn[c].at \in {"swept", "checked"}
  /\ txn[c].at = "swept" => txn[c].kind # "pick"

FoundRoom(c) == txn[c].kind # "pick" /\ txn[c].at = "checked" => Active(c) = {}

\* What a request has counted, it may still spend.
MayCharge(c) ==
  txn[c].kind = "pick" /\ txn[c].at = "checked" /\ txn[c].charged => Spent(c) < Budget

Sound(c) == HoldsLock(c) /\ EndsRunning(c) /\ FoundRoom(c) /\ MayCharge(c)

IInv == TypeOK /\ (\A c \in Clients : Sound(c)) /\ BudgetHolds

-----------------------------------------------------------------------------
LEMMA InitHolds == Init => IInv
<1> SUFFICES ASSUME Init PROVE IInv
  OBVIOUS
<1> USE IntakeAssumption
<1>1. TypeOK
  BY DEF Init, TypeOK, Time, Quest, NoQuest, Roll, NoRoll, Txn, Idle, Kinds
<1>2. \A c \in Clients : Sound(c)
  <2> TAKE c \in Clients
  <2>1. txn[c] = Idle
    BY DEF Init
  <2> QED
    BY <2>1 DEF Sound, HoldsLock, EndsRunning, FoundRoom, MayCharge, Idle, Holding
<1>3. BudgetHolds
  <2> USE DEF BudgetHolds
  <2> TAKE u \in Users, t \in Time
  <2>1. {r \in Counted(u, t - 1) : log[r].at < t + Day} = {}
    BY DEF Init, Counted, NoRoll
  <2>2. Cardinality({r \in Counted(u, t - 1) : log[r].at < t + Day}) = 0
    BY ONLY <2>1, FS_EmptySet, Zenon
  <2> QED
    BY <2>2
<1> QED
  BY <1>1, <1>2, <1>3 DEF IInv

\* Rows are numbered, so the sets that are counted are finite.
LEMMA RollsAreFinite == IsFiniteSet(Rolls)
BY IntakeAssumption, FS_Interval DEF Rolls

LEMMA CountedIsFinite ==
  ASSUME NEW u, NEW from PROVE IsFiniteSet(Counted(u, from)) /\ Cardinality(Counted(u, from)) \in Nat
<1>1. Counted(u, from) \subseteq Rolls
  BY DEF Counted
<1> QED
  BY <1>1, RollsAreFinite, FS_Subset, FS_CardinalityType

-----------------------------------------------------------------------------
LEMMA TypeHolds == TypeOK /\ [Next]_vars => TypeOK'
<1> SUFFICES ASSUME TypeOK, [Next]_vars PROVE TypeOK'
  OBVIOUS
<1> USE IntakeAssumption DEF TypeOK
<1>1. Idle \in Txn
  BY DEF Idle, Txn, Kinds, Time
<1>2. ASSUME NEW c \in Clients, End(c) PROVE lock' \in [Users -> Clients \cup {None}] /\ txn' \in [Clients -> Txn]
  BY <1>1, <1>2 DEF End, Unlocked
<1>3. ASSUME NEW c \in Clients, Rollback(c) PROVE TypeOK'
  BY <1>2, <1>3 DEF Rollback
<1>4. ASSUME NEW c \in Clients, NEW u \in Users, NEW kind \in Kinds, Begin(c, u, kind) PROVE TypeOK'
  <2>1. clock' \in Time
    BY <1>4 DEF Begin, Time
  <2>2. [Idle EXCEPT !.kind = kind, !.user = u, !.now = clock', !.at = "waiting"] \in Txn
    BY <2>1 DEF Idle, Txn, Time
  <2>3. txn' = [txn EXCEPT ![c] = [Idle EXCEPT !.kind = kind, !.user = u, !.now = clock', !.at = "waiting"]]
    BY <1>4 DEF Begin
  <2>4. txn' \in [Clients -> Txn]
    BY <2>2, <2>3
  <2> QED
    BY <1>4, <2>1, <2>4 DEF Begin
<1>5. ASSUME NEW c \in Clients, LockUser(c) PROVE TypeOK'
  <2>1. txn[c] \in Txn /\ txn[c].user \in Users \cup {None}
    BY DEF Txn
  <2>2. [txn[c] EXCEPT !.at = "locked"] \in Txn
    BY <2>1 DEF Txn
  <2>3. txn' \in [Clients -> Txn]
    BY <1>5, <2>2 DEF LockUser
  <2>4. lock' \in [Users -> Clients \cup {None}]
    BY <1>5 DEF LockUser
  <2> QED
    BY <1>5, <2>3, <2>4 DEF LockUser
<1>6. ASSUME NEW c \in Clients, Sweep(c) PROVE TypeOK'
  <2>1. Displaced(c) \in SUBSET Assignments
    BY DEF Displaced, Running
  <2>2. [txn[c] EXCEPT !.at = "swept", !.ends = Displaced(c)] \in Txn
    BY <2>1 DEF Txn
  <2>3. txn' = [txn EXCEPT ![c] = [txn[c] EXCEPT !.at = "swept", !.ends = Displaced(c)]]
    BY <1>6 DEF Sweep
  <2> QED
    BY <1>6, <2>2, <2>3 DEF Sweep
<1>7. ASSUME NEW c \in Clients, Check(c) PROVE TypeOK'
  BY <1>3, <1>7 DEF Check, Txn
<1>8. ASSUME NEW c \in Clients, ReadBudget(c) PROVE TypeOK'
  <2>1. Costs(c) \in BOOLEAN
    BY DEF Costs
  <2> QED
    BY <1>3, <1>8, <2>1 DEF ReadBudget, Txn
<1>9. ASSUME NEW c \in Clients, NEW a \in Assignments, Insert(c, a) PROVE TypeOK'
  <2>1. Given(c) \in Quest
    BY DEF Given, Quest, Txn
  <2>2. \A b \in Assignments : [quest[b] EXCEPT !.status = "expired"] \in Quest
    BY DEF Quest
  <2>3. quest' \in [Assignments -> Quest]
    BY <1>9, <2>1, <2>2 DEF Insert
  <2> QED
    BY <1>2, <1>9, <2>3 DEF Insert
<1>10. ASSUME NEW c \in Clients, NEW r \in Rolls, LogRoll(c, r) PROVE TypeOK'
  <2>1. [user |-> txn[c].user, at |-> txn[c].now, charged |-> txn[c].charged] \in Roll
    BY DEF Roll, Txn
  <2> QED
    BY <1>2, <1>10, <2>1 DEF LogRoll
<1>11. ASSUME NEW a \in Assignments, Ends(a) PROVE TypeOK'
  <2>1. ASSUME NEW status \in {"submitted", "decided", "expired", "abandoned"}, Set(a, status) PROVE TypeOK'
    <3>1. [quest[a] EXCEPT !.status = status] \in Quest
      BY DEF Quest
    <3> QED
      BY <2>1, <3>1 DEF Set
  <2>2. CASE Overdue(a)
    <3>1. [quest[a] EXCEPT !.overdue = ~quest[a].overdue] \in Quest
      BY DEF Quest
    <3> QED
      BY <2>2, <3>1 DEF Overdue
  <2> QED
    BY <1>11, <2>1, <2>2 DEF Ends, Abandon, Expire, Submit, Review, Appeal
<1>12. CASE Tick
  BY <1>12 DEF Tick, Time
<1>13. CASE UNCHANGED vars
  BY <1>13 DEF vars
<1> QED
  BY <1>3, <1>4, <1>5, <1>6, <1>7, <1>8, <1>9, <1>10, <1>11, <1>12, <1>13 DEF Next, Request, Fail

-----------------------------------------------------------------------------
RunningNext(u) == {a \in Assignments : quest'[a].user = u /\ quest'[a].status = "assigned"}

RollsKept(u) == \A r \in Rolls : log[r].user = u \/ log'[r].user = u => log'[r] = log[r]

\* What other requests do leaves d sound if they leave its lock, the rows it
\* holds and the player's rolls alone and give the player no quest.
LEMMA OthersStaySound ==
  ASSUME TypeOK, NEW d \in Clients, Sound(d), txn'[d] = txn[d],
         txn[d].at \in Holding => lock'[txn[d].user] = d,
         txn[d].ends \subseteq RunningNext(txn[d].user),
         txn[d].at \in Holding => RunningNext(txn[d].user) \subseteq Running(txn[d].user),
         txn[d].at \in Holding => RollsKept(txn[d].user)
  PROVE  Sound(d)'
<1>1. Running(txn[d].user)' = RunningNext(txn[d].user)
  BY DEF Running, RunningNext
<1>2. txn[d].at \in Holding => Active(d)' \subseteq Active(d)
  BY <1>1 DEF Active
<1>3. txn[d].at \in Holding => Spent(d)' = Spent(d)
  <2>1. txn[d].at \in Holding => Counted(txn[d].user, txn[d].now - Day)' = Counted(txn[d].user, txn[d].now - Day)
    BY DEF Counted, RollsKept
  <2> QED
    BY <2>1 DEF Spent
<1>4. HoldsLock(d)'
  BY DEF Sound, HoldsLock
<1>5. EndsRunning(d)'
  BY <1>1 DEF Sound, EndsRunning
<1>6. FoundRoom(d)'
  BY <1>2 DEF Sound, FoundRoom, Holding
<1>7. MayCharge(d)'
  BY <1>3 DEF Sound, MayCharge, Holding
<1> QED
  BY <1>4, <1>5, <1>6, <1>7 DEF Sound

\* The same when only the transaction of another request moves on.
LEMMA IdleOthersStaySound ==
  ASSUME TypeOK, NEW d \in Clients, Sound(d), txn'[d] = txn[d],
         txn[d].at \in Holding => lock'[txn[d].user] = d,
         quest' = quest, log' = log
  PROVE  Sound(d)'
<1>1. RunningNext(txn[d].user) = Running(txn[d].user)
  BY DEF Running, RunningNext
<1>2. txn[d].ends \subseteq Running(txn[d].user)
  BY DEF Sound, EndsRunning
<1>3. txn[d].ends \subseteq RunningNext(txn[d].user)
  BY <1>1, <1>2
<1>4. RunningNext(txn[d].user) \subseteq Running(txn[d].user)
  BY <1>1
<1>5. RollsKept(txn[d].user)
  BY DEF RollsKept
<1> QED
  BY <1>3, <1>4, <1>5, OthersStaySound

LEMMA BudgetStays == BudgetHolds /\ log' = log => BudgetHolds'
BY DEF BudgetHolds, Counted

\* One holder at a time.
LEMMA HoldersDiffer ==
  ASSUME NEW c \in Clients, NEW d \in Clients, Sound(c), Sound(d), c # d,
         txn[c].at \in Holding, txn[d].at \in Holding
  PROVE  txn[c].user # txn[d].user
BY DEF Sound, HoldsLock

LEMMA EndIsSound ==
  ASSUME TypeOK, NEW c \in Clients, End(c)
  PROVE  /\ Sound(c)'
         /\ \A d \in Clients \ {c} :
              Sound(d) => txn'[d] = txn[d] /\ (txn[d].at \in Holding => lock'[txn[d].user] = d)
<1>1. txn'[c] = Idle
  BY DEF End, TypeOK
<1>2. Sound(c)'
  BY <1>1 DEF Sound, HoldsLock, EndsRunning, FoundRoom, MayCharge, Idle, Holding
<1>3. ASSUME NEW d \in Clients \ {c}, Sound(d), txn[d].at \in Holding
      PROVE  lock'[txn[d].user] = d
  BY <1>3 DEF Sound, HoldsLock, Holding, End, Unlocked, TypeOK
<1>4. \A d \in Clients \ {c} : txn'[d] = txn[d]
  BY DEF End, TypeOK
<1> QED
  BY <1>2, <1>3, <1>4

LEMMA RollbackKeeps ==
  ASSUME IInv, NEW c \in Clients, Rollback(c)
  PROVE  (\A d \in Clients : Sound(d)') /\ BudgetHolds'
<1> USE DEF IInv
<1>1. Sound(c)' /\ \A d \in Clients \ {c} :
         txn'[d] = txn[d] /\ (txn[d].at \in Holding => lock'[txn[d].user] = d)
  BY EndIsSound DEF Rollback
<1>2. quest' = quest /\ log' = log
  BY DEF Rollback
<1>3. \A d \in Clients \ {c} : Sound(d)'
  BY <1>1, <1>2, IdleOthersStaySound
<1> QED
  BY <1>1, <1>2, <1>3, BudgetStays

\* What a step of request c leaves to show when it writes no row: that c is
\* sound, and that the others keep their transactions and their locks.
LEMMA ReadsKeep ==
  ASSUME IInv, NEW c \in Clients, Sound(c)', quest' = quest, log' = log,
         \A d \in Clients \ {c} :
           txn'[d] = txn[d] /\ (txn[d].at \in Holding => lock'[txn[d].user] = d)
  PROVE  (\A d \in Clients : Sound(d)') /\ BudgetHolds'
<1>1. \A d \in Clients \ {c} : Sound(d)'
  BY IdleOthersStaySound DEF IInv
<1> QED
  BY <1>1, BudgetStays DEF IInv

LEMMA BeginKeeps ==
  ASSUME IInv, NEW c \in Clients, NEW u \in Users, NEW kind \in Kinds, Begin(c, u, kind)
  PROVE  (\A d \in Clients : Sound(d)') /\ BudgetHolds'
<1>1. txn' = [txn EXCEPT ![c] =
         [Idle EXCEPT !.kind = kind, !.user = u, !.now = clock', !.at = "waiting"]]
  BY DEF Begin
<1>2. Sound(c)'
  BY <1>1 DEF IInv, TypeOK, Sound, HoldsLock, EndsRunning, FoundRoom, MayCharge, Idle, Holding
<1>3. \A d \in Clients \ {c} :
        txn'[d] = txn[d] /\ (txn[d].at \in Holding => lock'[txn[d].user] = d)
  BY <1>1 DEF Begin, IInv, TypeOK, Sound, HoldsLock
<1> QED
  BY <1>2, <1>3, ReadsKeep DEF Begin

LEMMA LockUserKeeps ==
  ASSUME IInv, NEW c \in Clients, LockUser(c)
  PROVE  (\A d \in Clients : Sound(d)') /\ BudgetHolds'
<1>1. txn' = [txn EXCEPT ![c] = [txn[c] EXCEPT !.at = "locked"]] /\ lock' = [lock EXCEPT ![txn[c].user] = c]
  BY DEF LockUser
<1>2. txn[c].ends = {} /\ txn[c].user \in Users
  BY DEF LockUser, IInv, Sound, HoldsLock, EndsRunning
<1>3. Sound(c)'
  BY <1>1, <1>2 DEF IInv, TypeOK, Txn, Sound, HoldsLock, EndsRunning, FoundRoom, MayCharge, Holding
<1>4. \A d \in Clients \ {c} :
        txn'[d] = txn[d] /\ (txn[d].at \in Holding => lock'[txn[d].user] = d)
  <2> TAKE d \in Clients \ {c}
  <2>1. txn[d].at \in Holding => txn[d].user # txn[c].user
    BY IntakeAssumption DEF LockUser, Grantable, IInv, Sound, HoldsLock
  <2>2. txn[d].at \in Holding => txn[d].user \in Users
    BY DEF IInv, Sound, HoldsLock, Holding
  <2> QED
    BY <1>1, <1>2, <2>1, <2>2 DEF IInv, TypeOK, Sound, HoldsLock
<1> QED
  BY <1>3, <1>4, ReadsKeep DEF LockUser

\* The steps below change nothing of the others.
LEMMA OthersWait ==
  ASSUME IInv, NEW c \in Clients, NEW t, txn' = [txn EXCEPT ![c] = t], lock' = lock
  PROVE  \A d \in Clients \ {c} :
           txn'[d] = txn[d] /\ (txn[d].at \in Holding => lock'[txn[d].user] = d)
BY DEF IInv, TypeOK, Sound, HoldsLock

LEMMA SweepKeeps ==
  ASSUME IInv, NEW c \in Clients, Sweep(c)
  PROVE  (\A d \in Clients : Sound(d)') /\ BudgetHolds'
<1>1. txn' = [txn EXCEPT ![c] = [txn[c] EXCEPT !.at = "swept", !.ends = Displaced(c)]]
  BY DEF Sweep
<1>2. Displaced(c) \subseteq Running(txn[c].user)
  BY DEF Displaced
<1>3. txn'[c].user = txn[c].user /\ txn'[c].at = "swept" /\ txn'[c].ends = Displaced(c)
  BY <1>1 DEF IInv, TypeOK, Txn
<1>4. Running(txn[c].user)' = Running(txn[c].user)
  BY <1>3 DEF Running, Sweep
<1>5. HoldsLock(c)'
  BY <1>3 DEF Sweep, IInv, Sound, HoldsLock, Holding
<1>6. EndsRunning(c)' /\ FoundRoom(c)' /\ MayCharge(c)'
  BY <1>1, <1>2, <1>3, <1>4 DEF EndsRunning, FoundRoom, MayCharge, Sweep, IInv, TypeOK, Txn
<1> QED
  BY <1>1, <1>5, <1>6, OthersWait, ReadsKeep DEF Sweep, Sound

LEMMA CheckKeeps ==
  ASSUME IInv, NEW c \in Clients, Check(c)
  PROVE  (\A d \in Clients : Sound(d)') /\ BudgetHolds'
<1>1. CASE Refused(c)
  BY <1>1, RollbackKeeps DEF Check
<1>2. CASE ~Refused(c)
  <2>1. txn' = [txn EXCEPT ![c] = [txn[c] EXCEPT !.at = "checked"]] /\ UNCHANGED <<clock, quest, log, lock>>
    BY <1>2 DEF Check
  <2>2. txn'[c].user = txn[c].user /\ txn'[c].at = "checked" /\ txn'[c].ends = txn[c].ends /\ txn'[c].kind = txn[c].kind
    BY <2>1 DEF IInv, TypeOK, Txn
  <2>3. Running(txn[c].user)' = Running(txn[c].user)
    BY <2>1, <2>2 DEF Running
  <2>4. Active(c)' = {}
    BY <1>2, <2>2, <2>3 DEF Refused, Active
  <2>5. txn[c].kind # "pick"
    BY DEF Check, IInv, Sound, EndsRunning
  <2>6. HoldsLock(c)'
    BY <2>1, <2>2 DEF Check, IInv, Sound, HoldsLock, Holding
  <2>7. EndsRunning(c)'
    BY <2>2, <2>3 DEF IInv, Sound, EndsRunning
  <2>8. Sound(c)'
    BY <2>2, <2>4, <2>5, <2>6, <2>7 DEF Sound, FoundRoom, MayCharge
  <2> QED
    BY <2>1, <2>8, OthersWait, ReadsKeep
<1> QED
  BY <1>1, <1>2

LEMMA ReadBudgetKeeps ==
  ASSUME IInv, NEW c \in Clients, ReadBudget(c)
  PROVE  (\A d \in Clients : Sound(d)') /\ BudgetHolds'
<1>1. CASE Costs(c) /\ Spent(c) >= Budget
  BY <1>1, RollbackKeeps DEF ReadBudget
<1>2. CASE ~(Costs(c) /\ Spent(c) >= Budget)
  <2>1. /\ txn' = [txn EXCEPT ![c] = [txn[c] EXCEPT !.at = "checked", !.charged = Costs(c)]]
        /\ UNCHANGED <<clock, quest, log, lock>>
    BY <1>2 DEF ReadBudget
  <2>2. /\ txn'[c].user = txn[c].user /\ txn'[c].at = "checked" /\ txn'[c].now = txn[c].now
        /\ txn'[c].ends = {} /\ txn'[c].kind = "pick" /\ txn'[c].charged = Costs(c)
    BY <2>1 DEF ReadBudget, IInv, Sound, EndsRunning, TypeOK, Txn
  <2>3. Spent(c) \in Nat
    BY CountedIsFinite DEF Spent
  <2>4. Spent(c)' = Spent(c)
    BY <2>1, <2>2 DEF Spent, Counted
  <2>5. MayCharge(c)'
    BY <1>2, <2>2, <2>3, <2>4, IntakeAssumption DEF MayCharge
  <2>6. HoldsLock(c)'
    BY <2>1, <2>2 DEF ReadBudget, IInv, Sound, HoldsLock, Holding
  <2>7. Sound(c)'
    BY <2>2, <2>5, <2>6 DEF Sound, FoundRoom, EndsRunning
  <2> QED
    BY <2>1, <2>7, OthersWait, ReadsKeep
<1> QED
  BY <1>1, <1>2

LEMMA InsertKeeps ==
  ASSUME IInv, NEW c \in Clients, NEW a \in Assignments, Insert(c, a)
  PROVE  (\A d \in Clients : Sound(d)') /\ BudgetHolds'
<1>1. End(c) /\ log' = log /\ txn[c].at \in Holding
  BY DEF Insert, Holding
<1>2. CASE Active(c) # {}
  BY <1>2, RollbackKeeps DEF Insert, Rollback
<1>3. CASE Active(c) = {}
  <2>1. Sound(c)' /\ \A d \in Clients \ {c} :
           txn'[d] = txn[d] /\ (txn[d].at \in Holding => lock'[txn[d].user] = d)
    BY <1>1, EndIsSound DEF IInv
  <2>2. ASSUME NEW d \in Clients \ {c} PROVE Sound(d)'
    <3>1. Sound(d) /\ Sound(c)
      BY DEF IInv
    <3>2. txn[d].at \in Holding => txn[d].user # txn[c].user
      BY <1>1, <3>1, HoldersDiffer
    <3>3. txn[d].ends # {} => txn[d].at \in Holding
      BY <3>1 DEF Sound, EndsRunning, Holding
    <3>4. \A b \in Assignments : quest[b].user = txn[d].user /\ txn[d].at \in Holding
                                   /\ quest[b].status = "assigned" => quest'[b] = quest[b]
      BY <1>3, <3>1, <3>2 DEF Insert, Sound, EndsRunning, Running, IInv, TypeOK
    <3>5. txn[d].ends \subseteq RunningNext(txn[d].user)
      BY <3>1, <3>3, <3>4 DEF Sound, EndsRunning, Running, RunningNext
    <3>6. txn[d].at \in Holding => RunningNext(txn[d].user) \subseteq Running(txn[d].user)
      <4> SUFFICES ASSUME txn[d].at \in Holding, NEW b \in RunningNext(txn[d].user)
                   PROVE  b \in Running(txn[d].user)
        OBVIOUS
      <4>1. b \in Assignments /\ quest'[b].user = txn[d].user /\ quest'[b].status = "assigned"
        BY DEF RunningNext
      <4>2. b # a
        BY <1>3, <3>2, <4>1 DEF Insert, Given
      <4>3. quest'[b] = IF b \in txn[c].ends THEN [quest[b] EXCEPT !.status = "expired"] ELSE quest[b]
        BY <1>3, <4>1, <4>2 DEF Insert
      <4>4. b \notin txn[c].ends
        BY <4>1, <4>3 DEF IInv, TypeOK, Quest
      <4> QED
        BY <4>1, <4>3, <4>4 DEF Running
    <3>7. RollsKept(txn[d].user)
      BY <1>1 DEF RollsKept
    <3> QED
      BY <2>1, <3>1, <3>5, <3>6, <3>7, OthersStaySound DEF IInv
  <2> QED
    BY <1>1, <2>1, <2>2, BudgetStays DEF IInv
<1> QED
  BY <1>2, <1>3

LEMMA EndsKeeps ==
  ASSUME IInv, NEW a \in Assignments, Ends(a)
  PROVE  (\A d \in Clients : Sound(d)') /\ BudgetHolds'
<1>1. ~Held(a) /\ UNCHANGED <<clock, log, lock, txn>>
  BY DEF Ends, Abandon, Expire, Submit, Review, Appeal, Overdue, Set
<1>2. \A b \in Assignments :
        /\ quest'[b].user = quest[b].user
        /\ b # a => quest'[b] = quest[b]
        /\ quest'[b].status = "assigned" => quest[b].status = "assigned"
  BY DEF Ends, Abandon, Expire, Submit, Review, Appeal, Overdue, Set, IInv, TypeOK, Quest
<1>3. ASSUME NEW d \in Clients PROVE Sound(d)'
  <2>1. Sound(d) /\ a \notin txn[d].ends
    BY <1>1 DEF Held, IInv
  <2>2. txn[d].ends \subseteq RunningNext(txn[d].user)
    BY <1>2, <2>1 DEF Sound, EndsRunning, Running, RunningNext
  <2>3. RunningNext(txn[d].user) \subseteq Running(txn[d].user)
    BY <1>2 DEF Running, RunningNext
  <2>4. RollsKept(txn[d].user)
    BY <1>1 DEF RollsKept
  <2>5. txn'[d] = txn[d] /\ (txn[d].at \in Holding => lock'[txn[d].user] = d)
    BY <1>1, <2>1 DEF Sound, HoldsLock
  <2> QED
    BY <2>1, <2>2, <2>3, <2>4, <2>5, OthersStaySound DEF IInv
<1> QED
  BY <1>1, <1>3, BudgetStays DEF IInv

\* The roll a request logs enters the windows its own time is in; what it has
\* counted is all that can be charged in them.
LEMMA LogRollBudget ==
  ASSUME IInv, NEW c \in Clients, NEW r \in Rolls, LogRoll(c, r)
  PROVE  BudgetHolds'
<1> USE DEF BudgetHolds
<1> TAKE u \in Users, t \in Time
<1> DEFINE S == {s \in Counted(u, t - 1) : log[s].at < t + Day}
<1> DEFINE SNext == {s \in Counted(u, t - 1)' : log'[s].at < t + Day}
<1>1. log' = [log EXCEPT ![r] = [user |-> txn[c].user, at |-> txn[c].now, charged |-> txn[c].charged]]
  BY DEF LogRoll
<1>2. log[r] = NoRoll /\ log'[r] = [user |-> txn[c].user, at |-> txn[c].now, charged |-> txn[c].charged]
  BY <1>1 DEF LogRoll, IInv, TypeOK
<1>3. \A s \in Rolls : s # r => log'[s] = log[s]
  BY <1>1 DEF IInv, TypeOK
<1>4. r \notin S
  BY <1>2 DEF Counted, NoRoll
<1>5. \A s : s \in SNext /\ s # r => s \in S
  BY <1>3 DEF Counted
<1>6. IsFiniteSet(S) /\ Cardinality(S) \in Nat
  <2>1. S \in SUBSET Rolls
    BY DEF Counted
  <2> QED
    BY <2>1, RollsAreFinite, FS_Subset, FS_CardinalityType
<1>7. Cardinality(S) <= Budget
  BY DEF IInv
<1>8. CASE r \notin SNext
  <2>1. SNext \in SUBSET S
    BY <1>5, <1>8
  <2>2. Cardinality(SNext) <= Cardinality(S) /\ Cardinality(SNext) \in Nat
    BY <1>6, <2>1, FS_Subset, FS_CardinalityType
  <2> QED
    BY <1>6, <1>7, <2>2, IntakeAssumption
<1>9. CASE r \in SNext
  <2>a. log'[r].user = u /\ log'[r].charged /\ log'[r].at > t - 1 /\ log'[r].at < t + Day
    BY <1>9 DEF Counted
  <2>b. log'[r].user = txn[c].user /\ log'[r].at = txn[c].now
    BY <1>2
  <2>c. log'[r].charged = txn[c].charged
    BY <1>2
  <2>1. txn[c].user = u /\ txn[c].charged /\ txn[c].now > t - 1 /\ txn[c].now < t + Day
    BY <2>a, <2>b, <2>c
  <2>2. S \in SUBSET Counted(u, txn[c].now - Day)
    <3>1. txn[c].now \in Nat /\ t \in Nat /\ \A s \in Rolls : log[s].at \in Nat
      BY DEF IInv, TypeOK, Txn, Roll, Time
    <3>2. \A x \in Nat : x > t - 1 => x > txn[c].now - Day
      BY <2>1, <3>1, IntakeAssumption
    <3> QED
      BY <3>1, <3>2 DEF Counted
  <2>3. Cardinality(Counted(u, txn[c].now - Day)) < Budget
    BY <2>1 DEF LogRoll, IInv, Sound, MayCharge, Spent
  <2>4. Cardinality(S) <= Cardinality(Counted(u, txn[c].now - Day))
    BY <2>2, CountedIsFinite, FS_Subset
  <2>5. SNext \in SUBSET (S \cup {r})
    BY <1>5
  <2>6. IsFiniteSet(S \cup {r}) /\ Cardinality(S \cup {r}) = Cardinality(S) + 1
    BY <1>4, <1>6, FS_AddElement
  <2>7. Cardinality(SNext) <= Cardinality(S) + 1 /\ Cardinality(SNext) \in Nat
    BY <2>5, <2>6, FS_Subset, FS_CardinalityType
  <2>8. Cardinality(Counted(u, txn[c].now - Day)) \in Nat
    BY CountedIsFinite
  <2> QED
    BY <1>6, <2>3, <2>4, <2>7, <2>8, IntakeAssumption
<1> QED
  BY <1>8, <1>9

LEMMA LogRollKeeps ==
  ASSUME IInv, NEW c \in Clients, NEW r \in Rolls, LogRoll(c, r)
  PROVE  (\A d \in Clients : Sound(d)') /\ BudgetHolds'
<1>1. End(c) /\ quest' = quest /\ txn[c].at \in Holding
  BY DEF LogRoll, Holding
<1>2. Sound(c)' /\ \A d \in Clients \ {c} :
         txn'[d] = txn[d] /\ (txn[d].at \in Holding => lock'[txn[d].user] = d)
  BY <1>1, EndIsSound DEF IInv
<1>3. ASSUME NEW d \in Clients \ {c} PROVE Sound(d)'
  <2>1. Sound(d) /\ Sound(c)
    BY DEF IInv
  <2>2. RunningNext(txn[d].user) = Running(txn[d].user) /\ txn[d].ends \subseteq Running(txn[d].user)
    BY <1>1, <2>1 DEF Running, RunningNext, Sound, EndsRunning
  <2>3. txn[d].at \in Holding => txn[d].user # txn[c].user /\ txn[d].user # None
    BY <1>1, <2>1, HoldersDiffer, IntakeAssumption DEF Sound, HoldsLock, Holding
  <2>4. \A s \in Rolls : s # r => log'[s] = log[s]
    BY DEF LogRoll, IInv, TypeOK
  <2>5. log[r].user = None /\ log'[r].user = txn[c].user
    BY DEF LogRoll, NoRoll, IInv, TypeOK
  <2>6. txn[d].at \in Holding => RollsKept(txn[d].user)
    BY <2>3, <2>4, <2>5 DEF RollsKept
  <2> QED
    BY <1>2, <2>1, <2>2, <2>6, OthersStaySound DEF IInv
<1> QED
  BY <1>2, <1>3, LogRollBudget

-----------------------------------------------------------------------------
LEMMA NextHolds == IInv /\ [Next]_vars => IInv'
<1> SUFFICES ASSUME IInv, [Next]_vars PROVE IInv'
  OBVIOUS
<1>1. TypeOK'
  BY TypeHolds DEF IInv
<1>2. CASE \E c \in Clients : Request(c) \/ Fail(c)
  BY <1>2, LockUserKeeps, SweepKeeps, CheckKeeps, ReadBudgetKeeps, InsertKeeps, LogRollKeeps, RollbackKeeps,
     <1>1 DEF Request, Fail, IInv
<1>3. CASE \E c \in Clients, u \in Users, kind \in Kinds : Begin(c, u, kind)
  BY <1>1, <1>3, BeginKeeps DEF IInv
<1>4. CASE \E a \in Assignments : Ends(a)
  BY <1>1, <1>4, EndsKeeps DEF IInv
<1>5. CASE Tick \/ UNCHANGED vars
  <2>1. quest' = quest /\ log' = log /\ lock' = lock /\ txn' = txn
    BY <1>5 DEF Tick, vars
  <2>2. ASSUME NEW d \in Clients PROVE Sound(d)'
    <3>1. Sound(d) /\ txn'[d] = txn[d]
      BY <2>1 DEF IInv
    <3>2. txn[d].at \in Holding => lock'[txn[d].user] = d
      BY <2>1, <3>1 DEF Sound, HoldsLock
    <3> QED
      BY <2>1, <3>1, <3>2, IdleOthersStaySound DEF IInv
  <2> QED
    BY <1>1, <2>1, <2>2, BudgetStays DEF IInv
<1> QED
  BY <1>2, <1>3, <1>4, <1>5 DEF Next

LEMMA Invariance == Spec => []IInv
<1> QED
  BY InitHolds, NextHolds, PTL DEF Spec

\* Types: what the clock, the rows, the rolls, the locks and the requests are.
THEOREM TypeCorrect == Spec => []TypeOK
<1>1. IInv => TypeOK
  BY DEF IInv
<1> QED
  BY <1>1, Invariance, PTL

\* The advisory lock alone keeps a player to one active quest: no insert ever
\* meets the unique index.
THEOREM OneActiveQuest == Spec => []InsertFindsRoom
<1>1. IInv => InsertFindsRoom
  BY DEF IInv, Sound, FoundRoom, InsertFindsRoom
<1> QED
  BY <1>1, Invariance, PTL

\* No player is charged for more rerolls in a window than the budget allows,
\* for every budget, window and number of requests at once.
THEOREM RerollsAreBounded == Spec => []BudgetHolds
<1>1. IInv => BudgetHolds
  BY DEF IInv
<1> QED
  BY <1>1, Invariance, PTL

\* Only a decision moves an assignment whose proof was handed in.
THEOREM ProofStays == Spec => ProofIsKept
<1>1. ASSUME IInv, [Next]_vars, NEW a \in Assignments, quest[a].status = "submitted"
      PROVE  quest'[a].status \in {"submitted", "decided"}
  <2>1. CASE \E c \in Clients, b \in Assignments : Insert(c, b)
    <3>1. PICK c \in Clients, b \in Assignments : Insert(c, b)
      BY <2>1
    <3>2. a \notin txn[c].ends
      BY <1>1 DEF IInv, Sound, EndsRunning, Running
    <3>3. a # b \/ Active(c) # {}
      BY <1>1, <3>1 DEF Insert
    <3> QED
      BY <1>1, <3>1, <3>2, <3>3 DEF Insert, IInv, TypeOK
  <2>2. CASE \E b \in Assignments : Ends(b)
    <3>1. PICK b \in Assignments : Ends(b)
      BY <2>2
    <3>2. CASE b # a
      BY <1>1, <3>1, <3>2 DEF Ends, Abandon, Expire, Submit, Review, Appeal, Overdue, Set, IInv, TypeOK
    <3>3. CASE b = a
      BY <1>1, <3>1, <3>3 DEF Ends, Abandon, Expire, Submit, Review, Appeal, Overdue, Set, IInv, TypeOK, Quest
    <3> QED
      BY <3>2, <3>3
  <2>3. CASE quest' = quest
    BY <1>1, <2>3
  <2> QED
    BY <1>1, <2>1, <2>2, <2>3 DEF Next, Request, Fail, Begin, LockUser, Sweep, Check, ReadBudget, LogRoll, Rollback, Tick, vars
<1>2. IInv /\ [Next]_vars =>
        [\A a \in Assignments :
           quest[a].status = "submitted" => quest'[a].status \in {"submitted", "decided"}]_vars
  BY <1>1
<1> QED
  BY <1>2, Invariance, PTL DEF Spec, ProofIsKept

=============================================================================
