----------------------------- MODULE CollabGroup -----------------------------
(***************************************************************************)
(* Collaborative quests: a player opens a group on a quest he has, others  *)
(* join it with a quest of their own, leave it, or give the quest up.      *)
(*                                                                         *)
(* A request of join(), abandon() or leave() is a READ COMMITTED           *)
(* transaction that locks rows in the order of its statements: others see  *)
(* what it writes when it commits and wait for the rows it has written or  *)
(* selected FOR UPDATE.  PostgreSQL breaks a circle of waiting requests.   *)
(* What is one statement, or locks one row before everything else, is one  *)
(* step.  Left out: votes; cooldowns and blocked players are failures.     *)
(***************************************************************************)
EXTENDS Integers, FiniteSets, Relation

CONSTANTS
  Users,
  Groups,
  Clients,     \* concurrent requests
  None,
  MaxMembers,  \* max_members of every group
  MaxQuests    \* bound: rows of user_quests

ASSUME CollabAssumption ==
  /\ None \notin Users \cup Groups \cup Clients
  /\ MaxMembers \in Nat \ {0, 1} /\ MaxQuests \in Nat

VARIABLES
  quest,      \* user_quests
  member,     \* collab_group_members: the group of each assignment
  group,      \* collab_groups
  userLock,   \* pg_advisory_xact_lock of each user
  groupLock,  \* who has locked the row of each group
  txn

vars == <<quest, member, group, userLock, groupLock, txn>>

-----------------------------------------------------------------------------
Rows == 1..MaxQuests

Quest == [user: Users \cup {None},
          status: {"none", "assigned", "submitted", "ended"}]
NoQuest == [user |-> None, status |-> "none"]

\* over: expires_at has passed.
Group == [status: {"none", "open", "closed"}, creator: Users \cup {None}, over: BOOLEAN]
NoGroup == [status |-> "none", creator |-> None, over |-> FALSE]

\* at: the statement it comes to next.  row: the assignment it ends, or 0.
\* freed: the group it makes room in.  The sets are the rows it holds: ended
\* assignments, deleted and selected memberships, reopened and closed groups.
Txn == [op: {"join", "swap", "abandon", "leave"}, user: Users \cup {None},
        at: {"idle", "user", "group", "members", "active", "release", "delete", "reopen", "finish"},
        row: 0..MaxQuests, group: Groups \cup {None}, freed: Groups \cup {None},
        ended: SUBSET Rows, gone: SUBSET Rows, seen: SUBSET Rows,
        opens: SUBSET Groups, closes: SUBSET Groups]
Idle == [op |-> "leave", user |-> None, at |-> "idle", row |-> 0, group |-> None, freed |-> None,
         ended |-> {}, gone |-> {}, seen |-> {}, opens |-> {}, closes |-> {}]

Init ==
  /\ quest = [r \in Rows |-> NoQuest]
  /\ member = [r \in Rows |-> None]
  /\ group = [g \in Groups |-> NoGroup]
  /\ userLock = [u \in Users |-> None]
  /\ groupLock = [g \in Groups |-> None]
  /\ txn = [c \in Clients |-> Idle]

-----------------------------------------------------------------------------
(* Rows and their holders *)

Members(g) == {r \in Rows : member[r] = g}
Place(g, u) == {r \in Members(g) : quest[r].user = u}
Running(u) == {r \in Rows : quest[r].user = u /\ quest[r].status = "assigned"}

HoldsQuest(d, r) == r \in txn[d].ended

\* Variant: the members are read without FOR UPDATE.
DeletedOnly(d, r) == r \in txn[d].gone

HoldsMember(d, r) == r \in txn[d].gone \cup txn[d].seen

\* Whom c waits for.
Blockers(c) ==
  LET t == txn[c]
      Holds(d) ==
        \/ t.at = "user" /\ userLock[t.user] = d
        \/ t.at = "group" /\ groupLock[t.group] = d
        \/ t.at = "members" /\ \E r \in Members(t.group) : HoldsMember(d, r)
        \/ t.at = "active" /\ \E r \in Running(t.user) : HoldsQuest(d, r)
        \/ t.at = "release" /\ HoldsQuest(d, t.row)
        \/ t.at = "delete" /\ HoldsMember(d, t.row)
        \/ t.at = "reopen" /\ groupLock[t.freed] = d
  IN {d \in Clients \ {c} : Holds(d)}

Ready(c, at) == txn[c].at = at /\ Blockers(c) = {}

Release(c) ==
  /\ userLock' = [u \in Users |-> IF userLock[u] = c THEN None ELSE userLock[u]]
  /\ groupLock' = [g \in Groups |-> IF groupLock[g] = c THEN None ELSE groupLock[g]]
  /\ txn' = [txn EXCEPT ![c] = Idle]

Rollback(c) ==
  /\ Release(c)
  /\ UNCHANGED <<quest, member, group>>

\* Goes on to another statement.
Proceed(c, t) ==
  /\ txn' = [txn EXCEPT ![c] = t]
  /\ UNCHANGED <<quest, member, group>>

-----------------------------------------------------------------------------
(* Requests *)

\* Bound: a quest is taken only if there are rows left for what is under way.
RowsLeft == Cardinality({c \in Clients : txn[c].at # "idle"}) < Cardinality({r \in Rows : quest[r].status = "none"})

\* join(), with or without abandonActiveQuest.
Join(c, u, g, op) ==
  /\ txn[c].at = "idle" /\ RowsLeft /\ group[g].status # "none" /\ op \in {"join", "swap"}
  /\ Proceed(c, [Idle EXCEPT !.op = op, !.user = u, !.group = g, !.at = "user"])
  /\ UNCHANGED <<userLock, groupLock>>

\* abandon()
Abandon(c, r) ==
  /\ txn[c].at = "idle" /\ quest[r].status # "none"
  /\ Proceed(c, [Idle EXCEPT !.op = "abandon", !.user = quest[r].user, !.row = r, !.at = "release"])
  /\ UNCHANGED <<userLock, groupLock>>

\* leave()
Leave(c, u, g) ==
  /\ txn[c].at = "idle" /\ group[g].status # "none"
  /\ Proceed(c, [Idle EXCEPT !.op = "leave", !.user = u, !.group = g, !.at = "group"])
  /\ UNCHANGED <<userLock, groupLock>>

LockUser(c) ==
  /\ Ready(c, "user")
  /\ userLock' = [userLock EXCEPT ![txn[c].user] = c]
  /\ Proceed(c, [txn[c] EXCEPT !.at = "group"])
  /\ UNCHANGED groupLock

\* The member whose row leave() deletes, or 0.
PlaceOf(g, u) == IF Place(g, u) = {} THEN 0 ELSE CHOOSE r \in Place(g, u) : TRUE

LockGroup(c) ==
  /\ Ready(c, "group")
  /\ groupLock' = [groupLock EXCEPT ![txn[c].group] = c]
  /\ Proceed(c, IF txn[c].op # "leave" THEN [txn[c] EXCEPT !.at = "members"]
                ELSE [txn[c] EXCEPT !.at = "delete", !.row = PlaceOf(txn[c].group, txn[c].user)])
  /\ UNCHANGED userLock

Joinable(g, u) ==
  /\ ~group[g].over /\ group[g].status = "open"
  /\ Place(g, u) = {} /\ Cardinality(Members(g)) < MaxMembers

SelectMembers(c) ==
  LET g == txn[c].group
  IN /\ Ready(c, "members")
     /\ IF ~Joinable(g, txn[c].user) THEN Rollback(c)
        ELSE /\ Proceed(c, [txn[c] EXCEPT !.at = "active", !.seen = Members(g)])
             /\ UNCHANGED <<userLock, groupLock>>

FindActive(c) ==
  LET active == Running(txn[c].user)
  IN /\ Ready(c, "active")
     /\ IF active = {} THEN /\ Proceed(c, [txn[c] EXCEPT !.at = "finish"])
                            /\ UNCHANGED <<userLock, groupLock>>
        ELSE IF txn[c].op = "join" THEN Rollback(c)
        ELSE \E r \in active :
               /\ Proceed(c, [txn[c] EXCEPT !.at = "release", !.row = r])
               /\ UNCHANGED <<userLock, groupLock>>

-----------------------------------------------------------------------------
(* releaseAssignment() and reopenIfRoom() *)

EndAssignment(c) ==
  LET r == txn[c].row
  IN /\ Ready(c, "release")
     /\ IF quest[r].status # "assigned" THEN Rollback(c)
        ELSE /\ Proceed(c, [txn[c] EXCEPT !.ended = {r},
                              !.at = IF member[r] = None THEN "finish" ELSE "delete"])
             /\ UNCHANGED <<userLock, groupLock>>

\* As the UPDATE sees it when it begins.
Room(g, gone) ==
  /\ group[g].status = "closed" /\ ~group[g].over
  /\ Cardinality(Members(g) \ gone) < MaxMembers

\* A join that follows a leave of the same player may find the row deleted.
DeleteMember(c) ==
  LET r == txn[c].row
      t == [txn[c] EXCEPT !.gone = {r}, !.at = "finish"]
  IN /\ Ready(c, "delete")
     /\ IF r = 0 \/ member[r] = None
        THEN IF txn[c].op = "leave" THEN Rollback(c)
             ELSE /\ Proceed(c, [txn[c] EXCEPT !.at = "finish"])
                  /\ UNCHANGED <<userLock, groupLock>>
        ELSE /\ Proceed(c, IF txn[c].op = "leave" /\ group[member[r]].creator = txn[c].user
                           THEN [t EXCEPT !.closes = {member[r]}]
                           ELSE IF Room(member[r], {r})
                           THEN [t EXCEPT !.freed = member[r], !.at = "reopen"]
                           ELSE t)
             /\ UNCHANGED <<userLock, groupLock>>

\* Once it has the row, it looks at the status again.
Reopen(c) ==
  LET g == txn[c].freed
  IN /\ Ready(c, "reopen")
     /\ IF group[g].status = "closed" /\ ~group[g].over
        THEN /\ groupLock' = [groupLock EXCEPT ![g] = c]
             /\ Proceed(c, [txn[c] EXCEPT !.opens = {g}, !.at = "finish"])
        ELSE /\ Proceed(c, [txn[c] EXCEPT !.at = "finish"])
             /\ UNCHANGED groupLock
     /\ UNCHANGED userLock

-----------------------------------------------------------------------------
(* COMMIT *)

\* Variant: a group closes when it holds more than it may.
Overfills(c) == Cardinality(txn[c].seen) + 1 > MaxMembers

Fills(c) == Cardinality(txn[c].seen) + 1 >= MaxMembers

Written(c) ==
  [g \in Groups |->
     IF g \in txn[c].opens THEN [group[g] EXCEPT !.status = "open"]
     ELSE IF \/ g \in txn[c].closes
             \/ txn[c].op \in {"join", "swap"} /\ g = txn[c].group /\ Fills(c)
     THEN [group[g] EXCEPT !.status = "closed"]
     ELSE group[g]]

New(r) == quest[r].status = "none" /\ \A s \in Rows : s < r => quest[s].status # "none"

\* join(): the new assignment and its place in the group.  The unique index
\* on running assignments would refuse a second one.
CommitJoin(c, r) ==
  /\ txn[c].at = "finish" /\ txn[c].op \in {"join", "swap"}
  /\ New(r)
  /\ IF Running(txn[c].user) \ txn[c].ended # {} THEN UNCHANGED <<quest, member, group>>
     ELSE /\ quest' = [s \in Rows |->
               IF s = r THEN [user |-> txn[c].user, status |-> "assigned"]
               ELSE IF s \in txn[c].ended THEN [quest[s] EXCEPT !.status = "ended"] ELSE quest[s]]
          /\ member' = [s \in Rows |->
               IF s = r THEN txn[c].group ELSE IF s \in txn[c].gone THEN None ELSE member[s]]
          /\ group' = Written(c)
  /\ Release(c)

\* abandon() and leave()
CommitExit(c) ==
  /\ txn[c].at = "finish" /\ txn[c].op \in {"abandon", "leave"}
  /\ quest' = [s \in Rows |->
       IF s \in txn[c].ended THEN [quest[s] EXCEPT !.status = "ended"] ELSE quest[s]]
  /\ member' = [s \in Rows |-> IF s \in txn[c].gone THEN None ELSE member[s]]
  /\ group' = Written(c)
  /\ Release(c)

\* The connection breaks, or a gate refuses.
Fail(c) == txn[c].at # "idle" /\ Rollback(c)

\* PostgreSQL cancels a request that is part of a circle (deadlock_timeout).
WaitsFor == [p \in Clients \X Clients |-> p[2] \in Blockers(p[1])]
Deadlocked(c) == TransitiveClosure(WaitsFor, Clients)[c, c]
BreakDeadlock(c) == Blockers(c) # {} /\ Deadlocked(c) /\ Rollback(c)

-----------------------------------------------------------------------------
(* What is one statement, or behind one lock *)

Steady == UNCHANGED <<userLock, groupLock, txn>>
Free(r) == \A c \in Clients : ~HoldsQuest(c, r)

\* create(): FOR UPDATE on the assignment, then the group and its first place.
Create(r, g) ==
  /\ quest[r].status \in {"assigned", "submitted"} /\ Free(r)
  /\ member[r] = None /\ group[g].status = "none"
  /\ group' = [group EXCEPT ![g] = [status |-> "open", creator |-> quest[r].user, over |-> FALSE]]
  /\ member' = [member EXCEPT ![r] = g]
  /\ Steady /\ UNCHANGED quest

\* assignSpecific() commits.
TakeQuest(u, r) ==
  /\ userLock[u] = None /\ Running(u) = {} /\ RowsLeft /\ New(r)
  /\ quest' = [quest EXCEPT ![r] = [user |-> u, status |-> "assigned"]]
  /\ Steady /\ UNCHANGED <<member, group>>

Becomes(r, from, to) ==
  /\ quest[r].status \in from /\ Free(r)
  /\ quest' = [quest EXCEPT ![r].status = to]
  /\ Steady /\ UNCHANGED <<member, group>>

Submit(r) == Becomes(r, {"assigned"}, "submitted")
\* A rejection can be appealed; an approval cannot be told from it here.
Review(r) == Becomes(r, {"submitted"}, "ended")

\* QuestsRepository.abandon(), expire() and the sweep: the place stays.
EndElsewhere(r) == Becomes(r, {"assigned"}, "ended")

\* expires_at passes.
GroupExpires(g) ==
  /\ group[g].status # "none" /\ ~group[g].over
  /\ group' = [group EXCEPT ![g].over = TRUE]
  /\ Steady /\ UNCHANGED <<quest, member>>

-----------------------------------------------------------------------------
Step(c) ==
  \/ LockUser(c) \/ LockGroup(c) \/ SelectMembers(c) \/ FindActive(c)
  \/ EndAssignment(c) \/ DeleteMember(c) \/ Reopen(c)
  \/ CommitExit(c) \/ \E r \in Rows : CommitJoin(c, r)

Begin(c) ==
  \/ \E u \in Users, g \in Groups, op \in {"join", "swap"} : Join(c, u, g, op)
  \/ \E u \in Users, g \in Groups : Leave(c, u, g)
  \/ \E r \in Rows : Abandon(c, r)

Elsewhere ==
  \/ \E r \in Rows, g \in Groups : Create(r, g)
  \/ \E u \in Users, r \in Rows : TakeQuest(u, r)
  \/ \E r \in Rows : Submit(r) \/ Review(r) \/ EndElsewhere(r)
  \/ \E g \in Groups : GroupExpires(g)

Next == (\E c \in Clients : Step(c) \/ Begin(c) \/ Fail(c) \/ BreakDeadlock(c)) \/ Elsewhere

Spec == Init /\ [][Next]_vars

-----------------------------------------------------------------------------
TypeOK ==
  /\ quest \in [Rows -> Quest]
  /\ member \in [Rows -> Groups \cup {None}]
  /\ group \in [Groups -> Group]
  /\ userLock \in [Users -> Clients \cup {None}]
  /\ groupLock \in [Groups -> Clients \cup {None}]
  /\ txn \in [Clients -> Txn]

\* A group never holds more members than it may, holds nobody twice, and one
\* that is full is not open, whoever joins, leaves and gives up at once.
SeatsFit ==
  \A g \in Groups :
    /\ Cardinality(Members(g)) <= MaxMembers
    /\ group[g].status = "open" => Cardinality(Members(g)) < MaxMembers
    /\ \A r, s \in Members(g) : quest[r].user = quest[s].user => r = s

\* A slot that somebody vacated does not stay shut: a running group that is
\* closed although it has room is one whose creator has left it.
VacatedSlotsReopen ==
  \A g \in Groups :
    group[g].status = "closed" /\ ~group[g].over /\ Cardinality(Members(g)) < MaxMembers
    => Place(g, group[g].creator) = {}

=============================================================================
