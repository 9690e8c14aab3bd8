----------------------------- MODULE CollabProofs -----------------------------
(***************************************************************************)
(* Theorems about CollabGroup, for any players, groups, requests and seats.*)
(*                                                                         *)
(* Who joins a group has it locked and has counted members who stay until  *)
(* it commits (JoinFits); who gives up a place has that place to itself    *)
(* (PlacesApart), and either opens the group again or leaves one whose     *)
(* creator has gone (LeaveFits).                                           *)
(***************************************************************************)
EXTENDS CollabGroup, FiniteSetTheorems, TLAPS

-----------------------------------------------------------------------------
(* The invariant of the groups *)

\* Only an assignment that exists is a member, and only of a group that does.
RowsFit ==
  /\ \A r \in Rows : /\ quest[r].status = "none" => member[r] = None
                     /\ quest[r].status # "none" => quest[r].user \in Users
  /\ \A g \in Groups : group[g].status = "none" => Members(g) = {}

Joins(c) == txn[c].op \in {"join", "swap"}
Late == {"active", "release", "delete", "reopen", "finish"}

\* Which statements a request has, what it is about, and the groups it has
\* locked.
RequestFits(c) ==
  LET t == txn[c]
  IN /\ t.at \in {"user", "members", "active"} => Joins(c)
     /\ t.at = "group" => t.op # "abandon"
     /\ t.at = "release" => t.op \in {"abandon", "swap"}
     /\ t.at \in {"delete", "reopen"} => t.op # "join"
     /\ t.op # "abandon" /\ t.at # "idle" => t.user \in Users /\ t.group \in Groups
     /\ t.op # "abandon" /\ t.at \in Late \cup {"members"} => groupLock[t.group] = c
     /\ \A g \in t.opens \cup t.closes : groupLock[g] = c

\* Who joins has counted all members, who stay until it commits, in a group
\* that stays open.
JoinFits(c) ==
  Joins(c) /\ txn[c].at \in Late =>
    LET g == txn[c].group
    IN /\ txn[c].seen = Members(g) /\ Cardinality(txn[c].seen) < MaxMembers
       /\ group[g].status = "open" /\ Place(g, txn[c].user) = {}

\* The assignment that a request ends, and the place it gives up.
ExitFits(c) ==
  LET t == txn[c]
      r == txn[c].row
  IN /\ t.at \in {"release", "delete", "reopen"} => r \in Rows \/ t.op = "leave"
     /\ t.op = "swap" /\ (t.at \in {"release", "delete", "reopen"} \/ t.gone # {}) =>
          r \in Rows /\ quest[r].status # "none" /\ quest[r].user = t.user
     /\ \A s \in t.ended : quest[s].status # "none"
     /\ t.op \in {"abandon", "swap"} /\ t.at = "delete" => t.ended = {r}
     /\ t.op = "leave" /\ t.at = "delete" /\ r # 0 =>
          /\ r \in Rows /\ quest[r].user = t.user
          /\ member[r] = t.group \/ (member[r] = None /\ quest[r].status = "ended")
     /\ t.gone # {} => /\ t.gone = {r} /\ r \in Rows /\ t.at \in {"reopen", "finish"}
                       /\ member[r] \in Groups
                       /\ \/ t.op = "leave" /\ member[r] = t.group
                          \/ t.op \in {"abandon", "swap"} /\ t.ended = {r}
     /\ t.at = "reopen" => t.gone # {} /\ t.freed = member[r]
     /\ t.opens \cup t.closes # {} => t.at = "finish" /\ t.gone # {} /\ t.opens \cup t.closes = {member[r]}
     /\ t.closes # {} => t.op = "leave" /\ quest[r].user = t.user /\ group[member[r]].creator = t.user

\* Who gives up a place in a closed group will open it, or the creator is gone.
LeaveFits(c) ==
  LET g == member[txn[c].row]
  IN /\ txn[c].gone # {} /\ txn[c].at = "finish" /\ g \notin txn[c].opens \cup txn[c].closes
     /\ group[g].status = "closed" /\ ~group[g].over
     => Place(g, group[g].creator) = {}

Fits(c) == RequestFits(c) /\ JoinFits(c) /\ ExitFits(c) /\ LeaveFits(c)

\* A place that is being given up is nobody else's business.
PlacesApart ==
  \A c, d \in Clients : c # d => txn[c].gone \cap (txn[d].gone \cup txn[d].seen) = {}

GroupsInv ==
  /\ TypeOK /\ RowsFit /\ SeatsFit /\ VacatedSlotsReopen
  /\ (\A c \in Clients : Fits(c)) /\ PlacesApart

-----------------------------------------------------------------------------
(* What a request leaves of itself *)

Kinds == {"join", "swap", "abandon", "leave"}
Ats == {"idle", "user", "group", "members", "active", "release", "delete", "reopen", "finish"}
Seat == Groups \cup {None}
Player == Users \cup {None}
RowSets == SUBSET Rows
GroupSets == SUBSET Groups

LEMMA TxnSet ==
  Txn = [op: Kinds, user: Player, at: Ats, row: 0..MaxQuests, group: Seat, freed: Seat,
         ended: RowSets, gone: RowSets, seen: RowSets, opens: GroupSets, closes: GroupSets]
  BY DEF Txn, Kinds, Ats, Seat, Player, RowSets, GroupSets

LEMMA IdleTyped == Idle \in Txn
  BY CollabAssumption DEF Idle, Txn

\* It goes on to another statement, with what it has written so far.
Goes(c, at, row, freed, ended, gone, seen, opens, closes) ==
  /\ txn' \in [Clients -> Txn] /\ \A d \in Clients \ {c} : txn'[d] = txn[d]
  /\ UNCHANGED <<quest, member, group>>
  /\ txn'[c].op = txn[c].op /\ txn'[c].user = txn[c].user /\ txn'[c].group = txn[c].group
  /\ txn'[c].at = at /\ txn'[c].row = row /\ txn'[c].freed = freed /\ txn'[c].ended = ended
  /\ txn'[c].gone = gone /\ txn'[c].seen = seen /\ txn'[c].opens = opens /\ txn'[c].closes = closes

Moves(c, at, row) ==
  Goes(c, at, row, txn[c].freed, txn[c].ended, txn[c].gone, txn[c].seen, txn[c].opens, txn[c].closes)

LEMMA Leaves ==
  ASSUME txn \in [Clients -> Txn], NEW c \in Clients, NEW t \in Txn, Proceed(c, t),
         t.op = txn[c].op, t.user = txn[c].user, t.group = txn[c].group
  PROVE  Goes(c, t.at, t.row, t.freed, t.ended, t.gone, t.seen, t.opens, t.closes)
  BY DEF Proceed, Goes

\* The rows it has ended, selected or opened, and its next statement.
LEMMA GoesOn ==
  ASSUME txn \in [Clients -> Txn], NEW c \in Clients, NEW at \in Ats
  PROVE  /\ \A row \in 0..MaxQuests :
              Proceed(c, [txn[c] EXCEPT !.at = at, !.row = row]) => Moves(c, at, row)
         /\ Proceed(c, [txn[c] EXCEPT !.at = at]) => Moves(c, at, txn[c].row)
         /\ \A seen \in SUBSET Rows :
              Proceed(c, [txn[c] EXCEPT !.at = at, !.seen = seen]) =>
                Goes(c, at, txn[c].row, txn[c].freed, txn[c].ended, txn[c].gone, seen, txn[c].opens, txn[c].closes)
         /\ \A ended \in SUBSET Rows :
              Proceed(c, [txn[c] EXCEPT !.ended = ended, !.at = at]) =>
                Goes(c, at, txn[c].row, txn[c].freed, ended, txn[c].gone, txn[c].seen, txn[c].opens, txn[c].closes)
         /\ \A opens \in SUBSET Groups :
              Proceed(c, [txn[c] EXCEPT !.opens = opens, !.at = at]) =>
                Goes(c, at, txn[c].row, txn[c].freed, txn[c].ended, txn[c].gone, txn[c].seen, opens, txn[c].closes)
  <1> PICK t \in Txn : t = txn[c]
    OBVIOUS
  <1>1. ASSUME NEW row \in 0..MaxQuests, Proceed(c, [txn[c] EXCEPT !.at = at, !.row = row])
        PROVE  Moves(c, at, row)
    <2> DEFINE u == [t EXCEPT !.at = at, !.row = row]
    <2>1. /\ u \in Txn /\ u.op = t.op /\ u.user = t.user /\ u.group = t.group /\ u.at = at /\ u.row = row
          /\ u.freed = t.freed /\ u.ended = t.ended /\ u.gone = t.gone /\ u.seen = t.seen
          /\ u.opens = t.opens /\ u.closes = t.closes
      BY TxnSet DEF RowSets, GroupSets
    <2>2. Proceed(c, u)
      BY <1>1
    <2> HIDE DEF u
    <2>3. Goes(c, u.at, u.row, u.freed, u.ended, u.gone, u.seen, u.opens, u.closes)
      BY <2>1, <2>2, Leaves
    <2> QED
      BY <2>1, <2>3 DEF Moves
  <1>2. ASSUME Proceed(c, [txn[c] EXCEPT !.at = at])
        PROVE  Moves(c, at, txn[c].row)
    <2> DEFINE u == [t EXCEPT !.at = at]
    <2>1. /\ u \in Txn /\ u.op = t.op /\ u.user = t.user /\ u.group = t.group /\ u.at = at /\ u.row = t.row
          /\ u.freed = t.freed /\ u.ended = t.ended /\ u.gone = t.gone /\ u.seen = t.seen
          /\ u.opens = t.opens /\ u.closes = t.closes
      BY TxnSet DEF RowSets, GroupSets
    <2>2. Proceed(c, u)
      BY <1>2
    <2> HIDE DEF u
    <2>3. Goes(c, u.at, u.row, u.freed, u.ended, u.gone, u.seen, u.opens, u.closes)
      BY <2>1, <2>2, Leaves
    <2> QED
      BY <2>1, <2>3 DEF Moves
  <1>3. ASSUME NEW seen \in SUBSET Rows, Proceed(c, [txn[c] EXCEPT !.at = at, !.seen = seen])
        PROVE  Goes(c, at, txn[c].row, txn[c].freed, txn[c].ended, txn[c].gone, seen, txn[c].opens, txn[c].closes)
    <2> DEFINE u == [t EXCEPT !.at = at, !.seen = seen]
    <2>1. /\ u \in Txn /\ u.op = t.op /\ u.user = t.user /\ u.group = t.group /\ u.at = at /\ u.row = t.row
          /\ u.freed = t.freed /\ u.ended = t.ended /\ u.gone = t.gone /\ u.seen = seen
          /\ u.opens = t.opens /\ u.closes = t.closes
      BY TxnSet DEF RowSets, GroupSets
    <2>2. Proceed(c, u)
      BY <1>3
    <2> HIDE DEF u
    <2>3. Goes(c, u.at, u.row, u.freed, u.ended, u.gone, u.seen, u.opens, u.closes)
      BY <2>1, <2>2, Leaves
    <2> QED
      BY <2>1, <2>3
  <1>4. ASSUME NEW ended \in SUBSET Rows, Proceed(c, [txn[c] EXCEPT !.ended = ended, !.at = at])
        PROVE  Goes(c, at, txn[c].row, txn[c].freed, ended, txn[c].gone, txn[c].seen, txn[c].opens, txn[c].closes)
    <2> DEFINE u == [t EXCEPT !.ended = ended, !.at = at]
    <2>1. /\ u \in Txn /\ u.op = t.op /\ u.user = t.user /\ u.group = t.group /\ u.at = at /\ u.row = t.row
          /\ u.freed = t.freed /\ u.ended = ended /\ u.gone = t.gone /\ u.seen = t.seen
          /\ u.opens = t.opens /\ u.closes = t.closes
      BY TxnSet DEF RowSets, GroupSets
    <2>2. Proceed(c, u)
      BY <1>4
    <2> HIDE DEF u
    <2>3. Goes(c, u.at, u.row, u.freed, u.ended, u.gone, u.seen, u.opens, u.closes)
      BY <2>1, <2>2, Leaves
    <2> QED
      BY <2>1, <2>3
  <1>5. ASSUME NEW opens \in SUBSET Groups, Proceed(c, [txn[c] EXCEPT !.opens = opens, !.at = at])
        PROVE  Goes(c, at, txn[c].row, txn[c].freed, txn[c].ended, txn[c].gone, txn[c].seen, opens, txn[c].closes)
    <2> DEFINE u == [t EXCEPT !.opens = opens, !.at = at]
    <2>1. /\ u \in Txn /\ u.op = t.op /\ u.user = t.user /\ u.group = t.group /\ u.at = at /\ u.row = t.row
          /\ u.freed = t.freed /\ u.ended = t.ended /\ u.gone = t.gone /\ u.seen = t.seen
          /\ u.opens = opens /\ u.closes = t.closes
      BY TxnSet DEF RowSets, GroupSets
    <2>2. Proceed(c, u)
      BY <1>5
    <2> HIDE DEF u
    <2>3. Goes(c, u.at, u.row, u.freed, u.ended, u.gone, u.seen, u.opens, u.closes)
      BY <2>1, <2>2, Leaves
    <2> QED
      BY <2>1, <2>3
  <1> QED
    BY <1>1, <1>2, <1>3, <1>4, <1>5

\* A request that deletes a membership goes on in one of three ways.
LEMMA GoesAway ==
  ASSUME txn \in [Clients -> Txn], NEW c \in Clients, NEW r \in Rows, NEW g \in Groups
  PROVE  LET t == [txn[c] EXCEPT !.gone = {r}, !.at = "finish"]
         IN /\ Proceed(c, t) =>
                 Goes(c, "finish", txn[c].row, txn[c].freed, txn[c].ended, {r}, txn[c].seen, txn[c].opens, txn[c].closes)
            /\ Proceed(c, [t EXCEPT !.closes = {g}]) =>
                 Goes(c, "finish", txn[c].row, txn[c].freed, txn[c].ended, {r}, txn[c].seen, txn[c].opens, {g})
            /\ Proceed(c, [t EXCEPT !.freed = g, !.at = "reopen"]) =>
                 Goes(c, "reopen", txn[c].row, g, txn[c].ended, {r}, txn[c].seen, txn[c].opens, txn[c].closes)
  <1> PICK u \in Txn : u = txn[c]
    OBVIOUS
  <1> DEFINE t == [u EXCEPT !.gone = {r}, !.at = "finish"]
             t1 == [t EXCEPT !.closes = {g}]
             t2 == [t EXCEPT !.freed = g, !.at = "reopen"]
  <1>1. {r} \in RowSets /\ {g} \in GroupSets /\ g \in Seat /\ "finish" \in Ats /\ "reopen" \in Ats
    BY DEF RowSets, GroupSets, Seat, Ats
  <1>2. /\ t \in Txn /\ t.op = u.op /\ t.user = u.user /\ t.group = u.group /\ t.at = "finish" /\ t.row = u.row
        /\ t.freed = u.freed /\ t.ended = u.ended /\ t.gone = {r} /\ t.seen = u.seen /\ t.opens = u.opens
        /\ t.closes = u.closes
    BY <1>1, TxnSet
  <1> HIDE DEF t
  <1>3. /\ t1 \in Txn /\ t1.op = t.op /\ t1.user = t.user /\ t1.group = t.group /\ t1.at = t.at /\ t1.row = t.row
        /\ t1.freed = t.freed /\ t1.ended = t.ended /\ t1.gone = t.gone /\ t1.seen = t.seen /\ t1.opens = t.opens
        /\ t1.closes = {g}
    BY <1>1, <1>2, TxnSet
  <1>4. /\ t2 \in Txn /\ t2.op = t.op /\ t2.user = t.user /\ t2.group = t.group /\ t2.at = "reopen" /\ t2.row = t.row
        /\ t2.freed = g /\ t2.ended = t.ended /\ t2.gone = t.gone /\ t2.seen = t.seen /\ t2.opens = t.opens
        /\ t2.closes = t.closes
    BY <1>1, <1>2, TxnSet
  <1> HIDE DEF t1, t2
  <1>5. ASSUME Proceed(c, t)
        PROVE  Goes(c, "finish", u.row, u.freed, u.ended, {r}, u.seen, u.opens, u.closes)
    <2>1. Goes(c, t.at, t.row, t.freed, t.ended, t.gone, t.seen, t.opens, t.closes)
      BY <1>2, <1>5, Leaves
    <2> QED
      BY <1>2, <2>1
  <1>6. ASSUME Proceed(c, t1)
        PROVE  Goes(c, "finish", u.row, u.freed, u.ended, {r}, u.seen, u.opens, {g})
    <2>1. Goes(c, t1.at, t1.row, t1.freed, t1.ended, t1.gone, t1.seen, t1.opens, t1.closes)
      BY <1>2, <1>3, <1>6, Leaves
    <2> QED
      BY <1>2, <1>3, <2>1
  <1>7. ASSUME Proceed(c, t2)
        PROVE  Goes(c, "reopen", u.row, g, u.ended, {r}, u.seen, u.opens, u.closes)
    <2>1. Goes(c, t2.at, t2.row, t2.freed, t2.ended, t2.gone, t2.seen, t2.opens, t2.closes)
      BY <1>2, <1>4, <1>7, Leaves
    <2> QED
      BY <1>2, <1>4, <2>1
  <1> QED
    BY <1>5, <1>6, <1>7 DEF t, t1, t2

-----------------------------------------------------------------------------
(* What the other requests see of a step *)

\* The step of c leaves the others where they are, with what they have locked.
Others(c) ==
  /\ userLock' \in [Users -> Clients \cup {None}]
  /\ groupLock' \in [Groups -> Clients \cup {None}]
  /\ txn' \in [Clients -> Txn]
  /\ \A d \in Clients \ {c} : /\ txn'[d] = txn[d]
                              /\ \A g \in Groups : groupLock[g] = d => groupLock'[g] = d

\* A request that ends gives up its own locks only.
LEMMA Releases ==
  ASSUME TypeOK, NEW c \in Clients, Release(c)
  PROVE  Others(c) /\ txn'[c] = Idle
  <1>1. txn' \in [Clients -> Txn] /\ txn'[c] = Idle /\ \A d \in Clients \ {c} : txn'[d] = txn[d]
    BY IdleTyped DEF Release, TypeOK
  <1>2. /\ userLock' \in [Users -> Clients \cup {None}]
        /\ groupLock' \in [Groups -> Clients \cup {None}]
    BY DEF Release, TypeOK
  <1>3. \A d \in Clients \ {c}, g \in Groups : groupLock[g] = d => groupLock'[g] = d
    BY DEF Release
  <1> QED
    BY <1>1, <1>2, <1>3 DEF Others

\* A request that goes on without a lock of a group.
LEMMA GoesAlone ==
  ASSUME TypeOK, NEW c \in Clients, UNCHANGED <<userLock, groupLock>>,
         txn' \in [Clients -> Txn], \A d \in Clients \ {c} : txn'[d] = txn[d]
  PROVE  Others(c)
  BY DEF Others, TypeOK

\* A request that locks a group for which it did not have to wait.
LEMMA GoesLocked ==
  ASSUME TypeOK, NEW c \in Clients, NEW g \in Groups, UNCHANGED userLock,
         groupLock' = [groupLock EXCEPT ![g] = c], groupLock[g] \in {c, None},
         txn' \in [Clients -> Txn], \A d \in Clients \ {c} : txn'[d] = txn[d]
  PROVE  Others(c) /\ groupLock'[g] = c
  <1>1. groupLock' \in [Groups -> Clients \cup {None}] /\ groupLock'[g] = c
    BY DEF TypeOK
  <1>2. \A d \in Clients \ {c}, h \in Groups : groupLock[h] = d => groupLock'[h] = d
    BY CollabAssumption DEF TypeOK
  <1> QED
    BY <1>1, <1>2 DEF Others, TypeOK

\* While the tables stay as they are, the others keep what they rely on.
LEMMA OthersFit ==
  ASSUME GroupsInv, NEW c \in Clients, NEW d \in Clients \ {c}, Others(c), UNCHANGED <<quest, member, group>>
  PROVE  Fits(d)'
  <1>1. /\ Fits(d) /\ txn'[d] = txn[d] /\ txn[d] \in Txn
        /\ \A g \in Groups : groupLock[g] = d => groupLock'[g] = d
    BY DEF GroupsInv, Others, TypeOK
  <1>2. RequestFits(d)'
    <2>1. \A g \in txn[d].opens \cup txn[d].closes : g \in Groups
      BY <1>1 DEF Txn
    <2> QED
      BY <1>1, <2>1 DEF Fits, RequestFits, Joins, Late
  <1>3. JoinFits(d)'
    BY <1>1 DEF Fits, JoinFits, Joins, Place, Members
  <1>4. ExitFits(d)' /\ LeaveFits(d)'
    BY <1>1 DEF Fits, ExitFits, LeaveFits, Place, Members
  <1> QED
    BY <1>2, <1>3, <1>4 DEF Fits

\* A step that writes nothing has only to keep what its own request relies on.
LEMMA Quiet ==
  ASSUME GroupsInv, NEW c \in Clients, Others(c), UNCHANGED <<quest, member, group>>, Fits(c)',
         \A d \in Clients \ {c} : /\ txn'[c].gone \cap (txn[d].gone \cup txn[d].seen) = {}
                                  /\ txn[d].gone \cap (txn'[c].gone \cup txn'[c].seen) = {}
  PROVE  GroupsInv'
  <1>1. TypeOK' /\ RowsFit' /\ SeatsFit' /\ VacatedSlotsReopen'
    <2>1. TypeOK'
      BY DEF GroupsInv, Others, TypeOK
    <2>2. RowsFit'
      BY DEF GroupsInv, RowsFit, Members
    <2>3. SeatsFit'
      BY DEF GroupsInv, SeatsFit, Members
    <2>4. VacatedSlotsReopen'
      BY DEF GroupsInv, VacatedSlotsReopen, Place, Members
    <2> QED
      BY <2>1, <2>2, <2>3, <2>4
  <1>2. \A d \in Clients : Fits(d)'
    BY OthersFit
  <1>3. PlacesApart'
    <2> SUFFICES ASSUME NEW d \in Clients, NEW e \in Clients, d # e
                 PROVE  txn'[d].gone \cap (txn'[e].gone \cup txn'[e].seen) = {}
      BY DEF PlacesApart
    <2>1. CASE d = c
      BY <2>1 DEF Others
    <2>2. CASE e = c
      BY <2>2 DEF Others
    <2>3. CASE d # c /\ e # c
      BY <2>3 DEF Others, GroupsInv, PlacesApart
    <2> QED
      BY <2>1, <2>2, <2>3
  <1> QED
    BY <1>1, <1>2, <1>3 DEF GroupsInv

\* An idle request relies on nothing.
LEMMA IdleFits ==
  ASSUME NEW c \in Clients, txn'[c] = Idle
  PROVE  Fits(c)' /\ txn'[c].gone = {} /\ txn'[c].seen = {}
  BY DEF Fits, RequestFits, JoinFits, ExitFits, LeaveFits, Joins, Late, Idle

-----------------------------------------------------------------------------
(* Requests that begin, wait and end *)

\* A request that is undone leaves nothing.
LEMMA Quits ==
  ASSUME GroupsInv, NEW c \in Clients, Rollback(c)
  PROVE  GroupsInv'
  <1>1. Others(c) /\ txn'[c] = Idle /\ UNCHANGED <<quest, member, group>>
    BY Releases DEF GroupsInv, Rollback
  <1>2. Fits(c)' /\ txn'[c].gone = {} /\ txn'[c].seen = {}
    BY <1>1, IdleFits
  <1>3. \A d \in Clients \ {c} : /\ txn'[c].gone \cap (txn[d].gone \cup txn[d].seen) = {}
                                 /\ txn[d].gone \cap (txn'[c].gone \cup txn'[c].seen) = {}
    BY <1>2
  <1> QED
    BY <1>1, <1>2, <1>3, Quiet

\* A request begins with nothing in hand.
LEMMA Starts ==
  ASSUME GroupsInv, NEW c \in Clients, NEW t \in Txn, Proceed(c, t), UNCHANGED <<userLock, groupLock>>,
         t.ended = {}, t.gone = {}, t.seen = {}, t.opens = {}, t.closes = {},
         \/ t.at = "user" /\ t.op \in {"join", "swap"} /\ t.user \in Users /\ t.group \in Groups
         \/ t.at = "group" /\ t.op = "leave" /\ t.user \in Users /\ t.group \in Groups
         \/ t.at = "release" /\ t.op = "abandon" /\ t.row \in Rows
  PROVE  GroupsInv'
  <1>1. /\ txn'[c] = t /\ txn' \in [Clients -> Txn] /\ UNCHANGED <<quest, member, group>>
        /\ \A d \in Clients \ {c} : txn'[d] = txn[d]
    BY DEF GroupsInv, TypeOK, Proceed
  <1>2. Others(c)
    BY <1>1, GoesAlone DEF GroupsInv
  <1>3. Fits(c)'
    BY <1>1 DEF Fits, RequestFits, JoinFits, ExitFits, LeaveFits, Joins, Late
  <1>4. \A d \in Clients \ {c} : /\ txn'[c].gone \cap (txn[d].gone \cup txn[d].seen) = {}
                                 /\ txn[d].gone \cap (txn'[c].gone \cup txn'[c].seen) = {}
    BY <1>1
  <1> QED
    BY <1>1, <1>2, <1>3, <1>4, Quiet

\* join(), leave() and abandon() begin.
LEMMA BeginsFit ==
  ASSUME GroupsInv, NEW c \in Clients, Begin(c)
  PROVE  GroupsInv'
  <1> PICK i \in Txn : /\ i = Idle /\ i.ended = {} /\ i.gone = {} /\ i.seen = {}
                       /\ i.opens = {} /\ i.closes = {}
    BY IdleTyped DEF Idle
  <1>1. ASSUME NEW u \in Users, NEW g \in Groups, NEW op \in {"join", "swap"}, Join(c, u, g, op)
        PROVE  GroupsInv'
    <2> DEFINE t == [i EXCEPT !.op = op, !.user = u, !.group = g, !.at = "user"]
    <2>1. op \in Kinds /\ u \in Player /\ g \in Seat /\ "user" \in Ats
      BY DEF Kinds, Player, Seat, Ats
    <2>2. /\ t \in Txn /\ t.op = op /\ t.user = u /\ t.group = g /\ t.at = "user" /\ t.ended = {}
          /\ t.gone = {} /\ t.seen = {} /\ t.opens = {} /\ t.closes = {}
      BY <2>1, TxnSet
    <2>3. Proceed(c, t) /\ UNCHANGED <<userLock, groupLock>>
      BY <1>1 DEF Join
    <2> HIDE DEF t
    <2> QED
      BY <2>2, <2>3, Starts
  <1>2. ASSUME NEW u \in Users, NEW g \in Groups, Leave(c, u, g)
        PROVE  GroupsInv'
    <2> DEFINE t == [i EXCEPT !.op = "leave", !.user = u, !.group = g, !.at = "group"]
    <2>1. "leave" \in Kinds /\ u \in Player /\ g \in Seat /\ "group" \in Ats
      BY DEF Kinds, Player, Seat, Ats
    <2>2. /\ t \in Txn /\ t.op = "leave" /\ t.user = u /\ t.group = g /\ t.at = "group" /\ t.ended = {}
          /\ t.gone = {} /\ t.seen = {} /\ t.opens = {} /\ t.closes = {}
      BY <2>1, TxnSet
    <2>3. Proceed(c, t) /\ UNCHANGED <<userLock, groupLock>>
      BY <1>2 DEF Leave
    <2> HIDE DEF t
    <2> QED
      BY <2>2, <2>3, Starts
  <1>3. ASSUME NEW r \in Rows, Abandon(c, r)
        PROVE  GroupsInv'
    <2> PICK u \in Player : u = quest[r].user
      BY DEF GroupsInv, TypeOK, Quest, Player
    <2> DEFINE t == [i EXCEPT !.op = "abandon", !.user = u, !.row = r, !.at = "release"]
    <2>1. "abandon" \in Kinds /\ "release" \in Ats /\ r \in 0..MaxQuests
      BY CollabAssumption DEF Kinds, Ats, Rows
    <2>2. /\ t \in Txn /\ t.op = "abandon" /\ t.row = r /\ t.at = "release" /\ t.ended = {}
          /\ t.gone = {} /\ t.seen = {} /\ t.opens = {} /\ t.closes = {}
      BY <2>1, TxnSet
    <2>3. Proceed(c, t) /\ UNCHANGED <<userLock, groupLock>>
      BY <1>3 DEF Abandon
    <2> HIDE DEF t
    <2> QED
      BY <2>2, <2>3, Starts
  <1> QED
    BY <1>1, <1>2, <1>3 DEF Begin

\* What a request writes and holds when it goes on is what Goes says.
LEMMA Onward ==
  ASSUME GroupsInv, NEW c \in Clients, NEW at, NEW row, NEW freed, NEW ended, NEW gone, NEW seen,
         NEW opens, NEW closes, Goes(c, at, row, freed, ended, gone, seen, opens, closes),
         Others(c), Fits(c)',
         \A d \in Clients \ {c} : /\ gone \cap (txn[d].gone \cup txn[d].seen) = {}
                                  /\ txn[d].gone \cap (gone \cup seen) = {}
  PROVE  GroupsInv'
  BY Quiet DEF Goes

\* A request that goes on without giving up another place or counting members.
LEMMA OnwardAsBefore ==
  ASSUME GroupsInv, NEW c \in Clients, NEW at, NEW row, NEW freed, NEW ended, NEW opens, NEW closes,
         Goes(c, at, row, freed, ended, txn[c].gone, txn[c].seen, opens, closes), Others(c), Fits(c)'
  PROVE  GroupsInv'
  <1>1. \A d \in Clients \ {c} : /\ txn[c].gone \cap (txn[d].gone \cup txn[d].seen) = {}
                                 /\ txn[d].gone \cap (txn[c].gone \cup txn[c].seen) = {}
    BY DEF GroupsInv, PlacesApart
  <1> QED
    BY <1>1, Onward

-----------------------------------------------------------------------------
(* The statements of a request *)

\* pg_advisory_xact_lock of the player.
LEMMA LocksUser ==
  ASSUME GroupsInv, NEW c \in Clients, LockUser(c)
  PROVE  GroupsInv'
  <1>1. /\ txn[c] \in Txn /\ txn[c].at = "user" /\ Joins(c) /\ txn[c].user \in Users /\ txn[c].group \in Groups
        /\ Fits(c)
    BY DEF GroupsInv, TypeOK, LockUser, Ready, Fits, RequestFits, Joins
  <1>2. txn \in [Clients -> Txn] /\ "group" \in Ats /\ Proceed(c, [txn[c] EXCEPT !.at = "group"])
    BY DEF GroupsInv, TypeOK, Ats, LockUser
  <1>3. Moves(c, "group", txn[c].row)
    BY <1>2, GoesOn
  <1>4. Others(c)
    BY <1>1, <1>3 DEF LockUser, Others, GroupsInv, TypeOK, Moves, Goes
  <1>5. txn[c].gone = {} /\ txn[c].opens = {} /\ txn[c].closes = {}
    BY <1>1 DEF Fits, ExitFits, Txn
  <1>6. Fits(c)'
    BY <1>1, <1>3, <1>5 DEF Moves, Goes, Fits, RequestFits, JoinFits, ExitFits, LeaveFits, Joins, Late
  <1> QED
    BY <1>3, <1>4, <1>6, OnwardAsBefore DEF Moves

\* The place that leave() finds is the player's own.
LEMMA PlaceFound ==
  ASSUME NEW g, NEW u
  PROVE  LET r == PlaceOf(g, u)
         IN r = 0 \/ (r \in Rows /\ member[r] = g /\ quest[r].user = u)
  BY DEF PlaceOf, Place, Members

\* The row of the group, FOR UPDATE.
LEMMA LocksGroup ==
  ASSUME GroupsInv, NEW c \in Clients, LockGroup(c)
  PROVE  GroupsInv'
  <1> DEFINE g == txn[c].group
             place == PlaceOf(g, txn[c].user)
  <1>1. /\ txn[c] \in Txn /\ txn[c].at = "group" /\ txn[c].user \in Users /\ g \in Groups
        /\ txn[c].op \in {"join", "swap", "leave"} /\ Fits(c)
    BY DEF GroupsInv, TypeOK, LockGroup, Ready, Fits, RequestFits, Txn
  <1>2. groupLock[g] \in {c, None}
    BY <1>1 DEF LockGroup, Ready, Blockers, GroupsInv, TypeOK
  <1>3. txn[c].gone = {} /\ txn[c].opens = {} /\ txn[c].closes = {}
    BY <1>1 DEF Fits, ExitFits
  <1>4. txn \in [Clients -> Txn] /\ "members" \in Ats /\ "delete" \in Ats
    BY DEF GroupsInv, TypeOK, Ats
  <1>5. place \in 0..MaxQuests /\ (place = 0 \/ (place \in Rows /\ member[place] = g /\ quest[place].user = txn[c].user))
    BY PlaceFound, CollabAssumption DEF Rows
  <1>6. ASSUME NEW at \in Ats, NEW row, Moves(c, at, row)
        PROVE  Others(c) /\ groupLock'[g] = c
    BY <1>1, <1>2, <1>6, GoesLocked DEF Moves, Goes, LockGroup, GroupsInv
  <1>7. CASE txn[c].op # "leave"
    <2>1. Proceed(c, [txn[c] EXCEPT !.at = "members"])
      BY <1>7 DEF LockGroup
    <2>2. Moves(c, "members", txn[c].row)
      BY <1>4, <2>1, GoesOn
    <2>3. Others(c) /\ groupLock'[g] = c
      BY <1>4, <1>6, <2>2
    <2>4. Fits(c)'
      BY <1>1, <1>3, <1>7, <2>2, <2>3 DEF Moves, Goes, Fits, RequestFits, JoinFits, ExitFits, LeaveFits, Joins, Late
    <2> QED
      BY <2>2, <2>3, <2>4, OnwardAsBefore DEF Moves
  <1>8. CASE txn[c].op = "leave"
    <2>1. Proceed(c, [txn[c] EXCEPT !.at = "delete", !.row = place])
      BY <1>8 DEF LockGroup
    <2> HIDE DEF place
    <2>2. Moves(c, "delete", place)
      BY <1>4, <1>5, <2>1, GoesOn
    <2>3. Others(c) /\ groupLock'[g] = c
      BY <1>4, <1>6, <2>2
    <2>4. Fits(c)'
      BY <1>1, <1>3, <1>5, <1>8, <2>2, <2>3
      DEF Moves, Goes, Fits, RequestFits, JoinFits, ExitFits, LeaveFits, Joins, Late
    <2> QED
      BY <2>2, <2>3, <2>4, OnwardAsBefore DEF Moves
  <1> QED
    BY <1>7, <1>8

\* The members, FOR UPDATE: nobody is giving up a place among them.
LEMMA SelectsMembers ==
  ASSUME GroupsInv, NEW c \in Clients, SelectMembers(c)
  PROVE  GroupsInv'
  <1> DEFINE g == txn[c].group
             seen == Members(g)
  <1>1. /\ txn[c] \in Txn /\ txn[c].at = "members" /\ Joins(c) /\ txn[c].user \in Users /\ g \in Groups
        /\ groupLock[g] = c /\ Fits(c)
    BY DEF GroupsInv, TypeOK, SelectMembers, Ready, Fits, RequestFits, Joins, Late
  <1>2. txn[c].gone = {} /\ txn[c].opens = {} /\ txn[c].closes = {}
    BY <1>1 DEF Fits, ExitFits
  <1>3. CASE ~Joinable(g, txn[c].user)
    BY <1>3, Quits DEF SelectMembers
  <1>4. CASE Joinable(g, txn[c].user)
    <2>1. /\ Proceed(c, [txn[c] EXCEPT !.at = "active", !.seen = seen])
          /\ UNCHANGED <<userLock, groupLock>>
      BY <1>4 DEF SelectMembers
    <2>2. txn \in [Clients -> Txn] /\ "active" \in Ats /\ seen \in SUBSET Rows
      BY DEF GroupsInv, TypeOK, Ats, Members
    <2>3. \A d \in Clients \ {c} : txn[d].gone \cap seen = {}
      BY <1>1 DEF SelectMembers, Ready, Blockers, HoldsMember
    <2>4. /\ group[g].status = "open" /\ Place(g, txn[c].user) = {} /\ seen = Members(g)
          /\ Cardinality(seen) < MaxMembers
      BY <1>4 DEF Joinable
    <2>5. Place(g, txn[c].user)' = Place(g, txn[c].user) /\ Members(g)' = Members(g) /\ UNCHANGED <<group, groupLock>>
      BY <2>1 DEF Place, Members, Proceed
    <2> HIDE DEF seen
    <2>6. Goes(c, "active", txn[c].row, txn[c].freed, txn[c].ended, txn[c].gone, seen, txn[c].opens, txn[c].closes)
      BY <2>1, <2>2, GoesOn
    <2>7. Others(c)
      BY <2>1, <2>6, GoesAlone DEF Goes, GroupsInv
    <2>8. RequestFits(c)'
      BY <1>1, <1>2, <2>5, <2>6 DEF Goes, RequestFits, Joins, Late
    <2>9. JoinFits(c)'
      <3>1. /\ Members(g)' = seen /\ Place(g, txn[c].user)' = {} /\ group'[g].status = "open"
            /\ txn'[c].group = g /\ txn'[c].user = txn[c].user /\ txn'[c].seen = seen
        BY <2>4, <2>5, <2>6 DEF Goes
      <3> QED
        BY <2>4, <3>1 DEF JoinFits, Place, Members
    <2>10. ExitFits(c)' /\ LeaveFits(c)'
      BY <1>1, <1>2, <2>6 DEF Goes, Fits, ExitFits, LeaveFits, Joins
    <2>11. \A d \in Clients \ {c} : /\ txn[c].gone \cap (txn[d].gone \cup txn[d].seen) = {}
                                    /\ txn[d].gone \cap (txn[c].gone \cup seen) = {}
      BY <1>2, <2>3
    <2>12. Fits(c)'
      BY <2>8, <2>9, <2>10 DEF Fits
    <2> QED
      BY <2>6, <2>7, <2>11, <2>12, Onward
  <1> QED
    BY <1>3, <1>4

\* A request that joins has the members it counted until it commits.
LEMMA StillJoins ==
  ASSUME GroupsInv, NEW c \in Clients, txn[c].at \in Late, UNCHANGED <<quest, member, group>>,
         txn'[c].op = txn[c].op, txn'[c].user = txn[c].user, txn'[c].group = txn[c].group,
         txn'[c].seen = txn[c].seen
  PROVE  JoinFits(c)'
  BY DEF GroupsInv, Fits, JoinFits, Joins, Place, Members

\* The player's running assignment is found, or there is none.
LEMMA FindsActive ==
  ASSUME GroupsInv, NEW c \in Clients, FindActive(c)
  PROVE  GroupsInv'
  <1>1. /\ txn[c] \in Txn /\ txn[c].at = "active" /\ Joins(c) /\ txn[c].user \in Users /\ txn[c].group \in Groups
        /\ groupLock[txn[c].group] = c /\ Fits(c)
    BY DEF GroupsInv, TypeOK, FindActive, Ready, Fits, RequestFits, Joins, Late
  <1>2. txn[c].gone = {} /\ txn[c].opens = {} /\ txn[c].closes = {}
    BY <1>1 DEF Fits, ExitFits
  <1>3. txn \in [Clients -> Txn] /\ "finish" \in Ats /\ "release" \in Ats
    BY DEF GroupsInv, TypeOK, Ats
  <1>4. ASSUME NEW at \in Ats, NEW row, Moves(c, at, row), UNCHANGED <<userLock, groupLock>>
        PROVE  Others(c) /\ JoinFits(c)'
    <2>1. Others(c)
      BY <1>4, GoesAlone DEF Moves, Goes, GroupsInv
    <2>2. JoinFits(c)'
      BY <1>1, <1>4, StillJoins DEF Moves, Goes, Late
    <2> QED
      BY <2>1, <2>2
  <1>5. CASE Running(txn[c].user) = {}
    <2>1. Proceed(c, [txn[c] EXCEPT !.at = "finish"]) /\ UNCHANGED <<userLock, groupLock>>
      BY <1>5 DEF FindActive
    <2>2. Moves(c, "finish", txn[c].row)
      BY <1>3, <2>1, GoesOn
    <2>3. Others(c) /\ JoinFits(c)'
      BY <1>3, <1>4, <2>1, <2>2
    <2>4. RequestFits(c)' /\ ExitFits(c)' /\ LeaveFits(c)'
      BY <1>1, <1>2, <2>1, <2>2 DEF Moves, Goes, Fits, RequestFits, ExitFits, LeaveFits, Joins, Late
    <2> QED
      BY <2>2, <2>3, <2>4, OnwardAsBefore DEF Moves, Fits
  <1>6. CASE Running(txn[c].user) # {} /\ txn[c].op = "join"
    BY <1>6, Quits DEF FindActive
  <1>7. CASE Running(txn[c].user) # {} /\ txn[c].op # "join"
    <2>1. PICK r \in Running(txn[c].user) :
            Proceed(c, [txn[c] EXCEPT !.at = "release", !.row = r]) /\ UNCHANGED <<userLock, groupLock>>
      BY <1>7 DEF FindActive
    <2>2. r \in Rows /\ r \in 0..MaxQuests /\ quest[r].user = txn[c].user /\ quest[r].status # "none"
      BY CollabAssumption DEF Running, Rows
    <2>3. Moves(c, "release", r)
      BY <1>3, <2>1, <2>2, GoesOn
    <2>4. Others(c) /\ JoinFits(c)'
      BY <1>3, <1>4, <2>1, <2>3
    <2>5. RequestFits(c)' /\ ExitFits(c)' /\ LeaveFits(c)'
      BY <1>1, <1>2, <1>7, <2>1, <2>2, <2>3 DEF Moves, Goes, Fits, RequestFits, ExitFits, LeaveFits, Joins, Late
    <2> QED
      BY <2>3, <2>4, <2>5, OnwardAsBefore DEF Moves, Fits
  <1> QED
    BY <1>5, <1>6, <1>7

\* releaseAssignment() ends the assignment if it still runs.
LEMMA EndsAssignment ==
  ASSUME GroupsInv, NEW c \in Clients, EndAssignment(c)
  PROVE  GroupsInv'
  <1> DEFINE r == txn[c].row
             ended == {r}
  <1>1. /\ txn[c] \in Txn /\ txn[c].at = "release" /\ txn[c].op \in {"abandon", "swap"} /\ r \in Rows /\ Fits(c)
    BY DEF GroupsInv, TypeOK, EndAssignment, Ready, Fits, RequestFits, ExitFits
  <1>2. txn[c].gone = {} /\ txn[c].opens = {} /\ txn[c].closes = {}
    BY <1>1 DEF Fits, ExitFits
  <1>3. CASE quest[r].status # "assigned"
    BY <1>3, Quits DEF EndAssignment
  <1>4. CASE quest[r].status = "assigned"
    <2> DEFINE at == IF member[r] = None THEN "finish" ELSE "delete"
    <2>1. Proceed(c, [txn[c] EXCEPT !.ended = ended, !.at = at]) /\ UNCHANGED <<userLock, groupLock>>
      BY <1>4 DEF EndAssignment
    <2>2. at \in Ats /\ at \in {"finish", "delete"} /\ ended \in SUBSET Rows /\ ended = {r}
      BY <1>1 DEF Ats
    <2>3. txn \in [Clients -> Txn]
      BY DEF GroupsInv, TypeOK
    <2> HIDE DEF at, ended
    <2>4. Goes(c, at, r, txn[c].freed, ended, txn[c].gone, txn[c].seen, txn[c].opens, txn[c].closes)
      BY <2>1, <2>2, <2>3, GoesOn
    <2>5. Others(c)
      BY <2>1, <2>4, GoesAlone DEF Goes, GroupsInv
    <2>6. JoinFits(c)'
      BY <1>1, <2>4, StillJoins DEF Goes, Late
    <2>7. RequestFits(c)' /\ LeaveFits(c)'
      BY <1>1, <1>2, <2>1, <2>2, <2>4 DEF Goes, Fits, RequestFits, LeaveFits, Joins, Late
    <2>8. ExitFits(c)'
      BY <1>1, <1>2, <1>4, <2>2, <2>4 DEF Goes, Fits, ExitFits
    <2> QED
      BY <2>4, <2>5, <2>6, <2>7, <2>8, OnwardAsBefore DEF Fits
  <1> QED
    BY <1>3, <1>4

\* The players of a group can be counted.
LEMMA MembersFinite ==
  ASSUME NEW g
  PROVE  /\ IsFiniteSet(Members(g)) /\ Cardinality(Members(g)) \in Nat
         /\ \A r \in Members(g) : Cardinality(Members(g) \ {r}) = Cardinality(Members(g)) - 1
  <1>1. IsFiniteSet(Rows)
    BY CollabAssumption, FS_Interval DEF Rows
  <1>2. Members(g) \subseteq Rows
    BY DEF Members
  <1> DEFINE S == Members(g)
  <1> HIDE DEF S
  <1>3. IsFiniteSet(S)
    BY <1>1, <1>2, FS_Subset DEF S
  <1>4. Cardinality(S) \in Nat
    BY <1>3, FS_CardinalityType
  <1>5. \A r \in S : Cardinality(S \ {r}) = Cardinality(S) - 1
    BY <1>3, FS_RemoveElement
  <1> QED
    BY <1>3, <1>4, <1>5 DEF S

\* A place that is given up leaves room, or the group was not closed.
LEMMA RoomLeft ==
  ASSUME GroupsInv, NEW g \in Groups, NEW r \in Members(g), ~Room(g, {r})
  PROVE  ~(group[g].status = "closed" /\ ~group[g].over)
  <1>1. Cardinality(Members(g)) <= MaxMembers
    BY DEF GroupsInv, SeatsFit
  <1>2. Cardinality(Members(g) \ {r}) = Cardinality(Members(g)) - 1 /\ Cardinality(Members(g)) \in Nat
    BY MembersFinite
  <1> QED
    BY <1>1, <1>2, CollabAssumption DEF Room

\* The membership is deleted: nobody else has it in hand.
LEMMA DeletesMember ==
  ASSUME GroupsInv, NEW c \in Clients, DeleteMember(c)
  PROVE  GroupsInv'
  <1> DEFINE r == txn[c].row
  <1>1. /\ txn[c] \in Txn /\ txn[c].at = "delete" /\ txn[c].op \in {"swap", "abandon", "leave"} /\ Fits(c)
    BY DEF GroupsInv, TypeOK, DeleteMember, Ready, Fits, RequestFits, Txn
  <1>2. txn[c].gone = {} /\ txn[c].opens = {} /\ txn[c].closes = {}
    BY <1>1 DEF Fits, ExitFits
  <1>3. txn \in [Clients -> Txn] /\ "finish" \in Ats
    BY DEF GroupsInv, TypeOK, Ats
  <1>4. CASE r = 0 \/ member[r] = None
    <2>1. CASE txn[c].op = "leave"
      BY <1>4, <2>1, Quits DEF DeleteMember
    <2>2. CASE txn[c].op # "leave"
      <3>1. Proceed(c, [txn[c] EXCEPT !.at = "finish"]) /\ UNCHANGED <<userLock, groupLock>>
        BY <1>4, <2>2 DEF DeleteMember
      <3>2. Moves(c, "finish", txn[c].row)
        BY <1>3, <3>1, GoesOn
      <3>3. Others(c)
        BY <3>1, <3>2, GoesAlone DEF Moves, Goes, GroupsInv
      <3>4. JoinFits(c)'
        BY <1>1, <3>2, StillJoins DEF Moves, Goes, Late
      <3>5. RequestFits(c)' /\ ExitFits(c)' /\ LeaveFits(c)'
        BY <1>1, <1>2, <3>1, <3>2 DEF Moves, Goes, Fits, RequestFits, ExitFits, LeaveFits, Joins, Late
      <3> QED
        BY <3>2, <3>3, <3>4, <3>5, OnwardAsBefore DEF Moves, Fits
    <2> QED
      BY <2>1, <2>2
  <1>5. CASE r # 0 /\ member[r] # None
    <2> DEFINE g == member[r]
               gone == {r}
    <2>1. r \in Rows /\ g \in Groups /\ r \in Members(g)
      BY <1>1, <1>5 DEF Fits, ExitFits, GroupsInv, TypeOK, Members
    <2>2. UNCHANGED <<userLock, groupLock>>
      BY <1>5 DEF DeleteMember
    <2>3. \A d \in Clients \ {c} : /\ gone \cap (txn[d].gone \cup txn[d].seen) = {}
                                   /\ txn[d].gone \cap (gone \cup txn[c].seen) = {}
      <3>1. \A d \in Clients \ {c} : r \notin txn[d].gone \cup txn[d].seen
        BY <1>1 DEF DeleteMember, Ready, Blockers, HoldsMember
      <3>2. \A d \in Clients \ {c} : txn[d].gone \cap txn[c].seen = {}
        BY DEF GroupsInv, PlacesApart
      <3> QED
        BY <3>1, <3>2
    <2>4. ASSUME NEW at \in {"finish", "reopen"}, NEW freed, NEW closes \in SUBSET Groups,
                 Goes(c, at, r, freed, txn[c].ended, gone, txn[c].seen, txn[c].opens, closes),
                 closes = {} \/ (closes = {g} /\ at = "finish" /\ txn[c].op = "leave" /\ group[g].creator = txn[c].user),
                 at = "reopen" => freed = g,
                 at = "finish" /\ closes = {} => ~(group[g].status = "closed" /\ ~group[g].over)
          PROVE  GroupsInv'
      <3>1. Others(c)
        BY <2>2, <2>4, GoesAlone DEF Goes, GroupsInv
      <3>2. JoinFits(c)'
        BY <1>1, <2>4, StillJoins DEF Goes, Late
      <3>3. ExitFits(c)'
        BY <1>1, <1>2, <1>5, <2>1, <2>4 DEF Goes, Fits, ExitFits
      <3>4. RequestFits(c)'
        BY <1>1, <1>2, <1>5, <2>1, <2>2, <2>4 DEF Goes, Fits, RequestFits, ExitFits, Joins, Late
      <3>5. LeaveFits(c)'
        BY <2>4 DEF Goes, LeaveFits
      <3>6. Fits(c)'
        BY <3>2, <3>3, <3>4, <3>5 DEF Fits
      <3> QED
        BY <2>3, <2>4, <3>1, <3>6, Onward
    <2> DEFINE t == [txn[c] EXCEPT !.gone = {r}, !.at = "finish"]
    <2>5. CASE txn[c].op = "leave" /\ group[g].creator = txn[c].user
      <3>1. Proceed(c, [t EXCEPT !.closes = {g}])
        BY <1>5, <2>5 DEF DeleteMember
      <3>2. Goes(c, "finish", r, txn[c].freed, txn[c].ended, gone, txn[c].seen, txn[c].opens, {g})
        BY <1>3, <2>1, <3>1, GoesAway
      <3>3. {g} \in SUBSET Groups
        BY <2>1
      <3> QED
        BY <2>4, <2>5, <3>2, <3>3
    <2>6. CASE ~(txn[c].op = "leave" /\ group[g].creator = txn[c].user) /\ Room(g, {r})
      <3>1. Proceed(c, [t EXCEPT !.freed = g, !.at = "reopen"])
        BY <1>5, <2>6 DEF DeleteMember
      <3>2. Goes(c, "reopen", r, g, txn[c].ended, gone, txn[c].seen, txn[c].opens, txn[c].closes)
        BY <1>3, <2>1, <3>1, GoesAway
      <3> QED
        BY <1>2, <2>4, <3>2
    <2>7. CASE ~(txn[c].op = "leave" /\ group[g].creator = txn[c].user) /\ ~Room(g, {r})
      <3>1. Proceed(c, t)
        BY <1>5, <2>7 DEF DeleteMember
      <3>2. Goes(c, "finish", r, txn[c].freed, txn[c].ended, gone, txn[c].seen, txn[c].opens, txn[c].closes)
        BY <1>3, <2>1, <3>1, GoesAway
      <3>3. ~(group[g].status = "closed" /\ ~group[g].over)
        BY <2>1, <2>7, RoomLeft
      <3> QED
        BY <1>2, <2>4, <3>2, <3>3
    <2> QED
      BY <2>5, <2>6, <2>7
  <1> QED
    BY <1>4, <1>5

\* The group opens again, unless somebody has opened it or its time is over.
LEMMA Reopens ==
  ASSUME GroupsInv, NEW c \in Clients, Reopen(c)
  PROVE  GroupsInv'
  <1> DEFINE g == txn[c].freed
             opens == {g}
  <1>1. /\ txn[c] \in Txn /\ txn[c].at = "reopen" /\ txn[c].op \in {"swap", "abandon", "leave"} /\ Fits(c)
        /\ txn[c].gone # {} /\ g = member[txn[c].row] /\ g \in Groups
    BY DEF GroupsInv, TypeOK, Reopen, Ready, Fits, RequestFits, ExitFits, Txn
  <1>2. txn[c].opens = {} /\ txn[c].closes = {}
    BY <1>1 DEF Fits, ExitFits
  <1>3. txn \in [Clients -> Txn] /\ "finish" \in Ats /\ opens \in SUBSET Groups
    BY <1>1 DEF GroupsInv, TypeOK, Ats
  <1>4. groupLock[g] \in {c, None}
    BY <1>1 DEF Reopen, Ready, Blockers, GroupsInv, TypeOK
  <1>5. CASE group[g].status = "closed" /\ ~group[g].over
    <2>1. /\ groupLock' = [groupLock EXCEPT ![g] = c] /\ UNCHANGED userLock
          /\ Proceed(c, [txn[c] EXCEPT !.opens = opens, !.at = "finish"])
      BY <1>5 DEF Reopen
    <2>2. opens = {g}
      OBVIOUS
    <2> HIDE DEF opens
    <2>3. Goes(c, "finish", txn[c].row, txn[c].freed, txn[c].ended, txn[c].gone, txn[c].seen, opens, txn[c].closes)
      BY <1>3, <2>1, GoesOn
    <2>4. Others(c) /\ groupLock'[g] = c
      BY <1>1, <1>4, <2>1, <2>3, GoesLocked DEF Goes, GroupsInv
    <2>5. JoinFits(c)'
      BY <1>1, <2>3, StillJoins DEF Goes, Late
    <2>6. RequestFits(c)'
      BY <1>1, <1>2, <2>1, <2>2, <2>3, <2>4 DEF Goes, Fits, RequestFits, Joins, Late, GroupsInv, TypeOK
    <2>7. ExitFits(c)' /\ LeaveFits(c)'
      BY <1>1, <1>2, <2>2, <2>3 DEF Goes, Fits, ExitFits, LeaveFits
    <2> QED
      BY <2>3, <2>4, <2>5, <2>6, <2>7, OnwardAsBefore DEF Fits
  <1>6. CASE ~(group[g].status = "closed" /\ ~group[g].over)
    <2>1. UNCHANGED <<userLock, groupLock>> /\ Proceed(c, [txn[c] EXCEPT !.at = "finish"])
      BY <1>6 DEF Reopen
    <2>2. Moves(c, "finish", txn[c].row)
      BY <1>3, <2>1, GoesOn
    <2>3. Others(c)
      BY <2>1, <2>2, GoesAlone DEF Moves, Goes, GroupsInv
    <2>4. JoinFits(c)'
      BY <1>1, <2>2, StillJoins DEF Moves, Goes, Late
    <2>5. RequestFits(c)'
      BY <1>1, <1>2, <2>1, <2>2 DEF Moves, Goes, Fits, RequestFits, Joins, Late
    <2>6. ExitFits(c)' /\ LeaveFits(c)'
      BY <1>1, <1>2, <1>6, <2>2 DEF Moves, Goes, Fits, ExitFits, LeaveFits
    <2> QED
      BY <2>2, <2>3, <2>4, <2>5, <2>6, OnwardAsBefore DEF Moves, Fits
  <1> QED
    BY <1>5, <1>6

-----------------------------------------------------------------------------
(* What a request relies on while others write *)

\* Assignments keep their player, and what has ended stays so.
RowsKept ==
  \A r \in Rows : quest[r].status # "none" =>
    /\ quest'[r].status # "none" /\ quest'[r].user = quest[r].user
    /\ quest[r].status = "ended" => quest'[r].status = "ended"

\* What is not a member and has ended does not become one, what d gives up it
\* still has, and from a group that d has locked only ended assignments go.
PlacesKept(d) ==
  /\ \A r \in Rows : quest[r].status = "ended" /\ member[r] = None => member'[r] = None
  /\ \A r \in txn[d].gone : member'[r] = member[r]
  /\ \A r \in Rows : member[r] \in Groups /\ groupLock[member[r]] = d =>
       member'[r] = member[r] \/ (member'[r] = None /\ quest'[r].status = "ended")

\* The members, and the places of u, when the step is done.
After(g) == {r \in Rows : member'[r] = g}
PlaceAfter(g, u) == {r \in After(g) : quest'[r].user = u}

\* Nobody comes or goes in the group that d joins.
GroupKept(d) ==
  Joins(d) /\ txn[d].at \in Late =>
    LET g == txn[d].group
    IN After(g) = Members(g) /\ group'[g].status = group[g].status

CreatorsKept == \A g \in Groups : group[g].status # "none" => group'[g].creator = group[g].creator

\* A place is held by a player and in a group that exists.
LEMMA PlaceExists ==
  ASSUME GroupsInv, NEW r \in Rows, member[r] \in Groups
  PROVE  quest[r].status # "none" /\ quest[r].user \in Users /\ group[member[r]].status # "none"
  BY CollabAssumption DEF GroupsInv, RowsFit, Members

\* The places of those who stay are the same.
LEMMA PlacesStay ==
  ASSUME GroupsInv, RowsKept, NEW g \in Groups, NEW u, After(g) \subseteq Members(g)
  PROVE  /\ PlaceAfter(g, u) \subseteq Place(g, u)
         /\ \A r \in After(g) : quest'[r].user = quest[r].user
  <1>1. \A r \in Members(g) : r \in Rows /\ quest[r].status # "none"
    BY PlaceExists DEF Members
  <1> QED
    BY <1>1 DEF RowsKept, Place, PlaceAfter

LEMMA RelyFits ==
  ASSUME GroupsInv, NEW d \in Clients, txn'[d] = txn[d],
         \A g \in Groups : groupLock[g] = d => groupLock'[g] = d,
         RowsKept, PlacesKept(d), GroupKept(d), CreatorsKept
  PROVE  RequestFits(d)' /\ JoinFits(d)' /\ ExitFits(d)'
  <1>1. Fits(d) /\ txn[d] \in Txn
    BY DEF GroupsInv, TypeOK
  <1>2. RequestFits(d)'
    <2>1. \A g \in txn[d].opens \cup txn[d].closes : g \in Groups
      BY <1>1 DEF Txn
    <2> QED
      BY <1>1, <2>1 DEF Fits, RequestFits, Joins, Late
  <1>3. JoinFits(d)'
    <2> SUFFICES ASSUME Joins(d), txn[d].at \in Late
                 PROVE  LET g == txn[d].group
                        IN /\ txn[d].seen = After(g) /\ Cardinality(txn[d].seen) < MaxMembers
                           /\ group'[g].status = "open" /\ PlaceAfter(g, txn[d].user) = {}
      BY DEF JoinFits, Joins, Place, Members, After, PlaceAfter
    <2> DEFINE g == txn[d].group
    <2>1. g \in Groups
      BY <1>1 DEF Fits, RequestFits, Joins, Late
    <2>2. /\ txn[d].seen = Members(g) /\ Cardinality(txn[d].seen) < MaxMembers
          /\ group[g].status = "open" /\ Place(g, txn[d].user) = {}
      BY <1>1 DEF Fits, JoinFits
    <2>3. After(g) = Members(g) /\ group'[g].status = group[g].status
      BY DEF GroupKept
    <2>4. PlaceAfter(g, txn[d].user) \subseteq Place(g, txn[d].user)
      BY <2>1, <2>3, PlacesStay
    <2> QED
      BY <2>2, <2>3, <2>4
  <1>4. ExitFits(d)'
    <2> DEFINE t == txn[d]
               r == txn[d].row
    <2>1. t.gone # {} => /\ t.gone = {r} /\ r \in Rows /\ member[r] \in Groups /\ member'[r] = member[r]
                         /\ quest[r].status # "none" /\ quest'[r].user = quest[r].user
                         /\ group'[member[r]].creator = group[member[r]].creator
      <3>1. t.gone # {} => t.gone = {r} /\ r \in Rows /\ member[r] \in Groups
        BY <1>1 DEF Fits, ExitFits
      <3> QED
        BY <3>1, PlaceExists DEF PlacesKept, RowsKept, CreatorsKept
    <2>2. t.op = "leave" /\ t.at = "delete" /\ r # 0 =>
            /\ r \in Rows /\ quest'[r].user = t.user
            /\ member'[r] = t.group \/ (member'[r] = None /\ quest'[r].status = "ended")
      <3> SUFFICES ASSUME t.op = "leave", t.at = "delete", r # 0
                   PROVE  /\ r \in Rows /\ quest'[r].user = t.user
                          /\ member'[r] = t.group \/ (member'[r] = None /\ quest'[r].status = "ended")
        OBVIOUS
      <3>1. /\ r \in Rows /\ quest[r].user = t.user
            /\ member[r] = t.group \/ (member[r] = None /\ quest[r].status = "ended")
        BY <1>1 DEF Fits, ExitFits
      <3>2. t.group \in Groups /\ groupLock[t.group] = d
        BY <1>1 DEF Fits, RequestFits, Late
      <3>3. quest[r].status # "none"
        BY <3>1, <3>2, PlaceExists
      <3> QED
        BY <3>1, <3>2, <3>3 DEF PlacesKept, RowsKept
    <2>3. \A s \in t.ended : quest'[s].status # "none"
      BY <1>1 DEF Fits, ExitFits, RowsKept, Txn
    <2>4. t.op = "swap" /\ (t.at \in {"release", "delete", "reopen"} \/ t.gone # {}) =>
            r \in Rows /\ quest'[r].status # "none" /\ quest'[r].user = t.user
      BY <1>1 DEF Fits, ExitFits, RowsKept
    <2>5. t.closes # {} => t.op = "leave" /\ quest'[r].user = t.user /\ group'[member'[r]].creator = t.user
      BY <1>1, <2>1 DEF Fits, ExitFits
    <2> QED
      BY <1>1, <2>1, <2>2, <2>3, <2>4, <2>5 DEF Fits, ExitFits
  <1> QED
    BY <1>2, <1>3, <1>4

-----------------------------------------------------------------------------
(* What is one statement, or behind one lock *)

\* A step outside of the requests that moves nobody out of a place or into a
\* group that exists.
LEMMA SteadyFits ==
  ASSUME GroupsInv, Steady, RowsKept, CreatorsKept,
         \A r \in Rows : /\ member[r] \in Groups => member'[r] = member[r]
                         /\ quest[r].status = "ended" /\ member[r] = None => member'[r] = None,
         \A g \in Groups : group[g].status # "none" =>
           /\ After(g) = Members(g) /\ group'[g].status = group[g].status
           /\ ~group'[g].over => ~group[g].over
  PROVE  (\A d \in Clients : Fits(d)') /\ PlacesApart'
  <1>1. PlacesApart'
    BY DEF GroupsInv, PlacesApart, Steady
  <1>2. ASSUME NEW d \in Clients
        PROVE  Fits(d)'
    <2>1. Fits(d) /\ txn[d] \in Txn /\ txn'[d] = txn[d] /\ groupLock' = groupLock
      BY DEF GroupsInv, TypeOK, Steady
    <2>2. txn[d].gone # {} =>
            /\ txn[d].gone = {txn[d].row} /\ txn[d].row \in Rows /\ member[txn[d].row] \in Groups
            /\ member'[txn[d].row] = member[txn[d].row]
      BY <2>1 DEF Fits, ExitFits
    <2>3. PlacesKept(d)
      BY <2>2 DEF PlacesKept
    <2>4. GroupKept(d)
      <3> SUFFICES ASSUME Joins(d), txn[d].at \in Late
                   PROVE  LET g == txn[d].group
                          IN After(g) = Members(g) /\ group'[g].status = group[g].status
        BY DEF GroupKept
      <3>1. txn[d].group \in Groups /\ group[txn[d].group].status = "open"
        BY <2>1 DEF Fits, RequestFits, JoinFits, Joins, Late
      <3> QED
        BY <3>1
    <2>5. RequestFits(d)' /\ JoinFits(d)' /\ ExitFits(d)'
      BY <2>1, <2>3, <2>4, RelyFits
    <2>6. LeaveFits(d)'
      <3> SUFFICES ASSUME LET g == member'[txn'[d].row]
                          IN /\ txn'[d].gone # {} /\ txn'[d].at = "finish" /\ g \notin txn'[d].opens \cup txn'[d].closes
                             /\ group'[g].status = "closed" /\ ~group'[g].over
                   PROVE  LET g == member'[txn'[d].row]
                          IN PlaceAfter(g, group'[g].creator) = {}
        BY DEF LeaveFits, Place, Members, After, PlaceAfter
      <3> DEFINE g == member[txn[d].row]
      <3>0. /\ txn[d].gone # {} /\ txn[d].at = "finish" /\ g \notin txn[d].opens \cup txn[d].closes
            /\ group'[g].status = "closed" /\ ~group'[g].over /\ member'[txn'[d].row] = g
        BY <2>1, <2>2
      <3>1. g \in Groups /\ group[g].status # "none"
        BY <2>2, <3>0, PlaceExists
      <3>2. After(g) = Members(g) /\ group[g].status = "closed" /\ group'[g].creator = group[g].creator
        BY <3>0, <3>1 DEF CreatorsKept
      <3>3. ~group[g].over
        BY <3>0, <3>1
      <3>4. Place(g, group[g].creator) = {}
        BY <2>1, <3>0, <3>2, <3>3 DEF Fits, LeaveFits
      <3>5. PlaceAfter(g, group'[g].creator) \subseteq Place(g, group[g].creator)
        BY <3>1, <3>2, PlacesStay
      <3> QED
        BY <3>0, <3>4, <3>5
    <2> QED
      BY <2>5, <2>6 DEF Fits
  <1> QED
    BY <1>1, <1>2

\* Assignments that are taken, or that end, leave the places alone.
LEMMA QuestsFit ==
  ASSUME GroupsInv, Steady, UNCHANGED <<member, group>>, quest' \in [Rows -> Quest], RowsKept,
         \A r \in Rows : quest'[r].status # "none" => quest'[r].user \in Users
  PROVE  GroupsInv'
  <1>1. TypeOK'
    BY DEF GroupsInv, TypeOK, Steady
  <1>2. \A g \in Groups : After(g) = Members(g)
    BY DEF Members, After
  <1>3. \A g \in Groups, u \in Users \cup {None} : PlaceAfter(g, u) \subseteq Place(g, u)
    BY <1>2, PlacesStay
  <1>4. RowsFit'
    <2>1. \A r \in Rows : quest'[r].status = "none" => member'[r] = None
      BY DEF GroupsInv, RowsFit, RowsKept
    <2>2. \A g \in Groups : group'[g].status = "none" => After(g) = {}
      BY <1>2 DEF GroupsInv, RowsFit
    <2> QED
      BY <2>1, <2>2 DEF RowsFit, Members, After
  <1>5. SeatsFit'
    <2> SUFFICES ASSUME NEW g \in Groups
                 PROVE  /\ Cardinality(After(g)) <= MaxMembers
                        /\ group'[g].status = "open" => Cardinality(After(g)) < MaxMembers
                        /\ \A r, s \in After(g) : quest'[r].user = quest'[s].user => r = s
      BY DEF SeatsFit, Members, After
    <2>1. \A r \in After(g) : quest'[r].user = quest[r].user
      BY <1>2, PlacesStay
    <2> QED
      BY <1>2, <2>1 DEF GroupsInv, SeatsFit
  <1>6. VacatedSlotsReopen'
    <2> SUFFICES ASSUME NEW g \in Groups, group'[g].status = "closed", ~group'[g].over,
                        Cardinality(After(g)) < MaxMembers
                 PROVE  PlaceAfter(g, group'[g].creator) = {}
      BY DEF VacatedSlotsReopen, Place, Members, After, PlaceAfter
    <2>1. Place(g, group[g].creator) = {} /\ group'[g].creator \in Users \cup {None}
      BY <1>2 DEF GroupsInv, VacatedSlotsReopen, TypeOK, Group
    <2> QED
      BY <1>3, <2>1
  <1>7. (\A d \in Clients : Fits(d)') /\ PlacesApart'
    <2>1. CreatorsKept /\ \A g \in Groups : After(g) = Members(g) /\ group'[g] = group[g]
      BY <1>2 DEF CreatorsKept
    <2> QED
      BY <2>1, SteadyFits
  <1> QED
    BY <1>1, <1>4, <1>5, <1>6, <1>7 DEF GroupsInv

LEMMA TakesQuest ==
  ASSUME GroupsInv, NEW u \in Users, NEW r \in Rows, TakeQuest(u, r)
  PROVE  GroupsInv'
  <1>1. /\ quest[r].status = "none" /\ quest' = [quest EXCEPT ![r] = [user |-> u, status |-> "assigned"]]
        /\ Steady /\ UNCHANGED <<member, group>> /\ quest \in [Rows -> Quest]
    BY DEF TakeQuest, New, GroupsInv, TypeOK
  <1>2. quest' \in [Rows -> Quest]
    BY <1>1 DEF Quest
  <1>3. RowsKept /\ \A s \in Rows : quest'[s].status # "none" => quest'[s].user \in Users
    BY <1>1 DEF RowsKept, GroupsInv, RowsFit
  <1> QED
    BY <1>1, <1>2, <1>3, QuestsFit

\* Submit, Review and EndElsewhere.
LEMMA BecomesFit ==
  ASSUME GroupsInv, NEW r \in Rows, NEW from \in SUBSET {"assigned", "submitted"},
         NEW to \in {"submitted", "ended"}, Becomes(r, from, to)
  PROVE  GroupsInv'
  <1>1. /\ quest[r].status \in {"assigned", "submitted"} /\ quest' = [quest EXCEPT ![r].status = to]
        /\ Steady /\ UNCHANGED <<member, group>> /\ quest \in [Rows -> Quest]
    BY DEF Becomes, GroupsInv, TypeOK
  <1> PICK q \in Quest : q = quest[r]
    BY <1>1
  <1> DEFINE p == [q EXCEPT !.status = to]
  <1>2. p \in Quest /\ p.status = to /\ p.user = q.user
    BY DEF Quest
  <1>3. quest' = [quest EXCEPT ![r] = p]
    BY <1>1
  <1> HIDE DEF p
  <1>4. quest' \in [Rows -> Quest]
    BY <1>1, <1>2, <1>3
  <1>5. RowsKept /\ \A s \in Rows : quest'[s].status # "none" => quest'[s].user \in Users
    BY <1>1, <1>2, <1>3 DEF RowsKept, GroupsInv, RowsFit
  <1> QED
    BY <1>1, <1>4, <1>5, QuestsFit

\* create(): the creator is alone in his group.
LEMMA CreatesGroup ==
  ASSUME GroupsInv, NEW r \in Rows, NEW g \in Groups, Create(r, g)
  PROVE  GroupsInv'
  <1> DEFINE new == [status |-> "open", creator |-> quest[r].user, over |-> FALSE]
  <1>1. /\ quest[r].status \in {"assigned", "submitted"} /\ member[r] = None /\ group[g].status = "none"
        /\ group' = [group EXCEPT ![g] = new] /\ member' = [member EXCEPT ![r] = g]
        /\ Steady /\ UNCHANGED quest /\ quest \in [Rows -> Quest]
        /\ member \in [Rows -> Groups \cup {None}] /\ group \in [Groups -> Group]
    BY DEF Create, GroupsInv, TypeOK
  <1>2. new \in Group /\ new.status = "open" /\ new.creator = quest[r].user /\ new.over = FALSE
    BY <1>1 DEF Group, Quest
  <1> HIDE DEF new
  <1>3. /\ group'[g] = new /\ group' \in [Groups -> Group] /\ \A h \in Groups \ {g} : group'[h] = group[h]
        /\ member'[r] = g /\ member' \in [Rows -> Groups \cup {None}] /\ \A s \in Rows \ {r} : member'[s] = member[s]
    BY <1>1, <1>2
  <1>4. Members(g) = {}
    BY <1>1 DEF GroupsInv, RowsFit
  <1>5. After(g) = {r} /\ \A h \in Groups \ {g} : After(h) = Members(h)
    <2>1. After(g) = {r}
      BY <1>3, <1>4 DEF Members, After
    <2>2. \A h \in Groups \ {g} : After(h) = Members(h)
      BY <1>1, <1>3, CollabAssumption DEF Members, After
    <2> QED
      BY <2>1, <2>2
  <1>6. TypeOK'
    BY <1>1, <1>3 DEF GroupsInv, TypeOK, Steady
  <1>7. RowsFit'
    <2>1. \A s \in Rows : /\ quest'[s].status = "none" => member'[s] = None
                          /\ quest'[s].status # "none" => quest'[s].user \in Users
      BY <1>1, <1>3 DEF GroupsInv, RowsFit
    <2>2. \A h \in Groups : group'[h].status = "none" => After(h) = {}
      BY <1>2, <1>3, <1>5 DEF GroupsInv, RowsFit
    <2> QED
      BY <2>1, <2>2 DEF RowsFit, Members, After
  <1>8. SeatsFit'
    <2>1. Cardinality({r}) = 1
      BY FS_Singleton
    <2>2. Cardinality(After(g)) < MaxMembers
      BY <1>5, <2>1, CollabAssumption
    <2>3. \A s, q \in After(g) : s = q
      BY <1>5
    <2>4. \A h \in Groups \ {g} :
            /\ Cardinality(After(h)) <= MaxMembers
            /\ group'[h].status = "open" => Cardinality(After(h)) < MaxMembers
            /\ \A s, q \in After(h) : quest'[s].user = quest'[q].user => s = q
      BY <1>1, <1>3, <1>5 DEF GroupsInv, SeatsFit
    <2>5. Cardinality(After(g)) <= MaxMembers
      BY <1>5, <2>1, CollabAssumption
    <2> QED
      BY <2>2, <2>3, <2>4, <2>5 DEF SeatsFit, Members, After
  <1>9. VacatedSlotsReopen'
    <2>1. \A h \in Groups \ {g} : PlaceAfter(h, group'[h].creator) = Place(h, group[h].creator)
      <3> SUFFICES ASSUME NEW h \in Groups \ {g}
                   PROVE  PlaceAfter(h, group'[h].creator) = Place(h, group[h].creator)
        BY DEF Place, Members, After, PlaceAfter
      <3> QED
        BY <1>1, <1>3, <1>5 DEF Place, PlaceAfter
    <2>2. group'[g].status # "closed"
      BY <1>2, <1>3
    <2>3. \A h \in Groups \ {g} : group'[h].status = "closed" /\ ~group'[h].over
                                  /\ Cardinality(After(h)) < MaxMembers => PlaceAfter(h, group'[h].creator) = {}
      BY <1>3, <1>5, <2>1 DEF GroupsInv, VacatedSlotsReopen
    <2> QED
      BY <2>2, <2>3 DEF VacatedSlotsReopen, Place, Members, After, PlaceAfter
  <1>10. (\A d \in Clients : Fits(d)') /\ PlacesApart'
    <2>1. RowsKept
      BY <1>1 DEF RowsKept
    <2>2. CreatorsKept
      BY <1>1, <1>3 DEF CreatorsKept
    <2>3. \A s \in Rows : /\ member[s] \in Groups => member'[s] = member[s]
                          /\ quest[s].status = "ended" /\ member[s] = None => member'[s] = None
      BY <1>1, <1>3, CollabAssumption
    <2>4. \A h \in Groups : group[h].status # "none" =>
            /\ After(h) = Members(h) /\ group'[h].status = group[h].status
            /\ ~group'[h].over => ~group[h].over
      BY <1>1, <1>3, <1>5
    <2> QED
      BY <1>1, <2>1, <2>2, <2>3, <2>4, SteadyFits
  <1> QED
    BY <1>6, <1>7, <1>8, <1>9, <1>10 DEF GroupsInv

\* A group whose time is over stays as it is.
LEMMA ExpiresFit ==
  ASSUME GroupsInv, NEW g \in Groups, GroupExpires(g)
  PROVE  GroupsInv'
  <1>1. /\ group' = [group EXCEPT ![g].over = TRUE] /\ Steady /\ UNCHANGED <<quest, member>>
        /\ group \in [Groups -> Group]
    BY DEF GroupExpires, GroupsInv, TypeOK
  <1> PICK k \in Group : k = group[g]
    BY <1>1
  <1> DEFINE new == [k EXCEPT !.over = TRUE]
  <1>2. new \in Group /\ new.status = k.status /\ new.creator = k.creator /\ new.over = TRUE
    BY DEF Group
  <1>3. group' = [group EXCEPT ![g] = new]
    BY <1>1
  <1> HIDE DEF new
  <1>4. group' \in [Groups -> Group] /\ \A h \in Groups : /\ group'[h].status = group[h].status
                                                         /\ group'[h].creator = group[h].creator
                                                         /\ ~group'[h].over => ~group[h].over
    BY <1>1, <1>2, <1>3
  <1>5. \A h \in Groups : After(h) = Members(h)
    BY <1>1 DEF Members, After
  <1>6. TypeOK'
    BY <1>1, <1>4 DEF GroupsInv, TypeOK, Steady
  <1>7. RowsFit' /\ SeatsFit'
    BY <1>1, <1>4 DEF GroupsInv, RowsFit, SeatsFit, Members, After
  <1>8. VacatedSlotsReopen'
    BY <1>1, <1>4 DEF GroupsInv, VacatedSlotsReopen, Place, Members, After, PlaceAfter
  <1>9. (\A d \in Clients : Fits(d)') /\ PlacesApart'
    <2>1. RowsKept /\ CreatorsKept
      BY <1>1, <1>4 DEF RowsKept, CreatorsKept
    <2>2. \A r \in Rows : /\ member[r] \in Groups => member'[r] = member[r]
                          /\ quest[r].status = "ended" /\ member[r] = None => member'[r] = None
      BY <1>1
    <2>3. \A h \in Groups : group[h].status # "none" =>
            /\ After(h) = Members(h) /\ group'[h].status = group[h].status
            /\ ~group'[h].over => ~group[h].over
      <3>1. \A h \in Groups : After(h) = Members(h)
        BY <1>5
      <3>2. \A h \in Groups : group'[h].status = group[h].status /\ (~group'[h].over => ~group[h].over)
        BY <1>1, <1>4 DEF Group
      <3> QED
        BY <3>1, <3>2
    <2> QED
      BY <1>1, <2>1, <2>2, <2>3, SteadyFits
  <1> QED
    BY <1>6, <1>7, <1>8, <1>9 DEF GroupsInv

LEMMA ElsewhereFits ==
  ASSUME GroupsInv, Elsewhere
  PROVE  GroupsInv'
  <1>1. ASSUME NEW r \in Rows, Submit(r) \/ Review(r) \/ EndElsewhere(r)
        PROVE  GroupsInv'
    <2> DEFINE running == {"assigned"}
               handed == {"submitted"}
    <2>1. running \in SUBSET {"assigned", "submitted"} /\ handed \in SUBSET {"assigned", "submitted"}
      OBVIOUS
    <2>2. \/ Becomes(r, running, "submitted") \/ Becomes(r, handed, "ended") \/ Becomes(r, running, "ended")
      BY <1>1 DEF Submit, Review, EndElsewhere
    <2> HIDE DEF running, handed
    <2> QED
      BY <2>1, <2>2, BecomesFit
  <1> QED
    BY <1>1, CreatesGroup, TakesQuest, ExpiresFit DEF Elsewhere

-----------------------------------------------------------------------------
(* COMMIT *)

\* What a commit writes: new is the row of the assignment it adds, if any.
Commits(c, new) ==
  /\ txn[c].at = "finish" /\ Others(c) /\ txn'[c] = Idle
  /\ new \in SUBSET Rows
  /\ \/ Joins(c) /\ \E r \in Rows : new = {r} /\ quest[r].status = "none"
     \/ ~Joins(c) /\ new = {}
  /\ quest' \in [Rows -> Quest] /\ member' \in [Rows -> Groups \cup {None}]
  /\ \A s \in Rows :
       IF s \in new THEN /\ quest'[s].user = txn[c].user /\ quest'[s].status = "assigned"
                         /\ member'[s] = txn[c].group
       ELSE /\ quest'[s].user = quest[s].user
            /\ quest'[s].status = IF s \in txn[c].ended THEN "ended" ELSE quest[s].status
            /\ member'[s] = IF s \in txn[c].gone THEN None ELSE member[s]
  /\ group' = Written(c)

LEMMA QuestEnds ==
  ASSUME GroupsInv, NEW s \in Rows
  PROVE  LET q == [quest[s] EXCEPT !.status = "ended"]
         IN q \in Quest /\ q.user = quest[s].user /\ q.status = "ended"
  <1> PICK p \in Quest : p = quest[s]
    BY DEF GroupsInv, TypeOK
  <1> QED
    BY DEF Quest

LEMMA JoinCommits ==
  ASSUME GroupsInv, NEW c \in Clients, NEW r \in Rows, CommitJoin(c, r)
  PROVE  GroupsInv' \/ \E new \in SUBSET Rows : Commits(c, new)
  <1>1. txn[c].at = "finish" /\ Joins(c) /\ quest[r].status = "none" /\ Release(c) /\ Fits(c)
    BY DEF CommitJoin, New, Joins, GroupsInv
  <1>2. CASE Running(txn[c].user) \ txn[c].ended # {}
    BY <1>2, Quits DEF CommitJoin, Rollback
  <1>3. CASE ~(Running(txn[c].user) \ txn[c].ended # {})
    <2> DEFINE q == [user |-> txn[c].user, status |-> "assigned"]
               end(s) == [quest[s] EXCEPT !.status = "ended"]
               new == {r}
    <2>1. /\ quest' = [s \in Rows |-> IF s = r THEN q ELSE IF s \in txn[c].ended THEN end(s) ELSE quest[s]]
          /\ member' = [s \in Rows |-> IF s = r THEN txn[c].group ELSE IF s \in txn[c].gone THEN None ELSE member[s]]
          /\ group' = Written(c)
      BY <1>3 DEF CommitJoin
    <2>2. txn[c].user \in Users /\ txn[c].group \in Groups
      BY <1>1 DEF Fits, RequestFits, Joins
    <2>3. q \in Quest /\ q.user = txn[c].user /\ q.status = "assigned"
      BY <2>2 DEF Quest
    <2>4. \A s \in Rows : end(s) \in Quest /\ end(s).user = quest[s].user /\ end(s).status = "ended"
      BY QuestEnds
    <2> HIDE DEF q, end
    <2>5. quest' \in [Rows -> Quest] /\ member' \in [Rows -> Groups \cup {None}]
      BY <2>1, <2>2, <2>3, <2>4 DEF GroupsInv, TypeOK
    <2>6. \A s \in Rows :
            IF s \in new THEN /\ quest'[s].user = txn[c].user /\ quest'[s].status = "assigned"
                              /\ member'[s] = txn[c].group
            ELSE /\ quest'[s].user = quest[s].user
                 /\ quest'[s].status = IF s \in txn[c].ended THEN "ended" ELSE quest[s].status
                 /\ member'[s] = IF s \in txn[c].gone THEN None ELSE member[s]
      BY <2>1, <2>3, <2>4
    <2>7. Others(c) /\ txn'[c] = Idle
      BY <1>1, Releases DEF GroupsInv
    <2>8. Commits(c, new)
      BY <1>1, <2>1, <2>5, <2>6, <2>7 DEF Commits
    <2> QED
      BY <2>8
  <1> QED
    BY <1>2, <1>3

LEMMA ExitCommits ==
  ASSUME GroupsInv, NEW c \in Clients, CommitExit(c)
  PROVE  \E new \in SUBSET Rows : Commits(c, new)
  <1> DEFINE end(s) == [quest[s] EXCEPT !.status = "ended"]
             new == {}
  <1>1. /\ txn[c].at = "finish" /\ ~Joins(c) /\ Release(c)
        /\ quest' = [s \in Rows |-> IF s \in txn[c].ended THEN end(s) ELSE quest[s]]
        /\ member' = [s \in Rows |-> IF s \in txn[c].gone THEN None ELSE member[s]]
        /\ group' = Written(c)
    BY DEF CommitExit, Joins
  <1>2. \A s \in Rows : end(s) \in Quest /\ end(s).user = quest[s].user /\ end(s).status = "ended"
    BY QuestEnds
  <1> HIDE DEF end
  <1>3. quest' \in [Rows -> Quest] /\ member' \in [Rows -> Groups \cup {None}]
    BY <1>1, <1>2 DEF GroupsInv, TypeOK
  <1>4. \A s \in Rows : /\ quest'[s].user = quest[s].user
                        /\ quest'[s].status = IF s \in txn[c].ended THEN "ended" ELSE quest[s].status
                        /\ member'[s] = IF s \in txn[c].gone THEN None ELSE member[s]
    BY <1>1, <1>2
  <1>5. Others(c) /\ txn'[c] = Idle
    BY <1>1, Releases DEF GroupsInv
  <1>6. Commits(c, new)
    BY <1>1, <1>3, <1>4, <1>5 DEF Commits
  <1> QED
    BY <1>6

\* A commit opens, closes or fills the groups its request has locked.
Shuts(c, g) == g \in txn[c].closes \/ (Joins(c) /\ g = txn[c].group /\ Fills(c))

LEMMA GroupsWritten ==
  ASSUME GroupsInv, NEW c \in Clients, NEW new, Commits(c, new)
  PROVE  /\ group' \in [Groups -> Group]
         /\ \A g \in Groups :
              /\ group'[g].creator = group[g].creator
              /\ ~group'[g].over => ~group[g].over
              /\ g \in txn[c].opens => group'[g].status = "open"
              /\ g \notin txn[c].opens /\ Shuts(c, g) => group'[g].status = "closed"
              /\ g \notin txn[c].opens /\ ~Shuts(c, g) => group'[g].status = group[g].status
  <1> DEFINE open(g) == [group[g] EXCEPT !.status = "open"]
             closed(g) == [group[g] EXCEPT !.status = "closed"]
  <1>1. group' = [g \in Groups |-> IF g \in txn[c].opens THEN open(g)
                                   ELSE IF Shuts(c, g) THEN closed(g) ELSE group[g]]
    BY DEF Commits, Written, Shuts, Joins
  <1>2. ASSUME NEW g \in Groups
        PROVE  /\ group[g] \in Group
               /\ open(g) \in Group /\ open(g).creator = group[g].creator /\ open(g).over = group[g].over
               /\ open(g).status = "open"
               /\ closed(g) \in Group /\ closed(g).creator = group[g].creator /\ closed(g).over = group[g].over
               /\ closed(g).status = "closed"
    <2> PICK k \in Group : k = group[g]
      BY DEF GroupsInv, TypeOK
    <2> QED
      BY DEF Group
  <1> HIDE DEF open, closed
  <1>3. group' \in [Groups -> Group]
    BY <1>1, <1>2
  <1>4. ASSUME NEW g \in Groups
        PROVE  /\ group'[g].creator = group[g].creator
               /\ group'[g].over = group[g].over
               /\ g \in txn[c].opens => group'[g].status = "open"
               /\ g \notin txn[c].opens /\ Shuts(c, g) => group'[g].status = "closed"
               /\ g \notin txn[c].opens /\ ~Shuts(c, g) => group'[g].status = group[g].status
    BY <1>1, <1>2
  <1> QED
    BY <1>3, <1>4

\* Who joins adds one member and takes nobody away; the others take away only.
LEMMA MembersWritten ==
  ASSUME GroupsInv, NEW c \in Clients, NEW new, Commits(c, new)
  PROVE  \A g \in Groups :
           /\ Joins(c) /\ g = txn[c].group => After(g) = Members(g) \cup new
           /\ ~(Joins(c) /\ g = txn[c].group) => After(g) = Members(g) \ txn[c].gone
  <1>1. Fits(c) /\ txn[c].at = "finish"
    BY DEF GroupsInv, Commits
  <1>2. \A s \in new : s \in Rows /\ quest[s].status = "none" /\ member[s] = None
    BY DEF Commits, GroupsInv, RowsFit
  <1>3. ASSUME NEW g \in Groups, Joins(c), g = txn[c].group
        PROVE  After(g) = Members(g) \cup new
    <2>1. txn[c].gone \cap Members(g) = {}
      <3> SUFFICES ASSUME NEW r \in txn[c].gone, member[r] = g
                   PROVE  FALSE
        BY DEF Members
      <3>1. txn[c].op = "swap" /\ r = txn[c].row /\ r \in Rows /\ quest[r].user = txn[c].user
        BY <1>1, <1>3 DEF Fits, ExitFits, Joins
      <3>2. Place(g, txn[c].user) = {}
        BY <1>1, <1>3 DEF Fits, JoinFits, Late
      <3> QED
        BY <3>1, <3>2 DEF Place, Members
    <2>2. \A s \in Rows : s \in new => member'[s] = g
      BY <1>3 DEF Commits
    <2>3. \A s \in Rows \ new : member'[s] = g <=> member[s] = g /\ s \notin txn[c].gone
      BY CollabAssumption DEF Commits
    <2> QED
      BY <1>2, <2>1, <2>2, <2>3 DEF Members, After
  <1>4. ASSUME NEW g \in Groups, ~(Joins(c) /\ g = txn[c].group)
        PROVE  After(g) = Members(g) \ txn[c].gone
    <2>1. \A s \in new : member'[s] # g /\ member[s] # g
      BY <1>2, <1>4, CollabAssumption DEF Commits
    <2>2. \A s \in Rows \ new : member'[s] = g <=> member[s] = g /\ s \notin txn[c].gone
      BY CollabAssumption DEF Commits
    <2> QED
      BY <2>1, <2>2 DEF Members, After
  <1> QED
    BY <1>3, <1>4

\* The creator who leaves was in the group once.
LEMMA CreatorLeaves ==
  ASSUME GroupsInv, NEW c \in Clients, NEW new, Commits(c, new), NEW g \in Groups, g \in txn[c].closes
  PROVE  PlaceAfter(g, group'[g].creator) = {}
  <1> DEFINE r == txn[c].row
  <1>1. /\ ~Joins(c) /\ new = {} /\ txn[c].gone = {r} /\ r \in Rows /\ member[r] = g
        /\ quest[r].user = group[g].creator
    BY DEF GroupsInv, Fits, ExitFits, Joins, Commits
  <1>2. After(g) = Members(g) \ {r}
    BY <1>1, MembersWritten
  <1>3. group'[g].creator = group[g].creator
    BY GroupsWritten
  <1>4. \A s \in Members(g) : quest[s].user = quest[r].user => s = r
    BY <1>1 DEF GroupsInv, SeatsFit, Members
  <1>5. \A s \in Rows : quest'[s].user = quest[s].user
    BY <1>1 DEF Commits
  <1> QED
    BY <1>1, <1>2, <1>3, <1>4, <1>5 DEF PlaceAfter, Members

\* The assignments that are there keep their players.
LEMMA RowsWritten ==
  ASSUME GroupsInv, NEW c \in Clients, NEW new, Commits(c, new)
  PROVE  /\ RowsKept
         /\ \A s \in Rows : /\ quest'[s].status = "none" => s \notin new /\ quest[s].status = "none"
                            /\ quest'[s].status # "none" => quest'[s].user \in Users
  <1>1. Fits(c) /\ txn[c].at = "finish" /\ txn[c] \in Txn
    BY DEF GroupsInv, Commits, TypeOK
  <1>2. \A s \in new : s \in Rows /\ quest[s].status = "none" /\ txn[c].user \in Users
    BY <1>1 DEF Commits, Fits, RequestFits, Joins
  <1>3. \A s \in txn[c].ended : s \in Rows /\ quest[s].status # "none"
    BY <1>1 DEF Fits, ExitFits, Txn
  <1>4. \A s \in Rows : quest[s].status # "none" => quest[s].user \in Users
    BY DEF GroupsInv, RowsFit
  <1>5. \A s \in new : quest'[s].user = txn[c].user /\ quest'[s].status = "assigned"
    BY <1>2 DEF Commits
  <1>6. \A s \in Rows \ new : /\ quest'[s].user = quest[s].user
                              /\ quest'[s].status = IF s \in txn[c].ended THEN "ended" ELSE quest[s].status
    BY DEF Commits
  <1>7. RowsKept
    BY <1>2, <1>6 DEF RowsKept
  <1>8. \A s \in Rows : /\ quest'[s].status = "none" => s \notin new /\ quest[s].status = "none"
                        /\ quest'[s].status # "none" => quest'[s].user \in Users
    BY <1>2, <1>3, <1>4, <1>5, <1>6
  <1> QED
    BY <1>7, <1>8

\* The others still rely on what they have seen.
LEMMA OthersRely ==
  ASSUME GroupsInv, NEW c \in Clients, NEW new, Commits(c, new), NEW d \in Clients \ {c}
  PROVE  RequestFits(d)' /\ JoinFits(d)' /\ ExitFits(d)'
  <1>1. Fits(c) /\ Fits(d) /\ txn[c].at = "finish" /\ txn[c] \in Txn
    BY DEF GroupsInv, Commits, TypeOK
  <1>2. txn'[d] = txn[d] /\ \A g \in Groups : groupLock[g] = d => groupLock'[g] = d
    BY DEF Commits, Others
  <1>3. \A s \in new : s \in Rows /\ quest[s].status = "none" /\ member[s] = None
    BY DEF Commits, GroupsInv, RowsFit
  <1>4. \A s \in Rows \ new : /\ quest'[s].status = IF s \in txn[c].ended THEN "ended" ELSE quest[s].status
                              /\ member'[s] = IF s \in txn[c].gone THEN None ELSE member[s]
    BY DEF Commits
  <1>5. txn[c].gone \cap (txn[d].gone \cup txn[d].seen) = {}
    BY DEF GroupsInv, PlacesApart
  <1>6. Joins(c) => txn[c].group \in Groups /\ groupLock[txn[c].group] = c
    BY <1>1 DEF Fits, RequestFits, Joins, Late
  <1>7. RowsKept
    BY RowsWritten
  <1>8. PlacesKept(d)
    <2>1. \A r \in Rows : quest[r].status = "ended" /\ member[r] = None => member'[r] = None
      BY <1>3, <1>4
    <2>2. \A r \in txn[d].gone : member'[r] = member[r]
      <3>1. \A r \in txn[d].gone : r \in Rows /\ member[r] \in Groups
        BY <1>1 DEF Fits, ExitFits
      <3> QED
        BY <1>3, <1>4, <1>5, <3>1, CollabAssumption
    <2>3. ASSUME NEW r \in Rows, member[r] \in Groups, groupLock[member[r]] = d
          PROVE  member'[r] = member[r] \/ (member'[r] = None /\ quest'[r].status = "ended")
      <3>1. r \notin new
        BY <1>3, <2>3, CollabAssumption
      <3>2. CASE r \notin txn[c].gone
        BY <1>4, <3>1, <3>2
      <3>3. CASE r \in txn[c].gone
        <4>1. \/ txn[c].op = "leave" /\ member[r] = txn[c].group
              \/ r \in txn[c].ended
          BY <1>1, <3>3 DEF Fits, ExitFits
        <4>2. ~(txn[c].op = "leave" /\ member[r] = txn[c].group)
          BY <1>1, <2>3 DEF Fits, RequestFits, Late
        <4> QED
          BY <1>4, <3>1, <3>3, <4>1, <4>2
      <3> QED
        BY <3>2, <3>3
    <2> QED
      BY <2>1, <2>2, <2>3 DEF PlacesKept
  <1>9. GroupKept(d)
    <2> SUFFICES ASSUME Joins(d), txn[d].at \in Late
                 PROVE  /\ After(txn[d].group) = Members(txn[d].group)
                        /\ group'[txn[d].group].status = group[txn[d].group].status
      BY DEF GroupKept
    <2>0. txn[d].group \in Groups /\ groupLock[txn[d].group] = d /\ txn[d].seen = Members(txn[d].group)
      BY <1>1 DEF Fits, RequestFits, JoinFits, Joins, Late
    <2> PICK g \in Groups : g = txn[d].group
      BY <2>0
    <2>1. groupLock[g] = d /\ txn[d].seen = Members(g)
      BY <2>0
    <2>2. ~(Joins(c) /\ g = txn[c].group)
      <3>1. c # d
        OBVIOUS
      <3> QED
        BY <1>6, <2>1, <3>1
    <2>3. After(g) = Members(g)
      <3>1. After(g) = Members(g) \ txn[c].gone
        BY <2>2, MembersWritten
      <3>2. txn[c].gone \cap Members(g) = {}
        BY <1>5, <2>1
      <3> QED
        BY <3>1, <3>2
    <2>4. g \notin txn[c].opens /\ ~Shuts(c, g)
      BY <1>1, <2>1, <2>2 DEF Fits, RequestFits, Shuts
    <2>5. group'[g].status = group[g].status
      BY <2>1, <2>4, GroupsWritten
    <2> QED
      BY <2>3, <2>5
  <1>10. CreatorsKept
    BY GroupsWritten DEF CreatorsKept
  <1> QED
    BY <1>2, <1>7, <1>8, <1>9, <1>10, RelyFits

\* A group that a commit leaves closed had been closed, or is full, or its
\* creator has left it.
LEMMA ClosedAfter ==
  ASSUME GroupsInv, NEW c \in Clients, NEW new, Commits(c, new), NEW g \in Groups,
         group'[g].status = "closed", ~group'[g].over, ~(Joins(c) /\ g = txn[c].group)
  PROVE  \/ PlaceAfter(g, group'[g].creator) = {}
         \/ /\ group[g].status = "closed" /\ ~group[g].over /\ g \notin txn[c].opens \cup txn[c].closes
            /\ PlaceAfter(g, group'[g].creator) \subseteq Place(g, group[g].creator)
  <1>1. CASE g \in txn[c].closes
    BY <1>1, CreatorLeaves
  <1>2. CASE g \notin txn[c].closes
    <2>1. g \notin txn[c].opens
      BY GroupsWritten
    <2>2. ~Shuts(c, g)
      BY <1>2 DEF Shuts
    <2>3. group[g].status = "closed" /\ ~group[g].over /\ group'[g].creator = group[g].creator
      BY <2>1, <2>2, GroupsWritten
    <2>4. After(g) \subseteq Members(g)
      BY MembersWritten
    <2>5. PlaceAfter(g, group'[g].creator) \subseteq Place(g, group[g].creator)
      BY <2>3, <2>4, PlacesStay, RowsWritten
    <2> QED
      BY <1>2, <2>1, <2>3, <2>5
  <1> QED
    BY <1>1, <1>2

\* Who is giving up a place while another commits.
LEMMA OthersLeave ==
  ASSUME GroupsInv, NEW c \in Clients, NEW new, Commits(c, new), NEW d \in Clients \ {c}
  PROVE  LeaveFits(d)'
  <1>1. /\ Fits(c) /\ Fits(d) /\ txn[c].at = "finish" /\ txn'[d] = txn[d]
        /\ txn[d].gone \cap (txn[c].gone \cup txn[c].seen) = {}
    BY DEF GroupsInv, Commits, Others, PlacesApart
  <1> DEFINE r == txn[d].row
             g == member[r]
  <1>2. txn[d].gone # {} => r \in txn[d].gone /\ r \in Rows /\ g \in Groups
    BY <1>1 DEF Fits, ExitFits
  <1>3. txn[d].gone # {} => member'[r] = g
    <2>1. \A s \in new : member[s] = None
      BY DEF Commits, GroupsInv, RowsFit
    <2> QED
      BY <1>1, <1>2, <2>1, CollabAssumption DEF Commits
  <1>4. ASSUME txn[d].gone # {}, txn[d].at = "finish", g \notin txn[d].opens \cup txn[d].closes,
               group'[g].status = "closed", ~group'[g].over
        PROVE  PlaceAfter(g, group'[g].creator) = {}
    <2>1. r \in Members(g)
      BY <1>2, <1>4 DEF Members
    <2>2. ~(Joins(c) /\ g = txn[c].group)
      <3>1. Joins(c) => txn[c].seen = Members(txn[c].group)
        BY <1>1 DEF Fits, JoinFits, Late
      <3> QED
        BY <1>1, <1>2, <1>4, <2>1, <3>1
    <2>3. \/ PlaceAfter(g, group'[g].creator) = {}
          \/ /\ group[g].status = "closed" /\ ~group[g].over
             /\ PlaceAfter(g, group'[g].creator) \subseteq Place(g, group[g].creator)
      BY <1>2, <1>4, <2>2, ClosedAfter
    <2>4. group[g].status = "closed" /\ ~group[g].over => Place(g, group[g].creator) = {}
      BY <1>1, <1>4 DEF Fits, LeaveFits
    <2> QED
      BY <2>3, <2>4
  <1> QED
    BY <1>1, <1>3, <1>4 DEF LeaveFits, Place, Members, After, PlaceAfter

\* One more member fits, and the last one closes the group.
LEMMA SeatTaken ==
  ASSUME GroupsInv, NEW c \in Clients, NEW new, Commits(c, new), Joins(c), NEW g, g = txn[c].group
  PROVE  /\ g \in Groups /\ Cardinality(After(g)) <= MaxMembers
         /\ group'[g].status = "open" => Cardinality(After(g)) < MaxMembers
         /\ group'[g].status = "closed" => ~(Cardinality(After(g)) < MaxMembers)
         /\ \A r, s \in After(g) : quest'[r].user = quest'[s].user => r = s
  <1>1. Fits(c) /\ txn[c].at = "finish"
    BY DEF GroupsInv, Commits
  <1>2. g \in Groups
    BY <1>1 DEF Fits, RequestFits, Joins
  <1>3. /\ txn[c].seen = Members(g) /\ Cardinality(txn[c].seen) < MaxMembers
        /\ group[g].status = "open" /\ Place(g, txn[c].user) = {}
    BY <1>1 DEF Fits, JoinFits, Late
  <1>4. PICK r \in Rows : new = {r} /\ quest[r].status = "none" /\ member[r] = None
    BY DEF Commits, GroupsInv, RowsFit
  <1>5. After(g) = Members(g) \cup {r} /\ r \notin Members(g)
    BY <1>2, <1>4, MembersWritten, CollabAssumption DEF Members
  <1>6. Cardinality(After(g)) = Cardinality(Members(g)) + 1 /\ Cardinality(Members(g)) \in Nat
    <2>1. IsFiniteSet(Members(g)) /\ Cardinality(Members(g)) \in Nat
      BY MembersFinite
    <2> DEFINE S == Members(g)
    <2> HIDE DEF S
    <2>2. IsFiniteSet(S) /\ r \notin S
      BY <1>5, <2>1 DEF S
    <2>3. Cardinality(S \cup {r}) = Cardinality(S) + 1
      BY <2>2, FS_AddElement
    <2> QED
      BY <1>5, <2>1, <2>3 DEF S
  <1>7. g \notin txn[c].opens
    <2> SUFFICES ASSUME g \in txn[c].opens
                 PROVE  FALSE
      OBVIOUS
    <2> DEFINE p == txn[c].row
    <2>1. txn[c].gone # {} /\ member[p] = g
      BY <1>1 DEF Fits, ExitFits
    <2>2. txn[c].op = "swap"
      BY <1>1, <2>1 DEF Fits, ExitFits, Joins
    <2>3. p \in Rows /\ quest[p].user = txn[c].user
      BY <1>1, <2>1, <2>2 DEF Fits, ExitFits
    <2> QED
      BY <1>3, <2>1, <2>3 DEF Place, Members
  <1>8. group'[g].status = IF Fills(c) THEN "closed" ELSE "open"
    <2>1. g \notin txn[c].closes
      BY <1>1 DEF Fits, ExitFits, Joins
    <2>2. Shuts(c, g) <=> Fills(c)
      BY <2>1 DEF Shuts
    <2> QED
      BY <1>2, <1>3, <1>7, <2>2, GroupsWritten
  <1>9. Fills(c) <=> Cardinality(Members(g)) + 1 >= MaxMembers
    BY <1>3 DEF Fills
  <1>10. \A p, s \in After(g) : quest'[p].user = quest'[s].user => p = s
    <2>1. quest'[r].user = txn[c].user
      BY <1>4 DEF Commits
    <2>2. \A s \in Members(g) : s \in Rows /\ s # r /\ quest'[s].user = quest[s].user
      BY <1>4, <1>5 DEF Commits, Members
    <2>3. \A s \in Members(g) : quest[s].user # txn[c].user
      BY <1>3 DEF Place
    <2>4. \A p, s \in Members(g) : quest[p].user = quest[s].user => p = s
      BY <1>2 DEF GroupsInv, SeatsFit
    <2> QED
      BY <1>5, <2>1, <2>2, <2>3, <2>4
  <1> QED
    BY <1>2, <1>3, <1>6, <1>8, <1>9, <1>10, CollabAssumption

\* Where nobody joins, members only go, and a group that opens has lost one.
LEMMA SeatsKept ==
  ASSUME GroupsInv, NEW c \in Clients, NEW new, Commits(c, new), NEW g \in Groups,
         ~(Joins(c) /\ g = txn[c].group)
  PROVE  /\ Cardinality(After(g)) <= MaxMembers
         /\ group'[g].status = "open" => Cardinality(After(g)) < MaxMembers
         /\ \A r, s \in After(g) : quest'[r].user = quest'[s].user => r = s
  <1>1. Fits(c)
    BY DEF GroupsInv
  <1>2. /\ Cardinality(Members(g)) <= MaxMembers
        /\ group[g].status = "open" => Cardinality(Members(g)) < MaxMembers
        /\ \A r, s \in Members(g) : quest[r].user = quest[s].user => r = s
    BY DEF GroupsInv, SeatsFit
  <1>3. After(g) = Members(g) \ txn[c].gone
    BY MembersWritten
  <1>4. \A r \in After(g) : r \in Members(g) /\ quest'[r].user = quest[r].user
    BY <1>3, PlacesStay, RowsWritten
  <1>5. txn[c].gone = {} \/ \E r : txn[c].gone = {r} /\ member[r] = member[txn[c].row] /\ r \in Rows
    BY <1>1 DEF Fits, ExitFits
  <1>6. Cardinality(After(g)) <= Cardinality(Members(g)) /\ Cardinality(Members(g)) \in Nat
        /\ Cardinality(After(g)) \in Nat
    <2>1. IsFiniteSet(Members(g)) /\ Cardinality(Members(g)) \in Nat
      BY MembersFinite
    <2> DEFINE S == Members(g)
               T == After(g)
    <2>2. IsFiniteSet(S) /\ T \subseteq S
      BY <1>3, <2>1
    <2> HIDE DEF S, T
    <2>3. IsFiniteSet(T) /\ Cardinality(T) <= Cardinality(S)
      BY <2>2, FS_Subset
    <2>4. Cardinality(T) \in Nat
      BY <2>3, FS_CardinalityType
    <2> QED
      BY <2>1, <2>3, <2>4 DEF S, T
  <1>7. ASSUME g \in txn[c].opens
        PROVE  Cardinality(After(g)) < MaxMembers
    <2> DEFINE r == txn[c].row
    <2>1. txn[c].gone = {r} /\ r \in Rows /\ member[r] = g
      BY <1>1, <1>7 DEF Fits, ExitFits
    <2>2. r \in Members(g) /\ After(g) = Members(g) \ {r}
      BY <1>3, <2>1 DEF Members
    <2>3. Cardinality(After(g)) = Cardinality(Members(g)) - 1
      BY <2>2, MembersFinite
    <2> QED
      BY <1>2, <1>6, <2>3, CollabAssumption
  <1>8. group'[g].status = "open" => g \in txn[c].opens \/ group[g].status = "open"
    BY GroupsWritten
  <1> QED
    BY <1>2, <1>4, <1>6, <1>7, <1>8, CollabAssumption

LEMMA CommitsFit ==
  ASSUME GroupsInv, NEW c \in Clients, NEW new, Commits(c, new)
  PROVE  GroupsInv'
  <1>1. TypeOK'
    BY GroupsWritten DEF Commits, Others, TypeOK
  <1>2. RowsFit'
    <2>1. \A s \in Rows : /\ quest'[s].status = "none" => member'[s] = None
                          /\ quest'[s].status # "none" => quest'[s].user \in Users
      <3>1. \A s \in Rows : quest[s].status = "none" => member[s] = None
        BY DEF GroupsInv, RowsFit
      <3>2. \A s \in Rows \ new : member'[s] = IF s \in txn[c].gone THEN None ELSE member[s]
        BY DEF Commits
      <3> QED
        BY <3>1, <3>2, RowsWritten
    <2>2. ASSUME NEW g \in Groups, group'[g].status = "none"
          PROVE  After(g) = {}
      <3>1. ~(Joins(c) /\ g = txn[c].group)
        <4>1. Joins(c) /\ g = txn[c].group => group[g].status = "open"
          BY DEF GroupsInv, Fits, JoinFits, Commits, Late
        <4> QED
          BY <2>2, <4>1, GroupsWritten
      <3>2. group[g].status = "none" /\ After(g) \subseteq Members(g)
        BY <2>2, <3>1, GroupsWritten, MembersWritten
      <3> QED
        BY <3>2 DEF GroupsInv, RowsFit
    <2> QED
      BY <2>1, <2>2 DEF RowsFit, Members, After
  <1>3. SeatsFit'
    <2>1. \A g \in Groups : /\ Cardinality(After(g)) <= MaxMembers
                            /\ group'[g].status = "open" => Cardinality(After(g)) < MaxMembers
                            /\ \A r, s \in After(g) : quest'[r].user = quest'[s].user => r = s
      BY SeatTaken, SeatsKept
    <2> QED
      BY <2>1 DEF SeatsFit, Members, After
  <1>4. VacatedSlotsReopen'
    <2> SUFFICES ASSUME NEW g \in Groups, group'[g].status = "closed", ~group'[g].over,
                        Cardinality(After(g)) < MaxMembers
                 PROVE  PlaceAfter(g, group'[g].creator) = {}
      BY DEF VacatedSlotsReopen, Place, Members, After, PlaceAfter
    <2>1. ~(Joins(c) /\ g = txn[c].group)
      BY SeatTaken
    <2>2. CASE group[g].status = "closed" /\ ~group[g].over /\ g \notin txn[c].opens \cup txn[c].closes
               /\ PlaceAfter(g, group'[g].creator) \subseteq Place(g, group[g].creator)
      <3>1. CASE g = member[txn[c].row] /\ txn[c].gone # {}
        BY <2>2, <3>1 DEF Commits, GroupsInv, Fits, LeaveFits
      <3>2. CASE ~(g = member[txn[c].row] /\ txn[c].gone # {})
        <4>1. txn[c].gone \cap Members(g) = {}
          <5>1. txn[c].gone # {} => txn[c].gone = {txn[c].row}
            BY DEF GroupsInv, Fits, ExitFits
          <5> QED
            BY <3>2, <5>1 DEF Members
        <4>2. After(g) = Members(g)
          <5>1. After(g) = Members(g) \ txn[c].gone
            BY <2>1, MembersWritten
          <5> QED
            BY <4>1, <5>1
        <4>3. Place(g, group[g].creator) = {}
          BY <2>2, <4>2 DEF GroupsInv, VacatedSlotsReopen
        <4> QED
          BY <2>2, <4>3
      <3> QED
        BY <3>1, <3>2
    <2> QED
      BY <2>1, <2>2, ClosedAfter
  <1>5. \A d \in Clients : Fits(d)'
    <2>1. Fits(c)'
      BY IdleFits DEF Commits
    <2>2. \A d \in Clients \ {c} : Fits(d)'
      BY OthersRely, OthersLeave DEF Fits
    <2> QED
      BY <2>1, <2>2
  <1>6. PlacesApart'
    <2>1. txn'[c].gone = {} /\ txn'[c].seen = {} /\ \A d \in Clients \ {c} : txn'[d] = txn[d]
      BY IdleFits DEF Commits, Others
    <2>2. \A d, e \in Clients : d # e => txn'[d].gone \cap (txn'[e].gone \cup txn'[e].seen) = {}
      BY <2>1 DEF GroupsInv, PlacesApart
    <2> QED
      BY <2>2 DEF PlacesApart
  <1> QED
    BY <1>1, <1>2, <1>3, <1>4, <1>5, <1>6 DEF GroupsInv

-----------------------------------------------------------------------------
(* The theorems *)

LEMMA GroupsInit == Init => GroupsInv
  <1> SUFFICES ASSUME Init
               PROVE  GroupsInv
    OBVIOUS
  <1>1. TypeOK
    BY IdleTyped DEF Init, TypeOK, Quest, NoQuest, Group, NoGroup
  <1>2. \A g \in Groups : Members(g) = {}
    BY CollabAssumption DEF Init, Members
  <1>3. \A c \in Clients : /\ txn[c].at = "idle" /\ txn[c].gone = {} /\ txn[c].seen = {}
                           /\ txn[c].opens = {} /\ txn[c].closes = {} /\ txn[c].ended = {}
    BY DEF Init, Idle
  <1>4. RowsFit
    BY <1>2 DEF Init, RowsFit, NoQuest
  <1>5. SeatsFit
    <2>1. Cardinality({}) = 0
      BY FS_EmptySet
    <2> QED
      BY <1>2, <2>1, CollabAssumption DEF SeatsFit
  <1>6. VacatedSlotsReopen
    BY DEF Init, NoGroup, VacatedSlotsReopen
  <1>7. ASSUME NEW c \in Clients
        PROVE  Fits(c)
    BY <1>3 DEF Fits, RequestFits, JoinFits, ExitFits, LeaveFits, Late
  <1>8. PlacesApart
    BY <1>3 DEF PlacesApart
  <1> QED
    BY <1>1, <1>4, <1>5, <1>6, <1>7, <1>8 DEF GroupsInv

LEMMA StepsFit ==
  ASSUME GroupsInv, NEW c \in Clients, Step(c)
  PROVE  GroupsInv'
  <1>1. CASE CommitExit(c)
    BY <1>1, ExitCommits, CommitsFit
  <1>2. ASSUME NEW r \in Rows, CommitJoin(c, r)
        PROVE  GroupsInv'
    BY <1>2, JoinCommits, CommitsFit
  <1> QED
    BY <1>1, <1>2, LocksUser, LocksGroup, SelectsMembers, FindsActive, EndsAssignment, DeletesMember, Reopens
    DEF Step

LEMMA GroupsNext == GroupsInv /\ [Next]_vars => GroupsInv'
  <1> SUFFICES ASSUME GroupsInv, [Next]_vars
               PROVE  GroupsInv'
    OBVIOUS
  <1>1. ASSUME NEW c \in Clients, Step(c) \/ Begin(c) \/ Fail(c) \/ BreakDeadlock(c)
        PROVE  GroupsInv'
    BY <1>1, StepsFit, BeginsFit, Quits DEF Fail, BreakDeadlock
  <1>2. CASE UNCHANGED vars
    <2>1. /\ quest' = quest /\ member' = member /\ group' = group
          /\ userLock' = userLock /\ groupLock' = groupLock /\ txn' = txn
      BY <1>2 DEF vars
    <2>2. TypeOK' /\ RowsFit'
      BY <2>1 DEF GroupsInv, TypeOK, RowsFit, Members
    <2>3. SeatsFit' /\ VacatedSlotsReopen'
      BY <2>1 DEF GroupsInv, SeatsFit, VacatedSlotsReopen, Place, Members
    <2>4. ASSUME NEW c \in Clients
          PROVE  Fits(c)'
      <3>1. RequestFits(c)' /\ JoinFits(c)'
        BY <2>1 DEF GroupsInv, Fits, RequestFits, JoinFits, Joins, Place, Members
      <3>2. ExitFits(c)' /\ LeaveFits(c)'
        BY <2>1 DEF GroupsInv, Fits, ExitFits, LeaveFits, Place, Members
      <3> QED
        BY <3>1, <3>2 DEF Fits
    <2>5. PlacesApart'
      BY <2>1 DEF GroupsInv, PlacesApart
    <2> QED
      BY <2>2, <2>3, <2>4, <2>5 DEF GroupsInv
  <1> QED
    BY <1>1, <1>2, ElsewhereFits DEF Next

\* Every conjunct of the invariant holds in every state of collaborative
\* quests, for any number of requests under way at once.
THEOREM GroupsInvHolds == Spec => []GroupsInv
  BY GroupsInit, GroupsNext, PTL DEF Spec

\* join(), leave() and abandon(): a group never holds more members than it may
\* nor a player twice, and a full one is not open.
THEOREM SeatsAreKept == Spec => []SeatsFit
  <1>1. GroupsInv => SeatsFit
    BY DEF GroupsInv
  <1> QED
    BY <1>1, GroupsInvHolds, PTL

\* reopenIfRoom(): a group that runs, and has room, is open unless its creator
\* has left it.
THEOREM SlotsReopen == Spec => []VacatedSlotsReopen
  <1>1. GroupsInv => VacatedSlotsReopen
    BY DEF GroupsInv
  <1> QED
    BY <1>1, GroupsInvHolds, PTL

==============================================================================
