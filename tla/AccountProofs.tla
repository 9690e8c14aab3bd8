---------------------------- MODULE AccountProofs ----------------------------
(***************************************************************************)
(* Theorems about MediaReclaim, the files of an account, and about         *)
(* RefreshSessions, its sessions.                                          *)
(***************************************************************************)
EXTENDS MediaReclaim, RefreshSessions, FiniteSetTheorems, TLAPS

-----------------------------------------------------------------------------
(* The invariant of the files *)

\* Who reserves holds the quota's lock, and the count it took is still right.
ReservesAlone ==
  \A c \in Devices : request[c].at = "reserve" =>
    /\ request[c].object \in Objects /\ quotaLock = c
    /\ request[c].fits => Cardinality(Counted(request[c].kind)) < MaxObjects

\* An object that was never reserved is blank, and nothing refers to it.
BlankUntilReserved ==
  \A o \in Objects : ~Exists(o) => object[o] = NoObject /\ avatar # o /\ o \notin linked

Bound(o) == avatar = o \/ o \in linked
Sound(o) == object[o].status = "ready" /\ ~object[o].tomb

\* What is ready has its bytes; what is bound is ready until its owner deletes
\* it; what was erased has neither bytes nor a URL that could bring them back.
FilesFit ==
  \A o \in Objects :
    /\ Sound(o) => o \in stored
    /\ Bound(o) /\ ~object[o].byOwner => Sound(o)
    /\ object[o].erased => object[o].tomb /\ o \notin grants /\ o \notin stored

\* What each request has read or written that is still so: who marks a file
\* ready has seen its bytes, who deletes bytes has closed the row, and who
\* binds a file keeps its row locked.
RequestsFit ==
  \A c \in Devices :
    LET o == request[c].object
    IN /\ request[c].at # "idle" => o \in Objects
       /\ request[c].at \in {"ready", "reject"} => Exists(o) /\ (Completable(o) => o \in stored)
       /\ request[c].at = "erase" => object[o].tomb \/ object[o].status = "rejected"
       /\ request[c].at = "bind" => lock[o] = c /\ Sound(o)

\* What each sweep works on: rows it has locked, and then rows it has closed
\* and no URL is open for.
SweepsFit ==
  \A s \in Sweepers :
    /\ sweeper[s].at = "tombstone" => \A o \in sweeper[s].batch : lock[o] = s
    /\ sweeper[s].at = "erase" =>
         /\ \A o \in sweeper[s].batch \cup sweeper[s].done : object[o].tomb /\ o \notin grants
         /\ sweeper[s].done \cap stored = {}

MediaInv ==
  /\ MediaTypeOK /\ QuotaHolds /\ ReservesAlone /\ BlankUntilReserved
  /\ FilesFit /\ RequestsFit /\ SweepsFit

-----------------------------------------------------------------------------
(* Types *)

\* The records that requests and sweeps write are of their types.
LEMMA RequestRecords ==
  /\ IdleRequest \in RequestState
  /\ \A o \in Objects, at \in {"ready", "reject", "erase", "bind"} :
       [IdleRequest EXCEPT !.at = at, !.object = o] \in RequestState
  /\ \A o \in Objects, k \in Kinds, f \in BOOLEAN :
       [at |-> "reserve", object |-> o, kind |-> k, fits |-> f] \in RequestState
  /\ \A r \in RequestState : [r EXCEPT !.at = "erase"] \in RequestState
  BY DEF IdleRequest, RequestState, Kinds

LEMMA SweepRecords ==
  /\ IdleSweeper \in Sweeper
  /\ \A b \in SUBSET Objects, at \in {"select", "erase"} :
       [IdleSweeper EXCEPT !.at = at, !.batch = b] \in Sweeper
  /\ \A r \in Sweeper : \A b \in SUBSET Objects :
       /\ [r EXCEPT !.at = "tombstone", !.batch = b] \in Sweeper
       /\ [r EXCEPT !.batch = b] \in Sweeper
       /\ \A d \in SUBSET Objects : [r EXCEPT !.batch = b, !.done = d] \in Sweeper
  BY DEF IdleSweeper, Sweeper

LEMMA ObjectRecords ==
  /\ NoObject \in Object
  /\ \A k \in Kinds : [NoObject EXCEPT !.status = "pending", !.kind = k] \in Object
  /\ \A r \in Object :
       /\ \A st \in {"ready", "rejected"} : [r EXCEPT !.status = st] \in Object
       /\ \A b \in BOOLEAN : [r EXCEPT !.status = "deleted", !.tomb = TRUE, !.byOwner = b] \in Object
       /\ \A s \in Sweepers : [r EXCEPT !.tomb = TRUE, !.token = s] \in Object
       /\ [r EXCEPT !.status = "deleted", !.erased = TRUE] \in Object
  BY DEF NoObject, Object, Kinds

\* The files that count against the quota are finitely many.
LEMMA CountIsNat ==
  ASSUME NEW k
  PROVE  IsFiniteSet(Counted(k)) /\ Cardinality(Counted(k)) \in Nat
  <1> DEFINE counted == Counted(k)
  <1>1. counted \subseteq Objects /\ IsFiniteSet(Objects)
    BY MediaAssumption DEF Counted
  <1> HIDE DEF counted
  <1>2. IsFiniteSet(counted) /\ Cardinality(counted) \in Nat
    BY <1>1, FS_Subset, FS_CardinalityType
  <1> QED
    BY <1>2 DEF counted

\* One request, or one sweep, has moved.
LEMMA RequestTyped ==
  ASSUME request \in [Devices -> RequestState], NEW c \in Devices, NEW r \in RequestState, Goes(c, r)
  PROVE  request' \in [Devices -> RequestState]
  BY DEF Goes

LEMMA SweepTyped ==
  ASSUME sweeper \in [Sweepers -> Sweeper], NEW s \in Sweepers, NEW r \in Sweeper, Turns(s, r)
  PROVE  sweeper' \in [Sweepers -> Sweeper]
  BY DEF Turns

LEMMA UnlockTyped ==
  ASSUME MediaTypeOK, NEW p, Unlock(p)
  PROVE  /\ quotaLock' \in Devices \cup {Nobody}
         /\ lock' \in [Objects -> Devices \cup Sweepers \cup {Nobody}]
  BY DEF MediaTypeOK, Unlock

LEMMA RequestTypes ==
  ASSUME MediaInv, NEW c \in Devices, Request(c)
  PROVE  MediaTypeOK'
  <1> USE DEF mediaRows, clocks, mediaLocks
  <1>1. request[c] \in RequestState /\ MediaTypeOK
    BY DEF MediaInv, MediaTypeOK
  <1>2. ASSUME request[c].at # "idle"
        PROVE  /\ request[c].object \in Objects /\ request[c].kind \in Kinds
               /\ object[request[c].object] \in Object
    BY <1>1, <1>2 DEF MediaInv, RequestsFit, MediaTypeOK, RequestState
  <1>3. ASSUME Ends(c)
        PROVE  request' \in [Devices -> RequestState]
    BY <1>1, <1>3, RequestRecords, RequestTyped DEF Ends, MediaTypeOK
  <1>4. ASSUME Unlock(c)
        PROVE  /\ quotaLock' \in Devices \cup {Nobody}
               /\ lock' \in [Objects -> Devices \cup Sweepers \cup {Nobody}]
    BY <1>1, <1>4, UnlockTyped
  <1>5. ASSUME NEW o \in Objects, NEW k \in Kinds, Reserve(c, o, k)
        PROVE  MediaTypeOK'
    <2> DEFINE f == Cardinality(Counted(k)) < MaxObjects
    <2>1. Goes(c, [at |-> "reserve", object |-> o, kind |-> k, fits |-> f])
      BY <1>5 DEF Reserve
    <2>2. f \in BOOLEAN
      BY CountIsNat, MediaAssumption
    <2> HIDE DEF f
    <2>3. [at |-> "reserve", object |-> o, kind |-> k, fits |-> f] \in RequestState
      BY <2>2, RequestRecords
    <2>4. request' \in [Devices -> RequestState]
      BY <1>1, <2>1, <2>3, RequestTyped DEF MediaTypeOK
    <2> QED
      BY <1>1, <1>5, <2>4 DEF Reserve, MediaTypeOK
  <1>6. ASSUME NEW o \in Objects, Complete(c, o)
        PROVE  MediaTypeOK'
    <2>1. PICK verdict \in {"ready", "reject"} : Goes(c, [IdleRequest EXCEPT !.at = verdict, !.object = o])
      BY <1>6 DEF Complete
    <2>2. request' \in [Devices -> RequestState]
      BY <1>1, <2>1, RequestRecords, RequestTyped DEF MediaTypeOK
    <2> QED
      BY <1>1, <1>6, <2>2 DEF Complete, MediaTypeOK
  <1>7. ASSUME NEW o \in Objects, Bind(c, o)
        PROVE  MediaTypeOK'
    <2>1. request' \in [Devices -> RequestState]
      BY <1>1, <1>7, RequestRecords, RequestTyped DEF Bind, MediaTypeOK
    <2> QED
      BY <1>1, <1>7, <2>1 DEF Bind, MediaTypeOK
  <1>8. ASSUME NEW o \in Objects, MarkDeleted(c, o)
        PROVE  MediaTypeOK'
    <2>1. request' \in [Devices -> RequestState]
      BY <1>1, <1>8, RequestRecords, RequestTyped DEF MarkDeleted, MediaTypeOK
    <2>2. object[o] \in Object
      BY <1>1 DEF MediaTypeOK
    <2>3. (object[o].byOwner \/ ~object[o].tomb) \in BOOLEAN
      OBVIOUS
    <2>4. object' = [object EXCEPT ![o] = [@ EXCEPT !.status = "deleted", !.tomb = TRUE,
                                                  !.byOwner = object[o].byOwner \/ ~object[o].tomb]]
      BY <1>1, <1>8 DEF MarkDeleted, MediaTypeOK
    <2>5. [object[o] EXCEPT !.status = "deleted", !.tomb = TRUE,
                            !.byOwner = object[o].byOwner \/ ~object[o].tomb] \in Object
      BY <2>2, <2>3, ObjectRecords
    <2>6. object' \in [Objects -> Object]
      BY <1>1, <2>4, <2>5 DEF MediaTypeOK
    <2> QED
      BY <1>1, <1>8, <2>1, <2>6 DEF MarkDeleted, MediaTypeOK
  <1>9. CASE ReserveCommits(c)
    <2> DEFINE r == [NoObject EXCEPT !.status = "pending", !.kind = request[c].kind]
    <2>1. request[c].object \in Objects /\ r \in Object
      BY <1>2, <1>9, ObjectRecords DEF ReserveCommits
    <2>2. object' = object \/ object' = [object EXCEPT ![request[c].object] = r]
      BY <1>9 DEF ReserveCommits
    <2> HIDE DEF r
    <2>3. object' \in [Objects -> Object]
      BY <1>1, <2>1, <2>2 DEF MediaTypeOK
    <2>4. grants' \subseteq Objects
      BY <1>1, <1>9, <2>1 DEF ReserveCommits, MediaTypeOK
    <2>5. Ends(c) /\ Unlock(c) /\ UNCHANGED <<linked, avatar, stored, leased, sweeper>>
      BY <1>9 DEF ReserveCommits
    <2> QED
      BY <1>1, <1>3, <1>4, <2>3, <2>4, <2>5 DEF MediaTypeOK
  <1>10. CASE MarkReady(c)
    <2> DEFINE o == request[c].object
    <2>1. o \in Objects /\ [object[o] EXCEPT !.status = "ready"] \in Object
      BY <1>2, <1>10, ObjectRecords DEF MarkReady
    <2>2. object' = object \/ object' = [object EXCEPT ![o] = [object[o] EXCEPT !.status = "ready"]]
      BY <1>1, <1>10, <2>1 DEF MarkReady, MediaTypeOK
    <2>3. object' \in [Objects -> Object]
      BY <1>1, <2>1, <2>2 DEF MediaTypeOK
    <2> QED
      BY <1>1, <1>3, <1>10, <2>3 DEF MarkReady, MediaTypeOK
  <1>11. CASE MarkRejected(c)
    <2> DEFINE o == request[c].object
    <2>1. o \in Objects /\ [object[o] EXCEPT !.status = "rejected"] \in Object
      BY <1>2, <1>11, ObjectRecords DEF MarkRejected
    <2>2. object' = object \/ object' = [object EXCEPT ![o] = [object[o] EXCEPT !.status = "rejected"]]
      BY <1>1, <1>11, <2>1 DEF MarkRejected, MediaTypeOK
    <2>3. object' \in [Objects -> Object]
      BY <1>1, <2>1, <2>2 DEF MediaTypeOK
    <2>4. [request[c] EXCEPT !.at = "erase"] \in RequestState
      BY <1>1, RequestRecords
    <2>5. Ends(c) \/ Goes(c, [request[c] EXCEPT !.at = "erase"])
      BY <1>11 DEF MarkRejected
    <2>6. request' \in [Devices -> RequestState]
      BY <1>1, <1>3, <2>4, <2>5, RequestTyped DEF MediaTypeOK
    <2> QED
      BY <1>1, <1>11, <2>3, <2>6 DEF MarkRejected, MediaTypeOK
  <1>12. CASE Erase(c)
    BY <1>1, <1>3, <1>12 DEF Erase, MediaTypeOK
  <1>13. CASE BindCommits(c)
    BY <1>1, <1>2, <1>3, <1>4, <1>13 DEF BindCommits, MediaTypeOK
  <1>14. CASE RequestDies(c)
    BY <1>1, <1>3, <1>4, <1>14 DEF RequestDies, MediaTypeOK
  <1> QED
    BY <1>5, <1>6, <1>7, <1>8, <1>9, <1>10, <1>11, <1>12, <1>13, <1>14 DEF Request

LEMMA SweepTypes ==
  ASSUME MediaInv, NEW s \in Sweepers, Sweep(s)
  PROVE  MediaTypeOK'
  <1> USE DEF mediaRows, clocks, mediaLocks
  <1>1. /\ MediaTypeOK /\ sweeper[s] \in Sweeper
        /\ sweeper[s].batch \in SUBSET Objects /\ sweeper[s].done \in SUBSET Objects
    BY DEF MediaInv, MediaTypeOK, Sweeper
  <1>2. ASSUME NEW r \in Sweeper, Turns(s, r)
        PROVE  sweeper' \in [Sweepers -> Sweeper]
    BY <1>1, <1>2, SweepTyped DEF MediaTypeOK
  <1>3. ASSUME Unlock(s)
        PROVE  /\ quotaLock' \in Devices \cup {Nobody}
               /\ lock' \in [Objects -> Devices \cup Sweepers \cup {Nobody}]
    BY <1>1, <1>3, UnlockTyped
  <1>4. CASE Select(s)
    <2> DEFINE found == {o \in Objects : Reclaimable(o)}
    <2>1. found \in SUBSET Objects
      OBVIOUS
    <2>2. Turns(s, [IdleSweeper EXCEPT !.at = "select", !.batch = found])
      BY <1>4 DEF Select
    <2> HIDE DEF found
    <2>3. sweeper' \in [Sweepers -> Sweeper]
      BY <1>2, <2>1, <2>2, SweepRecords
    <2> QED
      BY <1>1, <1>4, <2>3 DEF Select, MediaTypeOK
  <1>5. CASE LockRows(s)
    <2> DEFINE free == {o \in sweeper[s].batch : RowFree(o) /\ Exists(o)}
    <2>1. free \in SUBSET Objects
      BY <1>1
    <2>2. \/ Turns(s, IdleSweeper)
          \/ Turns(s, [sweeper[s] EXCEPT !.at = "tombstone", !.batch = free])
      BY <1>5 DEF LockRows
    <2>3. lock' = lock \/ lock' = [o \in Objects |-> IF o \in free THEN s ELSE lock[o]]
      BY <1>5 DEF LockRows
    <2> HIDE DEF free
    <2>4. sweeper' \in [Sweepers -> Sweeper]
      BY <1>1, <1>2, <2>1, <2>2, SweepRecords
    <2>5. lock' \in [Objects -> Devices \cup Sweepers \cup {Nobody}]
      BY <1>1, <2>3 DEF MediaTypeOK
    <2> QED
      BY <1>1, <1>5, <2>4, <2>5 DEF LockRows, MediaTypeOK
  <1>6. CASE Tombstone(s)
    <2> DEFINE hits == Confirmed(s)
    <2>1. hits \in SUBSET Objects
      BY <1>1 DEF Confirmed
    <2>2. /\ object' = [o \in Objects |->
               IF o \in hits THEN [object[o] EXCEPT !.tomb = TRUE, !.token = s] ELSE object[o]]
          /\ leased' = leased \cup hits
          /\ Turns(s, IdleSweeper) \/ Turns(s, [IdleSweeper EXCEPT !.at = "erase", !.batch = hits])
      BY <1>6 DEF Tombstone
    <2> HIDE DEF hits
    <2>3. sweeper' \in [Sweepers -> Sweeper]
      BY <1>2, <2>1, <2>2, SweepRecords
    <2>4. object' \in [Objects -> Object]
      BY <1>1, <2>2, ObjectRecords DEF MediaTypeOK
    <2> QED
      BY <1>1, <1>3, <1>6, <2>1, <2>2, <2>3, <2>4 DEF Tombstone, MediaTypeOK
  <1>7. CASE MarkReclaimed(s)
    <2> DEFINE mine == {o \in sweeper[s].done : object[o].token = s /\ object[o].tomb /\ ~object[o].erased}
    <2>1. /\ object' = [o \in Objects |->
               IF o \in mine THEN [object[o] EXCEPT !.status = "deleted", !.erased = TRUE] ELSE object[o]]
          /\ leased' = leased \ mine
      BY <1>7 DEF MarkReclaimed
    <2> HIDE DEF mine
    <2>2. object' \in [Objects -> Object]
      BY <1>1, <2>1, ObjectRecords DEF MediaTypeOK
    <2>3. sweeper' \in [Sweepers -> Sweeper]
      BY <1>2, <1>7, SweepRecords DEF MarkReclaimed
    <2> QED
      BY <1>1, <1>7, <2>1, <2>2, <2>3 DEF MarkReclaimed, MediaTypeOK
  <1>8. CASE SweeperDies(s)
    BY <1>1, <1>2, <1>3, <1>8, SweepRecords DEF SweeperDies, MediaTypeOK
  <1>9. ASSUME NEW o \in Objects, Deletes(s, o) \/ Releases(s, o)
        PROVE  MediaTypeOK'
    <2> DEFINE b == sweeper[s].batch \ {o}
               d == sweeper[s].done \cup {o}
    <2>1. b \in SUBSET Objects /\ d \in SUBSET Objects
      BY <1>1
    <2>2. \/ Turns(s, [sweeper[s] EXCEPT !.batch = b, !.done = d])
          \/ Turns(s, [sweeper[s] EXCEPT !.batch = b])
      BY <1>1, <1>9 DEF Deletes, Releases, Sweeper
    <2> HIDE DEF b, d
    <2>3. sweeper' \in [Sweepers -> Sweeper]
      BY <1>1, <1>2, <2>1, <2>2, SweepRecords
    <2> QED
      BY <1>1, <1>9, <2>3 DEF Deletes, Releases, MediaTypeOK
  <1> QED
    BY <1>4, <1>5, <1>6, <1>7, <1>8, <1>9 DEF Sweep

LEMMA MediaTypes ==
  ASSUME MediaInv, [MediaNext]_mediaVars
  PROVE  MediaTypeOK'
  <1> USE DEF mediaRows, clocks, mediaLocks, MediaInv, MediaTypeOK
  <1>1. CASE UNCHANGED mediaVars
    BY <1>1 DEF mediaVars
  <1>2. CASE Time \/ ClearAvatar \/ \E o \in Objects : Upload(o)
    BY <1>2 DEF Time, UploadExpires, LeaseEnds, ClearAvatar, Upload
  <1> QED
    BY <1>1, <1>2, RequestTypes, SweepTypes DEF MediaNext

-----------------------------------------------------------------------------
(* What a step may do *)

Acts(p) == (p \in Devices /\ Request(p)) \/ (p \in Sweepers /\ Sweep(p))

\* Nobody's step touches another's request, sweep or locks.
LEMMA Bystander ==
  ASSUME MediaInv, NEW q \in Devices \cup Sweepers, Acts(q),
         NEW p \in Devices \cup Sweepers, p # q
  PROVE  /\ quotaLock = p => quotaLock' = p
         /\ \A o \in Objects : lock[o] = p => lock'[o] = p
         /\ p \in Devices => request'[p] = request[p]
         /\ p \in Sweepers => sweeper'[p] = sweeper[p]
  <1> DEFINE Apart == /\ quotaLock = p => quotaLock' = p
                      /\ \A o \in Objects : lock[o] = p => lock'[o] = p
                      /\ p \in Devices => request'[p] = request[p]
                      /\ p \in Sweepers => sweeper'[p] = sweeper[p]
  <1> USE MediaAssumption DEF mediaRows, clocks, mediaLocks
  <1>1. MediaTypeOK
    BY DEF MediaInv
  <1>2. p # Nobody
    OBVIOUS
  <1>3. ASSUME q \in Devices, Request(q)
        PROVE  Apart
    <2>1. q # p /\ q \notin Sweepers
      BY <1>3
    <2>2. ASSUME NEW o \in Objects, NEW k \in Kinds, Reserve(q, o, k)
          PROVE  Apart
      BY <1>1, <1>2, <2>2 DEF Reserve, QuotaLocked, Goes, RowFree, MediaTypeOK
    <2>3. ASSUME NEW o \in Objects, Complete(q, o) \/ Bind(q, o) \/ MarkDeleted(q, o)
          PROVE  Apart
      BY <1>1, <1>2, <2>3 DEF Complete, Bind, MarkDeleted, Goes, RowFree, MediaTypeOK
    <2>4. CASE MarkReady(q) \/ MarkRejected(q) \/ Erase(q)
      BY <1>1, <2>4 DEF MarkReady, MarkRejected, Erase, Ends, Goes, MediaTypeOK
    <2>5. CASE ReserveCommits(q) \/ BindCommits(q) \/ RequestDies(q)
      BY <1>1, <2>5 DEF ReserveCommits, BindCommits, RequestDies, Unlock, Ends, Goes, MediaTypeOK
    <2> QED
      BY <1>3, <2>2, <2>3, <2>4, <2>5 DEF Request
  <1>4. ASSUME q \in Sweepers, Sweep(q)
        PROVE  Apart
    <2>1. CASE Select(q)
      BY <1>1, <2>1 DEF Select, Turns, MediaTypeOK
    <2>2. CASE LockRows(q)
      BY <1>1, <1>2, <2>2 DEF LockRows, Turns, RowFree, MediaTypeOK
    <2>3. CASE Tombstone(q)
      BY <1>1, <2>3 DEF Tombstone, Turns, Unlock, MediaTypeOK
    <2>4. CASE MarkReclaimed(q) \/ SweeperDies(q)
      BY <1>1, <2>4 DEF MarkReclaimed, SweeperDies, Turns, Unlock, MediaTypeOK
    <2>5. ASSUME NEW o \in Objects, Deletes(q, o) \/ Releases(q, o)
          PROVE  Apart
      BY <1>1, <2>5 DEF Deletes, Releases, Turns, MediaTypeOK
    <2> QED
      BY <1>4, <2>1, <2>2, <2>3, <2>4, <2>5 DEF Sweep
  <1> QED
    BY <1>3, <1>4 DEF Acts

\* The ways in which a row of media_objects is written, and who may.
Reserved(o) ==
  /\ ~Exists(o)
  /\ \E c \in Devices :
       /\ ReserveCommits(c) /\ request[c].object = o /\ request[c].fits
       /\ object'[o] = [NoObject EXCEPT !.status = "pending", !.kind = request[c].kind]
       /\ \A b \in Objects \ {o} : object'[b] = object[b]
Inspected(o) ==
  /\ Completable(o) /\ RowFree(o)
  /\ \/ object'[o] = [object[o] EXCEPT !.status = "ready"] /\ o \in stored
     \/ object'[o] = [object[o] EXCEPT !.status = "rejected"]
Withdrawn(o) ==
  /\ Exists(o) /\ RowFree(o)
  /\ object'[o] = [object[o] EXCEPT !.status = "deleted", !.tomb = TRUE,
                                    !.byOwner = object[o].byOwner \/ ~object[o].tomb]
Closed(o) ==
  \E s \in Sweepers :
    /\ Reclaimable(o) /\ lock[o] = s
    /\ object'[o] = [object[o] EXCEPT !.tomb = TRUE, !.token = s]
Erased(o) ==
  /\ object[o].tomb /\ o \notin grants /\ o \notin stored
  /\ object'[o] = [object[o] EXCEPT !.status = "deleted", !.erased = TRUE]
  /\ UNCHANGED <<stored, grants>>

RowMove(o) ==
  object'[o] = object[o] \/ Reserved(o) \/ Inspected(o) \/ Withdrawn(o) \/ Closed(o) \/ Erased(o)

LEMMA RowMoves ==
  ASSUME MediaInv, [MediaNext]_mediaVars, NEW b \in Objects
  PROVE  RowMove(b)
  <1> USE DEF mediaRows, clocks, mediaLocks
  <1>1. MediaTypeOK /\ RequestsFit /\ SweepsFit
    BY DEF MediaInv
  <1>2. ASSUME object' = object
        PROVE  RowMove(b)
    BY <1>2 DEF RowMove
  <1>3. ASSUME NEW c \in Devices, Request(c)
        PROVE  RowMove(b)
    <2>1. CASE request[c].at = "reserve" /\ ReserveCommits(c)
      <3> DEFINE o == request[c].object
      <3>1. \/ object' = object
            \/ /\ ~Exists(o) /\ request[c].fits
               /\ object' = [object EXCEPT ![o] = [NoObject EXCEPT !.status = "pending", !.kind = request[c].kind]]
        BY <2>1 DEF ReserveCommits
      <3>2. CASE object' # object
        <4>1. \A a \in Objects \ {o} : object'[a] = object[a]
          BY <1>1, <3>1, <3>2 DEF MediaTypeOK
        <4>2. o \in Objects => object'[o] = [NoObject EXCEPT !.status = "pending", !.kind = request[c].kind]
          BY <1>1, <3>1, <3>2 DEF MediaTypeOK
        <4> QED
          BY <2>1, <3>1, <3>2, <4>1, <4>2 DEF RowMove, Reserved
      <3> QED
        BY <1>2, <3>2
    <2>2. CASE MarkReady(c)
      <3> DEFINE o == request[c].object
      <3>1. o \in Objects /\ (Completable(o) => o \in stored)
        BY <1>1, <2>2 DEF MarkReady, RequestsFit
      <3>2. object' = object \/ (Completable(o) /\ object' = [object EXCEPT ![o] = [object[o] EXCEPT !.status = "ready"]])
        BY <1>1, <2>2, <3>1 DEF MarkReady, MediaTypeOK
      <3>3. object'[b] = object[b] \/ Inspected(b)
        BY <1>1, <2>2, <3>1, <3>2 DEF MarkReady, MediaTypeOK, Inspected
      <3> QED
        BY <3>3 DEF RowMove
    <2>3. CASE MarkRejected(c)
      <3> DEFINE o == request[c].object
      <3>1. o \in Objects
        BY <1>1, <2>3 DEF MarkRejected, RequestsFit
      <3>2. object' = object \/ (Completable(o) /\ object' = [object EXCEPT ![o] = [object[o] EXCEPT !.status = "rejected"]])
        BY <1>1, <2>3, <3>1 DEF MarkRejected, MediaTypeOK
      <3>3. object'[b] = object[b] \/ Inspected(b)
        BY <1>1, <2>3, <3>1, <3>2 DEF MarkRejected, MediaTypeOK, Inspected
      <3> QED
        BY <3>3 DEF RowMove
    <2>4. ASSUME NEW o \in Objects, MarkDeleted(c, o)
          PROVE  RowMove(b)
      <3>1. object' = [object EXCEPT ![o] = [object[o] EXCEPT !.status = "deleted", !.tomb = TRUE,
                                               !.byOwner = object[o].byOwner \/ ~object[o].tomb]]
        BY <1>1, <2>4 DEF MarkDeleted, MediaTypeOK
      <3>2. object'[b] = object[b] \/ Withdrawn(b)
        BY <1>1, <2>4, <3>1 DEF MarkDeleted, MediaTypeOK, Withdrawn
      <3> QED
        BY <3>2 DEF RowMove
    <2> QED
      BY <1>2, <1>3, <2>1, <2>2, <2>3, <2>4
      DEF Request, Reserve, Complete, Bind, ReserveCommits, Erase, BindCommits, RequestDies
  <1>4. ASSUME NEW s \in Sweepers, Sweep(s)
        PROVE  RowMove(b)
    <2>1. CASE Tombstone(s)
      <3>1. object'[b] = IF b \in Confirmed(s) THEN [object[b] EXCEPT !.tomb = TRUE, !.token = s] ELSE object[b]
        BY <2>1 DEF Tombstone
      <3>2. b \in Confirmed(s) => Reclaimable(b) /\ lock[b] = s
        BY <1>1, <2>1 DEF Tombstone, Confirmed, SweepsFit
      <3> QED
        BY <3>1, <3>2 DEF RowMove, Closed
    <2>2. CASE MarkReclaimed(s)
      <3> DEFINE mine == {o \in sweeper[s].done : object[o].token = s /\ object[o].tomb /\ ~object[o].erased}
      <3>1. object'[b] = IF b \in mine THEN [object[b] EXCEPT !.status = "deleted", !.erased = TRUE] ELSE object[b]
        BY <2>2 DEF MarkReclaimed
      <3>2. b \in mine => object[b].tomb /\ b \notin grants /\ b \notin stored
        BY <1>1, <2>2 DEF MarkReclaimed, SweepsFit
      <3>3. UNCHANGED <<stored, grants>>
        BY <2>2 DEF MarkReclaimed
      <3> QED
        BY <3>1, <3>2, <3>3 DEF RowMove, Erased
    <2> QED
      BY <1>2, <1>4, <2>1, <2>2 DEF Sweep, Select, LockRows, SweeperDies, Deletes, Releases
  <1> QED
    BY <1>2, <1>3, <1>4
    DEF MediaNext, mediaVars, Time, UploadExpires, LeaseEnds, ClearAvatar, Upload

\* Bytes arrive under an open URL, and go only where the row is closed or
\* rejected; a URL is never given for a closed row.
LEMMA StoreMoves ==
  ASSUME MediaInv, [MediaNext]_mediaVars, NEW o \in Objects
  PROVE  /\ o \in stored' /\ o \notin stored => o \in grants
         /\ o \in stored /\ o \notin stored' => object[o].tomb \/ object[o].status = "rejected"
         /\ o \in grants' /\ o \notin grants => ~object[o].tomb
  <1> DEFINE Kept == /\ o \in stored' /\ o \notin stored => o \in grants
                     /\ o \in stored /\ o \notin stored' => object[o].tomb \/ object[o].status = "rejected"
                     /\ o \in grants' /\ o \notin grants => ~object[o].tomb
  <1> USE DEF mediaRows, clocks, mediaLocks
  <1>1. MediaTypeOK /\ RequestsFit /\ SweepsFit /\ BlankUntilReserved
    BY DEF MediaInv
  <1>2. ASSUME NEW c \in Devices, Request(c)
        PROVE  Kept
    <2>1. CASE ReserveCommits(c)
      <3>1. stored' = stored
        BY <2>1 DEF ReserveCommits
      <3>2. o \in grants' /\ o \notin grants => Open(o) \/ ~Exists(o)
        BY <2>1 DEF ReserveCommits
      <3> QED
        BY <1>1, <3>1, <3>2 DEF Open, BlankUntilReserved, NoObject
    <2>2. CASE Erase(c)
      BY <1>1, <2>2 DEF Erase, RequestsFit
    <2> QED
      BY <1>2, <2>1, <2>2
      DEF Request, Reserve, Complete, Bind, MarkDeleted, MarkReady, MarkRejected, BindCommits, RequestDies
  <1>3. ASSUME NEW s \in Sweepers, Sweep(s)
        PROVE  Kept
    <2>1. ASSUME NEW a \in Objects, Deletes(s, a)
          PROVE  Kept
      BY <1>1, <2>1 DEF Deletes, SweepsFit
    <2> QED
      BY <1>3, <2>1 DEF Sweep, Select, LockRows, Tombstone, MarkReclaimed, SweeperDies, Releases
  <1> QED
    BY <1>2, <1>3 DEF MediaNext, mediaVars, Time, UploadExpires, LeaseEnds, ClearAvatar, Upload

\* What is never undone: a row stays, with its kind; a closed row stays closed,
\* and what its owner did stays on record.
LEMMA RowsLast ==
  ASSUME MediaInv, [MediaNext]_mediaVars, NEW o \in Objects
  PROVE  /\ Exists(o) => Exists(o)' /\ object'[o].kind = object[o].kind
         /\ object[o].tomb => object'[o].tomb /\ Exists(o)
         /\ Exists(o) /\ object[o].byOwner => object'[o].byOwner
         /\ object[o].status = "rejected" => object'[o].status = "rejected" \/ object'[o].tomb
         /\ Completable(o)' => Completable(o) \/ ~Exists(o)
  <1>1. object[o] \in Object /\ (~Exists(o) => object[o] = NoObject)
    BY DEF MediaInv, MediaTypeOK, BlankUntilReserved
  <1>2. RowMove(o)
    BY RowMoves
  <1> USE DEF Exists, Completable, Object, NoObject
  <1>3. CASE object'[o] = object[o]
    BY <1>1, <1>3
  <1>3a. CASE Reserved(o)
    <2>1. object[o] = NoObject
      BY <1>1, <1>3a DEF Reserved
    <2>2. PICK k : object'[o] = [NoObject EXCEPT !.status = "pending", !.kind = k]
      BY <1>3a DEF Reserved
    <2> QED
      BY <2>1, <2>2
  <1>4. CASE Inspected(o) \/ Withdrawn(o)
    BY <1>1, <1>4 DEF Inspected, Withdrawn
  <1>5. CASE Closed(o)
    BY <1>1, <1>5 DEF Closed, Reclaimable
  <1>6. CASE Erased(o)
    BY <1>1, <1>6 DEF Erased
  <1> QED
    BY <1>2, <1>3, <1>3a, <1>4, <1>5, <1>6 DEF RowMove

-----------------------------------------------------------------------------
(* The invariant holds *)

\* Only the commit of a reservation adds to what counts, and only its object.
LEMMA CountGrows ==
  ASSUME MediaInv, [MediaNext]_mediaVars, NEW k \in Kinds
  PROVE  \/ Counted(k)' \subseteq Counted(k)
         \/ \E c \in Devices :
              /\ ReserveCommits(c) /\ request[c].kind = k /\ request[c].fits
              /\ Counted(k)' \subseteq Counted(k) \cup {request[c].object}
  <1>1. ASSUME NEW o \in Objects, o \in Counted(k)', o \notin Counted(k)
        PROVE  Reserved(o)
    <2>1. object[o] \in Object /\ RowMove(o)
      BY RowMoves DEF MediaInv, MediaTypeOK
    <2>2. object'[o].kind = k /\ object'[o].status \in {"pending", "ready", "rejected"}
      BY <1>1 DEF Counted
    <2>3. object[o].kind # k \/ object[o].status \notin {"pending", "ready", "rejected"}
      BY <1>1 DEF Counted
    <2> QED
      BY <2>1, <2>2, <2>3 DEF RowMove, Inspected, Withdrawn, Closed, Erased, Reclaimable, Completable, Object, Exists
  <1>2. CASE \A o \in Objects : o \in Counted(k)' => o \in Counted(k)
    BY <1>2 DEF Counted
  <1>3. CASE \E o \in Objects : o \in Counted(k)' /\ o \notin Counted(k)
    <2>1. PICK o \in Objects : o \in Counted(k)' /\ o \notin Counted(k)
      BY <1>3
    <2>2. PICK c \in Devices :
            /\ ReserveCommits(c) /\ request[c].object = o /\ request[c].fits
            /\ object'[o] = [NoObject EXCEPT !.status = "pending", !.kind = request[c].kind]
            /\ \A b \in Objects \ {o} : object'[b] = object[b]
      BY <1>1, <2>1 DEF Reserved
    <2>3. request[c].kind = k
      BY <2>1, <2>2 DEF Counted, NoObject
    <2>4. Counted(k)' \subseteq Counted(k) \cup {o}
      BY <2>2 DEF Counted
    <2> QED
      BY <2>2, <2>3, <2>4
  <1> QED
    BY <1>2, <1>3

LEMMA QuotaStep ==
  ASSUME MediaInv, [MediaNext]_mediaVars
  PROVE  QuotaHolds'
  <1> SUFFICES ASSUME NEW k \in Kinds
               PROVE  Cardinality(Counted(k)') <= MaxObjects
    BY DEF QuotaHolds
  <1> DEFINE before == Counted(k)
             after == Counted(k)'
  <1>1. /\ IsFiniteSet(before) /\ Cardinality(before) \in Nat /\ MaxObjects \in Nat
        /\ Cardinality(before) <= MaxObjects
    BY CountIsNat, MediaAssumption DEF MediaInv, QuotaHolds
  <1>2. \/ after \subseteq before
        \/ \E c \in Devices : /\ request[c].at = "reserve" /\ request[c].kind = k /\ request[c].fits
                              /\ after \subseteq before \cup {request[c].object}
    BY CountGrows DEF ReserveCommits
  <1>3. ASSUME NEW c \in Devices, request[c].at = "reserve", request[c].kind = k, request[c].fits
        PROVE  Cardinality(before) < MaxObjects
    BY <1>3 DEF MediaInv, ReservesAlone
  <1> HIDE DEF before, after
  <1>4. CASE after \subseteq before
    <2>1. Cardinality(after) <= Cardinality(before) /\ Cardinality(after) \in Nat
      BY <1>1, <1>4, FS_Subset, FS_CardinalityType
    <2> QED
      BY <1>1, <2>1 DEF after
  <1>5. ASSUME NEW c \in Devices, request[c].at = "reserve", request[c].kind = k, request[c].fits,
               after \subseteq before \cup {request[c].object}
        PROVE  Cardinality(after) <= MaxObjects
    <2> DEFINE o == request[c].object
               more == before \cup {o}
    <2>1. IsFiniteSet(more) /\ Cardinality(more) <= Cardinality(before) + 1 /\ Cardinality(more) \in Nat
      <3> HIDE DEF o
      <3>1. /\ IsFiniteSet(more)
            /\ Cardinality(more) = IF o \in before THEN Cardinality(before) ELSE Cardinality(before) + 1
        BY <1>1, FS_AddElement
      <3> QED
        BY <1>1, <3>1
    <2>2. after \subseteq more
      BY <1>5
    <2> HIDE DEF more
    <2>3. Cardinality(after) <= Cardinality(more) /\ Cardinality(after) \in Nat
      BY <2>1, <2>2, FS_Subset, FS_CardinalityType
    <2> QED
      BY <1>1, <1>3, <1>5, <2>1, <2>3
  <1> QED
    BY <1>2, <1>4, <1>5 DEF after

LEMMA ReservesStep ==
  ASSUME MediaInv, [MediaNext]_mediaVars
  PROVE  ReservesAlone'
  <1> USE DEF mediaRows, clocks, mediaLocks
  <1>1. MediaTypeOK /\ ReservesAlone
    BY DEF MediaInv
  <1> SUFFICES ASSUME NEW d \in Devices, request'[d].at = "reserve"
               PROVE  /\ request'[d].object \in Objects /\ quotaLock' = d
                      /\ (request[d].fits => Cardinality(Counted(request[d].kind)) < MaxObjects)'
    BY DEF ReservesAlone
  <1>2. ASSUME request'[d] = request[d], quotaLock = d => quotaLock' = d,
               \A c \in Devices : ReserveCommits(c) => c # d
        PROVE  /\ request'[d].object \in Objects /\ quotaLock' = d
               /\ (request[d].fits => Cardinality(Counted(request[d].kind)) < MaxObjects)'
    <2>2. PICK k \in Kinds : k = request[d].kind
      BY <1>1 DEF MediaTypeOK, RequestState
    <2> DEFINE before == Counted(k)
               after == Counted(k)'
    <2>1. /\ request[d].at = "reserve" /\ request[d].object \in Objects /\ quotaLock = d
          /\ request[d].fits => Cardinality(before) < MaxObjects
      BY <1>1, <1>2, <2>2 DEF ReservesAlone
    <2>3. \A c \in Devices : ~ReserveCommits(c)
      BY <1>1, <1>2, <2>1 DEF ReserveCommits, ReservesAlone
    <2>4. after \subseteq before
      BY <2>2, <2>3, CountGrows
    <2>5. IsFiniteSet(before) /\ Cardinality(before) \in Nat /\ MaxObjects \in Nat
      BY CountIsNat, MediaAssumption
    <2>6. Counted(request[d].kind)' = after
      BY <1>2, <2>2 DEF Counted
    <2> HIDE DEF before, after
    <2>7. Cardinality(after) <= Cardinality(before) /\ Cardinality(after) \in Nat
      BY <2>4, <2>5, FS_Subset, FS_CardinalityType
    <2> QED
      BY <1>2, <2>1, <2>5, <2>6, <2>7
  <1>3. ASSUME NEW q \in Devices \cup Sweepers, Acts(q), q # d
        PROVE  /\ request'[d].object \in Objects /\ quotaLock' = d
               /\ (request[d].fits => Cardinality(Counted(request[d].kind)) < MaxObjects)'
    <2>1. request'[d] = request[d] /\ (quotaLock = d => quotaLock' = d)
      BY <1>3, Bystander
    <2>2. ~ReserveCommits(d)
      <3>1. SUFFICES ASSUME ReserveCommits(d)
                     PROVE  FALSE
        OBVIOUS
      <3>2. request'[d] = IdleRequest
        BY <1>1, <3>1 DEF ReserveCommits, Ends, Goes, MediaTypeOK
      <3> QED
        BY <3>2 DEF IdleRequest
    <2> QED
      BY <1>2, <2>1, <2>2
  <1>4. CASE Request(d)
    <2>0a. ASSUME NEW o \in Objects, Complete(d, o) \/ Bind(d, o) \/ MarkDeleted(d, o)
           PROVE  FALSE
      <3>1. PICK at \in {"ready", "reject", "erase", "bind"} :
              Goes(d, [IdleRequest EXCEPT !.at = at, !.object = o])
        BY <2>0a DEF Complete, Bind, MarkDeleted
      <3>2. request'[d] = [IdleRequest EXCEPT !.at = at, !.object = o]
        BY <1>1, <3>1 DEF Goes, MediaTypeOK
      <3> QED
        BY <3>2 DEF IdleRequest
    <2>0b. ASSUME MarkRejected(d)
           PROVE  FALSE
      <3>1. request[d] \in RequestState
        BY <1>1 DEF MediaTypeOK
      <3>2. request'[d] = IdleRequest \/ request'[d] = [request[d] EXCEPT !.at = "erase"]
        BY <1>1, <2>0b DEF MarkRejected, Ends, Goes, MediaTypeOK
      <3> QED
        BY <3>1, <3>2 DEF IdleRequest, RequestState
    <2>0c. ASSUME ReserveCommits(d) \/ MarkReady(d) \/ Erase(d) \/ BindCommits(d) \/ RequestDies(d)
           PROVE  FALSE
      BY <1>1, <2>0c
      DEF ReserveCommits, MarkReady, Erase, BindCommits, RequestDies, Ends, Goes, IdleRequest, MediaTypeOK
    <2>1. PICK o \in Objects, k \in Kinds : Reserve(d, o, k)
      BY <1>4, <2>0a, <2>0b, <2>0c DEF Request
    <2> DEFINE f == Cardinality(Counted(k)) < MaxObjects
    <2>2. /\ request'[d] = [at |-> "reserve", object |-> o, kind |-> k, fits |-> f]
          /\ quotaLock' = d /\ object' = object
      BY <1>1, <2>1 DEF Reserve, Goes, MediaTypeOK
    <2>3. Counted(request[d].kind)' = Counted(k)
      BY <2>2 DEF Counted
    <2> HIDE DEF f
    <2>4. request'[d].object = o /\ request'[d].fits = f
      BY <2>2
    <2> QED
      BY <2>2, <2>3, <2>4 DEF f
  <1>5. CASE UNCHANGED <<request, quotaLock, object>> /\ ~Request(d)
    BY <1>2, <1>5 DEF Request
  <1>6. CASE UNCHANGED mediaVars \/ Time \/ ClearAvatar \/ \E o \in Objects : Upload(o)
    BY <1>4, <1>5, <1>6 DEF mediaVars, Time, UploadExpires, LeaseEnds, ClearAvatar, Upload
  <1>7. CASE \E q \in Devices : Request(q)
    BY <1>3, <1>4, <1>7 DEF Acts
  <1>8. CASE \E q \in Sweepers : Sweep(q)
    <2>1. PICK q \in Sweepers : Sweep(q)
      BY <1>8
    <2>2. q # d /\ Acts(q)
      BY <2>1, MediaAssumption DEF Acts
    <2> QED
      BY <1>3, <2>2
  <1> QED
    BY <1>6, <1>7, <1>8 DEF MediaNext

\* A file is bound only under its lock, and only while it is ready.
LEMMA BoundMoves ==
  ASSUME MediaInv, [MediaNext]_mediaVars, NEW o \in Objects, Bound(o)'
  PROVE  Bound(o) \/ (Sound(o) /\ object' = object)
  <1> USE DEF mediaRows, clocks, mediaLocks
  <1>1. o # Nobody /\ RequestsFit
    BY MediaAssumption DEF MediaInv
  <1>2. ASSUME NEW c \in Devices, Request(c)
        PROVE  Bound(o) \/ (Sound(o) /\ object' = object)
    <2>1. CASE BindCommits(c)
      <3>1. Sound(request[c].object)
        BY <1>1, <2>1 DEF BindCommits, RequestsFit
      <3>2. Bound(o) \/ o = request[c].object
        BY <2>1 DEF BindCommits, Bound
      <3>3. object' = object
        BY <2>1 DEF BindCommits
      <3> QED
        BY <3>1, <3>2, <3>3
    <2>2. ASSUME NEW a \in Objects, MarkDeleted(c, a)
          PROVE  Bound(o)
      BY <1>1, <2>2 DEF MarkDeleted, Bound
    <2>3. CASE avatar' = avatar /\ linked' = linked
      BY <2>3 DEF Bound
    <2> QED
      BY <1>2, <2>1, <2>2, <2>3
      DEF Request, Reserve, Complete, Bind, ReserveCommits, MarkReady, MarkRejected, Erase, RequestDies
  <1>3. CASE avatar' = avatar /\ linked' = linked
    BY <1>3 DEF Bound
  <1>4. CASE ClearAvatar
    BY <1>1, <1>4 DEF ClearAvatar, Bound
  <1>5. ASSUME NEW s \in Sweepers, Sweep(s)
        PROVE  avatar' = avatar /\ linked' = linked
    BY <1>5 DEF Sweep, Select, LockRows, Tombstone, MarkReclaimed, SweeperDies, Deletes, Releases
  <1> QED
    BY <1>2, <1>3, <1>4, <1>5 DEF MediaNext, mediaVars, Time, UploadExpires, LeaseEnds, Upload

LEMMA BlankStep ==
  ASSUME MediaInv, [MediaNext]_mediaVars
  PROVE  BlankUntilReserved'
  <1> SUFFICES ASSUME NEW o \in Objects, ~Exists(o)'
               PROVE  object'[o] = NoObject /\ avatar' # o /\ o \notin linked'
    BY DEF BlankUntilReserved
  <1>1. ~Exists(o) /\ object[o] = NoObject /\ ~Bound(o) /\ RowMove(o)
    BY RowsLast, RowMoves DEF MediaInv, BlankUntilReserved, Bound
  <1>2. ~Bound(o)'
    BY <1>1, BoundMoves DEF Sound, Exists
  <1>3. ~Reserved(o)
    <2>1. SUFFICES ASSUME Reserved(o)
                   PROVE  FALSE
      OBVIOUS
    <2>2. PICK k : object'[o] = [NoObject EXCEPT !.status = "pending", !.kind = k]
      BY <2>1 DEF Reserved
    <2>3. object'[o].status = "pending"
      BY <2>2 DEF NoObject
    <2> QED
      BY <2>3 DEF Exists
  <1>3a. object[o].status = "none" /\ ~object[o].tomb
    BY <1>1 DEF NoObject
  <1>4. object'[o] = object[o]
    BY <1>1, <1>3, <1>3a DEF RowMove, Inspected, Withdrawn, Closed, Erased, Completable, Reclaimable, Exists
  <1> QED
    BY <1>1, <1>2, <1>4 DEF Bound

LEMMA FilesStep ==
  ASSUME MediaInv, [MediaNext]_mediaVars
  PROVE  FilesFit'
  <1> SUFFICES ASSUME NEW o \in Objects
               PROVE  /\ Sound(o)' => o \in stored'
                      /\ Bound(o)' /\ ~object'[o].byOwner => Sound(o)'
                      /\ object'[o].erased => object'[o].tomb /\ o \notin grants' /\ o \notin stored'
    BY DEF FilesFit
  <1>1. /\ object[o] \in Object /\ RowMove(o)
        /\ Sound(o) => o \in stored
        /\ Bound(o) /\ ~object[o].byOwner => Sound(o)
        /\ object[o].erased => object[o].tomb /\ o \notin grants /\ o \notin stored
        /\ ~Exists(o) => object[o] = NoObject /\ ~Bound(o)
    BY RowMoves DEF MediaInv, MediaTypeOK, FilesFit, BlankUntilReserved, Bound
  <1>2. Sound(o)' => o \in stored'
    <2>1. Sound(o)' => Sound(o) \/ (Completable(o) /\ o \in stored)
      BY <1>1 DEF RowMove, Reserved, Inspected, Withdrawn, Closed, Erased, Sound, Object, NoObject
    <2> QED
      BY <1>1, <2>1, StoreMoves DEF Sound, Completable
  <1>3. ASSUME Bound(o)', ~object'[o].byOwner
        PROVE  Sound(o)'
    <2>1. CASE Sound(o) /\ object' = object
      BY <2>1 DEF Sound
    <2>2. CASE Bound(o)
      <3>1. Exists(o) /\ ~object[o].byOwner
        BY <1>1, <1>3, <2>2, RowsLast
      <3>2. Sound(o)
        BY <1>1, <2>2, <3>1
      <3>3. ~Withdrawn(o)
        BY <1>1, <1>3, <3>2 DEF Withdrawn, Sound, Object
      <3>4. ~Closed(o)
        BY <2>2, <3>2 DEF Closed, Reclaimable, Sound, Bound
      <3> QED
        BY <1>1, <3>1, <3>2, <3>3, <3>4 DEF RowMove, Reserved, Inspected, Erased, Sound, Completable
    <2> QED
      BY <1>3, <2>1, <2>2, BoundMoves
  <1>4. ASSUME object'[o].erased
        PROVE  object'[o].tomb /\ o \notin grants' /\ o \notin stored'
    <2>1. CASE Erased(o)
      BY <1>1, <2>1 DEF Erased, Object
    <2>2. CASE object[o].erased
      BY <1>1, <2>2, RowsLast, StoreMoves
    <2>3. object[o].erased \/ Erased(o)
      BY <1>1, <1>4 DEF RowMove, Reserved, Inspected, Withdrawn, Closed, Object, NoObject
    <2> QED
      BY <2>1, <2>2, <2>3
  <1> QED
    BY <1>2, <1>3, <1>4

LEMMA RequestsStep ==
  ASSUME MediaInv, [MediaNext]_mediaVars
  PROVE  RequestsFit'
  <1> DEFINE Fits(d) ==
        LET o == request[d].object
        IN /\ request[d].at # "idle" => o \in Objects
           /\ request[d].at \in {"ready", "reject"} => Exists(o) /\ (Completable(o) => o \in stored)
           /\ request[d].at = "erase" => object[o].tomb \/ object[o].status = "rejected"
           /\ request[d].at = "bind" => lock[o] = d /\ Sound(o)
  <1> SUFFICES ASSUME NEW d \in Devices
               PROVE  Fits(d)'
    BY DEF RequestsFit
  <1> USE DEF mediaRows, clocks, mediaLocks
  <1>1. MediaTypeOK /\ Fits(d) /\ d # Nobody /\ d \notin Sweepers
    BY MediaAssumption DEF MediaInv, RequestsFit
  <1>2. ASSUME request'[d] = request[d], \A o \in Objects : lock[o] = d => lock'[o] = d
        PROVE  Fits(d)'
    <2>1. CASE request[d].at = "idle"
      BY <1>2, <2>1
    <2>2. CASE request[d].at # "idle"
      <3>1. PICK o \in Objects : o = request[d].object
        BY <1>1, <2>2
      <3>2. request[d].at \in {"ready", "reject"} => Exists(o)' /\ (Completable(o)' => o \in stored')
        BY <1>1, <3>1, RowsLast, StoreMoves DEF Completable
      <3>3. request[d].at = "erase" => object'[o].tomb \/ object'[o].status = "rejected"
        BY <1>1, <3>1, RowsLast
      <3>4. ASSUME request[d].at = "bind"
            PROVE  object'[o] = object[o]
        <4>1. lock[o] = d /\ Sound(o)
          BY <1>1, <3>1, <3>4
        <4>2. lock[o] # Nobody /\ lock[o] \notin Sweepers
          BY <1>1, <4>1
        <4>3. object[o].status = "ready" /\ ~object[o].tomb
          BY <4>1 DEF Sound
        <4>4. ~Reserved(o) /\ ~Erased(o)
          BY <4>3 DEF Reserved, Erased, Exists
        <4>5. ~Inspected(o) /\ ~Withdrawn(o)
          BY <4>2 DEF Inspected, Withdrawn, RowFree
        <4>6. ~Closed(o)
          BY <4>2 DEF Closed
        <4> QED
          BY <4>4, <4>5, <4>6, RowMoves DEF RowMove
      <3>5. request[d].at = "bind" => lock'[o] = d /\ Sound(o)'
        BY <1>1, <1>2, <3>1, <3>4 DEF Sound
      <3> QED
        BY <1>2, <3>1, <3>2, <3>3, <3>5
    <2> QED
      BY <2>1, <2>2
  <1>3. CASE Request(d)
    <2>1. ASSUME NEW o \in Objects, NEW k \in Kinds, Reserve(d, o, k)
          PROVE  Fits(d)'
      <3>1. request'[d].at = "reserve" /\ request'[d].object = o
        BY <1>1, <2>1 DEF Reserve, Goes, MediaTypeOK
      <3> QED
        BY <3>1
    <2>2. ASSUME NEW o \in Objects, Complete(d, o)
          PROVE  Fits(d)'
      <3>1. request'[d].at \in {"ready", "reject"} /\ request'[d].object = o
        BY <1>1, <2>2 DEF Complete, Goes, IdleRequest, MediaTypeOK
      <3>2. Exists(o)' /\ o \in stored'
        BY <2>2 DEF Complete, Completable, Exists
      <3> QED
        BY <3>1, <3>2
    <2>3. ASSUME NEW o \in Objects, Bind(d, o)
          PROVE  Fits(d)'
      <3>1. request'[d].at = "bind" /\ request'[d].object = o
        BY <1>1, <2>3 DEF Bind, Goes, IdleRequest, MediaTypeOK
      <3>2. lock'[o] = d /\ Sound(o)'
        BY <1>1, <2>3 DEF Bind, Sound, MediaTypeOK
      <3> QED
        BY <3>1, <3>2
    <2>4. ASSUME NEW o \in Objects, MarkDeleted(d, o)
          PROVE  Fits(d)'
      <3>1. request'[d].at = "erase" /\ request'[d].object = o
        BY <1>1, <2>4 DEF MarkDeleted, Goes, IdleRequest, MediaTypeOK
      <3>2. object' = [object EXCEPT ![o] = [object[o] EXCEPT !.status = "deleted", !.tomb = TRUE,
                                               !.byOwner = object[o].byOwner \/ ~object[o].tomb]]
        BY <1>1, <2>4 DEF MarkDeleted, MediaTypeOK
      <3>3. object[o] \in Object /\ object'[o] = [object[o] EXCEPT !.status = "deleted", !.tomb = TRUE,
                                               !.byOwner = object[o].byOwner \/ ~object[o].tomb]
        BY <1>1, <3>2 DEF MediaTypeOK
      <3>4. object'[o].tomb
        BY <3>3 DEF Object
      <3> QED
        BY <3>1, <3>4
    <2>5. CASE MarkRejected(d)
      <3>1. PICK o \in Objects : o = request[d].object
        BY <1>1, <2>5 DEF MarkRejected
      <3>2. CASE Completable(o)
        <4>1. request'[d] = [request[d] EXCEPT !.at = "erase"] /\ object' = [object EXCEPT ![o].status = "rejected"]
          BY <1>1, <2>5, <3>1, <3>2 DEF MarkRejected, Goes, MediaTypeOK
        <4>2. request'[d].at = "erase" /\ request'[d].object = o
          BY <1>1, <3>1, <4>1 DEF MediaTypeOK, RequestState
        <4>3. object'[o].status = "rejected"
          BY <1>1, <4>1 DEF MediaTypeOK, Object
        <4> QED
          BY <4>2, <4>3
      <3>3. CASE ~Completable(o)
        <4>1. request'[d].at = "idle"
          BY <1>1, <2>5, <3>1, <3>3 DEF MarkRejected, Ends, Goes, IdleRequest, MediaTypeOK
        <4> QED
          BY <4>1
      <3> QED
        BY <3>2, <3>3
    <2>6. CASE ReserveCommits(d) \/ MarkReady(d) \/ Erase(d) \/ BindCommits(d) \/ RequestDies(d)
      <3>1. request'[d].at = "idle"
        BY <1>1, <2>6
        DEF ReserveCommits, MarkReady, Erase, BindCommits, RequestDies, Ends, Goes, IdleRequest, MediaTypeOK
      <3> QED
        BY <3>1
    <2> HIDE DEF Fits
    <2> QED
      BY <1>3, <2>1, <2>2, <2>3, <2>4, <2>5, <2>6 DEF Request
  <1> HIDE DEF Fits
  <1>4. CASE UNCHANGED mediaVars \/ Time \/ ClearAvatar \/ \E o \in Objects : Upload(o)
    BY <1>2, <1>4 DEF mediaVars, Time, UploadExpires, LeaseEnds, ClearAvatar, Upload
  <1>5. ASSUME NEW q \in Devices \cup Sweepers, Acts(q), q # d
        PROVE  Fits(d)'
    BY <1>2, <1>5, Bystander
  <1>6. ASSUME NEW q \in Devices, Request(q)
        PROVE  Fits(d)'
    BY <1>3, <1>5, <1>6 DEF Acts
  <1>7. ASSUME NEW q \in Sweepers, Sweep(q)
        PROVE  Fits(d)'
    BY <1>1, <1>5, <1>7 DEF Acts
  <1> QED
    BY <1>4, <1>6, <1>7 DEF MediaNext

LEMMA SweepsStep ==
  ASSUME MediaInv, [MediaNext]_mediaVars
  PROVE  SweepsFit'
  <1> DEFINE Fits(s) ==
        /\ sweeper[s].at = "tombstone" => \A o \in sweeper[s].batch : lock[o] = s
        /\ sweeper[s].at = "erase" =>
             /\ \A o \in sweeper[s].batch \cup sweeper[s].done : object[o].tomb /\ o \notin grants
             /\ sweeper[s].done \cap stored = {}
  <1> SUFFICES ASSUME NEW s \in Sweepers
               PROVE  Fits(s)'
    BY DEF SweepsFit
  <1> USE DEF mediaRows, clocks, mediaLocks
  <1>1. /\ MediaTypeOK /\ Fits(s) /\ s # Nobody /\ s \notin Devices
        /\ sweeper[s] \in Sweeper /\ sweeper[s].batch \subseteq Objects /\ sweeper[s].done \subseteq Objects
    BY MediaAssumption DEF MediaInv, SweepsFit, MediaTypeOK, Sweeper
  <1>2. ASSUME sweeper'[s] = sweeper[s], \A o \in Objects : lock[o] = s => lock'[o] = s
        PROVE  Fits(s)'
    <2>1. ASSUME NEW o \in Objects, object[o].tomb, o \notin grants
          PROVE  object'[o].tomb /\ o \notin grants' /\ (o \in stored' => o \in stored)
      BY <2>1, RowsLast, StoreMoves
    <2>2. sweeper[s].at = "tombstone" => \A o \in sweeper[s].batch : lock'[o] = s
      BY <1>1, <1>2
    <2>3. sweeper[s].at = "erase" =>
            /\ \A o \in sweeper[s].batch \cup sweeper[s].done : object'[o].tomb /\ o \notin grants'
            /\ sweeper[s].done \cap stored' = {}
      BY <1>1, <2>1
    <2> QED
      BY <1>2, <2>2, <2>3
  <1>3. CASE Sweep(s)
    <2>1. CASE Select(s)
      <3>1. sweeper'[s].at = "select"
        BY <1>1, <2>1 DEF Select, Turns, IdleSweeper, MediaTypeOK
      <3> QED
        BY <3>1
    <2>2. CASE LockRows(s)
      <3> DEFINE free == {o \in sweeper[s].batch : RowFree(o) /\ Exists(o)}
      <3>1. \/ sweeper'[s] = IdleSweeper
            \/ /\ sweeper'[s] = [sweeper[s] EXCEPT !.at = "tombstone", !.batch = free]
               /\ lock' = [o \in Objects |-> IF o \in free THEN s ELSE lock[o]]
        BY <1>1, <2>2 DEF LockRows, Turns, MediaTypeOK
      <3>2. free \subseteq Objects
        BY <1>1
      <3> HIDE DEF free
      <3>3. \/ sweeper'[s].at = "idle"
            \/ /\ sweeper'[s].at = "tombstone" /\ sweeper'[s].batch = free
               /\ \A o \in free : lock'[o] = s
        <4>1. IdleSweeper.at = "idle"
          BY DEF IdleSweeper
        <4>2. LET r == [sweeper[s] EXCEPT !.at = "tombstone", !.batch = free]
              IN r.at = "tombstone" /\ r.batch = free
          BY <1>1 DEF Sweeper
        <4> QED
          BY <3>1, <3>2, <4>1, <4>2
      <3> QED
        BY <3>3
    <2>3. CASE Tombstone(s)
      <3> DEFINE hits == Confirmed(s)
      <3>1. \/ sweeper'[s] = IdleSweeper
            \/ sweeper'[s] = [IdleSweeper EXCEPT !.at = "erase", !.batch = hits]
        BY <1>1, <2>3 DEF Tombstone, Turns, MediaTypeOK
      <3>2. hits \subseteq Objects /\ hits \cap grants = {} /\ grants' = grants
        BY <1>1, <2>3 DEF Tombstone, Confirmed, Reclaimable
      <3>3. ASSUME NEW o \in hits
            PROVE  object'[o].tomb
        <4>1. o \in Objects /\ object[o] \in Object
          BY <1>1, <3>2 DEF MediaTypeOK
        <4>2. object'[o] = [object[o] EXCEPT !.tomb = TRUE, !.token = s]
          BY <2>3, <4>1 DEF Tombstone
        <4> QED
          BY <4>1, <4>2 DEF Object
      <3> HIDE DEF hits
      <3>4. \/ sweeper'[s].at = "idle"
            \/ sweeper'[s].at = "erase" /\ sweeper'[s].batch = hits /\ sweeper'[s].done = {}
        <4>1. IdleSweeper.at = "idle"
          BY DEF IdleSweeper
        <4>2. LET r == [IdleSweeper EXCEPT !.at = "erase", !.batch = hits]
              IN r.at = "erase" /\ r.batch = hits /\ r.done = {}
          BY DEF IdleSweeper
        <4> QED
          BY <3>1, <4>1, <4>2
      <3> QED
        BY <3>2, <3>3, <3>4
    <2>4. CASE MarkReclaimed(s) \/ SweeperDies(s)
      <3>1. Turns(s, IdleSweeper)
        BY <2>4 DEF MarkReclaimed, SweeperDies
      <3>2. sweeper'[s] = IdleSweeper
        BY <1>1, <3>1 DEF Turns, MediaTypeOK
      <3>3. sweeper'[s].at = "idle"
        BY <3>2 DEF IdleSweeper
      <3> QED
        BY <3>3
    <2>5. ASSUME NEW o \in Objects, Deletes(s, o)
          PROVE  Fits(s)'
      <3> DEFINE b == sweeper[s].batch \ {o}
                 d == sweeper[s].done \cup {o}
      <3>1. sweeper'[s] = [sweeper[s] EXCEPT !.batch = b, !.done = d]
        BY <1>1, <2>5 DEF Deletes, Turns, MediaTypeOK, Sweeper
      <3>2. sweeper[s].at = "erase" /\ o \in sweeper[s].batch /\ stored' = stored \ {o}
            /\ object' = object /\ grants' = grants
        BY <2>5 DEF Deletes
      <3>3. sweeper'[s].at = "erase" /\ sweeper'[s].batch = b /\ sweeper'[s].done = d
        BY <1>1, <3>1, <3>2 DEF Sweeper
      <3> QED
        BY <1>1, <3>2, <3>3
    <2>6. ASSUME NEW o \in Objects, Releases(s, o)
          PROVE  Fits(s)'
      <3> DEFINE b == sweeper[s].batch \ {o}
      <3>1. sweeper'[s] = [sweeper[s] EXCEPT !.batch = b]
        BY <1>1, <2>6 DEF Releases, Turns, MediaTypeOK, Sweeper
      <3>2. sweeper[s].at = "erase" /\ UNCHANGED <<object, grants, stored>>
        BY <2>6 DEF Releases
      <3>3. sweeper'[s].at = "erase" /\ sweeper'[s].batch = b /\ sweeper'[s].done = sweeper[s].done
        BY <1>1, <3>1, <3>2 DEF Sweeper
      <3> QED
        BY <1>1, <3>2, <3>3
    <2> HIDE DEF Fits
    <2> QED
      BY <1>3, <2>1, <2>2, <2>3, <2>4, <2>5, <2>6 DEF Sweep
  <1> HIDE DEF Fits
  <1>4. CASE UNCHANGED mediaVars \/ Time \/ ClearAvatar \/ \E o \in Objects : Upload(o)
    BY <1>2, <1>4 DEF mediaVars, Time, UploadExpires, LeaseEnds, ClearAvatar, Upload
  <1>5. ASSUME NEW q \in Devices \cup Sweepers, Acts(q), q # s
        PROVE  Fits(s)'
    BY <1>2, <1>5, Bystander
  <1>6. ASSUME NEW q \in Devices, Request(q)
        PROVE  Fits(s)'
    BY <1>1, <1>5, <1>6 DEF Acts
  <1>7. ASSUME NEW q \in Sweepers, Sweep(q)
        PROVE  Fits(s)'
    BY <1>3, <1>5, <1>7 DEF Acts
  <1> QED
    BY <1>4, <1>6, <1>7 DEF MediaNext

LEMMA MediaInvInit == MediaInit => MediaInv
  <1> SUFFICES ASSUME MediaInit
               PROVE  MediaInv
    OBVIOUS
  <1>1. MediaTypeOK
    BY RequestRecords, SweepRecords, ObjectRecords DEF MediaInit, MediaTypeOK
  <1>2. \A o \in Objects : object[o] = NoObject
    BY DEF MediaInit
  <1>3. QuotaHolds
    <2>1. SUFFICES ASSUME NEW k \in Kinds
                   PROVE  Cardinality(Counted(k)) <= MaxObjects
      BY DEF QuotaHolds
    <2>2. Counted(k) = {}
      BY <1>2 DEF Counted, NoObject
    <2>3. Cardinality(Counted(k)) = 0
      BY <2>2, FS_EmptySet
    <2> QED
      BY <2>3, MediaAssumption
  <1>4. ReservesAlone /\ RequestsFit
    BY DEF MediaInit, IdleRequest, ReservesAlone, RequestsFit
  <1>5. BlankUntilReserved
    BY <1>2, MediaAssumption DEF MediaInit, BlankUntilReserved
  <1>6. FilesFit
    <2>1. \A o \in Objects : ~Bound(o)
      BY MediaAssumption DEF MediaInit, Bound
    <2> QED
      BY <1>2, <2>1 DEF FilesFit, Sound, NoObject
  <1>7. SweepsFit
    BY DEF MediaInit, IdleSweeper, SweepsFit
  <1> QED
    BY <1>1, <1>3, <1>4, <1>5, <1>6, <1>7 DEF MediaInv

\* The invariant of the files holds, for any number of files, requests and
\* sweeps and any quota.
THEOREM MediaInvHolds == MediaSpec => []MediaInv
  <1>1. MediaInit => MediaInv
    BY MediaInvInit
  <1>2. MediaInv /\ [MediaNext]_mediaVars => MediaInv'
    BY MediaTypes, QuotaStep, ReservesStep, BlankStep, FilesStep, RequestsStep, SweepsStep DEF MediaInv
  <1> QED
    BY <1>1, <1>2, PTL DEF MediaSpec

\* The player never holds more files of one kind than the quota allows,
\* however many reservations, retries and sweeps run at once.
THEOREM QuotaIsKept == MediaSpec => []QuotaHolds
  <1>1. MediaInv => QuotaHolds
    BY DEF MediaInv
  <1> QED
    BY <1>1, MediaInvHolds, PTL

\* What an avatar or a submission refers to is in the bucket and is not being
\* reclaimed, unless its owner has deleted it.
THEOREM BoundIsStored == MediaSpec => []BoundStaysStored
  <1>1. MediaInv => BoundStaysStored
    BY DEF MediaInv, FilesFit, Bound, Sound, BoundStaysStored
  <1> QED
    BY <1>1, MediaInvHolds, PTL

\* What the database says is erased is not in the bucket, and no upload that
\* is still under way brings it back.
THEOREM ErasedIsGone == MediaSpec => []ErasedStaysErased
  <1>1. MediaInv => ErasedStaysErased
    BY DEF MediaInv, FilesFit, ErasedStaysErased
  <1> QED
    BY <1>1, MediaInvHolds, PTL

-----------------------------------------------------------------------------
(* The invariant of the sessions *)

\* What a request is about exists, as long as the request lasts.
Existing == {s \in Sessions : session[s].status # "none"}
RowsExist ==
  \A c \in Clients :
    /\ txn[c].op \in {"refresh", "logout"} /\ txn[c].at # "idle" =>
         txn[c].row \in Sessions /\ session[txn[c].row].status # "none"
    /\ txn[c].op \in {"login", "handoff", "change"} => txn[c].family = 0
    /\ txn[c].hits \subseteq Existing

\* A family is named for a session that exists.
FamiliesFit ==
  \A s \in Sessions : session[s].status # "none" =>
    session[s].family \in Sessions /\ session[session[s].family].status # "none"

Refreshing(c) == txn[c].op = "refresh" /\ txn[c].at \in {"read", "insert"}

\* From the check of its session to its COMMIT a refresh has the account
\* locked, and no session of the family is live but the one it rotates.
RefreshFits ==
  \A c \in Clients : Refreshing(c) =>
    /\ userLock = c
    /\ txn[c].family = session[txn[c].row].family /\ txn[c].version = session[txn[c].row].version
    /\ \A s \in Sessions : session[s].status = "live" /\ session[s].family = txn[c].family => s = txn[c].row
    /\ txn[c].at = "insert" => user.active /\ user.version = txn[c].version

Raising(c) == Raises(txn[c].op) /\ txn[c].at \in {"sweep", "apply"}

\* Who ends all sessions has the account locked from the moment it has read
\* the version it will raise.
RaisesFit == \A c \in Clients : Raising(c) => userLock = c /\ txn[c].version = user.version + 1

\* There are versions left for every request that has yet to raise one.
Raisers == {c \in Clients : Raises(txn[c].op) /\ txn[c].at \notin {"idle", "insert"}}
VersionsFit == user.version + Cardinality(Raisers) <= MaxVersion

Marking(c) == txn[c].op = "callback" /\ txn[c].at = "mark"
Exchanging(c) == txn[c].op = "handoff" /\ txn[c].at \in {"read", "touch", "insert"}

\* One recovery token is live; one callback marks the sign-in by phone, and
\* one request exchanges its code.
CodesFit ==
  /\ \A t, o \in Tokens : token[t] = "live" /\ token[o] = "live" => t = o
  /\ \A c \in Clients : (Marking(c) => phone = "failed") /\ (Exchanging(c) => phone = "consumed")
  /\ \A c, d \in Clients : (Marking(c) /\ Marking(d)) \/ (Exchanging(c) /\ Exchanging(d)) => c = d

SessionsInv ==
  /\ TypeOK /\ RowsExist /\ FamiliesFit /\ OneLivePerFamily /\ RefreshFits
  /\ RaisesFit /\ VersionsFit /\ CodesFit

-----------------------------------------------------------------------------
(* Types of the sessions *)

Ats == {"idle", "read", "touch", "insert", "session", "account", "family",
        "revoke", "token", "sweep", "apply", "consume", "mark", "exchange"}

\* The records that requests leave behind are of their type.
LEMMA TxnTyped ==
  ASSUME NEW t \in Txn
  PROVE  /\ \A b \in BOOLEAN : [t EXCEPT !.connected = b] \in Txn
         /\ \A at \in Ats : [t EXCEPT !.at = at] \in Txn
         /\ \A v \in Versions, at \in Ats : /\ [t EXCEPT !.version = v, !.at = at] \in Txn
                                            /\ [t EXCEPT !.at = at, !.version = v] \in Txn
         /\ \A at \in Ats, f \in 0..MaxSessions, v \in Versions :
              [t EXCEPT !.at = at, !.family = f, !.version = v] \in Txn
         /\ \A at \in Ats, h \in SUBSET Sessions : [t EXCEPT !.at = at, !.hits = h] \in Txn
         /\ \A op \in Ops, row \in Sessions \cup Tokens \cup {0}, at \in Ats :
              /\ [t EXCEPT !.op = op, !.row = row, !.at = at] \in Txn
              /\ [t EXCEPT !.op = op, !.at = at, !.row = row] \in Txn
         /\ \A op \in Ops, at \in Ats, v \in Versions : [t EXCEPT !.op = op, !.at = at, !.version = v] \in Txn
  <1> USE DEF Txn, Ats
  <1>1. ASSUME NEW b \in BOOLEAN
        PROVE  [t EXCEPT !.connected = b] \in Txn
    OBVIOUS
  <1>2. ASSUME NEW at \in Ats
        PROVE  [t EXCEPT !.at = at] \in Txn
    OBVIOUS
  <1>3. ASSUME NEW v \in Versions, NEW at \in Ats
        PROVE  [t EXCEPT !.version = v, !.at = at] \in Txn /\ [t EXCEPT !.at = at, !.version = v] \in Txn
    OBVIOUS
  <1>4. ASSUME NEW at \in Ats, NEW f \in 0..MaxSessions, NEW v \in Versions
        PROVE  [t EXCEPT !.at = at, !.family = f, !.version = v] \in Txn
    OBVIOUS
  <1>5. ASSUME NEW at \in Ats, NEW h \in SUBSET Sessions
        PROVE  [t EXCEPT !.at = at, !.hits = h] \in Txn
    OBVIOUS
  <1>6. ASSUME NEW op \in Ops, NEW row \in Sessions \cup Tokens \cup {0}, NEW at \in Ats
        PROVE  [t EXCEPT !.op = op, !.row = row, !.at = at] \in Txn /\ [t EXCEPT !.op = op, !.at = at, !.row = row] \in Txn
    OBVIOUS
  <1>7. ASSUME NEW op \in Ops, NEW at \in Ats, NEW v \in Versions
        PROVE  [t EXCEPT !.op = op, !.at = at, !.version = v] \in Txn
    OBVIOUS
  <1> HIDE DEF Txn, Ats
  <1> QED
    BY <1>1, <1>2, <1>3, <1>4, <1>5, <1>6, <1>7

LEMMA IdleTyped == Idle \in Txn
  <1>1. 0 \in 0..MaxSessions /\ 0 \in Versions
    BY SessionsAssumption DEF Versions
  <1>2. {} \in SUBSET Sessions /\ FALSE \in BOOLEAN /\ 0 \in Sessions \cup Tokens \cup {0} /\ "login" \in Ops
    BY DEF Ops
  <1> QED
    BY <1>1, <1>2 DEF Idle, Txn

\* What a step of a request leaves of it; a connection given back is not told
\* apart here.
Left(c, op, at, row, family, version) ==
  /\ txn' \in [Clients -> Txn]
  /\ txn'[c].op = op /\ txn'[c].at = at /\ txn'[c].row = row
  /\ txn'[c].family = family /\ txn'[c].version = version
  /\ txn'[c].hits \subseteq txn[c].hits \cup Existing
  /\ \A d \in Clients \ {c} : txn'[d] = txn[d]

LEMMA Leaves ==
  ASSUME txn \in [Clients -> Txn], NEW c \in Clients, NEW t \in Txn, Proceed(c, t) \/ Query(c, t),
         t.hits \subseteq txn[c].hits \cup Existing
  PROVE  Left(c, t.op, t.at, t.row, t.family, t.version)
  <1>1. CASE Proceed(c, t)
    BY <1>1 DEF Proceed, Left
  <1>2. CASE Query(c, t)
    <2> DEFINE u == [t EXCEPT !.connected = FALSE]
    <2>1. /\ u \in Txn /\ u.op = t.op /\ u.at = t.at /\ u.row = t.row
          /\ u.family = t.family /\ u.version = t.version /\ u.hits = t.hits
      BY DEF Txn
    <2>2. txn' = [txn EXCEPT ![c] = u]
      BY <1>2 DEF Query, Proceed
    <2> HIDE DEF u
    <2> QED
      BY <2>1, <2>2 DEF Left
  <1> QED
    BY <1>1, <1>2

\* A request that goes on as it is, but for its place and its version.
LEMMA Continues ==
  ASSUME txn \in [Clients -> Txn], NEW c \in Clients, NEW at \in Ats, NEW v \in Versions,
         NEW t \in {[txn[c] EXCEPT !.version = v, !.at = at], [txn[c] EXCEPT !.at = at, !.version = v]},
         Proceed(c, t) \/ Query(c, t)
  PROVE  Left(c, txn[c].op, at, txn[c].row, txn[c].family, v)
  <1>1. txn[c] \in Txn
    OBVIOUS
  <1>1a. PICK u \in Txn : u = txn[c]
    BY <1>1
  <1>1b. [u EXCEPT !.version = v, !.at = at] \in Txn /\ [u EXCEPT !.at = at, !.version = v] \in Txn
    BY TxnTyped
  <1>2. t \in Txn
    BY <1>1a, <1>1b
  <1>3. t.op = txn[c].op /\ t.at = at /\ t.row = txn[c].row /\ t.family = txn[c].family /\ t.version = v
        /\ t.hits = txn[c].hits
    BY <1>1 DEF Txn
  <1> QED
    BY <1>2, <1>3, Leaves

LEMMA GoesOn ==
  ASSUME txn \in [Clients -> Txn], NEW c \in Clients, NEW at \in Ats,
         \/ LET t == [txn[c] EXCEPT !.at = at] IN Proceed(c, t) \/ Query(c, t)
         \/ \E h \in SUBSET Existing : Proceed(c, [txn[c] EXCEPT !.at = at, !.hits = h])
  PROVE  Left(c, txn[c].op, at, txn[c].row, txn[c].family, txn[c].version)
  <1>1. txn[c] \in Txn
    OBVIOUS
  <1>2. CASE LET t == [txn[c] EXCEPT !.at = at] IN Proceed(c, t) \/ Query(c, t)
    <2> DEFINE t == [txn[c] EXCEPT !.at = at]
    <2>1. t \in Txn
      BY <1>1, TxnTyped
    <2>2. /\ t.op = txn[c].op /\ t.at = at /\ t.row = txn[c].row /\ t.family = txn[c].family
          /\ t.version = txn[c].version /\ t.hits = txn[c].hits
      BY <1>1 DEF Txn
    <2>3. Proceed(c, t) \/ Query(c, t)
      BY <1>2
    <2> HIDE DEF t
    <2> QED
      BY <2>1, <2>2, <2>3, Leaves
  <1>3. ASSUME NEW h \in SUBSET Existing, Proceed(c, [txn[c] EXCEPT !.at = at, !.hits = h])
        PROVE  Left(c, txn[c].op, at, txn[c].row, txn[c].family, txn[c].version)
    <2> DEFINE t == [txn[c] EXCEPT !.at = at, !.hits = h]
    <2>1. t \in Txn
      BY <1>1, TxnTyped DEF Existing
    <2>2. /\ t.op = txn[c].op /\ t.at = at /\ t.row = txn[c].row /\ t.family = txn[c].family
          /\ t.version = txn[c].version /\ t.hits \in {txn[c].hits, h}
      BY <1>1 DEF Txn
    <2>3. Proceed(c, t)
      BY <1>3
    <2> HIDE DEF t
    <2> QED
      BY <2>1, <2>2, <2>3, Leaves
  <1> QED
    BY <1>2, <1>3

\* A request that is over.
Stops(c) == Left(c, "login", "idle", 0, 0, 0)

LEMMA StopsIdle ==
  ASSUME txn \in [Clients -> Txn], NEW c \in Clients, Query(c, Idle)
  PROVE  Stops(c)
  BY IdleTyped, Leaves DEF Idle, Stops

LEMMA LocksTyped ==
  ASSUME TypeOK, NEW c \in Clients, Unlocked(c)
  PROVE  /\ rowLock' \in [Sessions -> Clients \cup {None}]
         /\ tokenLock' \in [Tokens -> Clients \cup {None}]
         /\ userLock' \in Clients \cup {None} /\ userLock' # c
  BY SessionsAssumption DEF TypeOK, Unlocked

LEMMA OverTyped ==
  ASSUME TypeOK, NEW set \in SUBSET Sessions
  PROVE  Over(set) \in [Sessions -> Session]
  <1>1. \A s \in Sessions : [session[s] EXCEPT !.status = "over"] \in Session
    BY DEF TypeOK, Session
  <1> QED
    BY <1>1 DEF TypeOK, Over

LEMMA InsertedTyped ==
  ASSUME TypeOK, NEW c \in Clients, NEW s \in Sessions
  PROVE  Inserted(c, s) \in Session
  <1>1. txn[c] \in Txn
    BY DEF TypeOK
  <1>2. txn[c].family \in 0..MaxSessions /\ txn[c].version \in Versions
    BY <1>1 DEF Txn
  <1> QED
    BY <1>2, SessionsAssumption DEF Inserted, Session, Sessions

\* Those who have a version to raise are finitely many.
LEMMA RaisersCount ==
  /\ IsFiniteSet(Raisers) /\ Cardinality(Raisers) \in Nat
  /\ \A c \in Raisers : Cardinality(Raisers) >= 1 /\ Cardinality(Raisers \ {c}) = Cardinality(Raisers) - 1
  <1> DEFINE raisers == Raisers
  <1>1. raisers \subseteq Clients /\ IsFiniteSet(Clients)
    BY SessionsAssumption DEF Raisers
  <1> HIDE DEF raisers
  <1>2. IsFiniteSet(raisers) /\ Cardinality(raisers) \in Nat
    BY <1>1, FS_Subset, FS_CardinalityType
  <1>3. ASSUME NEW c \in raisers
        PROVE  Cardinality(raisers) >= 1 /\ Cardinality(raisers \ {c}) = Cardinality(raisers) - 1
    <2>1. Cardinality(raisers \ {c}) = Cardinality(raisers) - 1 /\ IsFiniteSet(raisers \ {c})
      BY <1>2, FS_RemoveElement
    <2>2. Cardinality(raisers \ {c}) \in Nat
      BY <2>1, FS_CardinalityType
    <2> QED
      BY <1>2, <2>1, <2>2
  <1> QED
    BY <1>2, <1>3 DEF raisers

-----------------------------------------------------------------------------
(* The steps of a request, by what they do to the rows and to the lock of    *)
(* the account                                                               *)

Quiet == UNCHANGED <<user, session, token, phone>>
Same(c, at, v) == Left(c, txn[c].op, at, txn[c].row, txn[c].family, v)

Waits(c) == Quiet /\ userLock' = userLock /\ txn[c].at # "idle" /\ Same(c, txn[c].at, txn[c].version)

\* It ends, or goes on to revoke the family.
Quits(c) ==
  /\ Quiet /\ userLock' \in Clients \cup {None} /\ (userLock # c => userLock' = userLock)
  /\ \/ Stops(c)
     \/ txn[c].op = "refresh" /\ txn[c].at # "idle" /\ Left(c, "refresh", "family", txn[c].row, 0, 0)

Starts(c) ==
  /\ Quiet /\ userLock' = userLock /\ txn[c].at = "idle"
  /\ \E op \in Ops, row \in Sessions \cup Tokens \cup {0},
        at \in {"session", "revoke", "token", "read", "account", "consume", "exchange"} :
       /\ Left(c, op, at, row, 0, 0)
       /\ op \in {"refresh", "logout"} => row \in Sessions /\ session[row].status # "none" /\ at # "read"
       /\ op = "handoff" => at = "exchange"
       /\ Raises(op) => VersionsLeft

Moves(c) ==
  /\ Quiet /\ userLock' = userLock
  /\ \/ txn[c].op \in {"login", "handoff"} /\ txn[c].at = "read" /\ Same(c, "touch", user.version)
     \/ txn[c].op \in {"login", "handoff"} /\ txn[c].at = "touch" /\ Same(c, "insert", txn[c].version)
     \/ txn[c].op = "refresh" /\ txn[c].at = "session" /\ Same(c, "account", txn[c].version)
     \/ txn[c].op = "refresh" /\ txn[c].at = "family" /\ Same(c, "apply", txn[c].version)
     \/ txn[c].op = "recover" /\ txn[c].at = "token" /\ Same(c, "account", txn[c].version)
     \/ Raises(txn[c].op) /\ txn[c].at = "sweep" /\ Same(c, "apply", txn[c].version)

Checks(c) ==
  LET s == session[txn[c].row]
  IN /\ Quiet /\ userLock = None /\ userLock' = c
     /\ txn[c].op = "refresh" /\ txn[c].at = "account"
     /\ s.status \notin {"over", "rotated"} /\ Left(c, "refresh", "read", txn[c].row, s.family, s.version)

Confirms(c) ==
  /\ Quiet /\ userLock' = userLock /\ txn[c].op = "refresh" /\ txn[c].at = "read"
  /\ user.active /\ user.version = txn[c].version /\ Same(c, "insert", txn[c].version)

Creates(c, s) ==
  /\ UNCHANGED <<user, token, phone, userLock>>
  /\ txn[c].op \in {"login", "handoff", "change"} /\ New(s)
  /\ session' = [session EXCEPT ![s] = Inserted(c, s)] /\ Stops(c)

Rotates(c, s) ==
  /\ UNCHANGED <<user, token, phone>> /\ userLock' \in Clients \cup {None} /\ userLock' # c
  /\ txn[c].op = "refresh" /\ txn[c].at = "insert" /\ New(s)
  /\ session' = [session EXCEPT ![txn[c].row].status = IF @ = "live" THEN "rotated" ELSE @, ![s] = Inserted(c, s)]
  /\ Stops(c)

EndsSome(c) ==
  /\ UNCHANGED <<user, token, phone, userLock>> /\ Stops(c)
  /\ \E set \in SUBSET Sessions : session' = Over(set) /\ \A s \in set : session[s].status # "none"

Claims(c) ==
  /\ Quiet /\ userLock = None /\ userLock' = c
  /\ Raises(txn[c].op) /\ txn[c].at = "account" /\ Same(c, "sweep", user.version + 1)

EndsAll(c) ==
  /\ UNCHANGED phone /\ userLock' \in Clients \cup {None}
  /\ Raises(txn[c].op) /\ txn[c].at = "apply"
  /\ \E set \in SUBSET Sessions : session' = Over(set) /\ \A s \in set : session[s].status # "none"
  /\ user' = [version |-> txn[c].version, active |-> txn[c].op # "suspend"]
  /\ token' = [t \in Tokens |-> IF txn[c].op = "recover" /\ token[t] = "live" THEN "used" ELSE token[t]]
  /\ Stops(c) \/ Left(c, "change", "insert", 0, 0, txn[c].version)

Phones(c) ==
  /\ UNCHANGED <<user, session, token, userLock>>
  /\ \/ /\ txn[c].op = "callback" /\ txn[c].at = "consume"
        /\ phone = "pending" /\ phone' = "failed" /\ Same(c, "mark", txn[c].version)
     \/ txn[c].op = "callback" /\ txn[c].at = "mark" /\ phone' = "completed" /\ Stops(c)
     \/ /\ txn[c].op = "handoff" /\ txn[c].at = "exchange"
        /\ phone = "completed" /\ phone' = "consumed" /\ Same(c, "read", txn[c].version)

\* The ways a request acts.
Asks(c) ==
  \/ Waits(c) \/ Quits(c) \/ Starts(c) \/ Moves(c) \/ Checks(c) \/ Confirms(c)
  \/ \E s \in Sessions : Creates(c, s) \/ Rotates(c, s)
  \/ EndsSome(c) \/ Claims(c) \/ EndsAll(c) \/ Phones(c)

SessionActs(c) == Step(c) \/ Requests(c) \/ TimesOut(c) \/ BreakDeadlock(c) \/ Fail(c)

\* A request that is rolled back.
LEMMA RollbackQuits ==
  ASSUME TypeOK, NEW c \in Clients, Rollback(c, Idle)
  PROVE  Quits(c)
  <1>1. Stops(c)
    BY StopsIdle DEF Rollback, End, TypeOK
  <1> QED
    BY <1>1, LocksTyped DEF Rollback, End, Unlocked, Quits, Quiet, rows

LEMMA CompromisedQuits ==
  ASSUME SessionsInv, NEW c \in Clients, Compromised(c), txn[c].op = "refresh", txn[c].at # "idle"
  PROVE  Quits(c)
  <1>1. TypeOK /\ txn[c].row \in Sessions
    BY DEF SessionsInv, RowsExist
  <1> DEFINE t == [Idle EXCEPT !.op = "refresh", !.at = "family", !.row = txn[c].row]
  <1>2. t \in Txn
    BY <1>1, IdleTyped, TxnTyped DEF Ops, Ats
  <1>3. t.op = "refresh" /\ t.at = "family" /\ t.row = txn[c].row /\ t.family = 0 /\ t.version = 0 /\ t.hits = {}
    BY DEF Idle
  <1>4. Unlocked(c) /\ Query(c, t) /\ UNCHANGED rows
    BY DEF Compromised, Rollback, End
  <1> HIDE DEF t
  <1>5. Left(c, "refresh", "family", txn[c].row, 0, 0)
    BY <1>1, <1>2, <1>3, <1>4, Leaves DEF TypeOK
  <1> QED
    BY <1>1, <1>4, <1>5, LocksTyped DEF Unlocked, Quits, Quiet, rows

LEMMA RequestsStart ==
  ASSUME SessionsInv, NEW c \in Clients, Requests(c)
  PROVE  Starts(c)
  <1>1. TypeOK
    BY DEF SessionsInv
  <1>2. ASSUME NEW op \in Ops, NEW row \in Sessions \cup Tokens \cup {0},
               NEW at \in {"session", "revoke", "token", "read", "account", "consume", "exchange"},
               Begin(c, op, row, at)
        PROVE  /\ Left(c, op, at, row, 0, 0) /\ Quiet /\ userLock' = userLock /\ txn[c].at = "idle"
               /\ Raises(op) => VersionsLeft
    <2> DEFINE t == [Idle EXCEPT !.op = op, !.row = row, !.at = at]
    <2>1. t \in Txn
      <3>1. PICK u \in Txn : u = Idle
        BY IdleTyped
      <3>2. at \in Ats
        BY DEF Ats
      <3>3. [u EXCEPT !.op = op, !.row = row, !.at = at] \in Txn
        BY <3>2, TxnTyped
      <3> QED
        BY <3>1, <3>3
    <2>2. t.op = op /\ t.at = at /\ t.row = row /\ t.family = 0 /\ t.version = 0 /\ t.hits = {}
      BY DEF Idle
    <2>3. Proceed(c, t)
      BY <1>2 DEF Begin
    <2> HIDE DEF t
    <2>4. Left(c, op, at, row, 0, 0)
      BY <1>1, <2>1, <2>2, <2>3, Leaves DEF TypeOK
    <2> QED
      BY <1>2, <2>4 DEF Begin, Quiet, rows, locks
  <1>3. ASSUME NEW s \in Sessions, session[s].status # "none",
               Begin(c, "refresh", s, "session") \/ Begin(c, "logout", s, "revoke")
        PROVE  Starts(c)
    BY <1>2, <1>3 DEF Ops, Starts, Raises
  <1>4. ASSUME NEW t \in Tokens, Begin(c, "recover", t, "token")
        PROVE  Starts(c)
    BY <1>2, <1>4 DEF Ops, Starts
  <1>5. ASSUME Begin(c, "login", 0, "read") \/ Begin(c, "change", 0, "account") \/ Begin(c, "suspend", 0, "account")
        PROVE  Starts(c)
    BY <1>2, <1>5 DEF Ops, Starts
  <1>6. ASSUME Begin(c, "callback", 0, "consume") \/ Begin(c, "handoff", 0, "exchange")
        PROVE  Starts(c)
    BY <1>2, <1>6 DEF Ops, Starts
  <1> QED
    BY <1>3, <1>4, <1>5, <1>6 DEF Requests

LEMMA StepAsks ==
  ASSUME SessionsInv, NEW c \in Clients, Step(c)
  PROVE  Asks(c)
  <1> USE DEF rows, locks, Quiet
  <1>1. TypeOK /\ txn \in [Clients -> Txn] /\ txn[c] \in Txn
    BY DEF SessionsInv, TypeOK
  <1>2. ASSUME Query(c, Idle)
        PROVE  Stops(c)
    BY <1>1, <1>2, StopsIdle
  <1>2a. ASSUME NEW op, NEW at, Runs(c, op, at)
         PROVE  txn[c].op \in op /\ txn[c].at = at /\ Blockers(c) = {}
    BY <1>2a DEF Runs, At
  <1>3. CASE Connect(c)
    <2> DEFINE t == [txn[c] EXCEPT !.connected = TRUE]
    <2>1. t \in Txn
      BY <1>1, TxnTyped
    <2>2. /\ t.op = txn[c].op /\ t.at = txn[c].at /\ t.row = txn[c].row
          /\ t.family = txn[c].family /\ t.version = txn[c].version /\ t.hits = txn[c].hits
      BY <1>1 DEF Txn
    <2>3. Proceed(c, t) /\ UNCHANGED <<rows, locks>> /\ txn[c].at # "idle"
      BY <1>3 DEF Connect
    <2> HIDE DEF t
    <2>4. Left(c, t.op, t.at, t.row, t.family, t.version)
      BY <1>1, <2>1, <2>2, <2>3, Leaves
    <2> QED
      BY <2>2, <2>3, <2>4 DEF Waits, Same, Asks
  <1>4. CASE ReadAccount(c)
    <2>1. /\ txn[c].op \in {"login", "handoff"} /\ txn[c].at = "read" /\ Quiet /\ UNCHANGED locks
          /\ \/ Query(c, [txn[c] EXCEPT !.version = user.version, !.at = "touch"])
             \/ Query(c, Idle)
      BY <1>2a, <1>4 DEF ReadAccount
    <2>2. user.version \in Versions
      BY <1>1 DEF TypeOK
    <2>3. CASE Query(c, [txn[c] EXCEPT !.version = user.version, !.at = "touch"])
      <3>1. Same(c, "touch", user.version)
        BY <1>1, <2>2, <2>3, Continues DEF Same, Ats
      <3> QED
        BY <2>1, <3>1 DEF Moves, Asks
    <2>4. CASE Query(c, Idle)
      BY <1>1, <1>2, <2>1, <2>4 DEF Quits, Asks, TypeOK
    <2> QED
      BY <2>1, <2>3, <2>4
  <1>5. CASE TouchLastLogin(c)
    <2>1. Same(c, "insert", txn[c].version)
      BY <1>1, <1>5, GoesOn DEF TouchLastLogin, Same, Ats
    <2>2. txn[c].op \in {"login", "handoff"} /\ txn[c].at = "touch" /\ UNCHANGED <<rows, locks>>
      BY <1>2a, <1>5 DEF TouchLastLogin
    <2> QED
      BY <2>1, <2>2 DEF Moves, Asks
  <1>6. ASSUME NEW s \in Sessions, CreateSession(c, s)
        PROVE  Asks(c)
    <2>1. txn[c].op \in {"login", "handoff", "change"} /\ Stops(c)
      BY <1>2, <1>2a, <1>6 DEF CreateSession
    <2> QED
      BY <1>6, <2>1 DEF CreateSession, Creates, Asks
  <1>7. CASE LockSession(c)
    <2>1. Same(c, "account", txn[c].version)
      BY <1>1, <1>7, GoesOn DEF LockSession, Same, Ats
    <2>2. txn[c].op = "refresh" /\ txn[c].at = "session" /\ UNCHANGED <<rows, userLock>>
      BY <1>2a, <1>7 DEF LockSession
    <2> QED
      BY <2>1, <2>2 DEF Moves, Asks
  <1>8. CASE CheckSession(c)
    <2> DEFINE s == session[txn[c].row]
    <2>1. txn[c].op = "refresh" /\ txn[c].at = "account" /\ Blockers(c) = {}
      BY <1>2a, <1>8 DEF CheckSession
    <2>2. userLock = None
      BY <2>1 DEF Blockers, At
    <2>3. txn[c].row \in Sessions /\ s \in Session
      BY <1>1, <2>1 DEF SessionsInv, RowsExist, TypeOK
    <2>4. CASE Rollback(c, Idle)
      BY <1>1, <2>4, RollbackQuits DEF Asks
    <2>5. CASE Compromised(c)
      BY <2>1, <2>5, CompromisedQuits DEF Asks
    <2>6. CASE /\ userLock' = c /\ s.status \notin {"over", "rotated"}
               /\ Proceed(c, [txn[c] EXCEPT !.at = "read", !.family = s.family, !.version = s.version])
               /\ UNCHANGED <<rows, rowLock, tokenLock>>
      <3> DEFINE t == [txn[c] EXCEPT !.at = "read", !.family = s.family, !.version = s.version]
      <3>1. s.family \in 0..MaxSessions /\ s.version \in Versions
        BY <2>3 DEF Session
      <3> HIDE DEF s
      <3>2. t \in Txn
        BY <1>1, <3>1, TxnTyped DEF Ats
      <3>3. /\ t.op = txn[c].op /\ t.at = "read" /\ t.row = txn[c].row
            /\ t.family = s.family /\ t.version = s.version /\ t.hits = txn[c].hits
        BY <1>1 DEF Txn
      <3>4. Proceed(c, t)
        BY <2>6
      <3> HIDE DEF t
      <3>5. Left(c, txn[c].op, "read", txn[c].row, s.family, s.version)
        BY <1>1, <3>2, <3>3, <3>4, Leaves
      <3> USE DEF s
      <3> QED
        BY <2>1, <2>2, <2>6, <3>5 DEF Checks, Asks
    <2>7. CASE s.status = "over"
      BY <1>8, <2>4, <2>7 DEF CheckSession
    <2> QED
      BY <1>8, <2>4, <2>5, <2>6, <2>7 DEF CheckSession
  <1>9. CASE ReadAgain(c)
    <2>1. txn[c].op = "refresh" /\ txn[c].at = "read"
      BY <1>2a, <1>9 DEF ReadAgain
    <2>2. CASE Compromised(c)
      BY <2>1, <2>2, CompromisedQuits DEF Asks
    <2>3. CASE user.active /\ user.version = txn[c].version
      <3>1. Proceed(c, [txn[c] EXCEPT !.at = "insert"]) /\ UNCHANGED <<rows, locks>>
        BY <1>9, <2>3 DEF ReadAgain
      <3>2. Same(c, "insert", txn[c].version)
        BY <1>1, <3>1, GoesOn DEF Same, Ats
      <3> QED
        BY <2>1, <2>3, <3>1, <3>2 DEF Confirms, Asks
    <2> QED
      BY <1>9, <2>2, <2>3 DEF ReadAgain
  <1>10. ASSUME NEW s \in Sessions, Rotate(c, s)
         PROVE  Asks(c)
    <2>1. txn[c].op = "refresh" /\ txn[c].at = "insert"
      BY <1>2a, <1>10 DEF Rotate
    <2>2. Stops(c) /\ userLock' \in Clients \cup {None} /\ userLock' # c
      BY <1>1, <1>2, <1>10, LocksTyped DEF Rotate, End
    <2>3. Rotates(c, s)
      BY <1>10, <2>1, <2>2 DEF Rotate, Rotates
    <2> QED
      BY <2>3 DEF Asks
  <1>11. CASE FindFamily(c)
    <2> DEFINE h == {s \in Sessions : /\ session[s].family = session[txn[c].row].family
                                      /\ session[s].status \in {"live", "rotated"}}
    <2>1. h \in SUBSET Existing
      BY DEF Existing
    <2>2. /\ txn[c].op = "refresh" /\ txn[c].at = "family" /\ UNCHANGED <<rows, locks>>
          /\ Proceed(c, [txn[c] EXCEPT !.at = "apply", !.hits = h])
      BY <1>2a, <1>11 DEF FindFamily
    <2> HIDE DEF h
    <2>3. Same(c, "apply", txn[c].version)
      BY <1>1, <2>1, <2>2, GoesOn DEF Same, Ats
    <2> QED
      BY <2>2, <2>3 DEF Moves, Asks
  <1>12. CASE RevokeFamily(c)
    <2>1. /\ txn[c].hits \in SUBSET Sessions
          /\ \A s \in txn[c].hits : session[s].status # "none"
      BY <1>1 DEF SessionsInv, RowsExist, Existing
    <2> QED
      BY <1>2, <1>12, <2>1 DEF RevokeFamily, EndsSome, Asks
  <1>13. CASE RevokeSession(c)
    <2>1. txn[c].op = "logout" /\ txn[c].at = "revoke"
      BY <1>2a, <1>13 DEF RevokeSession
    <2>2. {txn[c].row} \in SUBSET Sessions /\ session[txn[c].row].status # "none"
      BY <2>1 DEF SessionsInv, RowsExist
    <2> QED
      BY <1>2, <1>13, <2>2 DEF RevokeSession, EndsSome, Asks
  <1>14. CASE LockToken(c)
    <2>1. txn[c].op = "recover" /\ txn[c].at = "token"
      BY <1>2a, <1>14 DEF LockToken
    <2>2. CASE Rollback(c, Idle)
      BY <1>1, <2>2, RollbackQuits DEF Asks
    <2>3. CASE Proceed(c, [txn[c] EXCEPT !.at = "account"]) /\ UNCHANGED <<rows, rowLock, userLock>>
      <3>1. Same(c, "account", txn[c].version)
        BY <1>1, <2>3, GoesOn DEF Same, Ats
      <3> QED
        BY <2>1, <2>3, <3>1 DEF Moves, Asks
    <2> QED
      BY <1>14, <2>2, <2>3 DEF LockToken
  <1>15. CASE UpdateAccount(c)
    <2>1. txn[c].op \in {"change", "recover", "suspend"} /\ txn[c].at = "account" /\ Blockers(c) = {}
      BY <1>2a, <1>15 DEF UpdateAccount
    <2>2. userLock = None
      BY <2>1 DEF Blockers, At
    <2>3. CASE Rollback(c, Idle)
      BY <1>1, <2>3, RollbackQuits DEF Asks
    <2>4. CASE /\ userLock' = c /\ UNCHANGED rows
               /\ Proceed(c, [txn[c] EXCEPT !.at = "sweep", !.version = user.version + 1])
      <3>1. user.version + 1 \in Versions
        <4>1. c \in Raisers
          BY <2>1 DEF Raisers, Raises
        <4>2. IsFiniteSet(Raisers) /\ Cardinality(Raisers) \in Nat
          BY RaisersCount
        <4>3. Cardinality(Raisers) >= 1
          BY <4>1, <4>2, RaisersCount
        <4>4. user.version \in Nat /\ user.version + Cardinality(Raisers) <= MaxVersion
          BY <1>1 DEF SessionsInv, VersionsFit, TypeOK, Versions
        <4> QED
          BY <4>2, <4>3, <4>4, SessionsAssumption DEF Versions
      <3>2. Same(c, "sweep", user.version + 1)
        BY <1>1, <2>4, <3>1, Continues DEF Same, Ats
      <3> QED
        BY <2>1, <2>2, <2>4, <3>2 DEF Claims, Asks, Raises
    <2> QED
      BY <1>15, <2>3, <2>4 DEF UpdateAccount
  <1>16. CASE FindSessions(c)
    <2> DEFINE h == {s \in Sessions : session[s].status \in {"live", "rotated"}}
    <2>1. h \in SUBSET Existing
      BY DEF Existing
    <2>2. /\ txn[c].op \in {"change", "recover", "suspend"} /\ txn[c].at = "sweep" /\ UNCHANGED <<rows, locks>>
          /\ Proceed(c, [txn[c] EXCEPT !.at = "apply", !.hits = h])
      BY <1>2a, <1>16 DEF FindSessions
    <2> HIDE DEF h
    <2>3. Same(c, "apply", txn[c].version)
      BY <1>1, <2>1, <2>2, GoesOn DEF Same, Ats
    <2> QED
      BY <2>2, <2>3 DEF Moves, Asks, Raises
  <1>17. CASE RevokeAll(c)
    <2>1. txn[c].op \in {"change", "recover", "suspend"} /\ txn[c].at = "apply"
      BY <1>2a, <1>17 DEF RevokeAll
    <2>2. /\ txn[c].hits \in SUBSET Sessions
          /\ \A s \in txn[c].hits : session[s].status # "none"
      BY <1>1 DEF SessionsInv, RowsExist, Existing
    <2>3. Unlocked(c) /\ userLock' \in Clients \cup {None}
      BY <1>1, <1>17, LocksTyped DEF RevokeAll, End
    <2>4. Stops(c) \/ Left(c, "change", "insert", 0, 0, txn[c].version)
      <3> DEFINE t == [Idle EXCEPT !.op = "change", !.at = "insert", !.version = txn[c].version]
      <3>1. txn[c].version \in Versions
        BY <1>1 DEF Txn
      <3>2. t \in Txn
        BY <3>1, IdleTyped, TxnTyped DEF Ops, Ats
      <3>3. /\ t.op = "change" /\ t.at = "insert" /\ t.row = 0 /\ t.family = 0
            /\ t.version = txn[c].version /\ t.hits = {}
        BY DEF Idle
      <3>4. Query(c, Idle) \/ Query(c, t)
        BY <1>17 DEF RevokeAll, End
      <3> HIDE DEF t
      <3>5. CASE Query(c, t)
        BY <1>1, <3>2, <3>3, <3>5, Leaves
      <3> QED
        BY <1>2, <3>4, <3>5
    <2>5. EndsAll(c)
      BY <1>17, <2>1, <2>2, <2>3, <2>4 DEF RevokeAll, EndsAll, Raises
    <2> QED
      BY <2>5 DEF Asks
  <1>18. CASE ConsumePending(c)
    <2>1. txn[c].op = "callback" /\ txn[c].at = "consume" /\ UNCHANGED <<user, session, token, locks>>
      BY <1>2a, <1>18 DEF ConsumePending
    <2>2. CASE Consumable
      <3>1. Same(c, "mark", txn[c].version)
        BY <1>1, <1>18, <2>2, GoesOn DEF ConsumePending, Same, Ats
      <3> QED
        BY <1>18, <2>1, <2>2, <3>1 DEF ConsumePending, Consumable, Phones, Asks
    <2>3. CASE ~Consumable
      BY <1>1, <1>2, <1>18, <2>1, <2>3 DEF ConsumePending, Quits, Asks, TypeOK
    <2> QED
      BY <2>2, <2>3
  <1>19. CASE MarkCompleted(c)
    <2>1. txn[c].op = "callback" /\ txn[c].at = "mark"
      BY <1>2a, <1>19 DEF MarkCompleted
    <2> QED
      BY <1>2, <1>19, <2>1 DEF MarkCompleted, Phones, Asks
  <1>20. CASE ConsumeHandoff(c)
    <2>1. txn[c].op = "handoff" /\ txn[c].at = "exchange" /\ UNCHANGED <<user, session, token, locks>>
      BY <1>2a, <1>20 DEF ConsumeHandoff
    <2>2. CASE phone = "completed"
      <3>1. Same(c, "read", txn[c].version)
        BY <1>1, <1>20, <2>2, GoesOn DEF ConsumeHandoff, Same, Ats
      <3> QED
        BY <1>20, <2>1, <2>2, <3>1 DEF ConsumeHandoff, Phones, Asks
    <2>3. CASE phone # "completed"
      BY <1>1, <1>2, <1>20, <2>1, <2>3 DEF ConsumeHandoff, Quits, Asks, TypeOK
    <2> QED
      BY <2>2, <2>3
  <1> HIDE DEF rows, locks, Quiet
  <1> QED
    BY <1>3, <1>4, <1>5, <1>6, <1>7, <1>8, <1>9, <1>10, <1>11, <1>12, <1>13, <1>14, <1>15, <1>16,
       <1>17, <1>18, <1>19, <1>20 DEF Step

LEMMA ActsAsk ==
  ASSUME SessionsInv, NEW c \in Clients, SessionActs(c)
  PROVE  Asks(c)
  <1>1. TypeOK
    BY DEF SessionsInv
  <1>2. CASE Requests(c)
    BY <1>2, RequestsStart DEF Asks
  <1>3. CASE TimesOut(c) \/ BreakDeadlock(c) \/ Fail(c)
    BY <1>1, <1>3, RollbackQuits DEF TimesOut, BreakDeadlock, Fail, Asks
  <1> QED
    BY <1>2, <1>3, StepAsks DEF SessionActs

-----------------------------------------------------------------------------
(* What every step keeps *)

\* What changes without any request.
Elsewhere ==
  /\ UNCHANGED <<txn, userLock, rowLock, tokenLock>>
  /\ \/ UNCHANGED <<user, session, token, phone>>
     \/ UNCHANGED <<user, session, phone>> /\ \E t \in Tokens : RequestRecovery(t) \/ ExpireToken(t)
     \/ UNCHANGED <<user, token, phone>> /\ \E s \in Sessions : session[s].status # "none" /\ session' = Over({s})
     \/ UNCHANGED <<user, session, token>> /\ phone = "none" /\ phone' = "pending"
     \/ UNCHANGED <<session, token, phone>> /\ userLock = None /\ user' = [user EXCEPT !.active = TRUE]

LEMMA NextAsks ==
  ASSUME SessionsInv, [Next]_vars
  PROVE  Elsewhere \/ \E c \in Clients : Asks(c)
  <1> USE DEF rows, locks
  <1>1. CASE UNCHANGED vars
    BY <1>1 DEF vars, Elsewhere
  <1>2. ASSUME NEW c \in Clients, Step(c) \/ Requests(c) \/ TimesOut(c) \/ BreakDeadlock(c) \/ Fail(c)
        PROVE  Asks(c)
    BY <1>2, ActsAsk DEF SessionActs
  <1>3. ASSUME NEW t \in Tokens, RequestRecovery(t) \/ ExpireToken(t)
        PROVE  Elsewhere
    BY <1>3 DEF RequestRecovery, ExpireToken, Elsewhere
  <1>4. ASSUME NEW s \in Sessions, ExpireSession(s)
        PROVE  Elsewhere
    BY <1>4 DEF ExpireSession, Elsewhere
  <1>5. CASE StartPhone \/ Reinstate
    BY <1>5 DEF StartPhone, Reinstate, Elsewhere
  <1> QED
    BY <1>1, <1>2, <1>3, <1>4, <1>5 DEF Next

\* Where an UPDATE of sessions writes.
LEMMA OverFacts ==
  ASSUME SessionsInv, NEW set \in SUBSET Sessions, session' = Over(set),
         \A s \in set : session[s].status # "none", NEW r \in Sessions
  PROVE  /\ session'[r].family = session[r].family /\ session'[r].version = session[r].version
         /\ session[r].status # "none" <=> session'[r].status # "none"
         /\ session'[r].status = "live" => session[r].status = "live"
  <1>1. session[r] \in Session
    BY DEF SessionsInv, TypeOK
  <1>2. session'[r] = IF r \in set THEN [session[r] EXCEPT !.status = "over"] ELSE session[r]
    BY DEF Over
  <1>3. CASE r \in set
    <2>1. session'[r] = [session[r] EXCEPT !.status = "over"] /\ session[r].status # "none"
      BY <1>2, <1>3
    <2> QED
      BY <1>1, <2>1 DEF Session
  <1> QED
    BY <1>2, <1>3

\* Where a session is inserted.
LEMMA CreateFacts ==
  ASSUME SessionsInv, NEW c \in Clients, NEW s \in Sessions, Creates(c, s)
  PROVE  /\ session[s].status = "none" /\ session'[s].status = "live" /\ session'[s].family = s
         /\ \A r \in Sessions \ {s} : session'[r] = session[r]
  <1>1. txn[c].family = 0
    BY DEF SessionsInv, RowsExist, Creates
  <1>2. session'[s] = Inserted(c, s) /\ \A r \in Sessions \ {s} : session'[r] = session[r]
    BY DEF Creates, SessionsInv, TypeOK
  <1> QED
    BY <1>1, <1>2 DEF Creates, New, Inserted

LEMMA RotateFacts ==
  ASSUME SessionsInv, NEW c \in Clients, NEW s \in Sessions, Rotates(c, s)
  PROVE  LET row == txn[c].row
         IN /\ session[s].status = "none" /\ row \in Sessions /\ row # s /\ session[row].status # "none"
            /\ session'[s].status = "live" /\ session'[s].family = txn[c].family
            /\ \A r \in Sessions \ {s, row} : session'[r] = session[r]
            /\ session'[row].family = session[row].family /\ session'[row].version = session[row].version
            /\ session'[row].status \notin {"live", "none"}
            /\ userLock = c /\ Refreshing(c) /\ txn[c].family = session[row].family
            /\ txn[c].family \in Sessions
  <1> DEFINE row == txn[c].row
             st == IF session[row].status = "live" THEN "rotated" ELSE session[row].status
  <1>1. /\ txn[c].op = "refresh" /\ txn[c].at = "insert" /\ New(s)
        /\ session' = [session EXCEPT ![row].status = IF @ = "live" THEN "rotated" ELSE @, ![s] = Inserted(c, s)]
    BY DEF Rotates
  <1>2. row \in Sessions /\ session[row].status # "none"
    BY <1>1 DEF SessionsInv, RowsExist
  <1>3. Refreshing(c) /\ userLock = c /\ txn[c].family = session[row].family
    BY <1>1 DEF SessionsInv, RefreshFits, Refreshing
  <1>4. txn[c].family \in Sessions
    BY <1>2, <1>3 DEF SessionsInv, FamiliesFit
  <1>5. session[s].status = "none" /\ row # s
    BY <1>1, <1>2 DEF New
  <1>6. session'[s] = Inserted(c, s) /\ \A r \in Sessions \ {s, row} : session'[r] = session[r]
    BY <1>1, <1>2, <1>5 DEF SessionsInv, TypeOK
  <1>7. session'[row] = [session[row] EXCEPT !.status = st] /\ session[row] \in Session
    BY <1>1, <1>2, <1>5 DEF SessionsInv, TypeOK
  <1>8. /\ session'[row].family = session[row].family /\ session'[row].version = session[row].version
        /\ session'[row].status = st
    BY <1>7 DEF Session
  <1>9. txn[c].family # 0
    BY <1>4, SessionsAssumption DEF Sessions
  <1>10. session'[s].status = "live" /\ session'[s].family = txn[c].family
    BY <1>6, <1>9 DEF Inserted
  <1> QED
    BY <1>2, <1>3, <1>4, <1>5, <1>6, <1>8, <1>10

\* The steps that leave the sessions alone, and those that end some.
LEMMA SessionMoves ==
  ASSUME SessionsInv, [Next]_vars
  PROVE  \/ session' = session
         \/ \E set \in SUBSET Sessions : session' = Over(set) /\ \A s \in set : session[s].status # "none"
         \/ \E c \in Clients, s \in Sessions : Creates(c, s) \/ Rotates(c, s)
  <1>1. CASE Elsewhere
    <2>1. session' = session \/ \E s \in Sessions : session[s].status # "none" /\ session' = Over({s})
      BY <1>1 DEF Elsewhere
    <2>2. ASSUME NEW s \in Sessions, session[s].status # "none", session' = Over({s})
          PROVE  \E set \in SUBSET Sessions : session' = Over(set) /\ \A r \in set : session[r].status # "none"
      <3>1. {s} \in SUBSET Sessions /\ \A r \in {s} : session[r].status # "none"
        BY <2>2
      <3> QED
        BY <2>2, <3>1
    <2> QED
      BY <2>1, <2>2
  <1>2. ASSUME NEW c \in Clients, Asks(c)
        PROVE  \/ session' = session
               \/ \E set \in SUBSET Sessions : session' = Over(set) /\ \A s \in set : session[s].status # "none"
               \/ \E d \in Clients, s \in Sessions : Creates(d, s) \/ Rotates(d, s)
    <2>1. CASE Waits(c) \/ Quits(c) \/ Starts(c) \/ Moves(c) \/ Checks(c) \/ Confirms(c) \/ Claims(c)
      BY <2>1 DEF Waits, Quits, Starts, Moves, Checks, Confirms, Claims, Quiet
    <2>2. CASE EndsSome(c) \/ EndsAll(c)
      BY <2>2 DEF EndsSome, EndsAll
    <2>3. CASE Phones(c)
      BY <2>3 DEF Phones
    <2> QED
      BY <1>2, <2>1, <2>2, <2>3 DEF Asks
  <1> QED
    BY <1>1, <1>2, NextAsks

\* A session is never deleted, keeps its family and its version, and does not
\* come back to life; a new one is inserted by a sign-in or a refresh.
LEMMA SessionsLast ==
  ASSUME SessionsInv, [Next]_vars, NEW r \in Sessions, session[r].status # "none"
  PROVE  /\ session'[r].status # "none"
         /\ session'[r].family = session[r].family /\ session'[r].version = session[r].version
         /\ session'[r].status = "live" => session[r].status = "live"
  <1>1. CASE session' = session
    BY <1>1
  <1>2. ASSUME NEW set \in SUBSET Sessions, session' = Over(set), \A s \in set : session[s].status # "none"
        PROVE  /\ session'[r].status # "none"
               /\ session'[r].family = session[r].family /\ session'[r].version = session[r].version
               /\ session'[r].status = "live" => session[r].status = "live"
    BY <1>2, OverFacts
  <1>3. ASSUME NEW c \in Clients, NEW s \in Sessions, Creates(c, s)
        PROVE  session'[r] = session[r]
    BY <1>3, CreateFacts
  <1>4. ASSUME NEW c \in Clients, NEW s \in Sessions, Rotates(c, s)
        PROVE  /\ session'[r].status # "none"
               /\ session'[r].family = session[r].family /\ session'[r].version = session[r].version
               /\ session'[r].status = "live" => session[r].status = "live"
    BY <1>4, RotateFacts
  <1> QED
    BY <1>1, <1>2, <1>3, <1>4, SessionMoves

\* A request that does not act keeps its place, and the account stays as it
\* was if the request has locked it.
Stays(d) ==
  txn'[d] = txn[d] /\ (userLock = d => userLock' = d /\ user' = user)

LEMMA SessionBystander ==
  ASSUME SessionsInv, [Next]_vars, NEW d \in Clients
  PROVE  Asks(d) \/ Stays(d)
  <1>1. d # None
    BY SessionsAssumption
  <1>2. CASE Elsewhere
    BY <1>1, <1>2 DEF Elsewhere, Stays
  <1>3. ASSUME NEW q \in Clients, Asks(q), q # d
        PROVE  Stays(d)
    <2>1. ASSUME NEW op, NEW at, NEW row, NEW family, NEW version, Left(q, op, at, row, family, version)
          PROVE  txn'[d] = txn[d]
      BY <1>3, <2>1 DEF Left
    <2> USE DEF Stays, Quiet, Same, Stops
    <2>2. CASE Waits(q) \/ Starts(q) \/ Moves(q) \/ Confirms(q)
      BY <2>1, <2>2 DEF Waits, Starts, Moves, Confirms
    <2>3. CASE Quits(q)
      BY <1>3, <2>1, <2>3 DEF Quits
    <2>4. CASE Checks(q) \/ Claims(q)
      BY <1>1, <2>1, <2>4 DEF Checks, Claims
    <2>5. ASSUME NEW s \in Sessions, Creates(q, s)
          PROVE  Stays(d)
      BY <2>1, <2>5 DEF Creates
    <2>6. ASSUME NEW s \in Sessions, Rotates(q, s)
          PROVE  Stays(d)
      <3>1. userLock = q
        BY <2>6, RotateFacts
      <3> QED
        BY <1>3, <2>1, <2>6, <3>1 DEF Rotates
    <2>7. CASE EndsSome(q) \/ Phones(q)
      BY <2>1, <2>7 DEF EndsSome, Phones
    <2>8. CASE EndsAll(q)
      <3>1. userLock = q
        BY <2>8 DEF EndsAll, SessionsInv, RaisesFit, Raising
      <3> QED
        BY <1>3, <2>1, <2>8, <3>1 DEF EndsAll
    <2> QED
      BY <1>3, <2>2, <2>3, <2>4, <2>5, <2>6, <2>7, <2>8 DEF Asks
  <1> QED
    BY <1>2, <1>3, NextAsks

-----------------------------------------------------------------------------
(* The conjuncts of the invariant, step by step *)

\* Who locks the rows.
LEMMA RowLocksTyped ==
  ASSUME SessionsInv, [Next]_vars
  PROVE  rowLock' \in [Sessions -> Clients \cup {None}] /\ tokenLock' \in [Tokens -> Clients \cup {None}]
  <1> DEFINE Fit == /\ rowLock' \in [Sessions -> Clients \cup {None}]
                    /\ tokenLock' \in [Tokens -> Clients \cup {None}]
  <1>1. TypeOK
    BY DEF SessionsInv
  <1>2. CASE UNCHANGED locks
    BY <1>1, <1>2 DEF TypeOK, locks
  <1>3. ASSUME NEW c \in Clients, Unlocked(c)
        PROVE  Fit
    BY <1>1, <1>3, LocksTyped
  <1>4. ASSUME NEW c \in Clients, LockSession(c)
        PROVE  Fit
    <2>1. rowLock' = [rowLock EXCEPT ![txn[c].row] = c] /\ tokenLock' = tokenLock
      BY <1>4 DEF LockSession
    <2> QED
      BY <1>1, <2>1 DEF TypeOK
  <1>5. ASSUME NEW c \in Clients, LockToken(c)
        PROVE  Fit
    <2>1. \/ Unlocked(c)
          \/ tokenLock' = [tokenLock EXCEPT ![txn[c].row] = c] /\ rowLock' = rowLock
      BY <1>5 DEF LockToken, Rollback, End
    <2> QED
      BY <1>1, <1>3, <2>1 DEF TypeOK
  <1> HIDE DEF Fit
  <1>6. ASSUME NEW c \in Clients, CheckSession(c) \/ UpdateAccount(c)
        PROVE  Fit
    <2>1. Unlocked(c) \/ UNCHANGED <<rowLock, tokenLock>>
      BY <1>6 DEF CheckSession, UpdateAccount, Compromised, Rollback, End
    <2> QED
      BY <1>1, <1>3, <2>1 DEF TypeOK, Fit
  <1>7. ASSUME NEW c \in Clients, ReadAgain(c) \/ RevokeAll(c) \/ TimesOut(c) \/ BreakDeadlock(c) \/ Fail(c)
        PROVE  Fit
    <2>1. Unlocked(c) \/ UNCHANGED locks
      BY <1>7 DEF ReadAgain, RevokeAll, TimesOut, BreakDeadlock, Fail, Compromised, Rollback, End
    <2> QED
      BY <1>2, <1>3, <2>1 DEF Fit
  <1>8. ASSUME NEW c \in Clients, NEW s \in Sessions, CreateSession(c, s) \/ Rotate(c, s)
        PROVE  Fit
    <2>1. Unlocked(c) \/ UNCHANGED locks
      BY <1>8 DEF CreateSession, Rotate, End
    <2> QED
      BY <1>2, <1>3, <2>1 DEF Fit
  <1>9. ASSUME NEW c \in Clients,
               \/ Connect(c) \/ ReadAccount(c) \/ TouchLastLogin(c) \/ FindFamily(c) \/ RevokeFamily(c)
               \/ RevokeSession(c) \/ FindSessions(c) \/ ConsumePending(c) \/ MarkCompleted(c) \/ ConsumeHandoff(c)
        PROVE  Fit
    <2>1. UNCHANGED locks
      BY <1>9 DEF Connect, ReadAccount, TouchLastLogin, FindFamily, RevokeFamily, RevokeSession, FindSessions,
                  ConsumePending, MarkCompleted, ConsumeHandoff
    <2> QED
      BY <1>2, <2>1 DEF Fit
  <1>10. ASSUME NEW c \in Clients, Requests(c)
         PROVE  Fit
    <2>1. UNCHANGED locks
      BY <1>10 DEF Requests, Begin
    <2> QED
      BY <1>2, <2>1 DEF Fit
  <1>11. ASSUME \/ \E t \in Tokens : RequestRecovery(t) \/ ExpireToken(t)
                \/ \E s \in Sessions : ExpireSession(s)
                \/ StartPhone \/ Reinstate
         PROVE  Fit
    <2>1. UNCHANGED locks
      BY <1>11 DEF RequestRecovery, ExpireToken, ExpireSession, StartPhone, Reinstate
    <2> QED
      BY <1>2, <2>1 DEF Fit
  <1>12. ASSUME UNCHANGED vars
         PROVE  Fit
    BY <1>2, <1>12 DEF vars, locks, Fit
  <1>13. ASSUME NEW c \in Clients, Step(c)
         PROVE  Fit
    BY <1>4, <1>5, <1>6, <1>7, <1>8, <1>9, <1>13 DEF Step
  <1>14. ASSUME Next
         PROVE  Fit
    BY <1>7, <1>10, <1>11, <1>13, <1>14 DEF Next
  <1>15. Fit
    BY <1>12, <1>14
  <1> QED
    BY <1>15 DEF Fit

\* The records of the requests after one of them has acted.
LEMMA AsksLeave ==
  ASSUME NEW c \in Clients, Asks(c)
  PROVE  \E op, at, row, family, version : Left(c, op, at, row, family, version)
  <1> USE DEF Same, Stops
  <1>1. CASE Waits(c) \/ Quits(c) \/ Moves(c) \/ Confirms(c) \/ Claims(c) \/ Phones(c) \/ EndsSome(c) \/ EndsAll(c)
    BY <1>1 DEF Waits, Quits, Moves, Confirms, Claims, Phones, EndsSome, EndsAll
  <1>2. CASE Starts(c) \/ Checks(c)
    BY <1>2 DEF Starts, Checks
  <1>3. CASE \E s \in Sessions : Creates(c, s) \/ Rotates(c, s)
    BY <1>3 DEF Creates, Rotates
  <1> QED
    BY <1>1, <1>2, <1>3 DEF Asks

\* A session that is new has been inserted by this step.
LEMMA NewIsInserted ==
  ASSUME SessionsInv, [Next]_vars, NEW s \in Sessions, session[s].status = "none", session'[s].status # "none"
  PROVE  \E c \in Clients : Creates(c, s) \/ Rotates(c, s)
  <1>1. ASSUME NEW set \in SUBSET Sessions, session' = Over(set), \A r \in set : session[r].status # "none"
        PROVE  FALSE
    BY <1>1, OverFacts
  <1>2. ASSUME NEW c \in Clients, NEW r \in Sessions, Creates(c, r)
        PROVE  r = s
    BY <1>2, CreateFacts
  <1>3. ASSUME NEW c \in Clients, NEW r \in Sessions, Rotates(c, r)
        PROVE  r = s
    BY <1>3, RotateFacts
  <1> QED
    BY <1>1, <1>2, <1>3, SessionMoves

\* A family keeps its name, and gets no second live session.
LEMMA FamiliesStep ==
  ASSUME SessionsInv, [Next]_vars
  PROVE  FamiliesFit'
  <1> SUFFICES ASSUME NEW s \in Sessions, session'[s].status # "none"
               PROVE  session'[s].family \in Sessions /\ session'[session'[s].family].status # "none"
    BY DEF FamiliesFit
  <1>1. ASSUME NEW r \in Sessions, session[r].status # "none"
        PROVE  session[r].family \in Sessions /\ session'[session[r].family].status # "none"
    <2>1. session[r].family \in Sessions /\ session[session[r].family].status # "none"
      BY <1>1 DEF SessionsInv, FamiliesFit
    <2> QED
      BY <2>1, SessionsLast
  <1>2. CASE session[s].status # "none"
    BY <1>1, <1>2, SessionsLast
  <1>3. CASE session[s].status = "none"
    <2>1. PICK c \in Clients : Creates(c, s) \/ Rotates(c, s)
      BY <1>3, NewIsInserted
    <2>2. CASE Creates(c, s)
      BY <2>2, CreateFacts
    <2>3. CASE Rotates(c, s)
      <3>1. /\ txn[c].row \in Sessions /\ session[txn[c].row].status # "none"
            /\ session'[s].family = session[txn[c].row].family
        BY <2>3, RotateFacts
      <3> QED
        BY <1>1, <3>1
    <2> QED
      BY <2>1, <2>2, <2>3
  <1> QED
    BY <1>2, <1>3

LEMMA OneLiveStep ==
  ASSUME SessionsInv, [Next]_vars
  PROVE  OneLivePerFamily'
  <1>1. ASSUME NEW s \in Sessions, NEW r \in Sessions, s # r,
               session'[s].status = "live", session'[r].status = "live", session'[s].family = session'[r].family,
               session[s].status = "none"
        PROVE  FALSE
    <2>1. PICK c \in Clients : Creates(c, s) \/ Rotates(c, s)
      BY <1>1, NewIsInserted
    <2>2. session[r].status # "none"
      <3>1. CASE Creates(c, s)
        BY <1>1, <3>1, CreateFacts
      <3>2. CASE Rotates(c, s)
        BY <1>1, <3>2, RotateFacts
      <3> QED
        BY <2>1, <3>1, <3>2
    <2>3. session[r].status = "live" /\ session'[r].family = session[r].family
      BY <1>1, <2>2, SessionsLast
    <2>4. ~Creates(c, s)
      <3> SUFFICES ASSUME Creates(c, s)
                   PROVE  FALSE
        OBVIOUS
      <3>1. session[r].family = s
        BY <1>1, <2>3, CreateFacts
      <3> QED
        BY <1>1, <2>2, <3>1 DEF SessionsInv, FamiliesFit
    <2>5. Rotates(c, s)
      BY <2>1, <2>4
    <2>6. session[r].family = txn[c].family /\ Refreshing(c) /\ session'[txn[c].row].status # "live"
      BY <1>1, <2>3, <2>5, RotateFacts
    <2>7. r = txn[c].row
      BY <2>3, <2>6 DEF SessionsInv, RefreshFits
    <2> QED
      BY <1>1, <2>6, <2>7
  <1>2. ASSUME NEW s \in Sessions, NEW r \in Sessions, session'[s].status = "live", session'[r].status = "live",
               session'[s].family = session'[r].family
        PROVE  s = r
    <2>1. CASE session[s].status # "none" /\ session[r].status # "none"
      <3>1. /\ session[s].status = "live" /\ session'[s].family = session[s].family
            /\ session[r].status = "live" /\ session'[r].family = session[r].family
        BY <1>2, <2>1, SessionsLast
      <3> QED
        BY <1>2, <3>1 DEF SessionsInv, OneLivePerFamily
    <2> QED
      BY <1>1, <1>2, <2>1
  <1> QED
    BY <1>2 DEF OneLivePerFamily

\* What a request is about goes on existing.
LEMMA RowsExistStep ==
  ASSUME SessionsInv, [Next]_vars
  PROVE  RowsExist'
  <1> DEFINE Fits(d) == /\ txn'[d].op \in {"refresh", "logout"} /\ txn'[d].at # "idle" =>
                             txn'[d].row \in Sessions /\ session'[txn'[d].row].status # "none"
                        /\ txn'[d].op \in {"login", "handoff", "change"} => txn'[d].family = 0
             Was(d) == /\ txn[d].op \in {"refresh", "logout"} /\ txn[d].at # "idle" =>
                            txn[d].row \in Sessions /\ session[txn[d].row].status # "none"
                       /\ txn[d].op \in {"login", "handoff", "change"} => txn[d].family = 0
  <1>1. Existing \subseteq Existing'
    BY SessionsLast DEF Existing
  <1>2. ASSUME NEW d \in Clients
        PROVE  Was(d) /\ txn[d].hits \subseteq Existing
    BY DEF SessionsInv, RowsExist
  <1>3. ASSUME NEW r \in Sessions, session[r].status # "none"
        PROVE  session'[r].status # "none"
    BY <1>3, SessionsLast
  <1>4. ASSUME NEW d \in Clients
        PROVE  txn'[d].hits \subseteq Existing'
    <2>1. CASE Stays(d)
      BY <1>1, <1>2, <2>1 DEF Stays
    <2>2. CASE Asks(d)
      <3>1. PICK op, at, row, family, version : Left(d, op, at, row, family, version)
        BY <2>2, AsksLeave
      <3> QED
        BY <1>1, <1>2, <3>1 DEF Left
    <2> QED
      BY <2>1, <2>2, SessionBystander
  <1>5. ASSUME NEW d \in Clients, txn'[d].op = txn[d].op, txn'[d].row = txn[d].row, txn'[d].family = txn[d].family,
               txn[d].at # "idle" \/ txn'[d].at = "idle"
        PROVE  Fits(d)
    BY <1>2, <1>3, <1>5
  <1>6. ASSUME NEW d \in Clients, Asks(d)
        PROVE  Fits(d)
    <2> USE DEF Same, Left
    <2>1. ASSUME Stops(d)
          PROVE  Fits(d)
      BY <2>1 DEF Stops
    <2>2. CASE Waits(d) \/ Moves(d) \/ Confirms(d) \/ Claims(d) \/ Phones(d)
      <3>1. \/ Stops(d)
            \/ /\ txn'[d].op = txn[d].op /\ txn'[d].row = txn[d].row /\ txn'[d].family = txn[d].family
               /\ txn[d].at # "idle"
        BY <2>2 DEF Waits, Moves, Confirms, Claims, Phones
      <3> QED
        BY <1>5, <2>1, <3>1
    <2>3. CASE Quits(d)
      BY <1>2, <1>3, <2>1, <2>3 DEF Quits
    <2>4. CASE Starts(d)
      BY <1>3, <2>4 DEF Starts
    <2>5. CASE Checks(d)
      BY <1>2, <1>3, <2>5 DEF Checks
    <2>6. CASE EndsSome(d) \/ EndsAll(d) \/ \E s \in Sessions : Creates(d, s) \/ Rotates(d, s)
      BY <2>1, <2>6 DEF EndsSome, EndsAll, Creates, Rotates
    <2> HIDE DEF Fits
    <2> QED
      BY <1>6, <2>2, <2>3, <2>4, <2>5, <2>6 DEF Asks
  <1>7. ASSUME NEW d \in Clients
        PROVE  Fits(d)
    BY <1>2, <1>3, <1>6, SessionBystander DEF Stays
  <1> QED
    BY <1>4, <1>7 DEF RowsExist

\* A refresh keeps what it has checked.
LEMMA RefreshStep ==
  ASSUME SessionsInv, [Next]_vars
  PROVE  RefreshFits'
  <1> DEFINE Fits(d) ==
        /\ userLock' = d
        /\ txn'[d].family = session'[txn'[d].row].family /\ txn'[d].version = session'[txn'[d].row].version
        /\ \A s \in Sessions :
             session'[s].status = "live" /\ session'[s].family = txn'[d].family => s = txn'[d].row
        /\ txn'[d].at = "insert" => user'.active /\ user'.version = txn'[d].version
  <1>1. ASSUME NEW d \in Clients, Refreshing(d)
        PROVE  /\ userLock = d /\ txn[d].row \in Sessions /\ session[txn[d].row].status # "none"
               /\ txn[d].family = session[txn[d].row].family /\ txn[d].version = session[txn[d].row].version
               /\ \A s \in Sessions :
                    session[s].status = "live" /\ session[s].family = txn[d].family => s = txn[d].row
               /\ txn[d].at = "insert" => user.active /\ user.version = txn[d].version
    BY <1>1 DEF SessionsInv, RowsExist, RefreshFits, Refreshing
  <1>2. ASSUME NEW d \in Clients, Refreshing(d), Stays(d)
        PROVE  Fits(d)
    <2> DEFINE row == txn[d].row
               family == txn[d].family
    <2>1. /\ userLock = d /\ userLock' = d /\ user' = user /\ txn'[d] = txn[d]
          /\ row \in Sessions /\ session[row].status # "none"
      BY <1>1, <1>2 DEF Stays
    <2>2. session'[row].family = session[row].family /\ session'[row].version = session[row].version
      BY <2>1, SessionsLast
    <2>3. ASSUME NEW s \in Sessions, session'[s].status = "live", session'[s].family = family
          PROVE  s = row
      <3>1. CASE session[s].status # "none"
        <4>1. session[s].status = "live" /\ session[s].family = family
          BY <2>3, <3>1, SessionsLast
        <4> QED
          BY <1>1, <1>2, <4>1
      <3>2. CASE session[s].status = "none"
        <4>1. PICK c \in Clients : Creates(c, s) \/ Rotates(c, s)
          BY <2>3, <3>2, NewIsInserted
        <4>2. family \in Sessions /\ session[family].status # "none"
          BY <1>1, <1>2, <2>1 DEF SessionsInv, FamiliesFit
        <4>3. ~Creates(c, s)
          BY <2>3, <3>2, <4>2, CreateFacts
        <4>4. Rotates(c, s) /\ userLock = c
          BY <4>1, <4>3, RotateFacts
        <4>5. txn'[d].at = "idle"
          BY <2>1, <4>4 DEF Rotates, Stops, Left
        <4> QED
          BY <1>2, <2>1, <4>5 DEF Refreshing
      <3> QED
        BY <3>1, <3>2
    <2> QED
      BY <1>1, <1>2, <2>1, <2>2, <2>3
  <1>3. ASSUME NEW d \in Clients, Asks(d), Refreshing(d)'
        PROVE  Fits(d)
    <2>1. txn'[d].op = "refresh" /\ txn'[d].at \in {"read", "insert"}
      BY <1>3 DEF Refreshing
    <2>2. Waits(d) \/ Checks(d) \/ Confirms(d)
      <3> USE DEF Same, Left, Stops, Raises
      <3>1. ~Quits(d) /\ ~Starts(d)
        BY <2>1 DEF Quits, Starts
      <3>2. ~Moves(d) /\ ~Claims(d) /\ ~Phones(d)
        BY <2>1 DEF Moves, Claims, Phones
      <3>3. ~EndsSome(d) /\ ~EndsAll(d) /\ ~\E s \in Sessions : Creates(d, s) \/ Rotates(d, s)
        BY <2>1 DEF EndsSome, EndsAll, Creates, Rotates
      <3> QED
        BY <1>3, <3>1, <3>2, <3>3 DEF Asks
    <2>3. CASE Waits(d)
      <3>1. /\ user' = user /\ session' = session /\ userLock' = userLock
            /\ txn'[d].op = txn[d].op /\ txn'[d].at = txn[d].at /\ txn'[d].row = txn[d].row
            /\ txn'[d].family = txn[d].family /\ txn'[d].version = txn[d].version
        BY <2>3 DEF Waits, Quiet, Same, Left
      <3>2. Refreshing(d)
        BY <2>1, <3>1 DEF Refreshing
      <3> QED
        BY <1>1, <3>1, <3>2
    <2>4. CASE Confirms(d)
      <3>1. /\ user' = user /\ session' = session /\ userLock' = userLock
            /\ txn'[d].row = txn[d].row /\ user.active /\ user.version = txn[d].version
            /\ txn'[d].family = txn[d].family /\ txn'[d].version = txn[d].version
        BY <2>4 DEF Confirms, Quiet, Same, Left
      <3>2. Refreshing(d)
        BY <2>4 DEF Refreshing, Confirms
      <3> QED
        BY <1>1, <3>1, <3>2
    <2>5. CASE Checks(d)
      <3> DEFINE row == txn[d].row
      <3>1. /\ session' = session /\ userLock' = d /\ txn'[d].row = row /\ txn'[d].at = "read"
            /\ txn'[d].family = session[row].family /\ txn'[d].version = session[row].version
            /\ session[row].status \notin {"over", "rotated"} /\ txn[d].op = "refresh" /\ txn[d].at = "account"
        BY <2>5 DEF Checks, Quiet, Left
      <3>2. row \in Sessions /\ session[row].status # "none" /\ session[row] \in Session
        BY <3>1 DEF SessionsInv, RowsExist, TypeOK
      <3>3. session[row].status = "live"
        BY <3>1, <3>2 DEF Session
      <3>4. \A s \in Sessions : session[s].status = "live" /\ session[s].family = session[row].family => s = row
        BY <3>2, <3>3 DEF SessionsInv, OneLivePerFamily
      <3> QED
        BY <3>1, <3>4
    <2> QED
      BY <2>2, <2>3, <2>4, <2>5
  <1>4. ASSUME NEW d \in Clients, Refreshing(d)'
        PROVE  Fits(d)
    <2>1. Stays(d) => Refreshing(d)
      BY <1>4 DEF Stays, Refreshing
    <2> QED
      BY <1>2, <1>3, <1>4, <2>1, SessionBystander
  <1> QED
    BY <1>4 DEF RefreshFits

\* Who will raise the version still has the account locked.
LEMMA RaisesStep ==
  ASSUME SessionsInv, [Next]_vars
  PROVE  RaisesFit'
  <1> SUFFICES ASSUME NEW d \in Clients, Raising(d)'
               PROVE  userLock' = d /\ txn'[d].version = user'.version + 1
    BY DEF RaisesFit
  <1>1. Raises(txn'[d].op) /\ txn'[d].at \in {"sweep", "apply"}
    BY DEF Raising, Raises
  <1>2. Raising(d) => userLock = d /\ txn[d].version = user.version + 1
    BY DEF SessionsInv, RaisesFit
  <1>3. CASE Stays(d)
    <2>1. Raising(d)
      BY <1>1, <1>3 DEF Stays, Raising
    <2> QED
      BY <1>2, <1>3, <2>1 DEF Stays
  <1>4. CASE Asks(d)
    <2>1. Waits(d) \/ Moves(d) \/ Claims(d)
      <3> USE DEF Same, Left, Stops, Raises
      <3>1. ~Quits(d) /\ ~Starts(d)
        BY <1>1 DEF Quits, Starts
      <3>2. ~Checks(d) /\ ~Confirms(d) /\ ~Phones(d)
        BY <1>1 DEF Checks, Confirms, Phones
      <3>3. ~EndsSome(d) /\ ~EndsAll(d) /\ ~\E s \in Sessions : Creates(d, s) \/ Rotates(d, s)
        BY <1>1 DEF EndsSome, EndsAll, Creates, Rotates
      <3> QED
        BY <1>4, <3>1, <3>2, <3>3 DEF Asks
    <2>2. CASE Waits(d) \/ Moves(d)
      <3>1. Raising(d) /\ userLock' = userLock /\ user' = user /\ txn'[d].version = txn[d].version
        BY <1>1, <2>2 DEF Waits, Moves, Quiet, Same, Left, Raising, Raises
      <3> QED
        BY <1>2, <3>1
    <2>3. CASE Claims(d)
      BY <2>3 DEF Claims, Quiet, Same, Left
    <2> QED
      BY <2>1, <2>2, <2>3
  <1> QED
    BY <1>3, <1>4, SessionBystander

\* Only a request that begins has a version more to raise, and who raises one
\* is done.
LEMMA RaisersMove ==
  ASSUME SessionsInv, NEW c \in Clients, Asks(c)
  PROVE  \/ user'.version = user.version /\ Raisers' \subseteq Raisers
         \/ user'.version = user.version /\ VersionsLeft /\ Raisers' \subseteq Raisers \cup {c}
            /\ txn[c].at = "idle"
         \/ user'.version = user.version + 1 /\ c \in Raisers /\ Raisers' \subseteq Raisers \ {c}
  <1>1. \A d \in Clients \ {c} : txn'[d] = txn[d]
    BY AsksLeave DEF Left
  <1> DEFINE Still(d) == Raises(txn'[d].op) /\ txn'[d].at \notin {"idle", "insert"}
  <1>2. ASSUME ~Still(c) \/ c \in Raisers
        PROVE  Raisers' \subseteq Raisers
    BY <1>1, <1>2 DEF Raisers, Raises
  <1> USE DEF Same, Left, Stops, Raises, Quiet
  <1>3. CASE Waits(c) \/ Moves(c) \/ Claims(c)
    <2>1. user' = user /\ (Still(c) => c \in Raisers)
      BY <1>3 DEF Waits, Moves, Claims, Raisers
    <2> HIDE DEF Still
    <2> QED
      BY <1>2, <2>1
  <1>4. CASE Quits(c) \/ Checks(c) \/ Confirms(c) \/ Phones(c) \/ EndsSome(c)
    <2>1. user' = user /\ ~Still(c)
      BY <1>4 DEF Quits, Checks, Confirms, Phones, EndsSome
    <2> HIDE DEF Still
    <2> QED
      BY <1>2, <2>1
  <1>5. CASE \E s \in Sessions : Creates(c, s) \/ Rotates(c, s)
    <2>1. user' = user /\ ~Still(c)
      BY <1>5 DEF Creates, Rotates
    <2> HIDE DEF Still
    <2> QED
      BY <1>2, <2>1
  <1>6. CASE Starts(c)
    <2>1. user' = user /\ txn[c].at = "idle" /\ (Still(c) => VersionsLeft)
      BY <1>6 DEF Starts
    <2>2. Raisers' \subseteq Raisers \cup {c}
      BY <1>1 DEF Raisers
    <2> HIDE DEF Still
    <2> QED
      BY <1>2, <2>1, <2>2
  <1>7. CASE EndsAll(c)
    <2>1. Raises(txn[c].op) /\ txn[c].at = "apply" /\ ~Still(c) /\ user'.version = txn[c].version
      BY <1>7 DEF EndsAll
    <2>2. txn[c].version = user.version + 1 /\ c \in Raisers
      BY <2>1 DEF SessionsInv, RaisesFit, Raising, Raisers
    <2>3. Raisers' \subseteq Raisers \ {c}
      BY <1>1, <2>1 DEF Raisers
    <2> QED
      BY <2>1, <2>2, <2>3
  <1> HIDE DEF Same, Left, Stops, Raises, Quiet
  <1> QED
    BY <1>3, <1>4, <1>5, <1>6, <1>7 DEF Asks

LEMMA VersionsStep ==
  ASSUME SessionsInv, [Next]_vars
  PROVE  VersionsFit'
  <1> DEFINE before == Raisers
             after == Raisers'
             count == Cardinality(Raisers)
             begun == {c \in Clients : txn[c].at # "idle" /\ Raises(txn[c].op)}
  <1>1. IsFiniteSet(before) /\ count \in Nat /\ \A c \in before : Cardinality(before \ {c}) = count - 1
    BY RaisersCount
  <1>2. user.version \in Nat /\ user.version + count <= MaxVersion /\ MaxVersion \in Nat
    BY SessionsAssumption DEF SessionsInv, VersionsFit, TypeOK, Versions
  <1>3. count = Cardinality(before)
    OBVIOUS
  <1>4. VersionsFit' <=> user'.version + Cardinality(after) <= MaxVersion
    BY DEF VersionsFit
  <1>5. before \subseteq begun /\ begun \subseteq Clients
    BY DEF Raisers
  <1>6. VersionsLeft => user.version + Cardinality(begun) < MaxVersion
    BY DEF VersionsLeft
  <1>7. CASE Elsewhere
    <2>1. after = before
      BY <1>7 DEF Elsewhere, Raisers, Raises
    <2>2. user'.version = user.version
      BY <1>7 DEF Elsewhere, SessionsInv, TypeOK
    <2> HIDE DEF before, after, count, begun
    <2> QED
      BY <1>2, <1>3, <1>4, <2>1, <2>2
  <1>8. ASSUME NEW c \in Clients, Asks(c)
        PROVE  VersionsFit'
    <2>1. \/ user'.version = user.version /\ after \subseteq before
          \/ user'.version = user.version /\ VersionsLeft /\ after \subseteq before \cup {c} /\ txn[c].at = "idle"
          \/ user'.version = user.version + 1 /\ c \in before /\ after \subseteq before \ {c}
      BY <1>8, RaisersMove
    <2>2. txn[c].at = "idle" => c \notin before
      BY DEF Raisers
    <2> HIDE DEF before, after, count, begun
    <2>3. CASE user'.version = user.version /\ after \subseteq before
      <3>1. Cardinality(after) <= count /\ Cardinality(after) \in Nat
        BY <1>1, <1>3, <2>3, FS_Subset, FS_CardinalityType
      <3> QED
        BY <1>1, <1>2, <1>4, <2>3, <3>1
    <2>4. CASE user'.version = user.version /\ VersionsLeft /\ after \subseteq before \cup {c} /\ txn[c].at = "idle"
      <3> DEFINE more == before \cup {c}
      <3>1. IsFiniteSet(more) /\ Cardinality(more) = count + 1
        BY <1>1, <1>3, <2>2, <2>4, FS_AddElement
      <3> HIDE DEF more
      <3>2. after \subseteq more
        BY <2>4 DEF more
      <3>3. Cardinality(after) <= count + 1 /\ Cardinality(after) \in Nat
        BY <3>1, <3>2, FS_Subset, FS_CardinalityType
      <3>4. IsFiniteSet(begun) /\ Cardinality(begun) \in Nat
        BY <1>5, SessionsAssumption, FS_Subset, FS_CardinalityType
      <3>5. count <= Cardinality(begun)
        BY <1>3, <1>5, <3>4, FS_Subset
      <3> QED
        BY <1>1, <1>2, <1>4, <1>6, <2>4, <3>3, <3>4, <3>5
    <2>5. CASE user'.version = user.version + 1 /\ c \in before /\ after \subseteq before \ {c}
      <3> DEFINE less == before \ {c}
      <3>1. IsFiniteSet(less) /\ Cardinality(less) = count - 1
        BY <1>1, <2>5, FS_RemoveElement
      <3> HIDE DEF less
      <3>2. after \subseteq less
        BY <2>5 DEF less
      <3>3. Cardinality(after) <= count - 1 /\ Cardinality(after) \in Nat
        BY <3>1, <3>2, FS_Subset, FS_CardinalityType
      <3> QED
        BY <1>1, <1>2, <1>4, <2>5, <3>3
    <2> QED
      BY <2>1, <2>3, <2>4, <2>5
  <1> QED
    BY <1>7, <1>8, NextAsks

\* One live token, one callback that marks, one request that exchanges.
LEMMA TokensStep ==
  ASSUME SessionsInv, [Next]_vars, NEW t \in Tokens, NEW o \in Tokens, token'[t] = "live", token'[o] = "live"
  PROVE  t = o
  <1>1. token \in [Tokens -> {"none", "live", "used"}]
    BY DEF SessionsInv, TypeOK
  <1>2. (token[t] = "live" /\ token[o] = "live") => t = o
    BY DEF SessionsInv, CodesFit
  <1>3. CASE \A u \in Tokens : token'[u] = "live" => token[u] = "live"
    BY <1>2, <1>3
  <1>4. ASSUME NEW u \in Tokens, RequestRecovery(u)
        PROVE  t = u /\ o = u
    BY <1>4 DEF RequestRecovery, Superseded
  <1>5. ASSUME NEW u \in Tokens, ExpireToken(u), NEW w \in Tokens, token'[w] = "live"
        PROVE  token[w] = "live"
    BY <1>1, <1>5 DEF ExpireToken
  <1>6. CASE Elsewhere
    BY <1>3, <1>4, <1>5, <1>6 DEF Elsewhere
  <1>7. ASSUME NEW c \in Clients, Asks(c), NEW w \in Tokens, token'[w] = "live"
        PROVE  token[w] = "live"
    <2>1. CASE EndsAll(c)
      BY <1>7, <2>1 DEF EndsAll
    <2>2. CASE Waits(c) \/ Quits(c) \/ Starts(c) \/ Moves(c) \/ Checks(c) \/ Confirms(c) \/ Claims(c)
      BY <1>7, <2>2 DEF Waits, Quits, Starts, Moves, Checks, Confirms, Claims, Quiet
    <2>3. CASE EndsSome(c) \/ Phones(c) \/ \E s \in Sessions : Creates(c, s) \/ Rotates(c, s)
      BY <1>7, <2>3 DEF EndsSome, Phones, Creates, Rotates
    <2> QED
      BY <1>7, <2>1, <2>2, <2>3 DEF Asks
  <1> QED
    BY <1>3, <1>6, <1>7, NextAsks

LEMMA PhoneMoves ==
  ASSUME SessionsInv, [Next]_vars
  PROVE  phone' = phone \/ phone = "none" \/ \E c \in Clients : Phones(c)
  <1>1. CASE Elsewhere
    BY <1>1 DEF Elsewhere
  <1>2. ASSUME NEW c \in Clients, Asks(c)
        PROVE  phone' = phone \/ Phones(c)
    <2>1. CASE Waits(c) \/ Quits(c) \/ Starts(c) \/ Moves(c) \/ Checks(c) \/ Confirms(c) \/ Claims(c)
      BY <2>1 DEF Waits, Quits, Starts, Moves, Checks, Confirms, Claims, Quiet
    <2>2. CASE EndsSome(c) \/ EndsAll(c) \/ \E s \in Sessions : Creates(c, s) \/ Rotates(c, s)
      BY <2>2 DEF EndsSome, EndsAll, Creates, Rotates
    <2> QED
      BY <1>2, <2>1, <2>2 DEF Asks
  <1> QED
    BY <1>1, <1>2, NextAsks

\* A request that marks or exchanges after the step did so before, or has
\* just consumed the state.
LEMMA CodesMove ==
  ASSUME SessionsInv, [Next]_vars, NEW d \in Clients
  PROVE  /\ Marking(d)' => \/ Marking(d) /\ ~Phones(d)
                           \/ phone = "pending" /\ phone' = "failed" /\ Phones(d)
         /\ Exchanging(d)' => \/ Exchanging(d) /\ ~Phones(d)
                              \/ phone = "completed" /\ phone' = "consumed" /\ Phones(d)
  <1> USE DEF Same, Left, Stops
  <1>1. CASE Stays(d) /\ ~Phones(d)
    BY <1>1 DEF Stays, Marking, Exchanging
  <1>2. CASE Phones(d)
    BY <1>2 DEF Phones, Marking, Exchanging
  <1>3. CASE Asks(d) /\ ~Phones(d)
    <2>1. CASE Waits(d) \/ Moves(d)
      BY <1>3, <2>1 DEF Waits, Moves, Marking, Exchanging, Raises
    <2>2. CASE Quits(d) \/ Checks(d) \/ Confirms(d) \/ Claims(d)
      BY <2>2 DEF Quits, Checks, Confirms, Claims, Marking, Exchanging, Raises
    <2>3. CASE Starts(d)
      BY <2>3 DEF Starts, Marking, Exchanging
    <2>4. CASE EndsSome(d) \/ EndsAll(d) \/ \E s \in Sessions : Creates(d, s) \/ Rotates(d, s)
      BY <2>4 DEF EndsSome, EndsAll, Creates, Rotates, Marking, Exchanging
    <2> QED
      BY <1>3, <2>1, <2>2, <2>3, <2>4 DEF Asks
  <1> QED
    BY <1>1, <1>2, <1>3, SessionBystander

LEMMA CodesStep ==
  ASSUME SessionsInv, [Next]_vars
  PROVE  CodesFit'
  <1>1. ASSUME NEW c \in Clients
        PROVE  (Marking(c) => phone = "failed") /\ (Exchanging(c) => phone = "consumed")
    BY DEF SessionsInv, CodesFit
  <1>2. ASSUME NEW c \in Clients, NEW d \in Clients, (Marking(c) /\ Marking(d)) \/ (Exchanging(c) /\ Exchanging(d))
        PROVE  c = d
    BY <1>2 DEF SessionsInv, CodesFit
  <1>3. ASSUME NEW c \in Clients, Phones(c)
        PROVE  \/ phone = "pending" /\ phone' = "failed"
               \/ phone = "failed" /\ phone' = "completed" /\ Marking(c)
               \/ phone = "completed" /\ phone' = "consumed"
    BY <1>1, <1>3 DEF Phones, Marking
  <1>4. ASSUME NEW d \in Clients, Marking(d)'
        PROVE  phone' = "failed"
    <2>1. CASE Marking(d) /\ ~Phones(d)
      BY <1>1, <1>2, <1>3, <2>1, PhoneMoves
    <2> QED
      BY <1>4, <2>1, CodesMove
  <1>5. ASSUME NEW d \in Clients, Exchanging(d)'
        PROVE  phone' = "consumed"
    <2>1. CASE Exchanging(d) /\ ~Phones(d)
      BY <1>1, <1>3, <2>1, PhoneMoves
    <2> QED
      BY <1>5, <2>1, CodesMove
  <1>6. ASSUME NEW c \in Clients, NEW d \in Clients, Phones(c), Phones(d)
        PROVE  c = d
    <2>1. Asks(c)
      BY <1>6 DEF Asks
    <2>2. txn'[d] # txn[d]
      BY <1>6 DEF Phones, Same, Left, Stops
    <2>3. c # d => txn'[d] = txn[d]
      BY <2>1, AsksLeave DEF Left
    <2> QED
      BY <2>2, <2>3
  <1>7. ASSUME NEW c \in Clients, NEW d \in Clients, (Marking(c)' /\ Marking(d)') \/ (Exchanging(c)' /\ Exchanging(d)')
        PROVE  c = d
    BY <1>1, <1>2, <1>6, <1>7, CodesMove
  <1> QED
    BY <1>4, <1>5, <1>7, TokensStep DEF CodesFit

\* Every step keeps the types.
LEMMA TypesStep ==
  ASSUME SessionsInv, [Next]_vars
  PROVE  TypeOK'
  <1>1. TypeOK
    BY DEF SessionsInv
  <1>2. rowLock' \in [Sessions -> Clients \cup {None}] /\ tokenLock' \in [Tokens -> Clients \cup {None}]
    BY RowLocksTyped
  <1>3. txn' \in [Clients -> Txn]
    <2>1. CASE Elsewhere
      BY <1>1, <2>1 DEF Elsewhere, TypeOK
    <2>2. ASSUME NEW c \in Clients, Asks(c)
          PROVE  txn' \in [Clients -> Txn]
      BY <2>2, AsksLeave DEF Left
    <2> QED
      BY <2>1, <2>2, NextAsks
  <1>4. session' \in [Sessions -> Session]
    <2>1. CASE session' = session
      BY <1>1, <2>1 DEF TypeOK
    <2>2. ASSUME NEW set \in SUBSET Sessions, session' = Over(set)
          PROVE  session' \in [Sessions -> Session]
      BY <1>1, <2>2, OverTyped
    <2>3. ASSUME NEW c \in Clients, NEW s \in Sessions, Creates(c, s)
          PROVE  session' \in [Sessions -> Session]
      <3>1. session' = [session EXCEPT ![s] = Inserted(c, s)] /\ Inserted(c, s) \in Session
        BY <1>1, <2>3, InsertedTyped DEF Creates
      <3> QED
        BY <1>1, <3>1 DEF TypeOK
    <2>4. ASSUME NEW c \in Clients, NEW s \in Sessions, Rotates(c, s)
          PROVE  session' \in [Sessions -> Session]
      <3> DEFINE row == txn[c].row
                 st == IF session[row].status = "live" THEN "rotated" ELSE session[row].status
                 old == [session[row] EXCEPT !.status = st]
                 new == Inserted(c, s)
      <3>1. row \in Sessions
        BY <2>4, RotateFacts
      <3>2. session' = [session EXCEPT ![row].status = IF @ = "live" THEN "rotated" ELSE @, ![s] = new]
        BY <2>4 DEF Rotates
      <3>3. session' = [[session EXCEPT ![row] = old] EXCEPT ![s] = new]
        BY <1>1, <3>1, <3>2 DEF TypeOK
      <3>4. new \in Session
        BY <1>1, InsertedTyped
      <3>5. old \in Session
        BY <1>1, <3>1 DEF TypeOK, Session
      <3> HIDE DEF old, new, row
      <3> QED
        BY <1>1, <3>1, <3>3, <3>4, <3>5 DEF TypeOK
    <2> QED
      BY <2>1, <2>2, <2>3, <2>4, SessionMoves
  <1>5. /\ user' \in [version: Versions, active: BOOLEAN] /\ userLock' \in Clients \cup {None}
        /\ token' \in [Tokens -> {"none", "live", "used"}]
        /\ phone' \in {"none", "pending", "failed", "completed", "consumed"}
    <2>1. CASE Elsewhere
      <3>1. user' \in [version: Versions, active: BOOLEAN] /\ userLock' \in Clients \cup {None}
            /\ phone' \in {"none", "pending", "failed", "completed", "consumed"}
        BY <1>1, <2>1 DEF Elsewhere, TypeOK
      <3>2. ASSUME NEW t \in Tokens, RequestRecovery(t) \/ ExpireToken(t)
            PROVE  token' \in [Tokens -> {"none", "live", "used"}]
        BY <1>1, <3>2 DEF RequestRecovery, ExpireToken, Superseded, TypeOK
      <3>3. token' \in [Tokens -> {"none", "live", "used"}]
        BY <1>1, <2>1, <3>2 DEF Elsewhere, TypeOK
      <3> QED
        BY <3>1, <3>3
    <2>2. ASSUME NEW c \in Clients, Asks(c)
          PROVE  /\ user' \in [version: Versions, active: BOOLEAN] /\ userLock' \in Clients \cup {None}
                 /\ token' \in [Tokens -> {"none", "live", "used"}]
                 /\ phone' \in {"none", "pending", "failed", "completed", "consumed"}
      <3>1. CASE Waits(c) \/ Quits(c) \/ Starts(c) \/ Moves(c) \/ Checks(c) \/ Confirms(c) \/ Claims(c)
        BY <1>1, <3>1 DEF Waits, Quits, Starts, Moves, Checks, Confirms, Claims, Quiet, TypeOK
      <3>2. CASE EndsSome(c) \/ Phones(c) \/ \E s \in Sessions : Creates(c, s) \/ Rotates(c, s)
        BY <1>1, <3>2 DEF EndsSome, Phones, Creates, Rotates, TypeOK
      <3>3. CASE EndsAll(c)
        <4>1. txn[c].version \in Versions
          BY <1>1 DEF TypeOK, Txn
        <4> QED
          BY <1>1, <3>3, <4>1 DEF EndsAll, TypeOK
      <3> QED
        BY <2>2, <3>1, <3>2, <3>3 DEF Asks
    <2> QED
      BY <2>1, <2>2, NextAsks
  <1> QED
    BY <1>2, <1>3, <1>4, <1>5 DEF TypeOK

\* At the beginning there is no session and no request.
LEMMA SessionsStart == Init => SessionsInv
  <1> SUFFICES ASSUME Init
               PROVE  SessionsInv
    OBVIOUS
  <1>1. TypeOK
    <2>1. NoSession \in Session /\ 0 \in Versions
      BY SessionsAssumption DEF NoSession, Session, Versions
    <2> QED
      BY <2>1, IdleTyped DEF Init, TypeOK
  <1>2. /\ \A c \in Clients : /\ txn[c].op = "login" /\ txn[c].at = "idle" /\ txn[c].family = 0
                              /\ txn[c].hits = {}
        /\ \A s \in Sessions : session[s].status = "none"
        /\ \A t \in Tokens : token[t] = "none"
    BY DEF Init, Idle, NoSession
  <1>3. RowsExist /\ FamiliesFit /\ OneLivePerFamily /\ RefreshFits /\ RaisesFit
    BY <1>2 DEF RowsExist, FamiliesFit, OneLivePerFamily, RefreshFits, Refreshing, RaisesFit, Raising, Raises
  <1>4. VersionsFit
    <2>1. Raisers = {}
      BY <1>2 DEF Raisers
    <2>2. user.version = 0
      BY DEF Init
    <2> QED
      BY <2>1, <2>2, FS_EmptySet, SessionsAssumption DEF VersionsFit
  <1>5. CodesFit
    BY <1>2 DEF CodesFit, Marking, Exchanging
  <1> QED
    BY <1>1, <1>3, <1>4, <1>5 DEF SessionsInv

\* The invariant of the sessions holds.
THEOREM SessionsInvHolds == Spec => []SessionsInv
  <1>1. SessionsInv /\ [Next]_vars => SessionsInv'
    <2> SUFFICES ASSUME SessionsInv, [Next]_vars
                 PROVE  SessionsInv'
      OBVIOUS
    <2>1. TypeOK' /\ RowsExist' /\ FamiliesFit' /\ OneLivePerFamily'
      BY TypesStep, RowsExistStep, FamiliesStep, OneLiveStep
    <2>2. RefreshFits' /\ RaisesFit' /\ VersionsFit' /\ CodesFit'
      BY RefreshStep, RaisesStep, VersionsStep, CodesStep
    <2> QED
      BY <2>1, <2>2 DEF SessionsInv
  <1> QED
    BY <1>1, SessionsStart, PTL DEF Spec

\* However often and however concurrently the tokens of a family are
\* presented, one session of it at most is live: the account is locked from the
\* check to the COMMIT of a refresh, so that no two of them rotate one session.
THEOREM FamilyIsAChain == Spec => []OneLivePerFamily
  <1>1. SessionsInv => OneLivePerFamily
    BY DEF SessionsInv
  <1> QED
    BY <1>1, SessionsInvHolds, PTL

\* A refresh that is about to insert has the account as it was checked: active,
\* and with the version the session was made for.
THEOREM RefreshIsCurrent == Spec => []RefreshedIsCurrent
  <1>1. SessionsInv => RefreshedIsCurrent
    BY DEF SessionsInv, RefreshFits, Refreshing, RefreshedIsCurrent, At
  <1> QED
    BY <1>1, SessionsInvHolds, PTL

\* One recovery link is live at a time, and the code of a sign-in by phone is
\* exchanged by one request.
THEOREM CodesAreSingle == Spec => []CodesWorkOnce
  <1>1. SessionsInv => CodesWorkOnce
    <2> SUFFICES ASSUME SessionsInv
                 PROVE  CodesWorkOnce
      OBVIOUS
    <2> DEFINE exchanging == {c \in Clients : txn[c].op = "handoff" /\ txn[c].at \in {"read", "touch", "insert"}}
    <2>1. \A t, o \in Tokens : token[t] = "live" /\ token[o] = "live" => t = o
      BY DEF SessionsInv, CodesFit
    <2>2. \A c \in exchanging : phone = "consumed"
      BY DEF SessionsInv, CodesFit, Exchanging
    <2>3. \A c, d \in exchanging : c = d
      BY DEF SessionsInv, CodesFit, Exchanging
    <2> HIDE DEF exchanging
    <2>4. Cardinality(exchanging) <= 1
      <3>1. CASE exchanging = {}
        BY <3>1, FS_EmptySet
      <3>2. ASSUME NEW c \in exchanging
            PROVE  Cardinality(exchanging) <= 1
        <4>1. exchanging = {c}
          BY <2>3, <3>2
        <4>2. Cardinality({c}) = 1
          BY FS_Singleton
        <4> QED
          BY <4>1, <4>2
      <3> QED
        BY <3>1, <3>2
    <2> QED
      BY <2>1, <2>2, <2>4 DEF CodesWorkOnce, exchanging
  <1> QED
    BY <1>1, SessionsInvHolds, PTL

=============================================================================
