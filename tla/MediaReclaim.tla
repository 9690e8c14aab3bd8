---------------------------- MODULE MediaReclaim ----------------------------
(***************************************************************************)
(* The files of one player: an upload is reserved, put into object storage *)
(* by the player's device under a signed URL, inspected, and bound to the  *)
(* profile or to a submission.  The player deletes files, and an hourly    *)
(* sweep those that nothing refers to.                                     *)
(*                                                                         *)
(* The database and the bucket are written by different steps, and any of  *)
(* the processes may stop between two.  A request that locks a row         *)
(* (lock) keeps it until it commits.  Instead of a clock there are sets of *)
(* what has not run out yet, grants and leased; the age of a completed     *)
(* upload may always be over.                                              *)
(*                                                                         *)
(* Left out: sizes and types (a file is good or not when it is looked at), *)
(* posters and exports, which have no upload.                              *)
(***************************************************************************)
EXTENDS Integers, FiniteSets

CONSTANTS
  Objects,    \* ids of media_objects, each with its own object_key
  Devices,    \* of the player, each with one request at a time
  Sweepers,   \* workers that run the sweep
  Nobody,
  MaxObjects  \* quota of each kind

ASSUME MediaAssumption ==
  /\ Nobody \notin Objects \cup Devices \cup Sweepers
  /\ Devices \cap Sweepers = {}
  /\ IsFiniteSet(Objects) /\ MaxObjects \in Nat

VARIABLES
  object,    \* media_objects
  linked,    \* the objects of media_submission_links
  avatar,    \* profiles.avatar_url
  stored,    \* the objects whose bytes are in the bucket
  grants,    \* upload_expires_at and the grace after it have not passed
  leased,    \* reclaim_lease_until has not passed
  quotaLock, \* pg_advisory_xact_lock of media-quota
  lock,      \* who has locked each row of media_objects
  request,
  sweeper

mediaRows == <<object, linked, avatar>>
clocks == <<grants, leased>>
mediaLocks == <<quotaLock, lock>>
mediaVars == <<object, linked, avatar, stored, grants, leased,
               quotaLock, lock, request, sweeper>>

-----------------------------------------------------------------------------
Kinds == {"avatar", "submission"}

\* tomb: reclaim_started_at is set.  byOwner: reclaim_reason is user_deleted.
\* token: whose claim it is.  erased: storage_deleted_at is set.
Object == [status: {"none", "pending", "ready", "rejected", "deleted"}, kind: Kinds,
           tomb: BOOLEAN, byOwner: BOOLEAN, token: Sweepers \cup {Nobody}, erased: BOOLEAN]
NoObject == [status |-> "none", kind |-> "avatar", tomb |-> FALSE, byOwner |-> FALSE,
             token |-> Nobody, erased |-> FALSE]

RequestState == [at: {"idle", "reserve", "ready", "reject", "erase", "bind"},
                 object: Objects \cup {Nobody}, kind: Kinds, fits: BOOLEAN]
IdleRequest == [at |-> "idle", object |-> Nobody, kind |-> "avatar", fits |-> FALSE]

Sweeper == [at: {"idle", "select", "tombstone", "erase"},
            batch: SUBSET Objects, done: SUBSET Objects]
IdleSweeper == [at |-> "idle", batch |-> {}, done |-> {}]

MediaInit ==
  /\ object = [o \in Objects |-> NoObject]
  /\ linked = {} /\ avatar = Nobody
  /\ stored = {} /\ grants = {} /\ leased = {}
  /\ quotaLock = Nobody /\ lock = [o \in Objects |-> Nobody]
  /\ request = [c \in Devices |-> IdleRequest]
  /\ sweeper = [s \in Sweepers |-> IdleSweeper]

-----------------------------------------------------------------------------
(* createIntent() *)

Exists(o) == object[o].status # "none"
Open(o) == object[o].status \in {"pending", "ready"} /\ ~object[o].tomb
RowFree(o) == lock[o] = Nobody

\* What counts against the quota.
Counted(kind) ==
  {o \in Objects : object[o].kind = kind /\ object[o].status \in {"pending", "ready", "rejected"}}

Goes(c, r) == request' = [request EXCEPT ![c] = r]
Ends(c) == Goes(c, IdleRequest)

\* Variant: the count is taken without the advisory lock.
QuotaUnlocked(c) == TRUE

QuotaLocked(c) == quotaLock = Nobody

\* The lock, the row of an earlier try, the count.
Reserve(c, o, kind) ==
  /\ request[c].at = "idle"
  /\ QuotaLocked(c) /\ RowFree(o)
  /\ quotaLock' = c
  /\ lock' = IF Exists(o) THEN [lock EXCEPT ![o] = c] ELSE lock
  /\ Goes(c, [at |-> "reserve", object |-> o, kind |-> kind,
              fits |-> Cardinality(Counted(kind)) < MaxObjects])
  /\ UNCHANGED <<mediaRows, stored, clocks, sweeper>>

Unlock(p) ==
  /\ quotaLock' = IF quotaLock = p THEN Nobody ELSE quotaLock
  /\ lock' = [o \in Objects |-> IF lock[o] = p THEN Nobody ELSE lock[o]]

\* A retry of an open intent is given its URL again, for as long again.
ReserveCommits(c) ==
  LET o == request[c].object
      again == Exists(o) /\ Open(o) /\ object[o].kind = request[c].kind
      first == ~Exists(o) /\ request[c].fits
  IN /\ request[c].at = "reserve"
     /\ grants' = IF again \/ first THEN grants \cup {o} ELSE grants
     /\ object' = IF first
                  THEN [object EXCEPT ![o] = [NoObject EXCEPT !.status = "pending", !.kind = request[c].kind]]
                  ELSE object
     /\ Unlock(c) /\ Ends(c)
     /\ UNCHANGED <<linked, avatar, stored, leased, sweeper>>

\* The device puts the file, once or again, whatever became of the row.
Upload(o) ==
  /\ o \in grants \ stored
  /\ stored' = stored \cup {o}
  /\ UNCHANGED <<mediaRows, clocks, mediaLocks, request, sweeper>>

-----------------------------------------------------------------------------
(* complete() *)

Completable(o) == object[o].status = "pending" /\ ~object[o].tomb

\* The row is open; what is stored is valid, or not, or nothing yet.
Complete(c, o) ==
  /\ request[c].at = "idle"
  /\ Completable(o) /\ o \in stored
  /\ \E verdict \in {"ready", "reject"} :
       Goes(c, [IdleRequest EXCEPT !.at = verdict, !.object = o])
  /\ UNCHANGED <<mediaRows, stored, clocks, mediaLocks, sweeper>>

MarkReady(c) ==
  LET o == request[c].object
  IN /\ request[c].at = "ready" /\ RowFree(o)
     /\ IF Completable(o)
        THEN object' = [object EXCEPT ![o].status = "ready"]
        ELSE UNCHANGED object
     /\ Ends(c)
     /\ UNCHANGED <<linked, avatar, stored, clocks, mediaLocks, sweeper>>

MarkRejected(c) ==
  LET o == request[c].object
  IN /\ request[c].at = "reject" /\ RowFree(o)
     /\ IF Completable(o)
        THEN object' = [object EXCEPT ![o].status = "rejected"] /\ Goes(c, [request[c] EXCEPT !.at = "erase"])
        ELSE UNCHANGED object /\ Ends(c)
     /\ UNCHANGED <<linked, avatar, stored, clocks, mediaLocks, sweeper>>

\* storage.delete() of a rejected or deleted file; that it fails is ignored,
\* or told to the player.
Erase(c) ==
  /\ request[c].at = "erase"
  /\ stored' = stored \ {request[c].object}
  /\ Ends(c)
  /\ UNCHANGED <<mediaRows, clocks, mediaLocks, sweeper>>

-----------------------------------------------------------------------------
(* ProfilesRepository.update(), SubmissionsRepository.create(), delete() *)

Bind(c, o) ==
  /\ request[c].at = "idle"
  /\ RowFree(o) /\ object[o].status = "ready" /\ ~object[o].tomb
  /\ lock' = [lock EXCEPT ![o] = c]
  /\ Goes(c, [IdleRequest EXCEPT !.at = "bind", !.object = o])
  /\ UNCHANGED <<mediaRows, stored, clocks, quotaLock, sweeper>>

\* Submissions are never deleted but in their status: their links stay.
BindCommits(c) ==
  LET o == request[c].object
  IN /\ request[c].at = "bind"
     /\ IF object[o].kind = "avatar" THEN avatar' = o /\ UNCHANGED linked
        ELSE linked' = linked \cup {o} /\ UNCHANGED avatar
     /\ Unlock(c) /\ Ends(c)
     /\ UNCHANGED <<object, stored, clocks, sweeper>>

ClearAvatar ==
  /\ avatar # Nobody
  /\ avatar' = Nobody
  /\ UNCHANGED <<object, linked, stored, clocks, mediaLocks, request, sweeper>>

\* markDeleted(): whether or not a submission uses it.
MarkDeleted(c, o) ==
  /\ request[c].at = "idle"
  /\ Exists(o) /\ RowFree(o)
  /\ object' = [object EXCEPT ![o].status = "deleted", ![o].tomb = TRUE,
                                ![o].byOwner = @ \/ ~object[o].tomb]
  /\ avatar' = IF avatar = o THEN Nobody ELSE avatar
  /\ Goes(c, [IdleRequest EXCEPT !.at = "erase", !.object = o])
  /\ UNCHANGED <<linked, stored, clocks, mediaLocks, sweeper>>

-----------------------------------------------------------------------------
(* MediaReclaimService.sweep() *)

\* Variant: an upload's URL is not waited for.
ReclaimableAtOnce(o) ==
  /\ Exists(o) /\ ~object[o].erased /\ o \notin leased
  /\ \/ object[o].tomb \/ object[o].status \in {"pending", "rejected"}
     \/ object[o].status = "ready" /\ avatar # o /\ o \notin linked

Reclaimable(o) ==
  /\ Exists(o) /\ ~object[o].erased /\ o \notin leased /\ o \notin grants
  /\ \/ object[o].tomb \/ object[o].status \in {"pending", "rejected"}
     \/ object[o].status = "ready" /\ avatar # o /\ o \notin linked

Turns(s, r) == sweeper' = [sweeper EXCEPT ![s] = r]

\* The selection reads a snapshot, ...
Select(s) ==
  LET found == {o \in Objects : Reclaimable(o)}
  IN /\ sweeper[s].at = "idle" /\ found # {}
     /\ Turns(s, [IdleSweeper EXCEPT !.at = "select", !.batch = found])
     /\ UNCHANGED <<mediaRows, stored, clocks, mediaLocks, request>>

\* ... mediaLocks what nobody has locked, ...
LockRows(s) ==
  LET free == {o \in sweeper[s].batch : RowFree(o) /\ Exists(o)}
  IN /\ sweeper[s].at = "select"
     /\ IF free = {} THEN Turns(s, IdleSweeper) /\ UNCHANGED lock
        ELSE /\ Turns(s, [sweeper[s] EXCEPT !.at = "tombstone", !.batch = free])
             /\ lock' = [o \in Objects |-> IF o \in free THEN s ELSE lock[o]]
     /\ UNCHANGED <<mediaRows, stored, clocks, quotaLock, request>>

\* Variant: what was selected is not looked at again.
Selected(s) == sweeper[s].batch

Confirmed(s) == {o \in sweeper[s].batch : Reclaimable(o)}

\* ... and the UPDATE looks again.
Tombstone(s) ==
  LET hits == Confirmed(s)
  IN /\ sweeper[s].at = "tombstone"
     /\ object' = [o \in Objects |->
          IF o \in hits THEN [object[o] EXCEPT !.tomb = TRUE, !.token = s] ELSE object[o]]
     /\ leased' = leased \cup hits
     /\ Turns(s, IF hits = {} THEN IdleSweeper ELSE [IdleSweeper EXCEPT !.at = "erase", !.batch = hits])
     /\ Unlock(s)
     /\ UNCHANGED <<linked, avatar, stored, grants, request>>

Deletes(s, o) ==
  /\ sweeper[s].at = "erase" /\ o \in sweeper[s].batch
  /\ stored' = stored \ {o}
  /\ Turns(s, [sweeper[s] EXCEPT !.batch = @ \ {o}, !.done = @ \cup {o}])
  /\ UNCHANGED <<mediaRows, clocks, mediaLocks, request>>

\* The storage refuses: releaseReclaim().
Releases(s, o) ==
  /\ sweeper[s].at = "erase" /\ o \in sweeper[s].batch
  /\ leased' = IF object[o].token = s /\ ~object[o].erased THEN leased \ {o} ELSE leased
  /\ Turns(s, [sweeper[s] EXCEPT !.batch = @ \ {o}])
  /\ UNCHANGED <<mediaRows, stored, grants, mediaLocks, request>>

\* markReclaimed()
MarkReclaimed(s) ==
  LET mine == {o \in sweeper[s].done : object[o].token = s /\ object[o].tomb /\ ~object[o].erased}
  IN /\ sweeper[s].at = "erase" /\ sweeper[s].batch = {}
     /\ \A o \in mine : RowFree(o)
     /\ object' = [o \in Objects |->
          IF o \in mine THEN [object[o] EXCEPT !.status = "deleted", !.erased = TRUE] ELSE object[o]]
     /\ leased' = leased \ mine
     /\ Turns(s, IdleSweeper)
     /\ UNCHANGED <<linked, avatar, stored, grants, mediaLocks, request>>

-----------------------------------------------------------------------------
(* Time, and processes that die *)

UploadExpires(o) ==
  /\ o \in grants /\ grants' = grants \ {o}
  /\ UNCHANGED <<mediaRows, stored, leased, mediaLocks, request, sweeper>>

LeaseEnds(o) ==
  /\ o \in leased /\ leased' = leased \ {o}
  /\ UNCHANGED <<mediaRows, stored, grants, mediaLocks, request, sweeper>>

RequestDies(c) ==
  /\ request[c].at # "idle"
  /\ Unlock(c) /\ Ends(c)
  /\ UNCHANGED <<mediaRows, stored, clocks, sweeper>>

SweeperDies(s) ==
  /\ sweeper[s].at # "idle"
  /\ Unlock(s) /\ Turns(s, IdleSweeper)
  /\ UNCHANGED <<mediaRows, stored, clocks, request>>

-----------------------------------------------------------------------------
Request(c) ==
  \/ \E o \in Objects : (\E k \in Kinds : Reserve(c, o, k)) \/ Complete(c, o) \/ Bind(c, o) \/ MarkDeleted(c, o)
  \/ ReserveCommits(c) \/ MarkReady(c) \/ MarkRejected(c) \/ Erase(c)
  \/ BindCommits(c) \/ RequestDies(c)

Sweep(s) ==
  \/ Select(s) \/ LockRows(s) \/ Tombstone(s) \/ MarkReclaimed(s) \/ SweeperDies(s)
  \/ \E o \in Objects : Deletes(s, o) \/ Releases(s, o)

Time == \E o \in Objects : UploadExpires(o) \/ LeaseEnds(o)

MediaNext ==
  \/ \E c \in Devices : Request(c)
  \/ \E s \in Sweepers : Sweep(s)
  \/ Time \/ ClearAvatar \/ \E o \in Objects : Upload(o)

MediaSpec == MediaInit /\ [][MediaNext]_mediaVars

-----------------------------------------------------------------------------
MediaTypeOK ==
  /\ object \in [Objects -> Object]
  /\ linked \subseteq Objects /\ avatar \in Objects \cup {Nobody}
  /\ stored \subseteq Objects /\ grants \subseteq Objects
  /\ leased \subseteq Objects
  /\ quotaLock \in Devices \cup {Nobody} /\ lock \in [Objects -> Devices \cup Sweepers \cup {Nobody}]
  /\ request \in [Devices -> RequestState] /\ sweeper \in [Sweepers -> Sweeper]

\* The player never holds more files of one kind than the quota allows,
\* however many reservations run at once.
QuotaHolds == \A k \in Kinds : Cardinality(Counted(k)) <= MaxObjects

\* The bytes of the avatar and of a submission's file are in the bucket,
\* whatever the sweep does while they are bound, unless their owner has
\* deleted the file.
BoundStaysStored ==
  \A o \in Objects :
    (avatar = o \/ o \in linked) /\ ~object[o].byOwner
    => o \in stored /\ ~object[o].tomb

\* A file the database says is gone from the bucket is gone from it: no
\* upload that is still under way brings it back.
ErasedStaysErased == \A o \in Objects : object[o].erased => o \notin stored

=============================================================================
