---------------------------- MODULE JourneyProofs ----------------------------
(***************************************************************************)
(* Theorems about Journey, for any chain, tries, workers, runs and         *)
(* failures: checkpoints are walked in order, a completed journey is       *)
(* walked, and the player is told once.                                    *)
(*                                                                         *)
(* They rest on two things.  Approval is final, so what a consumer derived *)
(* from the approved tries stays true until it commits (WalkFits).  And a  *)
(* run that a transaction inserted is known to that transaction only until *)
(* it commits (RunsFit), so nobody settles or rolls back another's run.    *)
(***************************************************************************)
EXTENDS Journey, WellFoundedInduction, TLAPS

Holds(w) == note[w].at \in {"found", "derived", "telling"}

\* While a take is open nothing happens to its try.
TakeFits == take # NoTake => take.try \in Events /\ try[take.try].status = "none"

RunsFit ==
  /\ take.run # 0 => run[take.run] = "opening"
  /\ \A w \in Workers : (note[w].run # 0) <=> Holds(w)
  /\ \A w \in Workers : Holds(w) => note[w].run # take.run /\ run[note[w].run] # "absent"
  /\ \A v, w \in Workers :
       v # w /\ Holds(v) /\ note[w].run = note[v].run => run[note[v].run] # "opening"

\* What a consumer derived is still so.
WalkFits ==
  \A w \in Workers : note[w].at = "derived" =>
    /\ note[w].next = 0 => Remaining = {}
    /\ \A i \in 1..(note[w].next - 1) : Approved(i)

Telling(w, r, s) == note[w].at = "telling" /\ note[w].run = r /\ note[w].next = s

\* What is about to be told happened, is told by one worker, and was not told.
TellFits ==
  /\ \A w \in Workers, r \in Runs, s \in Target : Telling(w, r, s) =>
       /\ told[r][s] = 0
       /\ IF s = 0 THEN run[r] = "completed" ELSE s \in opened[r]
  /\ \A v, w \in Workers, r \in Runs, s \in Target : Telling(v, r, s) /\ Telling(w, r, s) => v = w

IInv ==
  /\ TypeOK
  /\ TakeFits /\ RunsFit
  /\ CheckpointsInOrder /\ WalkFits /\ CompletedIsWalked
  /\ ToldOnce /\ TellFits

-----------------------------------------------------------------------------
(* Progress is derived from what is approved, which only grows.            *)

Less == {ss \in Nat \X Nat : ss[1] < ss[2]}

LEMMA FirstIsLeast ==
  ASSUME NEW S \in SUBSET Nat, S # {}
  PROVE  First(S) \in S /\ \A i \in S : First(S) <= i
  <1>1. IsWellFoundedOn(Less, Nat)
    BY NatLessThanWellFounded DEF OpToRel, Less
  <1>2. PICK s \in S : \A i \in S : ~(<<i, s>> \in Less)
    BY <1>1, WFMin
  <1>3. \A i \in S : s <= i
    <2> SUFFICES ASSUME NEW i \in S PROVE s <= i
      OBVIOUS
    <2>1. i \in Nat /\ s \in Nat /\ ~(<<i, s>> \in Less)
      BY <1>2
    <2>2. ~(i < s)
      BY <2>1 DEF Less
    <2> QED
      BY <2>1, <2>2
  <1> QED
    BY <1>3 DEF First

LEMMA NextIsOpen ==
  /\ First(Remaining) \in Target
  /\ First(Remaining) = 0 => Remaining = {}
  /\ \A i \in 1..(First(Remaining) - 1) : Approved(i)
  <1> USE JourneyAssumption
  <1>1. CASE Remaining = {}
    BY <1>1 DEF First, Target
  <1>2. CASE Remaining # {}
    <2> DEFINE x == First(Remaining)
    <2>1. Remaining \in SUBSET Nat /\ Remaining \subseteq 1..Last
      BY DEF Remaining, Stages
    <2>2. x \in Remaining /\ \A i \in Remaining : x <= i
      BY <1>2, <2>1, FirstIsLeast
    <2> HIDE DEF x
    <2>3. x \in 1..Last /\ \A i \in 1..(x - 1) : i \in 1..Last /\ i \notin Remaining
      BY <2>1, <2>2
    <2>4. \A i \in 1..(x - 1) : Approved(i)
      BY <2>3 DEF Remaining, Stages
    <2> QED
      BY <2>3, <2>4 DEF x, Target
  <1> QED
    BY <1>1, <1>2

\* A run may be inserted where there is none.
LEMMA OpenedIsFree ==
  ASSUME NEW r \in Runs, MayOpen(r)
  PROVE  run[r] = "absent"
  <1>1. RunsIn("absent") \in SUBSET Nat /\ RunsIn("absent") # {}
    BY JourneyAssumption DEF MayOpen, RunsIn, Runs, First
  <1>2. r \in RunsIn("absent")
    BY <1>1, FirstIsLeast DEF MayOpen
  <1> QED
    BY <1>2 DEF RunsIn

LEMMA ApprovedGrows ==
  ASSUME \A t \in Events : try[t].status = "approved" => try'[t].status = "approved"
  PROVE  /\ \A s : Approved(s) => Approved(s)'
         /\ Remaining' \subseteq Remaining
  BY DEF Approved, In, Remaining

\* A step that leaves the consumers and the runs alone keeps what they know.
LEMMA WalkStays ==
  ASSUME IInv, UNCHANGED <<sequential, note, opened>>,
         \A t \in Events : try[t].status = "approved" => try'[t].status = "approved",
         \A t \in Events : try'[t].status # "none" /\ try[t].status = "none" /\ sequential =>
                             \A s \in 1..(StageOf[t] - 1) : Approved(s),
         \A r \in Runs : run'[r] = "completed" => run[r] = "completed"
  PROVE  CheckpointsInOrder' /\ WalkFits' /\ CompletedIsWalked'
  <1>1. (\A s : Approved(s) => Approved(s)') /\ Remaining' \subseteq Remaining
    BY ApprovedGrows
  <1>2. CheckpointsInOrder'
    BY <1>1 DEF IInv, CheckpointsInOrder, In
  <1>3. WalkFits'
    BY <1>1 DEF IInv, WalkFits
  <1>4. CompletedIsWalked'
    BY <1>1 DEF IInv, CompletedIsWalked, RunsIn
  <1> QED
    BY <1>2, <1>3, <1>4

LEMMA TellStays ==
  ASSUME IInv, UNCHANGED <<note, opened, told>>,
         \A r \in Runs : run[r] = "completed" => run'[r] = "completed"
  PROVE  ToldOnce' /\ TellFits'
  <1>1. ToldOnce'
    BY DEF IInv, ToldOnce
  <1>2. TellFits'
    BY DEF IInv, TellFits, Telling
  <1> QED
    BY <1>1, <1>2

-----------------------------------------------------------------------------
LEMMA InitInv == Init => IInv
  <1> SUFFICES ASSUME Init PROVE IInv
    OBVIOUS
  <1> USE JourneyAssumption
  <1>1. \A w \in Workers : note[w] = NoNote
    BY DEF Init
  <1>2. NoNote \in Note /\ NoNote.at = "start" /\ NoNote.run = 0 /\ NoTake \in Take /\ NoTake.run = 0
    BY DEF NoNote, Note, NoTake, Take, Target
  <1>3. TypeOK
    <2>1. note \in [Workers -> Note] /\ take \in Take
      BY <1>2 DEF Init
    <2>2. try \in [Events -> Try] /\ run \in [Runs -> RunStatus]
      BY DEF Init, Try, RunStatus
    <2>3. /\ opened \in [Runs -> SUBSET Stages] /\ told \in [Runs -> [Target -> Nat]]
          /\ failures \in 0..MaxFailures /\ sequential \in BOOLEAN
      BY DEF Init
    <2>4. emitted \subseteq Events /\ recorded \subseteq Events /\ hand \in [Workers -> Events \cup {None}]
      BY DEF Init, DeliveryInit
    <2> QED
      BY <2>1, <2>2, <2>3, <2>4 DEF TypeOK
  <1>4. TakeFits /\ RunsFit
    BY <1>1, <1>2 DEF TakeFits, RunsFit, Holds, Init
  <1>5. CheckpointsInOrder /\ WalkFits /\ CompletedIsWalked
    BY <1>1, <1>2 DEF CheckpointsInOrder, WalkFits, CompletedIsWalked, Init, In, RunsIn
  <1>6. ToldOnce /\ TellFits
    BY <1>1, <1>2 DEF ToldOnce, TellFits, Telling, Init
  <1> QED
    BY <1>3, <1>4, <1>5, <1>6 DEF IInv

-----------------------------------------------------------------------------
(* The player, the reviewers and the sweep.                                *)

\* A step of the tries alone, in which no approval is taken back.
LEMMA TryInv ==
  ASSUME IInv, Keeps, try' \in [Events -> Try],
         emitted' \subseteq Events, UNCHANGED <<hand, recorded>>,
         \A t \in Events : try[t].status = "approved" => try'[t].status = "approved",
         \A t \in Events : (try'[t].status # "none") => (try[t].status # "none")
  PROVE  IInv'
  <1>1. UNCHANGED <<sequential, take, run, opened, note, told, failures>>
    BY DEF Keeps
  <1>2. TypeOK'
    BY <1>1 DEF IInv, TypeOK
  <1>3. TakeFits' /\ RunsFit'
    BY <1>1 DEF IInv, TakeFits, RunsFit, Holds
  <1>4. CheckpointsInOrder' /\ WalkFits' /\ CompletedIsWalked'
    BY <1>1, WalkStays
  <1>5. ToldOnce' /\ TellFits'
    BY <1>1, TellStays
  <1> QED
    BY <1>2, <1>3, <1>4, <1>5 DEF IInv

LEMMA PlayerInv ==
  ASSUME IInv, NEW t \in Events,
         Submits(t) \/ Ends(t) \/ Rejected(t) \/ Appeals(t) \/ Approves(t)
  PROVE  IInv'
  <1>1. try \in [Events -> Try] /\ Keeps
    BY DEF IInv, TypeOK, Submits, Ends, Rejected, Appeals, Approves
  <1>2. PICK r \in Try : /\ try' = [try EXCEPT ![t] = r] /\ try[t].status # "approved"
                         /\ try[t].status # "none"
    <2>1. CASE Appeals(t)
      BY <2>1 DEF Appeals, Try
    <2>2. ASSUME NEW s \in {"none", "submitted", "approved", "rejected"}, Moves(t, s),
                 try[t].status \in {"assigned", "submitted"}
          PROVE  \E r \in Try : /\ try' = [try EXCEPT ![t] = r] /\ try[t].status # "approved"
                                /\ try[t].status # "none"
      <3> DEFINE r == [try[t] EXCEPT !.status = s]
      <3>1. r \in Try /\ try' = [try EXCEPT ![t] = r]
        BY <1>1, <2>2 DEF Moves, Try
      <3> QED
        BY <2>2, <3>1
    <2> QED
      BY <2>1, <2>2 DEF Submits, Ends, Rejected, Approves
  <1>3. emitted' \subseteq Events /\ UNCHANGED <<hand, recorded>>
    BY DEF Submits, Ends, Rejected, Appeals, Approves, Emit, deliveryVars, IInv, TypeOK
  <1>4. try' \in [Events -> Try] /\ \A i \in Events : try'[i] = IF i = t THEN r ELSE try[i]
    BY <1>1, <1>2
  <1> QED
    BY <1>1, <1>2, <1>3, <1>4, TryInv

LEMMA TakesInv ==
  ASSUME IInv, NEW t \in Events, Takes(t)
  PROVE  IInv'
  <1> USE JourneyAssumption
  <1>1. UNCHANGED <<deliveryVars, sequential, try, opened, note, told, failures>> /\ take = NoTake
    BY DEF Takes
  <1>2. CASE take' = [try |-> t, run |-> 0] /\ run' = run
    <2>1. take' \in Take /\ take'.run = 0
      BY <1>2 DEF Take
    <2>2. TypeOK'
      BY <1>1, <1>2, <2>1 DEF IInv, TypeOK, deliveryVars
    <2>3. TakeFits' /\ RunsFit'
      BY <1>1, <1>2, <2>1 DEF IInv, TakeFits, RunsFit, Holds, Takes
    <2>4. CheckpointsInOrder' /\ WalkFits' /\ CompletedIsWalked' /\ ToldOnce' /\ TellFits'
      BY <1>1, <1>2, WalkStays, TellStays
    <2> QED
      BY <2>2, <2>3, <2>4 DEF IInv
  <1>3. ASSUME NEW r \in Runs, MayOpen(r), take' = [try |-> t, run |-> r], Becomes(r, "opening")
        PROVE  IInv'
    <2>1. take' \in Take /\ take'.run = r /\ r # 0
      BY <1>3 DEF Take, Runs, MayOpen
    <2>2. /\ run' \in [Runs -> RunStatus] /\ run[r] = "absent"
          /\ \A q \in Runs : run'[q] = IF q = r THEN "opening" ELSE run[q]
      <3>1. run \in [Runs -> RunStatus]
        BY DEF IInv, TypeOK
      <3>2. run[r] = "absent"
        BY <1>3, OpenedIsFree
      <3> QED
        BY <1>3, <3>1, <3>2 DEF Becomes, RunStatus
    <2>3. TypeOK'
      BY <1>1, <2>1, <2>2 DEF IInv, TypeOK, deliveryVars
    <2>4. TakeFits' /\ RunsFit'
      <3>1. \A w \in Workers : note[w].run \in 0..MaxRuns
        BY DEF IInv, TypeOK, Note
      <3>2. \A w \in Workers : Holds(w) => note[w].run \in Runs /\ note[w].run # r
        BY <2>2, <3>1 DEF IInv, RunsFit, Runs
      <3>3. \A w \in Workers : Holds(w)' = Holds(w)
        BY <1>1 DEF Holds
      <3>4. TakeFits'
        BY <1>1, <1>3 DEF TakeFits, Takes
      <3> QED
        BY <1>1, <2>1, <2>2, <3>2, <3>3, <3>4 DEF IInv, RunsFit
    <2>5. CheckpointsInOrder' /\ WalkFits' /\ CompletedIsWalked' /\ ToldOnce' /\ TellFits'
      BY <1>1, <2>2, WalkStays, TellStays
    <2> QED
      BY <2>3, <2>4, <2>5 DEF IInv
  <1> QED
    BY <1>2, <1>3 DEF Takes

LEMMA TakeInv ==
  ASSUME IInv, TakeCommits \/ TakeFails
  PROVE  IInv'
  <1> USE JourneyAssumption
  <1>1. /\ UNCHANGED <<deliveryVars, sequential, opened, note, told, failures>>
        /\ take' = NoTake
    BY DEF TakeCommits, TakeFails, TakeEnds
  <1>2. PICK status \in {"active", "absent"} :
          run' = [r \in Runs |-> IF r = take.run THEN status ELSE run[r]]
    BY DEF TakeCommits, TakeFails, TakeEnds
  <1>3. /\ take' \in Take /\ take'.run = 0 /\ run' \in [Runs -> RunStatus]
        /\ \A r \in Runs : run'[r] = IF r = take.run THEN status ELSE run[r]
    BY <1>1, <1>2 DEF NoTake, Take, IInv, TypeOK, RunStatus
  <1>4. \A r \in Runs : r = take.run => run[r] = "opening"
    BY DEF IInv, RunsFit, Runs
  <1>5. /\ try' \in [Events -> Try]
        /\ \A t \in Events : try[t].status = "approved" => try'[t].status = "approved"
        /\ \A t \in Events : try'[t].status # "none" /\ try[t].status = "none" /\ sequential =>
                              \A s \in 1..(StageOf[t] - 1) : Approved(s)
    <2>1. CASE TakeFails
      BY <2>1 DEF TakeFails, IInv, TypeOK
    <2>2. CASE TakeCommits
      <3> DEFINE t == take.try
      <3>1. try' = [try EXCEPT ![t] = [try[t] EXCEPT !.status = "assigned"]] /\ In("assigned") = {}
        BY <2>2 DEF TakeCommits, Moves
      <3>2. try \in [Events -> Try]
        BY DEF IInv, TypeOK
      <3>3. try' \in [Events -> Try]
        BY <3>1, <3>2 DEF Try
      <3>4. \A i \in Events : i # t => try'[i] = try[i]
        BY <3>1, <3>2
      <3>5. t \in Events => try[t].status # "approved"
        BY <2>2 DEF IInv, TakeFits, TakeCommits
      <3>6. ASSUME t \in Events, sequential, NEW s \in 1..(StageOf[t] - 1) PROVE Approved(s)
        <4>1. StageOf[t] \in 1..Last /\ StageOf[t] > 1
          BY <3>6 DEF Stages
        <4>2. Approved(StageOf[t] - 1)
          BY <2>2, <3>6, <4>1 DEF TakeCommits
        <4>3. PICK p \in Events : try[p].status = "approved" /\ StageOf[p] = StageOf[t] - 1
          BY <4>2 DEF Approved, In
        <4>4. s = StageOf[p] \/ s \in 1..(StageOf[p] - 1)
          BY <3>6, <4>1, <4>3
        <4>5. p \in Events \ In("none")
          BY <4>3 DEF In
        <4> QED
          BY <3>6, <4>2, <4>3, <4>4, <4>5 DEF IInv, CheckpointsInOrder
      <3> QED
        BY <3>3, <3>4, <3>5, <3>6
    <2> QED
      BY <2>1, <2>2
  <1>6. TypeOK'
    BY <1>1, <1>3, <1>5 DEF IInv, TypeOK, deliveryVars
  <1>7. TakeFits' /\ RunsFit'
    <2>1. \A w \in Workers : Holds(w)' = Holds(w) /\ (Holds(w) => note[w].run \in Runs)
      BY <1>1 DEF Holds, IInv, TypeOK, Note, RunsFit, Runs
    <2> QED
      BY <1>1, <1>3, <1>4, <2>1 DEF IInv, TakeFits, RunsFit
  <1>8. CheckpointsInOrder' /\ WalkFits' /\ CompletedIsWalked' /\ ToldOnce' /\ TellFits'
    BY <1>1, <1>3, <1>4, <1>5, WalkStays, TellStays
  <1> QED
    BY <1>6, <1>7, <1>8 DEF IInv

LEMMA AbandonsInv ==
  ASSUME IInv, NEW r \in Runs, Abandons(r)
  PROVE  IInv'
  <1>1. /\ UNCHANGED <<deliveryVars, sequential, try, take, opened, note, told, failures>>
        /\ run[r] = "active" /\ run' \in [Runs -> RunStatus]
        /\ \A q \in Runs : run'[q] = IF q = r THEN "abandoned" ELSE run[q]
    BY DEF Abandons, Becomes, IInv, TypeOK, RunStatus
  <1>2. TypeOK'
    BY <1>1 DEF IInv, TypeOK, deliveryVars
  <1>3. TakeFits' /\ RunsFit'
    <2>1. \A w \in Workers : Holds(w)' = Holds(w) /\ (Holds(w) => note[w].run \in Runs)
      BY <1>1 DEF Holds, IInv, TypeOK, Note, RunsFit, Runs
    <2>2. take.run \in 0..MaxRuns
      BY DEF IInv, TypeOK, Take
    <2> QED
      BY <1>1, <2>1, <2>2 DEF IInv, TakeFits, RunsFit, Runs
  <1>4. CheckpointsInOrder' /\ WalkFits' /\ CompletedIsWalked' /\ ToldOnce' /\ TellFits'
    BY <1>1, WalkStays, TellStays
  <1> QED
    BY <1>2, <1>3, <1>4 DEF IInv

-----------------------------------------------------------------------------
(* The consumers.                                                          *)

\* One worker's note changes; what it then holds, and the runs, decide.
LEMMA NoteMoves ==
  ASSUME IInv, NEW w \in Workers, NEW n \in Note, note' = [note EXCEPT ![w] = n]
  PROVE  /\ note' \in [Workers -> Note] /\ note'[w] = n
         /\ \A v \in Workers \ {w} : note'[v] = note[v]
         /\ \A v \in Workers \ {w} : Holds(v)' = Holds(v)
  BY DEF IInv, TypeOK, Holds

LEMMA ForgetsNote ==
  ASSUME IInv, NEW w \in Workers, NEW at \in {"start", "handled"}, Forgets(w, at)
  PROVE  \E n \in Note : note' = [note EXCEPT ![w] = n] /\ n.at = at /\ n.run = 0
  <1> DEFINE n == [NoNote EXCEPT !.at = at]
  <1>1. n \in Note /\ n.at = at /\ n.run = 0
    BY JourneyAssumption DEF NoNote, Note, Target
  <1> QED
    BY <1>1 DEF Forgets

\* Holders and the take after a step of one worker.
LEMMA HoldersFit ==
  ASSUME IInv, NEW w \in Workers, NEW n \in Note, note' = [note EXCEPT ![w] = n],
         UNCHANGED <<try, take>>, run' \in [Runs -> RunStatus],
         n.run # 0 <=> n.at \in {"found", "derived", "telling"},
         n.run # 0 => /\ n.run # take.run /\ run'[n.run] # "absent"
                      /\ \/ run'[n.run] # "opening"
                         \/ \A v \in Workers \ {w} : Holds(v) => note[v].run # n.run,
         take.run # 0 => run'[take.run] = "opening",
         \A v \in Workers \ {w} : Holds(v) => run'[note[v].run] = run[note[v].run]
                                            \/ run'[note[v].run] \notin {"absent", "opening"}
  PROVE  TakeFits' /\ RunsFit'
  <1>1. /\ note'[w] = n
        /\ \A v \in Workers \ {w} : note'[v] = note[v] /\ Holds(v)' = Holds(v)
    BY NoteMoves
  <1>2. Holds(w)' <=> n.run # 0
    BY <1>1 DEF Holds
  <1>3. TakeFits'
    BY DEF IInv, TakeFits
  <1>4. take'.run # 0 => run'[take'.run] = "opening"
    OBVIOUS
  <1>5. \A v \in Workers : (note'[v].run # 0) <=> Holds(v)'
    BY <1>1, <1>2 DEF IInv, RunsFit
  <1>6. \A v \in Workers : Holds(v)' => note'[v].run # take'.run /\ run'[note'[v].run] # "absent"
    BY <1>1, <1>2 DEF IInv, RunsFit
  <1>7. ASSUME NEW u \in Workers, NEW v \in Workers, u # v, Holds(u)', note'[v].run = note'[u].run
        PROVE  run'[note'[u].run] # "opening"
    <2>1. CASE u # w /\ v # w
      BY <1>1, <1>7, <2>1 DEF IInv, RunsFit
    <2>2. CASE u = w
      <3>1. v # w /\ note'[u] = n /\ note'[v] = note[v] /\ n.run # 0 /\ Holds(v)
        BY <1>1, <1>2, <1>5, <1>7, <2>2
      <3> QED
        BY <1>7, <3>1
    <2>3. CASE v = w
      <3>1. u # w /\ note'[v] = n /\ note'[u] = note[u] /\ n.run # 0 /\ Holds(u)
        BY <1>1, <1>2, <1>5, <1>7, <2>3
      <3> QED
        BY <1>7, <3>1
    <2> QED
      BY <2>1, <2>2, <2>3
  <1>8. RunsFit'
    BY <1>4, <1>5, <1>6, <1>7 DEF RunsFit
  <1> QED
    BY <1>3, <1>8

\* What consumers derived, after a step of one worker.
LEMMA WalkMoves ==
  ASSUME IInv, NEW w \in Workers, NEW n \in Note, note' = [note EXCEPT ![w] = n],
         UNCHANGED <<sequential, try>>,
         n.at = "derived" => /\ n.next = 0 => Remaining = {}
                             /\ \A i \in 1..(n.next - 1) : Approved(i),
         \A r \in Runs : \A s \in opened'[r] : s \in opened[r] \/ \A i \in 1..(s - 1) : Approved(i),
         \A r \in Runs : run'[r] = "completed" => run[r] = "completed" \/ Remaining = {}
  PROVE  CheckpointsInOrder' /\ WalkFits' /\ CompletedIsWalked'
  <1>1. note'[w] = n /\ \A v \in Workers \ {w} : note'[v] = note[v]
    BY NoteMoves
  <1>2. (\A s : Approved(s)' <=> Approved(s)) /\ Remaining' = Remaining /\ In("none")' = In("none")
    BY DEF Approved, In, Remaining
  <1>3. CheckpointsInOrder'
    BY <1>2 DEF IInv, CheckpointsInOrder
  <1>4. WalkFits'
    BY <1>1, <1>2 DEF IInv, WalkFits
  <1>5. CompletedIsWalked'
    BY <1>2 DEF IInv, CompletedIsWalked, RunsIn
  <1> QED
    BY <1>3, <1>4, <1>5

\* What is to be told, after a step that tells nothing.
LEMMA TellMoves ==
  ASSUME IInv, NEW w \in Workers, NEW n \in Note, note' = [note EXCEPT ![w] = n], told' = told,
         n.at = "telling" =>
           /\ told[n.run][n.next] = 0
           /\ IF n.next = 0 THEN run'[n.run] = "completed" ELSE n.next \in opened'[n.run]
           /\ \A v \in Workers : ~Telling(v, n.run, n.next),
         \A r \in Runs : run[r] = "completed" => run'[r] = "completed",
         \A r \in Runs : opened[r] \subseteq opened'[r]
  PROVE  ToldOnce' /\ TellFits'
  <1>1. note'[w] = n /\ \A v \in Workers \ {w} : note'[v] = note[v]
    BY NoteMoves
  <1>2. \A v \in Workers, r \in Runs, s \in Target : Telling(v, r, s)' =>
          IF v = w THEN n.at = "telling" /\ n.run = r /\ n.next = s ELSE Telling(v, r, s)
    BY <1>1 DEF Telling
  <1>3. ToldOnce'
    BY DEF IInv, ToldOnce
  <1>4. TellFits'
    BY <1>2 DEF IInv, TellFits
  <1> QED
    BY <1>3, <1>4

LEMMA WorkerTypeOK ==
  ASSUME IInv, UNCHANGED <<sequential, try, take>>, emitted' \subseteq Events, recorded' \subseteq Events,
         hand' \in [Workers -> Events \cup {None}], note' \in [Workers -> Note],
         run' \in [Runs -> RunStatus], opened' \in [Runs -> SUBSET Stages],
         told' \in [Runs -> [Target -> Nat]], failures' \in 0..MaxFailures
  PROVE  TypeOK'
  BY DEF IInv, TypeOK

\* A step that changes no run and opens, derives and tells nothing.
LEMMA QuietInv ==
  ASSUME IInv, NEW w \in Workers, NEW at \in {"start", "handled"}, Forgets(w, at),
         UNCHANGED <<emitted, sequential, try, take, opened, told>>, recorded' \subseteq Events,
         hand' \in [Workers -> Events \cup {None}], failures' \in 0..MaxFailures,
         run' \in [Runs -> RunStatus],
         \A r \in Runs : \/ run'[r] = run[r]
                         \/ run[r] = "opening" /\ note[w].run = r /\ run'[r] # "completed"
  PROVE  IInv'
  <1>1. PICK n \in Note : note' = [note EXCEPT ![w] = n] /\ n.at = at /\ n.run = 0
    BY ForgetsNote
  <1>2. note' \in [Workers -> Note]
    BY <1>1, NoteMoves
  <1>3. TypeOK'
    BY <1>2, WorkerTypeOK DEF IInv, TypeOK
  <1>4. /\ take.run \in 0..MaxRuns
        /\ \A v \in Workers : Holds(v) => note[v].run \in Runs
    BY DEF IInv, TypeOK, Take, Note, RunsFit, Runs
  <1>5. TakeFits' /\ RunsFit'
    <2>1. take.run # 0 => run'[take.run] = "opening"
      BY <1>4 DEF IInv, RunsFit, Runs
    <2>2. \A v \in Workers \ {w} : Holds(v) => run'[note[v].run] = run[note[v].run]
      BY <1>4 DEF IInv, RunsFit, Runs
    <2> QED
      BY <1>1, <2>1, <2>2, HoldersFit
  <1>6. CheckpointsInOrder' /\ WalkFits' /\ CompletedIsWalked'
    BY <1>1, WalkMoves
  <1>7. ToldOnce' /\ TellFits'
    BY <1>1, TellMoves
  <1> QED
    BY <1>3, <1>5, <1>6, <1>7 DEF IInv

LEMMA BeginsInv ==
  ASSUME IInv, NEW w \in Workers, NEW e \in Events, Begins(w, e)
  PROVE  IInv'
  <1>1. UNCHANGED journeyVars /\ UNCHANGED <<emitted, recorded>> /\ hand' \in [Workers -> Events \cup {None}]
    BY DEF Begins, Deliver, IInv, TypeOK
  <1>2. UNCHANGED <<sequential, try, take, run, opened, note, told, failures>>
    BY <1>1 DEF journeyVars
  <1>3. TypeOK'
    BY <1>1, <1>2 DEF IInv, TypeOK
  <1>4. TakeFits' /\ RunsFit'
    BY <1>2 DEF IInv, TakeFits, RunsFit, Holds
  <1>5. CheckpointsInOrder' /\ WalkFits' /\ CompletedIsWalked' /\ ToldOnce' /\ TellFits'
    BY <1>2, WalkStays, TellStays
  <1> QED
    BY <1>3, <1>4, <1>5 DEF IInv

LEMMA QuietSteps ==
  ASSUME IInv, NEW w \in Workers, Records(w) \/ Fails(w) \/ OpensNothing(w)
  PROVE  IInv'
  <1>1. run \in [Runs -> RunStatus]
    BY DEF IInv, TypeOK
  <1>2. CASE Records(w)
    <2>1. /\ Forgets(w, "start") /\ UNCHANGED <<emitted, sequential, try, take, run, opened, told, failures>>
          /\ recorded' \subseteq Events /\ hand' \in [Workers -> Events \cup {None}]
      BY <1>2 DEF Records, Complete, IInv, TypeOK
    <2> QED
      BY <1>1, <2>1, QuietInv DEF IInv, TypeOK
  <1>3. CASE Fails(w)
    <2>1. /\ Forgets(w, "start") /\ UNCHANGED <<emitted, recorded, sequential, try, take, opened, told>>
          /\ hand' \in [Workers -> Events \cup {None}] /\ failures' \in 0..MaxFailures
      BY <1>3, JourneyAssumption DEF Fails, Drop, IInv, TypeOK
    <2>2. run' \in [Runs -> RunStatus]
      BY <1>1, <1>3 DEF Fails, RunStatus
    <2>3. \A r \in Runs : \/ run'[r] = run[r]
                          \/ run[r] = "opening" /\ note[w].run = r /\ run'[r] # "completed"
      <3>1. run' = [r \in Runs |-> IF run[r] = "opening" /\ note[w].run = r THEN "absent" ELSE run[r]]
        BY <1>3 DEF Fails
      <3> QED
        BY <3>1
    <2> QED
      BY <2>1, <2>2, <2>3, QuietInv DEF IInv, TypeOK
  <1>4. CASE OpensNothing(w)
    <2>1. /\ Forgets(w, "handled") /\ UNCHANGED <<emitted, recorded, hand, sequential, try, take, opened, told, failures>>
          /\ run' = [run EXCEPT ![note[w].run] = Settled(note[w].run)]
      BY <1>4 DEF OpensNothing, Commits, Becomes, deliveryVars
    <2>2. \A r \in Runs : \/ run'[r] = run[r]
                          \/ run[r] = "opening" /\ note[w].run = r /\ run'[r] # "completed"
      <3>1. \A r \in Runs : run'[r] = IF r = note[w].run THEN Settled(r) ELSE run[r]
        BY <1>1, <2>1
      <3> QED
        BY <3>1 DEF Settled
    <2>3. run' \in [Runs -> RunStatus]
      BY <1>1, <2>1 DEF Settled, RunStatus
    <2> QED
      BY <2>1, <2>2, <2>3, QuietInv DEF IInv, TypeOK
  <1> QED
    BY <1>2, <1>3, <1>4

LEMMA FindsInv ==
  ASSUME IInv, NEW w \in Workers, Finds(w)
  PROVE  IInv'
  <1>1. /\ UNCHANGED <<emitted, hand, recorded, sequential, try, take, opened, told, failures>>
        /\ note[w] \in Note /\ note[w].at = "start" /\ run \in [Runs -> RunStatus]
    BY DEF Finds, Steps, deliveryVars, IInv, TypeOK
  <1>2. CASE Forgets(w, "handled") /\ run' = run
    BY <1>1, <1>2, QuietInv DEF IInv, TypeOK
  <1>3. ASSUME NEW r \in Runs, note' = [note EXCEPT ![w] = [note[w] EXCEPT !.at = "found", !.run = r]],
               \/ run[r] = "active" /\ run' = run
               \/ MayOpen(r) /\ Becomes(r, "opening")
        PROVE  IInv'
    <2> DEFINE n == [note[w] EXCEPT !.at = "found", !.run = r]
    <2>1. n \in Note /\ n.at = "found" /\ n.run = r /\ r # 0 /\ note' = [note EXCEPT ![w] = n]
      <3>1. r \in 0..MaxRuns /\ r # 0
        BY JourneyAssumption DEF Runs
      <3>2. n \in Note /\ n.at = "found" /\ n.run = r
        BY <1>1, <3>1 DEF Note
      <3> QED
        BY <1>3, <3>1, <3>2
    <2> HIDE DEF n
    <2>2. /\ run' \in [Runs -> RunStatus] /\ run[r] \in {"active", "absent"}
          /\ run'[r] = IF run[r] = "active" THEN "active" ELSE "opening"
          /\ \A q \in Runs : q # r => run'[q] = run[q]
      BY <1>1, <1>3, OpenedIsFree DEF Becomes, RunStatus
    <2>3. note' \in [Workers -> Note]
      BY <2>1, NoteMoves
    <2>4. TypeOK'
      BY <1>1, <2>2, <2>3, WorkerTypeOK DEF IInv, TypeOK
    <2>5. /\ take.run \in 0..MaxRuns
          /\ \A v \in Workers : Holds(v) => note[v].run \in Runs
      BY DEF IInv, TypeOK, Take, Note, RunsFit, Runs
    <2>6. /\ take.run # r /\ (take.run # 0 => run'[take.run] = "opening")
          /\ \A v \in Workers : Holds(v) => run'[note[v].run] = run[note[v].run]
          /\ run'[r] = "opening" => \A v \in Workers : Holds(v) => note[v].run # r
      BY <2>1, <2>2, <2>5 DEF IInv, RunsFit, Runs
    <2>7. TakeFits' /\ RunsFit'
      BY <1>1, <2>1, <2>2, <2>6, HoldersFit
    <2>8. CheckpointsInOrder' /\ WalkFits' /\ CompletedIsWalked'
      BY <1>1, <2>1, <2>2, WalkMoves
    <2>9. ToldOnce' /\ TellFits'
      BY <1>1, <2>1, <2>2, TellMoves
    <2> QED
      BY <2>4, <2>7, <2>8, <2>9 DEF IInv
  <1> QED
    BY <1>2, <1>3 DEF Finds, RunsIn

LEMMA ItsRun ==
  ASSUME IInv, NEW w \in Workers, Holds(w)
  PROVE  note[w].run \in Runs /\ note[w].next \in Target /\ run[note[w].run] # "absent"
  BY DEF IInv, TypeOK, Note, RunsFit, Runs

\* A step that leaves the worker with its run.
LEMMA KeepsRun ==
  ASSUME IInv, NEW w \in Workers, Holds(w), NEW n \in Note, note' = [note EXCEPT ![w] = n],
         n.at \in {"derived", "telling"}, n.run = note[w].run,
         UNCHANGED <<try, take>>, run' \in [Runs -> RunStatus],
         run'[note[w].run] # "absent" /\ (run'[note[w].run] = "opening" => run[note[w].run] = "opening"),
         \A r \in Runs : r # note[w].run => run'[r] = run[r]
  PROVE  note' \in [Workers -> Note] /\ TakeFits' /\ RunsFit'
  <1>1. /\ note[w].run \in Runs /\ take.run \in 0..MaxRuns
        /\ \A v \in Workers : Holds(v) => note[v].run \in Runs
    BY ItsRun DEF IInv, TypeOK, Take
  <1>2. note' \in [Workers -> Note]
    BY NoteMoves
  <1>3. /\ n.run # 0 /\ n.run # take.run
        /\ take.run # 0 => run'[take.run] = "opening"
    BY <1>1 DEF IInv, RunsFit, Runs
  <1>4. run'[n.run] = "opening" => \A v \in Workers \ {w} : Holds(v) => note[v].run # n.run
    BY DEF IInv, RunsFit
  <1>5. \A v \in Workers \ {w} : Holds(v) => run'[note[v].run] = run[note[v].run]
                                            \/ run'[note[v].run] \notin {"absent", "opening"}
    BY <1>1 DEF IInv, RunsFit
  <1>6. TakeFits' /\ RunsFit'
    BY <1>3, <1>4, <1>5, HoldersFit
  <1> QED
    BY <1>2, <1>6

LEMMA DerivesInv ==
  ASSUME IInv, NEW w \in Workers, Derives(w)
  PROVE  IInv'
  <1> DEFINE n == [note[w] EXCEPT !.at = "derived", !.next = First(Remaining)]
  <1>1. /\ UNCHANGED <<emitted, hand, recorded, sequential, try, take, run, opened, told, failures>>
        /\ Holds(w) /\ note' = [note EXCEPT ![w] = n]
    BY DEF Derives, Steps, Holds, deliveryVars
  <1>2. run \in [Runs -> RunStatus] /\ run[note[w].run] # "absent"
    BY <1>1 DEF IInv, TypeOK, RunsFit
  <1>3. /\ n \in Note /\ n.at = "derived" /\ n.next = First(Remaining)
        /\ note' \in [Workers -> Note] /\ TakeFits' /\ RunsFit'
    <2>1. n \in Note /\ n.at = "derived" /\ n.next = First(Remaining) /\ n.run = note[w].run
      <3>1. note[w] \in Note /\ First(Remaining) \in Target
        BY NextIsOpen DEF IInv, TypeOK
      <3> QED
        BY <3>1 DEF Note
    <2> HIDE DEF n
    <2> QED
      BY <1>1, <1>2, <2>1, KeepsRun
  <1> HIDE DEF n
  <1>4. TypeOK'
    BY <1>1, <1>3, WorkerTypeOK DEF IInv, TypeOK
  <1>5. CheckpointsInOrder' /\ WalkFits' /\ CompletedIsWalked'
    BY <1>1, <1>3, NextIsOpen, WalkMoves
  <1>6. ToldOnce' /\ TellFits'
    BY <1>1, <1>3, TellMoves
  <1> QED
    BY <1>3, <1>4, <1>5, <1>6 DEF IInv

\* The worker goes on to tell of a checkpoint or of the end.
LEMMA AnnouncesNote ==
  ASSUME IInv, NEW w \in Workers, Steps(w, "derived"), Notes(w, "telling")
  PROVE  \E n \in Note : /\ note' = [note EXCEPT ![w] = n] /\ n.at = "telling"
                         /\ n.run = note[w].run /\ n.next = note[w].next
  <1> DEFINE n == [note[w] EXCEPT !.at = "telling"]
  <1>1. note[w] \in Note
    BY DEF IInv, TypeOK
  <1>2. n \in Note /\ n.at = "telling" /\ n.run = note[w].run /\ n.next = note[w].next
    BY <1>1 DEF Note
  <1>3. note' = [note EXCEPT ![w] = n]
    BY DEF Notes
  <1> QED
    BY <1>2, <1>3

LEMMA ClosesInv ==
  ASSUME IInv, NEW w \in Workers, Closes(w)
  PROVE  IInv'
  <1> DEFINE r == note[w].run
  <1>1. /\ UNCHANGED <<emitted, hand, recorded, sequential, try, take, opened, told, failures>>
        /\ Steps(w, "derived") /\ note[w].at = "derived" /\ Holds(w) /\ note[w].next = 0
    BY DEF Closes, Commits, Steps, Holds, deliveryVars
  <1>2. run \in [Runs -> RunStatus] /\ r \in Runs /\ note[w].next \in Target
    BY <1>1, ItsRun DEF IInv, TypeOK
  <1>3. CASE ~Live(r)
    <2>1. Forgets(w, "handled") /\ run' = run
      BY <1>3 DEF Closes
    <2> QED
      BY <1>1, <2>1, QuietInv DEF IInv, TypeOK
  <1>4. CASE Live(r)
    <2>1. Becomes(r, "completed") /\ Notes(w, "telling")
      BY <1>4 DEF Closes
    <2>2. /\ run' \in [Runs -> RunStatus] /\ run'[r] = "completed" /\ run[r] \in {"opening", "active"}
          /\ \A q \in Runs : q # r => run'[q] = run[q]
      BY <1>2, <1>4, <2>1 DEF Becomes, RunStatus, Live
    <2>3. PICK n \in Note : /\ note' = [note EXCEPT ![w] = n] /\ n.at = "telling"
                            /\ n.run = r /\ n.next = 0
      BY <1>1, <2>1, AnnouncesNote
    <2>4. note' \in [Workers -> Note] /\ TakeFits' /\ RunsFit'
      BY <1>1, <2>2, <2>3, KeepsRun
    <2>5. TypeOK'
      BY <1>1, <2>2, <2>4, WorkerTypeOK DEF IInv, TypeOK
    <2>6. Remaining = {}
      BY <1>1 DEF IInv, WalkFits
    <2>7. CheckpointsInOrder' /\ WalkFits' /\ CompletedIsWalked'
      BY <1>1, <2>2, <2>3, <2>6, WalkMoves
    <2>8. told[r][0] = 0 /\ \A v \in Workers : ~Telling(v, r, 0)
      <3>1. 0 \in Target /\ told[r][0] \in Nat
        BY <1>1, <1>2 DEF IInv, TypeOK
      <3>2. told[r][0] <= 1 /\ told[r][0] # 1
        BY <1>2, <2>2, <3>1 DEF IInv, ToldOnce
      <3>3. \A v \in Workers : ~Telling(v, r, 0)
        BY <1>2, <2>2, <3>1 DEF IInv, TellFits
      <3> QED
        BY <3>1, <3>2, <3>3
    <2>9. ToldOnce' /\ TellFits'
      BY <1>1, <1>2, <2>2, <2>3, <2>8, TellMoves
    <2> QED
      BY <2>4, <2>5, <2>7, <2>9 DEF IInv
  <1> QED
    BY <1>3, <1>4

LEMMA OpensInv ==
  ASSUME IInv, NEW w \in Workers, Opens(w)
  PROVE  IInv'
  <1> DEFINE r == note[w].run
             s == note[w].next
  <1>1. /\ UNCHANGED <<emitted, hand, recorded, sequential, try, take, told, failures>>
        /\ Steps(w, "derived") /\ note[w].at = "derived" /\ Holds(w) /\ s # 0
    BY DEF Opens, Commits, Steps, Holds, deliveryVars
  <1>2. /\ run \in [Runs -> RunStatus] /\ opened \in [Runs -> SUBSET Stages]
        /\ r \in Runs /\ s \in Target /\ s \in Stages
    <2>1. s \in Target /\ r \in Runs
      BY <1>1, ItsRun
    <2>2. s \in Stages
      BY <1>1, <2>1, JourneyAssumption DEF Target, Stages
    <2> QED
      BY <2>1, <2>2 DEF IInv, TypeOK
  <1>3. /\ Becomes(r, Settled(r)) /\ opened' = [opened EXCEPT ![r] = opened[r] \cup {s}]
    BY DEF Opens
  <1>4. /\ run' \in [Runs -> RunStatus]
        /\ run'[r] = IF run[r] = "opening" THEN "active" ELSE run[r]
        /\ \A q \in Runs : q # r => run'[q] = run[q]
    BY <1>2, <1>3 DEF Becomes, Settled, RunStatus
  <1>5. CASE s \in opened[r]
    <2>1. Forgets(w, "handled")
      BY <1>5 DEF Opens
    <2>2. opened' = opened
      BY <1>2, <1>3, <1>5
    <2>3. \A q \in Runs : \/ run'[q] = run[q]
                          \/ run[q] = "opening" /\ r = q /\ run'[q] # "completed"
      BY <1>2, <1>4
    <2> QED
      BY <1>1, <1>4, <2>1, <2>2, <2>3, QuietInv DEF IInv, TypeOK
  <1>6. CASE s \notin opened[r]
    <2>1. Notes(w, "telling")
      BY <1>6 DEF Opens
    <2>2. PICK n \in Note : /\ note' = [note EXCEPT ![w] = n] /\ n.at = "telling"
                            /\ n.run = r /\ n.next = s
      BY <1>1, <2>1, AnnouncesNote
    <2>3. run[r] # "absent"
      BY <1>1, ItsRun
    <2>4. note' \in [Workers -> Note] /\ TakeFits' /\ RunsFit'
      BY <1>1, <1>4, <2>2, <2>3, KeepsRun
    <2>5. /\ opened' \in [Runs -> SUBSET Stages]
          /\ \A q \in Runs : opened'[q] = IF q = r THEN opened[r] \cup {s} ELSE opened[q]
      BY <1>2, <1>3
    <2>6. TypeOK'
      BY <1>1, <1>4, <2>4, <2>5, WorkerTypeOK DEF IInv, TypeOK
    <2>7. \A i \in 1..(s - 1) : Approved(i)
      BY <1>1 DEF IInv, WalkFits
    <2>8. CheckpointsInOrder' /\ WalkFits' /\ CompletedIsWalked'
      <3>1. n.at # "derived" /\ UNCHANGED <<sequential, try>>
        BY <1>1, <2>2
      <3>2. \A q \in Runs : \A i \in opened'[q] : i \in opened[q] \/ \A j \in 1..(i - 1) : Approved(j)
        BY <2>5, <2>7
      <3>3. \A q \in Runs : run'[q] = "completed" => run[q] = "completed" \/ Remaining = {}
        BY <1>4
      <3> QED
        BY <2>2, <3>1, <3>2, <3>3, WalkMoves
    <2>9. told[r][s] = 0 /\ \A v \in Workers : ~Telling(v, r, s)
      <3>1. told[r][s] \in Nat
        BY <1>2 DEF IInv, TypeOK
      <3>2. told[r][s] <= 1 /\ told[r][s] # 1
        BY <1>1, <1>2, <1>6 DEF IInv, ToldOnce
      <3>3. \A v \in Workers : ~Telling(v, r, s)
        BY <1>1, <1>2, <1>6 DEF IInv, TellFits
      <3> QED
        BY <3>1, <3>2, <3>3
    <2>10. ToldOnce' /\ TellFits'
      <3>1. \A q \in Runs : opened[q] \subseteq opened'[q] /\ (run[q] = "completed" => run'[q] = "completed")
        BY <1>4, <2>5
      <3>2. told' = told /\ s \in opened'[r] /\ s # 0 /\ s \in Target
        BY <1>1, <1>2, <2>5
      <3> QED
        BY <1>1, <1>2, <2>2, <2>9, <3>1, <3>2, TellMoves
    <2> QED
      BY <2>4, <2>6, <2>8, <2>10 DEF IInv
  <1> QED
    BY <1>5, <1>6

LEMMA TellsInv ==
  ASSUME IInv, NEW w \in Workers, Tells(w)
  PROVE  IInv'
  <1> DEFINE r == note[w].run
             s == note[w].next
  <1>1. /\ UNCHANGED <<emitted, hand, recorded, sequential, try, take, run, opened, failures>>
        /\ Forgets(w, "handled") /\ note[w].at = "telling" /\ Holds(w)
        /\ told' = [told EXCEPT ![r] = [told[r] EXCEPT ![s] = told[r][s] + 1]]
    BY DEF Tells, Steps, Holds, deliveryVars
  <1>2. r \in Runs /\ s \in Target /\ told \in [Runs -> [Target -> Nat]] /\ run \in [Runs -> RunStatus]
    BY <1>1, ItsRun DEF IInv, TypeOK
  <1>3. told[r][s] = 0 /\ IF s = 0 THEN run[r] = "completed" ELSE s \in opened[r]
    BY <1>1, <1>2 DEF IInv, TellFits, Telling
  <1>4. /\ told' \in [Runs -> [Target -> Nat]] /\ told'[r][s] = 1
        /\ \A q \in Runs, i \in Target : q # r \/ i # s => told'[q][i] = told[q][i]
    BY <1>1, <1>2, <1>3
  <1>5. PICK n \in Note : note' = [note EXCEPT ![w] = n] /\ n.at = "handled" /\ n.run = 0
    BY <1>1, ForgetsNote
  <1>6. /\ note' \in [Workers -> Note] /\ note'[w] = n
        /\ \A v \in Workers \ {w} : note'[v] = note[v]
    BY <1>5, NoteMoves
  <1>7. TypeOK'
    BY <1>1, <1>4, <1>6, WorkerTypeOK DEF IInv, TypeOK
  <1>8. take.run # 0 => run[take.run] = "opening"
    BY DEF IInv, RunsFit
  <1>9. TakeFits' /\ RunsFit'
    BY <1>1, <1>2, <1>5, <1>8, HoldersFit
  <1>10. CheckpointsInOrder' /\ WalkFits' /\ CompletedIsWalked'
    BY <1>1, <1>5, WalkMoves
  <1>11. ToldOnce'
    BY <1>1, <1>3, <1>4 DEF IInv, ToldOnce
  <1>12. TellFits'
    <2>1. \A v \in Workers, q \in Runs, i \in Target : Telling(v, q, i)' =>
            v # w /\ Telling(v, q, i) /\ (q # r \/ i # s)
      <3>1. \A v \in Workers, q \in Runs, i \in Target : Telling(v, q, i)' => v # w /\ Telling(v, q, i)
        BY <1>5, <1>6 DEF Telling
      <3>2. Telling(w, r, s)
        BY <1>1 DEF Telling
      <3> QED
        BY <1>2, <3>1, <3>2 DEF IInv, TellFits
    <2> QED
      BY <1>1, <1>4, <2>1 DEF IInv, TellFits
  <1> QED
    BY <1>7, <1>9, <1>10, <1>11, <1>12 DEF IInv

LEMMA NextInv == IInv /\ [Next]_vars => IInv'
  <1> SUFFICES ASSUME IInv, [Next]_vars PROVE IInv'
    OBVIOUS
  <1>1. CASE \E t \in Events : Takes(t) \/ Submits(t) \/ Ends(t) \/ Rejected(t) \/ Appeals(t) \/ Approves(t)
    BY <1>1, TakesInv, PlayerInv
  <1>2. CASE Taking
    BY <1>2, TakeInv DEF Taking
  <1>3. CASE \E r \in Runs : Abandons(r)
    BY <1>3, AbandonsInv
  <1>4. CASE \E w \in Workers, e \in Events : Begins(w, e)
    BY <1>4, BeginsInv
  <1>5. ASSUME NEW w \in Workers, Handling(w) \/ Fails(w) PROVE IInv'
    BY <1>5, FindsInv, DerivesInv, ClosesInv, OpensInv, TellsInv, QuietSteps DEF Handling
  <1>6. CASE UNCHANGED vars
    <2>1. UNCHANGED <<emitted, hand, recorded, sequential, try, take, run, opened, note, told, failures>>
      BY <1>6 DEF vars, deliveryVars, journeyVars
    <2>2. TypeOK' /\ TakeFits' /\ RunsFit'
      BY <2>1 DEF IInv, TypeOK, TakeFits, RunsFit, Holds
    <2> QED
      BY <2>1, <2>2, WalkStays, TellStays DEF IInv
  <1> QED
    BY <1>1, <1>2, <1>3, <1>4, <1>5, <1>6 DEF Next

-----------------------------------------------------------------------------
THEOREM Invariance == Spec => []IInv
  BY InitInv, NextInv, PTL DEF Spec

\* Tries, runs, consumers and announcements keep their types.
THEOREM TypeCorrect == Spec => []TypeOK
  <1>1. IInv => TypeOK
    BY DEF IInv
  <1> QED
    BY <1>1, Invariance, PTL

\* Whatever is taken or opened in a sequential chain has every earlier
\* checkpoint approved.
THEOREM WalkedInOrder == Spec => []CheckpointsInOrder
  <1>1. IInv => CheckpointsInOrder
    BY DEF IInv
  <1> QED
    BY <1>1, Invariance, PTL

\* No journey completes with a checkpoint that was not approved.
THEOREM CompletionIsEarned == Spec => []CompletedIsWalked
  <1>1. IInv => CompletedIsWalked
    BY DEF IInv
  <1> QED
    BY <1>1, Invariance, PTL

\* Of one run, nothing is announced twice, however its approvals are delivered.
THEOREM AnnouncedOnce == Spec => []ToldOnce
  <1>1. IInv => ToldOnce
    BY DEF IInv
  <1> QED
    BY <1>1, Invariance, PTL

\* No step takes a run back that was completed or abandoned.
THEOREM FinishedStay == Spec => FinishedRunsRest
  <1> DEFINE Rests == \A r \in Runs : run[r] \in {"completed", "abandoned"} => run'[r] = run[r]
  <1>1. IInv /\ [Next]_vars => [Rests]_vars
    <2> SUFFICES ASSUME IInv, Next, NEW r \in Runs, run[r] \in {"completed", "abandoned"}
                 PROVE  run'[r] = run[r]
      BY DEF Rests
    <2>1. run \in [Runs -> RunStatus] /\ take.run # r
      BY DEF IInv, TypeOK, RunsFit, Runs
    <2>2. CASE \E t \in Events : Takes(t)
      BY <2>1, <2>2, OpenedIsFree DEF Takes, Becomes
    <2>3. CASE \E t \in Events : Submits(t) \/ Ends(t) \/ Rejected(t) \/ Appeals(t) \/ Approves(t)
      BY <2>3 DEF Submits, Ends, Rejected, Appeals, Approves, Keeps
    <2>4. CASE Taking
      BY <2>1, <2>4 DEF Taking, TakeCommits, TakeFails, TakeEnds
    <2>5. CASE \E q \in Runs : Abandons(q)
      BY <2>1, <2>5 DEF Abandons, Becomes
    <2>6. CASE \E w \in Workers, e \in Events : Begins(w, e)
      BY <2>6 DEF Begins, journeyVars
    <2>7. ASSUME NEW w \in Workers, Handling(w) \/ Fails(w) PROVE run'[r] = run[r]
      <3>1. CASE Finds(w)
        BY <2>1, <3>1, OpenedIsFree DEF Finds, Becomes
      <3>2. CASE Closes(w)
        BY <2>1, <3>2 DEF Closes, Becomes, Live
      <3>3. CASE Opens(w) \/ OpensNothing(w)
        BY <2>1, <3>3 DEF Opens, OpensNothing, Becomes, Settled
      <3>4. CASE Derives(w) \/ Tells(w) \/ Records(w)
        BY <3>4 DEF Derives, Tells, Records
      <3>5. CASE Fails(w)
        BY <3>5 DEF Fails
      <3> QED
        BY <2>7, <3>1, <3>2, <3>3, <3>4, <3>5 DEF Handling
    <2> QED
      BY <2>2, <2>3, <2>4, <2>5, <2>6, <2>7 DEF Next
  <1> QED
    BY <1>1, Invariance, PTL DEF Spec, FinishedRunsRest

=============================================================================
