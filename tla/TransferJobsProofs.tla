-------------------------- MODULE TransferJobsProofs --------------------------
(***************************************************************************)
(* The safety of TransferJobs, for any number of offers, pastes, reports   *)
(* and files, and any process numbers.  The bridge keeps books of its      *)
(* spool: one directory per offer, which the offer, its grace or a paste   *)
(* holds, and which one paste at a time may write.  A surface shows a job  *)
(* as the last word about it says, wherever that word is: in the channel,  *)
(* in the call to the daemon, or on the screen.                            *)
(***************************************************************************)
EXTENDS TransferJobs, FiniteSetTheorems, SequenceTheorems, WellFoundedInduction, TLAPS

Dirs == Nat \X Nat
States == {"running", "done", "failed", "cancelled"}
JobPcs == {"none", "starts", "fills", "fetches", "writes", "aborted", "ended"}
JobState ==
  [pc : JobPcs, kind : {"item", "files"}, serial : 0..MaxOffers, dir : Dirs,
   file : Nat, listed : BOOLEAN, shown : BOOLEAN, ticks : Nat]
Spool == [session : Nat, serial : Nat, content : [1..Files -> {"absent", "part", "whole"}]]
Message == [job : JobIds, state : States]
Call == [job : JobIds, state : States, replaces : Nat]
Picture == [session : Nat, job : JobIds, state : States]

BridgeTypes ==
  /\ surface \in {"notes", "rows"}
  /\ session \in Nat \ {0} /\ pid \in Pids /\ alive \in BOOLEAN
  /\ remote \in [serial : 0..MaxOffers, files : BOOLEAN, dir : Dirs]
  /\ cell \in [1..MaxOffers -> 0..Set]
  /\ retired \in SUBSET Dirs /\ recent \in SUBSET Nat
  /\ job \in [JobIds -> JobState]
  /\ DOMAIN dirs \in SUBSET Dirs /\ IsFiniteSet(DOMAIN dirs)
  /\ dirs \in [DOMAIN dirs -> Spool]
  /\ handed \in SUBSET [session : Nat, serial : Nat, dir : Dirs]

DisplayTypes ==
  /\ reports \in Seq(Message) /\ cancels \in Seq(JobIds)
  /\ notes.by_job \in [DOMAIN notes.by_job -> Nat]
  /\ notes.by_note \in [DOMAIN notes.by_note -> JobIds]
  /\ DOMAIN notes.by_note \in SUBSET (Nat \ {0})
  /\ notes = [by_job |-> notes.by_job, by_note |-> notes.by_note,
              silenced |-> notes.silenced]
  /\ DOMAIN notes.by_job \in SUBSET JobIds /\ notes.silenced \in SUBSET JobIds
  /\ calling \in Call \cup {NotCalling}
  /\ DOMAIN screen \in SUBSET (Nat \ {0}) /\ IsFiniteSet(DOMAIN screen)
  /\ screen \in [DOMAIN screen -> Picture]
  /\ signals \in Seq([kind : {"action", "closed"}, note : Nat])
  /\ lingers \in SUBSET JobIds /\ crossed \in SUBSET JobIds

TypeOK == BridgeTypes /\ DisplayTypes

-----------------------------------------------------------------------------
(* The spool.                                                                *)

\* A directory of this session.
Mine(d) == d \in DOMAIN dirs /\ dirs[d].session = session

\* The disk: this session's directories bear its process's number, and the
\* neighbour's is there.
Disk ==
  /\ <<Neighbour, 0>> \in DOMAIN dirs /\ dirs[<<Neighbour, 0>>].session = 0
  /\ \A d \in DOMAIN dirs : dirs[d].session <= session
  /\ \A d \in DOMAIN dirs : Mine(d) => d[1] = pid

\* A process that has ended holds nothing.
AtRest ==
  /\ remote = NoOffer /\ cell = EmptyCells /\ retired = {} /\ recent = {}
  /\ job = NoJobs /\ notes = NoNotes /\ calling = NotCalling /\ handed = {}

\* One directory for an offer, held by it while it stands and by its grace
\* after that.
OnePerOffer ==
  /\ \A d, e \in DOMAIN dirs : Mine(d) /\ Mine(e) /\ dirs[d].serial = dirs[e].serial => d = e
  /\ \A d \in DOMAIN dirs : Mine(d) =>
       /\ dirs[d].serial \in 1..remote.serial
       /\ dirs[d].serial = remote.serial => d = remote.dir
       /\ dirs[d].serial \in recent => d \in retired
  /\ remote.dir # NoDir => Mine(remote.dir) /\ dirs[remote.dir].serial = remote.serial
  /\ \A d \in retired : Mine(d)
  /\ \A s \in recent : s < remote.serial

\* A paste of files holds its offer's directory.
Pasting(j) ==
  /\ job[j].pc = "none" => job[j] = NoJob
  /\ Live(j) =>
       /\ job[j].serial \in 1..remote.serial
       /\ IF job[j].kind = "item"
          THEN job[j].dir = NoDir /\ job[j].pc \in {"starts", "fetches", "aborted"}
          ELSE Mine(job[j].dir) /\ dirs[job[j].dir].serial = job[j].serial

\* The job that fills the cell of an offer is the one that writes the files of
\* its directory, in their order; once the cell is set, all are whole.
Whole(d) == \A f \in 1..Files : dirs[d].content[f] = "whole"
Filling(j) ==
  job[j].kind = "files" =>
    /\ job[j].pc \in {"fills", "fetches"} =>
         /\ cell[job[j].serial] = j /\ job[j].file \in 1..Files
         /\ \A f \in 1..Files : f < job[j].file => dirs[job[j].dir].content[f] = "whole"
    /\ job[j].pc = "writes" => cell[job[j].serial] = Set

Cells ==
  \A s \in 1..MaxOffers : cell[s] # Empty =>
    /\ s <= remote.serial /\ (s = remote.serial => remote.dir # NoDir)
    /\ cell[s] = Set => \A d \in DOMAIN dirs : Mine(d) /\ dirs[d].serial = s => Whole(d)

\* What was handed out is of a cell that is set, in the directory of its offer
\* while that stands or is recent.
Handed ==
  \A h \in handed :
    /\ h.session = session /\ h.serial \in 1..remote.serial /\ cell[h.serial] = Set
    /\ h.serial \in {remote.serial} \cup recent =>
         Mine(h.dir) /\ dirs[h.dir].serial = h.serial

Books ==
  /\ OnePerOffer /\ Cells /\ Handed
  /\ \A j \in JobIds : Pasting(j) /\ Filling(j)

-----------------------------------------------------------------------------
(* What is shown.                                                            *)

Running(j) == job[j].listed /\ job[j].shown

\* The channel q has a word about j; the last one is that it runs.
Told(q, j) == \E i \in 1..Len(q) : q[i].job = j
Runs(q, j) ==
  \E i \in 1..Len(q) : /\ q[i].job = j /\ q[i].state = "running"
                       /\ \A k \in 1..Len(q) : i < k => q[k].job # j

ShownAs(id, j) == id \in DOMAIN screen /\ screen[id] = Shown(j, "running")
Closed(q, id) == \E i \in 1..Len(q) : q[i] = Signal("closed", id)

\* Notes: the two maps are each other's inverse, and the report being posted
\* replaces the notification of its job, if there is one.
Mapped ==
  /\ \A j \in DOMAIN notes.by_job :
       /\ notes.by_job[j] \in DOMAIN notes.by_note
       /\ notes.by_note[notes.by_job[j]] = j /\ j \notin notes.silenced
  /\ \A id \in DOMAIN notes.by_note :
       /\ notes.by_note[id] \in DOMAIN notes.by_job
       /\ notes.by_job[notes.by_note[id]] = id
  /\ calling # NotCalling =>
       /\ calling.job \notin notes.silenced
       /\ IF calling.replaces = 0 THEN calling.job \notin DOMAIN notes.by_job
          ELSE /\ calling.job \in DOMAIN notes.by_job
               /\ calling.replaces = notes.by_job[calling.job]

\* A job's notification is shown, or the signal that it was closed is to come.
Posted(j) ==
  /\ \A id \in DOMAIN screen : ShownAs(id, j) =>
       j \in DOMAIN notes.by_job /\ notes.by_job[j] = id
  /\ j \in DOMAIN notes.by_job =>
       LET id == notes.by_job[j] IN
       IF id \in DOMAIN screen THEN ShownAs(id, j) /\ ~Closed(signals, id)
       ELSE Closed(signals, id)

\* The surface has taken in what it was told.
Taken(j) ==
  IF surface = "notes" THEN j \notin notes.silenced => (Running(j) <=> j \in DOMAIN notes.by_job)
  ELSE j \notin crossed => (Running(j) <=> ShownAs(j, j))

\* The last word about j is true.
Truth(j) ==
  IF Told(reports, j) THEN Runs(reports, j) <=> Running(j)
  ELSE IF calling.job = j THEN calling.state = "running" <=> Running(j)
  ELSE Taken(j)

Surfaces ==
  /\ \A id \in DOMAIN screen : screen[id].session <= session
  /\ surface = "notes" => lingers = {}
  /\ surface = "rows" => /\ notes = NoNotes /\ calling = NotCalling /\ signals = <<>>
                         /\ \A id \in DOMAIN screen : screen[id].job = id

Display ==
  /\ Mapped
  /\ \A j \in JobIds : Truth(j)
  /\ surface = "notes" => \A j \in JobIds \ crossed : Posted(j)

-----------------------------------------------------------------------------
\* Jobs::running has the jobs that go on.
Listing ==
  \A j \in JobIds : job[j].listed => job[j].pc \in {"starts", "fills", "fetches", "writes"}

\* The inductive invariant: what holds of a process, if there is one, and of what
\* is left between two.
IInv ==
  /\ TypeOK /\ Disk /\ Surfaces /\ Listing
  /\ IF alive THEN Books /\ Display ELSE AtRest

-----------------------------------------------------------------------------
(* Numbers, functions and names.                                             *)

LEMMA UpTo ==
  ASSUME NEW n \in Nat
  PROVE  /\ IsFiniteSet(0..n) /\ Cardinality(0..n) = n + 1
         /\ IsFiniteSet(1..n) /\ Cardinality(1..n) = n
<1>1. n \in Int /\ 0 \in Int /\ 1 \in Int
  OBVIOUS
<1>2. IsFiniteSet(0..n) /\ Cardinality(0..n) = IF 0 > n THEN 0 ELSE n - 0 + 1
  BY <1>1, FS_Interval
<1>3. IsFiniteSet(1..n) /\ Cardinality(1..n) = IF 1 > n THEN 0 ELSE n - 1 + 1
  BY <1>1, FS_Interval
<1> QED
  BY <1>2, <1>3

LEMMA UnionBound ==
  ASSUME NEW S, IsFiniteSet(S), NEW T, IsFiniteSet(T)
  PROVE  /\ IsFiniteSet(S \cup T) /\ Cardinality(S) \in Nat /\ Cardinality(T) \in Nat
         /\ Cardinality(S \cup T) \in Nat
         /\ Cardinality(S \cup T) <= Cardinality(S) + Cardinality(T)
<1>1. IsFiniteSet(S \cup T) /\ IsFiniteSet(S \cap T)
  BY FS_Union, FS_Intersection
<1>2. Cardinality(S \cap T) \in Nat /\ Cardinality(S \cup T) \in Nat
  BY <1>1, FS_CardinalityType
<1>3. Cardinality(S) \in Nat /\ Cardinality(T) \in Nat
  BY FS_CardinalityType
<1>4. Cardinality(S \cup T) = Cardinality(S) + Cardinality(T) - Cardinality(S \cap T)
  BY FS_Union
<1> QED
  BY <1>1, <1>2, <1>3, <1>4

LEMMA Least ==
  ASSUME NEW T \in SUBSET Nat, T # {}
  PROVE  \E x \in T : \A y \in T : x <= y
<1>1. PICK t \in T : TRUE
  OBVIOUS
<1> DEFINE F == {0..x : x \in {y \in T : y <= t}}
<1>2. F \subseteq FiniteSubsetsOf(0..t) /\ F # {}
  <2>1. F \subseteq SUBSET (0..t) /\ 0..t \in F
    BY <1>1
  <2>2. IsFiniteSet(0..t)
    BY <1>1, UpTo
  <2>3. FiniteSubsetsOf(0..t) = SUBSET (0..t)
    BY <2>2, FS_FiniteSubsetsOfFinite
  <2> HIDE DEF F
  <2> QED
    BY <2>1, <2>3
<1>3. PICK U \in F : \A V \in F : <<V, U>> \notin StrictSubsetOrdering(0..t)
  <2> HIDE DEF F
  <2> QED
    BY <1>2, WFMin, FS_StrictSubsetOrderingWellFounded
<1>4. PICK x \in T : x <= t /\ U = 0..x
  BY <1>3
<1>5. ASSUME NEW y \in T, y < x
      PROVE  FALSE
  <2>1. 0..y \in F /\ 0..y \subseteq 0..x /\ 0..y # 0..x /\ 0..x \subseteq 0..t
    BY <1>4, <1>5
  <2> QED
    BY <1>3, <1>4, <2>1 DEF StrictSubsetOrdering
<1> QED
  BY <1>5

LEMMA Constants ==
  /\ Files \in Nat /\ MaxOffers \in Nat /\ MaxJobs \in Nat
  /\ Files > 0 /\ MaxOffers > 0 /\ MaxJobs > 0
  /\ \A p \in Pids : p \in Nat /\ p > 0 /\ p # Neighbour
  /\ Neighbour \in Nat /\ Neighbour > 0 /\ Pids # {}
  /\ \A j \in JobIds : j \in Nat /\ j > 0 /\ j # Set /\ j # Empty
  /\ Set # Empty /\ Set \in Nat /\ NoDir \in Dirs
BY JobsAssumption DEF JobIds, Set, Empty, NoDir, Dirs

LEMMA WithFacts ==
  ASSUME NEW f, NEW k, NEW v
  PROVE  /\ DOMAIN With(f, k, v) = DOMAIN f \cup {k}
         /\ With(f, k, v)[k] = v
         /\ \A x \in DOMAIN f : x # k => With(f, k, v)[x] = f[x]
         /\ \A S : f \in [DOMAIN f -> S] /\ v \in S =>
              With(f, k, v) \in [DOMAIN With(f, k, v) -> S]
BY DEF With

LEMMA WithoutFacts ==
  ASSUME NEW f, NEW k
  PROVE  /\ DOMAIN Without(f, k) = DOMAIN f \ {k}
         /\ \A x \in DOMAIN f : x # k => Without(f, k)[x] = f[x]
         /\ \A S : f \in [DOMAIN f -> S] =>
              Without(f, k) \in [DOMAIN Without(f, k) -> S]
BY DEF Without

\* The first process number; the first directory of this process not taken.
LEMMA MinPid == Min(Pids) \in Pids
<1>1. Pids \in SUBSET Nat /\ Pids # {}
  BY JobsAssumption
<1>2. \E x \in Pids : \A y \in Pids : x <= y
  BY <1>1, Least
<1> QED
  BY <1>2 DEF Min

LEMMA NewDirFresh ==
  ASSUME BridgeTypes
  PROVE  NewDir \in Dirs /\ NewDir \notin DOMAIN dirs /\ NewDir[1] = pid
<1> DEFINE C == Cardinality(DOMAIN dirs)
<1> DEFINE Free(n) == <<pid, n>> \notin DOMAIN dirs
<1> DEFINE T == {n \in 0..C : Free(n)}
<1>1. IsFiniteSet(DOMAIN dirs) /\ C \in Nat /\ pid \in Nat
  BY FS_CardinalityType, Constants DEF BridgeTypes
<1>2. T # {}
  <2> SUFFICES ASSUME \A n \in 0..C : ~Free(n)
               PROVE  FALSE
    OBVIOUS
  <2> DEFINE g == [n \in 0..C |-> <<pid, n>>]
  <2>1. g \in Injection(0..C, DOMAIN dirs)
    BY DEF Injection, IsInjective
  <2>2. Cardinality(0..C) <= C
    <3> HIDE DEF g
    <3> QED
      BY <1>1, <2>1, FS_Injection
  <2>3. Cardinality(0..C) = C + 1
    <3> HIDE DEF C
    <3> QED
      BY <1>1, UpTo
  <2> QED
    BY <1>1, <2>2, <2>3
<1>3. T \in SUBSET Nat
  OBVIOUS
<1>4. PICK n \in T : \A m \in T : n <= m
  <2> HIDE DEF T
  <2> QED
    BY <1>2, <1>3, Least
<1>5. \E k \in 0..C : Free(k) /\ \A m \in 0..k - 1 : ~Free(m)
  <2>1. \A m \in 0..n - 1 : ~Free(m)
    <3> HIDE DEF Free, C
    <3> QED
      BY <1>1, <1>4
  <2> QED
    BY <1>4, <2>1
<1> DEFINE k == CHOOSE k \in 0..C : Free(k) /\ \A m \in 0..k - 1 : ~Free(m)
<1>6. k \in 0..C /\ Free(k)
  <2> HIDE DEF C, Free
  <2> QED
    BY <1>5
<1>7. NewDir = <<pid, k>>
  BY DEF NewDir
<1> HIDE DEF k
<1> QED
  BY <1>1, <1>6, <1>7 DEF Dirs

LEMMA NewNoteFresh ==
  ASSUME DisplayTypes, Mapped,
         NEW n, n = CHOOSE k \in 1..NewNote + MaxJobs :
                      /\ k \notin DOMAIN screen \cup DOMAIN notes.by_note
                      /\ \A i \in DOMAIN signals : signals[i].note # k
  PROVE  /\ n \in Nat \ {0} /\ n \notin DOMAIN screen /\ n \notin DOMAIN notes.by_note
         /\ \A i \in 1..Len(signals) : signals[i].note # n
<1> DEFINE A == DOMAIN screen
           B == DOMAIN notes.by_note
           L == 1..Len(signals)
           D == {signals[i].note : i \in L}
           N == NewNote + MaxJobs
<1>1. IsFiniteSet(A) /\ Cardinality(A) \in Nat /\ Len(signals) \in Nat
  BY FS_CardinalityType DEF DisplayTypes
<1>2. IsFiniteSet(B) /\ Cardinality(B) \in Nat /\ Cardinality(B) <= MaxJobs
  <2>1. notes.by_note \in Injection(B, JobIds)
    BY DEF Injection, IsInjective, Mapped, DisplayTypes
  <2>2. IsFiniteSet(JobIds) /\ Cardinality(JobIds) = MaxJobs
    BY Constants, UpTo DEF JobIds
  <2> HIDE DEF B
  <2> QED
    BY <2>1, <2>2, FS_Injection, FS_CardinalityType
<1>3. IsFiniteSet(D) /\ Cardinality(D) \in Nat /\ Cardinality(D) <= Len(signals)
  <2>1. IsFiniteSet(L) /\ Cardinality(L) = Len(signals)
    BY <1>1, UpTo
  <2> DEFINE f == [i \in L |-> signals[i].note]
  <2>2. f \in Surjection(L, D)
    BY DEF Surjection
  <2> HIDE DEF f, L, D
  <2> QED
    BY <2>1, <2>2, FS_Surjection, FS_CardinalityType
<1>4. /\ IsFiniteSet(A \cup B \cup D)
      /\ Cardinality(A \cup B \cup D) < N
  <2> DEFINE AB == A \cup B
  <2> HIDE DEF A, B, D
  <2>1. /\ IsFiniteSet(AB) /\ Cardinality(AB) \in Nat
        /\ Cardinality(AB) <= Cardinality(A) + Cardinality(B)
    BY <1>1, <1>2, UnionBound
  <2> HIDE DEF AB
  <2>2. /\ IsFiniteSet(AB \cup D) /\ Cardinality(AB \cup D) \in Nat
        /\ Cardinality(AB \cup D) <= Cardinality(AB) + Cardinality(D)
    BY <1>3, <2>1, UnionBound
  <2>3. N = Cardinality(A) + Len(signals) + 1 + MaxJobs
    BY DEF NewNote, A
  <2> QED
    BY <1>1, <1>2, <1>3, <2>1, <2>2, <2>3, Constants DEF AB
<1>5. N \in Nat
  BY <1>1, Constants DEF NewNote
<1>6. ~(1..N \subseteq A \cup B \cup D)
  <2> DEFINE E == A \cup B \cup D
  <2> HIDE DEF E, N
  <2>1. IsFiniteSet(E) /\ Cardinality(E) < N /\ Cardinality(E) \in Nat
    BY <1>4, FS_CardinalityType DEF E
  <2>2. Cardinality(1..N) = N
    BY <1>5, UpTo
  <2>3. 1..N \subseteq E => Cardinality(1..N) <= Cardinality(E)
    BY <2>1, FS_Subset
  <2> QED
    BY <1>5, <2>1, <2>2, <2>3 DEF E
<1>7. DOMAIN signals = L
  BY DEF DisplayTypes
<1>8. \E k \in 1..N : k \notin A \cup B /\ \A i \in DOMAIN signals : signals[i].note # k
  BY <1>6, <1>7
<1>9. n \in 1..N /\ n \notin A \cup B /\ \A i \in DOMAIN signals : signals[i].note # n
  <2> HIDE DEF A, B, N
  <2> QED
    BY <1>8 DEF A, B, N
<1> QED
  BY <1>5, <1>7, <1>9

-----------------------------------------------------------------------------
(* The books of the spool.                                                   *)

LEMMA MineFacts ==
  ASSUME BridgeTypes, Disk, NEW d, Mine(d)
  PROVE  /\ d # NoDir /\ d # <<Neighbour, 0>> /\ d \in Dirs /\ d[1] = pid
         /\ dirs[d] \in Spool /\ d \in DOMAIN dirs /\ dirs[d].session = session
<1>1. /\ d \in Dirs /\ d[1] = pid /\ dirs[d] \in Spool /\ d \in DOMAIN dirs
      /\ dirs[d].session = session
  BY DEF BridgeTypes, Disk, Mine
<1>2. pid \in Nat /\ pid > 0 /\ pid # Neighbour
  BY Constants DEF BridgeTypes
<1> QED
  BY <1>1, <1>2 DEF NoDir

\* What is dropped is of this session and held by nothing.
LEMMA DroppedFacts ==
  ASSUME BridgeTypes, Disk, session' = session, pid' = pid, dirs' = Dropped(dirs)
  PROVE  /\ \A d \in DOMAIN dirs' : d \in DOMAIN dirs /\ dirs'[d] = dirs[d]
         /\ \A d : Mine(d)' => Mine(d)
         /\ \A d : /\ Mine(d)
                   /\ \/ d = remote'.dir \/ d \in retired'
                      \/ \E j \in JobIds : job'[j].pc \notin {"none", "ended"} /\ job'[j].dir = d
                   => Mine(d)'
         /\ DOMAIN dirs' \in SUBSET Dirs /\ IsFiniteSet(DOMAIN dirs')
         /\ dirs' \in [DOMAIN dirs' -> Spool]
         /\ Disk'
<1> DEFINE D == {x \in DOMAIN dirs : dirs[x].session = session => x \in Held'}
<1>1. dirs' = [d \in D |-> dirs[d]]
  BY DEF Dropped
<1>2. DOMAIN dirs' = D /\ D \subseteq DOMAIN dirs /\ \A d \in D : dirs'[d] = dirs[d]
  BY <1>1
<1>3. \A d \in DOMAIN dirs : dirs[d].session # session => d \in D
  OBVIOUS
<1>4. ASSUME NEW d, Mine(d),
             \/ d = remote'.dir \/ d \in retired'
             \/ \E j \in JobIds : job'[j].pc \notin {"none", "ended"} /\ job'[j].dir = d
      PROVE  d \in D
  <2>1. d # NoDir
    BY <1>4, MineFacts
  <2>2. d \in Held'
    BY <1>4, <2>1 DEF Held, Live
  <2> QED
    BY <1>4, <2>2 DEF Mine
<1> HIDE DEF D
<1>5. \A d : Mine(d)' => Mine(d)
  BY <1>2 DEF Mine
<1>6. \A d : Mine(d) /\ d \in D => Mine(d)'
  BY <1>2 DEF Mine
<1>7. /\ DOMAIN dirs' \in SUBSET Dirs /\ IsFiniteSet(DOMAIN dirs')
      /\ dirs' \in [DOMAIN dirs' -> Spool]
  <2>1. IsFiniteSet(D)
    BY <1>2, FS_Subset DEF BridgeTypes
  <2>2. \A d \in D : dirs[d] \in Spool
    BY <1>2 DEF BridgeTypes
  <2> QED
    BY <1>1, <1>2, <2>1, <2>2 DEF BridgeTypes
<1>8. Disk'
  <2>1. <<Neighbour, 0>> \in D
    <3>1. dirs[<<Neighbour, 0>>].session # session
      BY DEF Disk, BridgeTypes
    <3> QED
      BY <1>3, <3>1 DEF Disk
  <2> QED
    BY <1>2, <1>5, <2>1 DEF Disk
<1> QED
  BY <1>2, <1>4, <1>5, <1>6, <1>7, <1>8

\* A paste that ends lets go of its directory, and of a cell it fills.
LEMMA EndBooks ==
  ASSUME BridgeTypes, Disk, Books, NEW j \in JobIds,
         UNCHANGED <<session, pid, remote, retired, recent>>,
         dirs' = Dropped(dirs),
         \A k \in JobIds : k # j => job'[k] = job[k],
         job'[j].pc = "ended", job[j].pc \notin {"none", "ended"},
         \A s \in 1..MaxOffers : cell'[s] = cell[s] \/ (cell[s] = j /\ cell'[s] = Empty),
         \/ handed' = handed
         \/ /\ job[j].pc = "writes"
            /\ handed' = handed \cup {[session |-> session, serial |-> job[j].serial,
                                       dir |-> job[j].dir]}
  PROVE  Books'
<1>1. /\ \A d \in DOMAIN dirs' : d \in DOMAIN dirs /\ dirs'[d] = dirs[d]
      /\ \A d : Mine(d)' => Mine(d)
      /\ \A d : /\ Mine(d)
                /\ \/ d = remote.dir \/ d \in retired
                   \/ \E k \in JobIds : job'[k].pc \notin {"none", "ended"} /\ job'[k].dir = d
                => Mine(d)'
  BY DroppedFacts
<1>2. \A d : Mine(d)' => d \in DOMAIN dirs'
  BY DEF Mine
<1>3. \A d : Mine(d) => d \in DOMAIN dirs
  BY DEF Mine
<1>4. OnePerOffer'
  BY <1>1, <1>2, <1>3 DEF Books, OnePerOffer
<1>5. Cells'
  BY <1>1, <1>2 DEF Books, Cells, Whole
<1>6. \A s \in 1..MaxOffers : cell[s] = Set => cell'[s] = Set
  BY Constants
<1>7. remote.serial \in 0..MaxOffers
  BY DEF BridgeTypes
<1>8. ASSUME NEW h \in handed'
      PROVE  /\ h.session = session /\ h.serial \in 1..remote.serial
             /\ cell'[h.serial] = Set
             /\ h.serial \in {remote.serial} \cup recent =>
                  Mine(h.dir)' /\ dirs'[h.dir].serial = h.serial
  <2>1. /\ h.session = session /\ h.serial \in 1..remote.serial
        /\ cell[h.serial] = Set
        /\ h.serial \in {remote.serial} \cup recent =>
             Mine(h.dir) /\ dirs[h.dir].serial = h.serial
    <3>1. CASE h \in handed
      BY <3>1 DEF Books, Handed
    <3>2. CASE h \notin handed
      <4>1. /\ job[j].pc = "writes" /\ h.session = session
            /\ h.serial = job[j].serial /\ h.dir = job[j].dir
        BY <1>8, <3>2
      <4>2. job[j].kind = "files" /\ job[j] \in JobState
        BY <4>1 DEF Books, Pasting, Live, BridgeTypes, JobState
      <4> QED
        BY <4>1, <4>2 DEF Books, Pasting, Filling, Live
    <3> QED
      BY <3>1, <3>2
  <2>2. h.serial \in 1..MaxOffers
    BY <1>7, <2>1, Constants
  <2>3. ASSUME h.serial \in {remote.serial} \cup recent
        PROVE  Mine(h.dir)' /\ dirs'[h.dir].serial = h.serial
    <3>1. h.dir = remote.dir \/ h.dir \in retired
      BY <1>3, <2>1, <2>3 DEF Books, OnePerOffer
    <3> QED
      BY <1>1, <1>2, <2>1, <2>3, <3>1
  <2> QED
    BY <1>6, <2>1, <2>2, <2>3
<1>9. Handed'
  BY <1>8 DEF Handed
<1>10. ASSUME NEW k \in JobIds
       PROVE  Pasting(k)' /\ Filling(k)'
  <2>1. CASE k = j
    BY <2>1 DEF Pasting, Filling, Live
  <2>2. CASE k # j
    <3>1. job'[k] = job[k] /\ job[k] \in JobState
      BY <2>2 DEF BridgeTypes
    <3>2. Pasting(k)'
      BY <1>1, <1>2, <3>1 DEF Books, Pasting, Live
    <3>3. Filling(k)'
      <4> SUFFICES ASSUME job[k].kind = "files", job[k].pc \in {"fills", "fetches", "writes"}
                   PROVE  Filling(k)'
        BY <3>1 DEF Filling
      <4> PICK d : d = job[k].dir
        OBVIOUS
      <4>1. job[k].serial \in 1..remote.serial /\ Mine(d)
        BY DEF Books, Pasting, Live
      <4>5. Mine(d)'
        <5>1. job'[k].pc \notin {"none", "ended"} /\ job'[k].dir = d
          BY <3>1
        <5> QED
          BY <1>1, <4>1, <5>1
      <4>6. job[k].serial \in 1..MaxOffers
        BY <1>7, <4>1, Constants
      <4>2. cell'[job[k].serial] = cell[job[k].serial]
        BY <1>6, <2>2, <4>6 DEF Books, Filling
      <4>3. dirs'[d] = dirs[d]
        BY <1>1, <1>2, <4>5
      <4> QED
        BY <3>1, <4>2, <4>3 DEF Books, Filling
    <3> QED
      BY <3>2, <3>3
  <2> QED
    BY <2>1, <2>2
<1> QED
  BY <1>4, <1>5, <1>9, <1>10 DEF Books

\* The books do not depend on what is shown of a job, nor on how far the fetch
\* of an item is; and a job may stop.
LEMMA SameBooks ==
  ASSUME BridgeTypes, Disk, Books, UNCHANGED bridge,
         \A k \in JobIds :
           \/ job'[k] = job[k]
           \/ /\ job'[k].kind = job[k].kind /\ job'[k].serial = job[k].serial
              /\ job'[k].dir = job[k].dir /\ job'[k].file = job[k].file
              /\ job[k].pc \notin {"none", "ended"}
              /\ \/ job'[k].pc = job[k].pc \/ job'[k].pc \in {"aborted", "ended"}
                 \/ job'[k].pc = "fetches" /\ job[k].kind = "item"
  PROVE  Disk' /\ Books'
<1>1. UNCHANGED <<session, pid, alive, remote, cell, retired, dirs, handed, recent>>
  BY DEF bridge
<1>2. Disk' /\ \A d : Mine(d)' <=> Mine(d)
  BY <1>1 DEF Disk, Mine
<1>3. OnePerOffer' /\ Cells' /\ Handed'
  BY <1>1, <1>2 DEF Books, OnePerOffer, Cells, Whole, Handed
<1>4. ASSUME NEW k \in JobIds
      PROVE  Pasting(k)' /\ Filling(k)'
  <2>1. CASE job'[k] = job[k]
    BY <1>1, <1>2, <2>1 DEF Books, Pasting, Filling, Live
  <2>2. CASE job'[k] # job[k]
    <3>1. Live(k)
      BY <2>2 DEF Live
    <3>2. Pasting(k)'
      BY <1>1, <1>2, <2>2, <3>1 DEF Books, Pasting, Live
    <3>3. Filling(k)'
      BY <1>1, <1>2, <2>2, <3>1 DEF Books, Filling
    <3> QED
      BY <3>2, <3>3
  <2> QED
    BY <2>1, <2>2
<1> QED
  BY <1>2, <1>3, <1>4 DEF Books

-----------------------------------------------------------------------------
(* The steps of the bridge, in its books.                                    *)

LEMMA OfferBooks ==
  ASSUME BridgeTypes, Disk, Books, NEW files \in BOOLEAN, OnRemoteOffer(files)
  PROVE  BridgeTypes' /\ Disk' /\ Books'
<1> PICK n : n = remote.serial + 1
  OBVIOUS
<1>1. /\ remote' = [serial |-> n, files |-> files, dir |-> NoDir]
      /\ remote.serial < MaxOffers /\ recent' = recent \cup {remote.serial}
      /\ UNCHANGED <<surface, session, pid, alive, cell, handed, job>>
      /\ dirs' = Dropped(dirs) /\ retired' = Retire(remote.dir)
  BY DEF OnRemoteOffer
<1>2. remote.serial \in Nat /\ n \in 1..MaxOffers /\ n > remote.serial /\ MaxOffers \in Nat
  BY <1>1, Constants DEF BridgeTypes
<1>3. remote'.serial = n /\ remote'.dir = NoDir
  BY <1>1
<1>4. retired \subseteq retired' /\ (remote.dir # NoDir => remote.dir \in retired')
      /\ retired' \subseteq retired \cup {remote.dir} /\ NoDir \notin retired'
  <2>1. NoDir \notin retired
    BY MineFacts DEF Books, OnePerOffer
  <2> QED
    BY <1>1, <2>1 DEF Retire
<1>5. /\ \A d \in DOMAIN dirs' : d \in DOMAIN dirs /\ dirs'[d] = dirs[d]
      /\ \A d : Mine(d)' => Mine(d)
      /\ \A d : /\ Mine(d)
                /\ \/ d \in retired'
                   \/ \E j \in JobIds : job[j].pc \notin {"none", "ended"} /\ job[j].dir = d
                => Mine(d)'
      /\ DOMAIN dirs' \in SUBSET Dirs /\ IsFiniteSet(DOMAIN dirs')
      /\ dirs' \in [DOMAIN dirs' -> Spool] /\ Disk'
  BY <1>1, DroppedFacts
<1>6. \A d : Mine(d)' => d \in DOMAIN dirs' /\ d \in DOMAIN dirs
  BY <1>5 DEF Mine
<1>7. \A d : Mine(d) => d # NoDir /\ d \in DOMAIN dirs
  BY MineFacts
<1>8. OnePerOffer'
  <2>1. ASSUME NEW d \in DOMAIN dirs', Mine(d)'
        PROVE  /\ dirs'[d].serial \in 1..n /\ dirs'[d].serial # n
               /\ dirs'[d].serial \in recent' => d \in retired'
    <3>1. /\ Mine(d) /\ dirs'[d] = dirs[d] /\ d \in DOMAIN dirs
          /\ dirs[d].serial \in 1..remote.serial
          /\ dirs[d].serial = remote.serial => d = remote.dir
          /\ dirs[d].serial \in recent => d \in retired
      BY <1>5, <2>1 DEF Books, OnePerOffer
    <3>2. d # NoDir
      BY <1>7, <3>1
    <3> QED
      BY <1>1, <1>2, <1>4, <3>1, <3>2
  <2>2. \A d \in retired' : Mine(d)'
    BY <1>4, <1>5 DEF Books, OnePerOffer
  <2>3. \A s \in recent' : s < n
    <3>1. \A s \in recent : s < remote.serial /\ s \in Nat
      BY DEF Books, OnePerOffer, BridgeTypes
    <3> QED
      BY <1>1, <1>2, <3>1
  <2>4. \A d, e \in DOMAIN dirs' :
          Mine(d)' /\ Mine(e)' /\ dirs'[d].serial = dirs'[e].serial => d = e
    BY <1>5 DEF Books, OnePerOffer
  <2> QED
    BY <1>3, <2>1, <2>2, <2>3, <2>4 DEF OnePerOffer
<1>9. Cells'
  <2> SUFFICES ASSUME NEW s \in 1..MaxOffers, cell[s] # Empty
               PROVE  /\ s <= n /\ s # n
                      /\ cell[s] = Set =>
                           \A d \in DOMAIN dirs' : Mine(d)' /\ dirs'[d].serial = s => Whole(d)'
    BY <1>1, <1>3 DEF Cells
  <2>1. s <= remote.serial
    BY DEF Books, Cells
  <2>2. \A d \in DOMAIN dirs' : Mine(d)' /\ dirs'[d].serial = s /\ cell[s] = Set => Whole(d)'
    BY <1>5 DEF Books, Cells, Whole
  <2> QED
    BY <1>2, <2>1, <2>2
<1>10. Handed'
  <2> SUFFICES ASSUME NEW h \in handed
               PROVE  /\ h.session = session /\ h.serial \in 1..n /\ cell[h.serial] = Set
                      /\ h.serial \in {n} \cup recent' =>
                           Mine(h.dir)' /\ dirs'[h.dir].serial = h.serial
    BY <1>1, <1>3 DEF Handed
  <2>1. /\ h.session = session /\ h.serial \in 1..remote.serial /\ cell[h.serial] = Set
        /\ h.serial \in {remote.serial} \cup recent =>
             Mine(h.dir) /\ dirs[h.dir].serial = h.serial
    BY DEF Books, Handed
  <2>2. h.serial \in 1..n /\ h.serial # n
    BY <1>2, <2>1
  <2>3. ASSUME h.serial \in recent'
        PROVE  Mine(h.dir)' /\ dirs'[h.dir].serial = h.serial
    <3>1. Mine(h.dir) /\ dirs[h.dir].serial = h.serial
      BY <1>1, <2>1, <2>3
    <3>2. h.dir \in retired'
      BY <1>1, <1>4, <1>7, <2>3, <3>1 DEF Books, OnePerOffer
    <3>3. Mine(h.dir)'
      <4> PICK d : d = h.dir
        OBVIOUS
      <4> QED
        BY <1>5, <3>1, <3>2
    <3> QED
      BY <1>5, <1>6, <3>1, <3>3
  <2> QED
    BY <2>1, <2>2, <2>3
<1>11. ASSUME NEW k \in JobIds
       PROVE  Pasting(k)' /\ Filling(k)'
  <2>1. job' = job /\ job[k] \in JobState
    BY <1>1 DEF BridgeTypes
  <2>2. Live(k) => job[k].serial \in 1..n
    BY <1>2 DEF Books, Pasting
  <2>3. ASSUME Live(k), job[k].kind = "files"
        PROVE  Mine(job[k].dir)' /\ dirs'[job[k].dir] = dirs[job[k].dir]
    <3> PICK d : d = job[k].dir
      OBVIOUS
    <3>1. Mine(d)
      BY <2>3 DEF Books, Pasting
    <3>2. Mine(d)'
      BY <1>5, <2>3, <3>1 DEF Live
    <3> QED
      BY <1>5, <1>6, <2>1, <3>2
  <2>4. Pasting(k)'
    <3>1. Live(k)' <=> Live(k)
      BY <2>1 DEF Live
    <3>2. job[k].kind # "item" => job[k].kind = "files"
      BY <2>1 DEF JobState
    <3> QED
      BY <1>3, <2>1, <2>2, <2>3, <3>1, <3>2 DEF Books, Pasting
  <2>5. Filling(k)'
    <3>1. job[k].pc \in {"fills", "fetches"} => Live(k)
      BY DEF Live
    <3> QED
      BY <1>1, <2>1, <2>3, <3>1 DEF Books, Filling
  <2> QED
    BY <2>4, <2>5
<1>12. BridgeTypes'
  <2>1. remote' \in [serial : 0..MaxOffers, files : BOOLEAN, dir : Dirs]
    BY <1>1, <1>2, Constants
  <2>2. retired' \in SUBSET Dirs /\ recent' \in SUBSET Nat
    BY <1>1, <1>2, <1>4 DEF BridgeTypes
  <2> QED
    BY <1>1, <1>5, <2>1, <2>2 DEF BridgeTypes
<1> QED
  BY <1>5, <1>8, <1>9, <1>10, <1>11, <1>12 DEF Books

LEMMA GraceBooks ==
  ASSUME BridgeTypes, Disk, Books, NEW s \in recent, Grace(s)
  PROVE  BridgeTypes' /\ Disk' /\ Books'
<1>1. /\ recent' = recent \ {s} /\ retired' = {d \in retired : dirs[d].serial # s}
      /\ UNCHANGED <<surface, session, pid, alive, remote, cell, handed, job>>
      /\ dirs' = Dropped(dirs)
  BY DEF Grace
<1>2. /\ \A d \in DOMAIN dirs' : d \in DOMAIN dirs /\ dirs'[d] = dirs[d]
      /\ \A d : Mine(d)' => Mine(d)
      /\ \A d : /\ Mine(d)
                /\ \/ d = remote.dir \/ d \in retired'
                   \/ \E j \in JobIds : job[j].pc \notin {"none", "ended"} /\ job[j].dir = d
                => Mine(d)'
      /\ DOMAIN dirs' \in SUBSET Dirs /\ IsFiniteSet(DOMAIN dirs')
      /\ dirs' \in [DOMAIN dirs' -> Spool] /\ Disk'
  BY <1>1, DroppedFacts
<1>3. \A d : Mine(d)' => d \in DOMAIN dirs'
  BY DEF Mine
<1>4. \A d : Mine(d) => d \in DOMAIN dirs
  BY DEF Mine
<1>5. OnePerOffer'
  <2>1. \A d \in DOMAIN dirs' : Mine(d)' =>
          /\ dirs'[d].serial \in 1..remote.serial
          /\ dirs'[d].serial = remote.serial => d = remote.dir
          /\ dirs'[d].serial \in recent' => d \in retired'
    BY <1>1, <1>2 DEF Books, OnePerOffer
  <2>2. /\ remote.dir # NoDir => Mine(remote.dir)' /\ dirs'[remote.dir].serial = remote.serial
        /\ \A d \in retired' : Mine(d)'
    <3>1. \A d \in retired' : Mine(d)
      BY <1>1 DEF Books, OnePerOffer
    <3> PICK r : r = remote.dir
      OBVIOUS
    <3>2. r # NoDir => Mine(r) /\ dirs[r].serial = remote.serial
      BY DEF Books, OnePerOffer
    <3>3. r # NoDir => Mine(r)'
      BY <1>2, <3>2
    <3>4. remote' = remote
      BY <1>1
    <3> QED
      BY <1>2, <1>3, <3>1, <3>2, <3>3, <3>4
  <2>3. \A d, e \in DOMAIN dirs' :
          Mine(d)' /\ Mine(e)' /\ dirs'[d].serial = dirs'[e].serial => d = e
    BY <1>2 DEF Books, OnePerOffer
  <2> QED
    BY <1>1, <2>1, <2>2, <2>3 DEF Books, OnePerOffer
<1>6. Cells'
  BY <1>1, <1>2 DEF Books, Cells, Whole
<1>7. Handed'
  <2> SUFFICES ASSUME NEW h \in handed, h.serial \in {remote.serial} \cup recent'
               PROVE  Mine(h.dir)' /\ dirs'[h.dir].serial = h.serial
    BY <1>1 DEF Books, Handed
  <2>1. Mine(h.dir) /\ dirs[h.dir].serial = h.serial
    BY <1>1 DEF Books, Handed
  <2>2. h.dir = remote.dir \/ h.dir \in retired'
    BY <1>1, <1>4, <2>1 DEF Books, OnePerOffer
  <2> PICK d : d = h.dir
    OBVIOUS
  <2>3. Mine(d)'
    BY <1>2, <2>1, <2>2
  <2> QED
    BY <1>2, <1>3, <2>1, <2>3
<1>8. ASSUME NEW k \in JobIds
      PROVE  Pasting(k)' /\ Filling(k)'
  <2>1. job' = job /\ job[k] \in JobState
    BY <1>1 DEF BridgeTypes
  <2>2. ASSUME Live(k), job[k].kind = "files"
        PROVE  Mine(job[k].dir)' /\ dirs'[job[k].dir] = dirs[job[k].dir]
    <3> PICK d : d = job[k].dir
      OBVIOUS
    <3>1. Mine(d)
      BY <2>2 DEF Books, Pasting
    <3>2. Mine(d)'
      BY <1>2, <2>2, <3>1 DEF Live
    <3> QED
      BY <1>2, <1>3, <2>1, <3>2
  <2>3. Live(k)' <=> Live(k)
    BY <2>1 DEF Live
  <2>4. job[k].kind # "item" => job[k].kind = "files"
    BY <2>1 DEF JobState
  <2>5. Pasting(k)'
    BY <1>1, <2>1, <2>2, <2>3, <2>4 DEF Books, Pasting
  <2>6. job[k].pc \in {"fills", "fetches"} => Live(k)
    BY DEF Live
  <2>7. Filling(k)'
    BY <1>1, <2>1, <2>2, <2>6 DEF Books, Filling
  <2> QED
    BY <2>5, <2>7
<1>9. BridgeTypes'
  BY <1>1, <1>2 DEF BridgeTypes
<1> QED
  BY <1>2, <1>5, <1>6, <1>7, <1>8, <1>9 DEF Books

\* Spool::create leaves this session's directories and the neighbour's, and
\* adds one.
LEMMA CreateFacts ==
  ASSUME BridgeTypes, Disk, NEW s \in Nat, dirs' = Create(s),
         session' = session, pid' = pid
  PROVE  \E n \in Dirs :
           /\ n = NewDir /\ ~Mine(n) /\ Mine(n)' /\ dirs'[n].serial = s
           /\ \A d : Mine(d) => Mine(d)' /\ dirs'[d] = dirs[d]
           /\ \A d : Mine(d)' => Mine(d) \/ d = n
           /\ DOMAIN dirs' \in SUBSET Dirs /\ IsFiniteSet(DOMAIN dirs')
           /\ dirs' \in [DOMAIN dirs' -> Spool]
           /\ Disk'
<1> PICK n : n = NewDir
  OBVIOUS
<1>1. n \in Dirs /\ n \notin DOMAIN dirs /\ n[1] = pid
  BY NewDirFresh
<1> PICK new : new = Spooled(s, "absent")
  OBVIOUS
<1>2. new \in Spool /\ new.session = session /\ new.serial = s
  BY DEF Spooled, Spool, BridgeTypes
<1> DEFINE D == {x \in DOMAIN dirs : x[1] = pid \/ Alive(x[1])}
<1>3. SweepStale(dirs) = [d \in D |-> dirs[d]]
  BY DEF SweepStale
<1>4. D \subseteq DOMAIN dirs /\ <<Neighbour, 0>> \in D /\ \A d : Mine(d) => d \in D
  BY MineFacts DEF Disk, Alive
<1>5. \A d \in D : dirs[d] \in Spool
  BY DEF BridgeTypes
<1> HIDE DEF D
<1> PICK f : f = [d \in D |-> dirs[d]]
  OBVIOUS
<1>6. dirs' = With(f, n, new) /\ DOMAIN f = D /\ \A d \in D : f[d] = dirs[d]
  BY <1>3 DEF Create
<1>7. /\ DOMAIN dirs' = D \cup {n} /\ dirs'[n] = new
      /\ \A d \in D : d # n => dirs'[d] = dirs[d]
  BY <1>6 DEF With
<1>8. dirs' \in [DOMAIN dirs' -> Spool]
  BY <1>2, <1>5, <1>6, <1>7 DEF With
<1>9. IsFiniteSet(DOMAIN dirs') /\ DOMAIN dirs' \in SUBSET Dirs
  BY <1>1, <1>4, <1>7, FS_Subset, FS_AddElement DEF BridgeTypes
<1>10. /\ \A d : Mine(d) => Mine(d)' /\ dirs'[d] = dirs[d]
       /\ \A d : Mine(d)' => Mine(d) \/ d = n
       /\ ~Mine(n) /\ Mine(n)'
  BY <1>1, <1>2, <1>4, <1>7 DEF Mine
<1>11. Disk'
  <2>1. n # <<Neighbour, 0>>
    BY <1>1, <1>4
  <2>2. \A d : Mine(d)' => d[1] = pid
    BY <1>1, <1>10, MineFacts
  <2>3. \A d \in DOMAIN dirs' : dirs'[d].session <= session
    BY <1>2, <1>4, <1>7 DEF Disk, BridgeTypes
  <2> QED
    BY <1>4, <1>7, <2>1, <2>2, <2>3 DEF Disk
<1> QED
  BY <1>1, <1>2, <1>7, <1>8, <1>9, <1>10, <1>11

LEMMA PasteBooks ==
  ASSUME BridgeTypes, Disk, Books, NEW j \in JobIds, NEW kind \in {"item", "files"},
         Paste(j, kind)
  PROVE  BridgeTypes' /\ Disk' /\ Books'
<1>1. /\ remote.serial > 0 /\ job[j].pc = "none" /\ (kind = "files" => remote.files)
      /\ UNCHANGED <<surface, session, pid, alive, cell, retired, handed, recent>>
  BY DEF Paste
<1> DEFINE new == kind = "files" /\ remote.dir = NoDir
           dir == IF kind = "item" THEN NoDir ELSE IF new THEN NewDir ELSE remote.dir
<1>2. PICK s \in Serials(kind) :
        /\ dirs' = IF new THEN Create(s) ELSE dirs
        /\ remote' = IF new THEN [remote EXCEPT !.dir = dir] ELSE remote
        /\ job' = [job EXCEPT ![j] = [NoJob EXCEPT !.pc = "starts", !.kind = kind, !.serial = s,
                                                   !.dir = dir, !.listed = TRUE]]
  BY DEF Paste
<1>3. /\ remote.serial \in 1..MaxOffers /\ MaxOffers \in Nat
      /\ s \in 1..remote.serial /\ (kind = "files" => s = remote.serial)
  BY <1>1, Constants DEF BridgeTypes, Serials
<1> PICK e : e = dir
  OBVIOUS
<1>4. e \in Dirs /\ (kind = "item" => e = NoDir)
      /\ (kind = "files" /\ ~new => e = remote.dir) /\ (new => e = NewDir)
  BY NewDirFresh, Constants DEF BridgeTypes
<1> PICK r : r = [NoJob EXCEPT !.pc = "starts", !.kind = kind, !.serial = s,
                                !.dir = e, !.listed = TRUE]
  OBVIOUS
<1>10. /\ r.pc = "starts" /\ r.kind = kind /\ r.serial = s /\ r.dir = e
       /\ r \in JobState
  <2>1. NoJob \in JobState
    BY Constants DEF NoJob, JobState, JobPcs
  <2>2. s \in 0..MaxOffers
    BY <1>3
  <2> QED
    BY <1>4, <2>1, <2>2 DEF JobState, JobPcs
<1>11. job' = [job EXCEPT ![j] = r]
  BY <1>2
<1>5. /\ job'[j].pc = "starts" /\ job'[j].kind = kind /\ job'[j].serial = s /\ job'[j].dir = e
      /\ job'[j] \in JobState /\ job' \in [JobIds -> JobState]
      /\ \A k \in JobIds : k # j => job'[k] = job[k]
  BY <1>10, <1>11 DEF BridgeTypes
<1>6. /\ remote' \in [serial : 0..MaxOffers, files : BOOLEAN, dir : Dirs]
      /\ remote'.serial = remote.serial
      /\ remote'.dir = IF new THEN e ELSE remote.dir
  BY <1>2, <1>4 DEF BridgeTypes
<1>7. dirs' = IF new THEN Create(s) ELSE dirs
  BY <1>2
<1> HIDE DEF dir
<1>8. CASE new
  <2>1. /\ ~Mine(e) /\ Mine(e)' /\ dirs'[e].serial = s
        /\ \A d : Mine(d) => Mine(d)' /\ dirs'[d] = dirs[d]
        /\ \A d : Mine(d)' => Mine(d) \/ d = e
        /\ DOMAIN dirs' \in SUBSET Dirs /\ IsFiniteSet(DOMAIN dirs')
        /\ dirs' \in [DOMAIN dirs' -> Spool]
        /\ Disk'
    <3>1. s \in Nat
      BY <1>3
    <3> QED
      BY <1>1, <1>4, <1>7, <1>8, <3>1, CreateFacts
  <2>2. remote'.dir = e /\ s = remote.serial /\ remote.dir = NoDir /\ kind = "files"
    BY <1>3, <1>6, <1>8
  <2>3. \A d : Mine(d) => d # NoDir /\ d \in DOMAIN dirs
    BY MineFacts
  <2>4. \A d : Mine(d)' => d \in DOMAIN dirs'
    BY DEF Mine
  <2>5. \A d : Mine(d) => dirs[d].serial \in 1..remote.serial /\ dirs[d].serial # remote.serial
    BY <2>2, <2>3 DEF Books, OnePerOffer
  <2>6. OnePerOffer'
    <3>1. \A d, f \in DOMAIN dirs' :
            Mine(d)' /\ Mine(f)' /\ dirs'[d].serial = dirs'[f].serial => d = f
      BY <2>1, <2>2, <2>3, <2>5 DEF Books, OnePerOffer
    <3>2. remote.serial \notin recent
      BY <1>3 DEF Books, OnePerOffer
    <3>3. \A d \in DOMAIN dirs' : Mine(d)' =>
            /\ dirs'[d].serial \in 1..remote.serial
            /\ dirs'[d].serial = remote.serial => d = e
            /\ dirs'[d].serial \in recent => d \in retired
      BY <1>3, <2>1, <2>2, <2>3, <2>5, <3>2 DEF Books, OnePerOffer
    <3>4. \A d \in retired : Mine(d)'
      BY <2>1 DEF Books, OnePerOffer
    <3>5. \A t \in recent : t < remote.serial
      BY DEF Books, OnePerOffer
    <3> QED
      BY <1>1, <1>6, <2>1, <2>2, <3>1, <3>3, <3>4, <3>5 DEF OnePerOffer
  <2>7. cell[remote.serial] = Empty
    BY <1>3, <2>2 DEF Books, Cells
  <2>8. Cells'
    <3> SUFFICES ASSUME NEW t \in 1..MaxOffers, cell[t] # Empty
                 PROVE  /\ t <= remote.serial /\ t # remote.serial
                        /\ cell[t] = Set =>
                             \A d \in DOMAIN dirs' : Mine(d)' /\ dirs'[d].serial = t => Whole(d)'
      BY <1>1, <1>6 DEF Cells
    <3>1. t <= remote.serial /\ t # remote.serial
      BY <2>7 DEF Books, Cells
    <3>2. ASSUME cell[t] = Set, NEW d \in DOMAIN dirs', Mine(d)', dirs'[d].serial = t
          PROVE  Whole(d)'
      <4>1. d # e
        BY <2>1, <2>2, <3>1, <3>2
      <4>2. Mine(d) /\ dirs'[d] = dirs[d] /\ d \in DOMAIN dirs
        BY <2>1, <2>3, <3>2, <4>1
      <4> QED
        BY <3>2, <4>2 DEF Books, Cells, Whole
    <3> QED
      BY <3>1, <3>2
  <2>9. Handed'
    <3> SUFFICES ASSUME NEW h \in handed, h.serial \in {remote.serial} \cup recent
                 PROVE  Mine(h.dir)' /\ dirs'[h.dir].serial = h.serial
      BY <1>1, <1>6 DEF Books, Handed
    <3> PICK d : d = h.dir
      OBVIOUS
    <3>1. Mine(d) /\ dirs[d].serial = h.serial
      BY DEF Books, Handed
    <3> QED
      BY <2>1, <3>1
  <2>10. ASSUME NEW k \in JobIds
         PROVE  Pasting(k)' /\ Filling(k)'
    <3>1. CASE k = j
      <4>1. Pasting(k)'
        BY <1>3, <1>5, <1>6, <2>1, <2>2, <3>1 DEF Pasting
      <4> QED
        BY <1>5, <3>1, <4>1 DEF Filling
    <3>2. CASE k # j
      <4>1. job'[k] = job[k] /\ job[k] \in JobState
        BY <1>5, <3>2 DEF BridgeTypes
      <4>2. ASSUME Live(k), job[k].kind = "files"
            PROVE  Mine(job[k].dir)' /\ dirs'[job[k].dir] = dirs[job[k].dir]
        <5> PICK d : d = job[k].dir
          OBVIOUS
        <5>1. Mine(d)
          BY <4>2 DEF Books, Pasting
        <5>2. Mine(d)' /\ dirs'[d] = dirs[d]
          BY <2>1, <5>1
        <5> QED
          BY <4>1, <5>2
      <4>3. Live(k)' <=> Live(k)
        BY <4>1 DEF Live
      <4>4. job[k].kind # "item" => job[k].kind = "files"
        BY <4>1 DEF JobState
      <4>5. Pasting(k)'
        BY <1>6, <4>1, <4>2, <4>3, <4>4 DEF Books, Pasting
      <4>6. job[k].pc \in {"fills", "fetches"} => Live(k)
        BY DEF Live
      <4>7. Filling(k)'
        BY <1>1, <4>1, <4>2, <4>6 DEF Books, Filling
      <4> QED
        BY <4>5, <4>7
    <3> QED
      BY <3>1, <3>2
  <2>11. BridgeTypes'
    BY <1>1, <1>5, <1>6, <2>1 DEF BridgeTypes
  <2> QED
    BY <2>1, <2>6, <2>8, <2>9, <2>10, <2>11 DEF Books
<1>9. CASE ~new
  <2>1. dirs' = dirs /\ remote' = remote
    BY <1>2, <1>9
  <2>2. Disk' /\ \A d : Mine(d)' <=> Mine(d)
    BY <1>1, <2>1 DEF Disk, Mine
  <2>3. OnePerOffer' /\ Cells' /\ Handed'
    BY <1>1, <2>1, <2>2 DEF Books, OnePerOffer, Cells, Whole, Handed
  <2>4. ASSUME NEW k \in JobIds
        PROVE  Pasting(k)' /\ Filling(k)'
    <3>1. CASE k = j
      <4>1. kind = "files" => e = remote.dir /\ e # NoDir
        BY <1>4, <1>9
      <4>2. kind = "files" => Mine(e)' /\ dirs'[e].serial = s
        BY <1>3, <2>1, <2>2, <4>1 DEF Books, OnePerOffer
      <4>3. Pasting(k)'
        BY <1>3, <1>4, <1>5, <2>1, <3>1, <4>2 DEF Pasting
      <4> QED
        BY <1>5, <3>1, <4>3 DEF Filling
    <3>2. CASE k # j
      BY <1>1, <1>5, <2>1, <2>2, <3>2 DEF Books, Pasting, Filling, Live
    <3> QED
      BY <3>1, <3>2
  <2>5. BridgeTypes'
    BY <1>1, <1>5, <1>6, <2>1 DEF BridgeTypes
  <2> QED
    BY <2>2, <2>3, <2>4, <2>5 DEF Books
<1> QED
  BY <1>8, <1>9

LEMMA FillBooks ==
  ASSUME BridgeTypes, Disk, Books, NEW j \in JobIds,
         Begin(j) \/ CreateFile(j) \/ FileArrives(j)
  PROVE  BridgeTypes' /\ Disk' /\ Books'
<1>1. UNCHANGED <<surface, session, pid, alive, remote, retired, handed, recent>>
  BY DEF Begin, CreateFile, FileArrives
<1>2. job[j] \in JobState /\ job \in [JobIds -> JobState]
  BY DEF BridgeTypes
<1>3. job[j].pc \in {"starts", "fills", "fetches"} =>
        /\ job[j].serial \in 1..remote.serial /\ job[j].serial \in 1..MaxOffers
        /\ job[j].kind = "files" => /\ Mine(job[j].dir)
                                    /\ dirs[job[j].dir].serial = job[j].serial
  <2>1. remote.serial \in 0..MaxOffers
    BY DEF BridgeTypes
  <2> QED
    BY <2>1, Constants DEF Books, Pasting, Live
<1> PICK s, e : s = job[j].serial /\ e = job[j].dir
  OBVIOUS
\* One job of files goes on; its cell changes from c to c'.
<1>4. ASSUME job[j].pc \in {"starts", "fills", "fetches"}, job[j].kind = "files",
             UNCHANGED dirs, job' \in [JobIds -> JobState],
             \A k \in JobIds : k # j => job'[k] = job[k],
             job'[j].kind = job[j].kind, job'[j].serial = s, job'[j].dir = e,
             \/ job'[j].pc = "fills" /\ job'[j].file = 1
                /\ cell[s] = Empty /\ cell' = [cell EXCEPT ![s] = j]
             \/ job'[j].pc = "writes" /\ cell[s] = Set /\ cell' = cell
             \/ job[j].pc = "fills" /\ job'[j].pc = "fetches" /\ job'[j].file = job[j].file
                /\ cell' = cell
      PROVE  BridgeTypes' /\ Disk' /\ Books'
  <2>1. Disk' /\ \A d : Mine(d)' <=> Mine(d)
    BY <1>1, <1>4 DEF Disk, Mine
  <2>2. \A t \in 1..MaxOffers : /\ cell'[t] = cell[t] \/ (t = s /\ cell[t] = Empty /\ cell'[t] = j)
                                /\ cell'[t] = Set <=> cell[t] = Set
    BY <1>4, Constants DEF BridgeTypes
  <2>3. cell' \in [1..MaxOffers -> 0..Set]
    BY <1>4, Constants DEF BridgeTypes, JobIds, Set
  <2>4. BridgeTypes'
    BY <1>1, <1>4, <2>3 DEF BridgeTypes
  <2>5. OnePerOffer'
    BY <1>1, <1>4, <2>1 DEF Books, OnePerOffer
  <2>6. remote.serial \in 0..MaxOffers /\ MaxOffers \in Nat
    BY Constants DEF BridgeTypes
  <2>7. Cells'
    <3> SUFFICES ASSUME NEW t \in 1..MaxOffers, cell'[t] # Empty
                 PROVE  /\ t <= remote.serial /\ (t = remote.serial => remote.dir # NoDir)
                        /\ cell'[t] = Set =>
                             \A d \in DOMAIN dirs : Mine(d) /\ dirs[d].serial = t => Whole(d)
      BY <1>1, <1>4, <2>1 DEF Cells, Whole
    <3>1. CASE cell'[t] = cell[t]
      BY <2>2, <3>1 DEF Books, Cells
    <3>2. CASE cell'[t] # cell[t]
      <4>1. t = s /\ cell'[t] = j /\ cell'[t] # Set
        BY <2>2, <3>2, Constants
      <4>2. s \in 1..remote.serial /\ Mine(e) /\ dirs[e].serial = s
        BY <1>3, <1>4
      <4>3. s = remote.serial => remote.dir # NoDir
        BY <4>2, MineFacts DEF Books, OnePerOffer
      <4> QED
        BY <2>6, <4>1, <4>2, <4>3
    <3> QED
      BY <3>1, <3>2
  <2>8. Handed'
    <3>1. \A h \in handed : h.serial \in 1..remote.serial /\ h.serial \in 1..MaxOffers
      BY <2>6 DEF Books, Handed
    <3> QED
      BY <1>1, <1>4, <2>1, <2>2, <3>1 DEF Books, Handed
  <2>9. ASSUME NEW k \in JobIds
        PROVE  Pasting(k)' /\ Filling(k)'
    <3>1. CASE k = j
      <4>1. job'[j].pc # "none" /\ Live(j)
        BY <1>4 DEF Live
      <4>2. Pasting(k)'
        BY <1>1, <1>3, <1>4, <2>1, <3>1, <4>1 DEF Books, Pasting
      <4>3. cell'[s] = j \/ cell'[s] = cell[s]
        BY <1>3, <1>4, <2>2
      <4>4. Filling(k)'
        <5>1. CASE job'[j].pc = "fills" /\ job'[j].file = 1 /\ cell' = [cell EXCEPT ![s] = j]
          <6>1. cell'[s] = j
            BY <1>3, <1>4, <5>1 DEF BridgeTypes
          <6> QED
            BY <1>4, <3>1, <5>1, <6>1, Constants DEF Filling
        <5>2. CASE job'[j].pc = "writes" /\ cell[s] = Set /\ cell' = cell
          BY <1>4, <3>1, <5>2 DEF Filling
        <5>3. CASE job[j].pc = "fills" /\ job'[j].pc = "fetches" /\ job'[j].file = job[j].file
                   /\ cell' = cell
          BY <1>4, <3>1, <5>3 DEF Books, Filling
        <5> QED
          BY <1>4, <5>1, <5>2, <5>3
      <4> QED
        BY <4>2, <4>4
    <3>2. CASE k # j
      <4>1. job'[k] = job[k] /\ job[k] \in JobState
        BY <1>4, <3>2 DEF BridgeTypes
      <4>2. Pasting(k)'
        BY <1>1, <1>4, <2>1, <4>1 DEF Books, Pasting, Live
      <4>3. ASSUME job[k].kind = "files", job[k].pc \in {"fills", "fetches", "writes"}
            PROVE  cell'[job[k].serial] = cell[job[k].serial]
        <5>1. job[k].serial \in 1..MaxOffers
          BY <2>6, <4>3 DEF Books, Pasting, Live
        <5>2. cell[job[k].serial] # Empty
          BY <4>3, Constants DEF Books, Filling
        <5> QED
          BY <2>2, <5>1, <5>2
      <4>4. Filling(k)'
        BY <1>4, <4>1, <4>3 DEF Books, Filling
      <4> QED
        BY <4>2, <4>4
    <3> QED
      BY <3>1, <3>2
  <2> QED
    BY <2>1, <2>4, <2>5, <2>7, <2>8, <2>9 DEF Books
\* The job that fills the cell writes a file.
<1>5. ASSUME job[j].pc \in {"fills", "fetches"}, job[j].kind = "files",
             NEW state \in {"part", "whole"}, NEW file, file = job[j].file,
             dirs' = [dirs EXCEPT ![e].content[file] = state],
             job' \in [JobIds -> JobState],
             \A k \in JobIds : k # j => job'[k] = job[k],
             job'[j].kind = job[j].kind, job'[j].serial = s, job'[j].dir = e,
             \/ /\ job'[j].pc = "fetches" /\ job'[j].file = file /\ cell' = cell
             \/ /\ job'[j].pc = "fills" /\ job'[j].file = file + 1 /\ cell' = cell
                /\ file # Files /\ state = "whole"
             \/ /\ job'[j].pc = "writes" /\ file = Files /\ state = "whole"
                /\ cell' = [cell EXCEPT ![s] = Set]
      PROVE  BridgeTypes' /\ Disk' /\ Books'
  <2>1. /\ s \in 1..remote.serial /\ s \in 1..MaxOffers /\ Mine(e) /\ dirs[e].serial = s
        /\ cell[s] = j /\ file \in 1..Files
        /\ \A f \in 1..Files : f < file => dirs[e].content[f] = "whole"
    BY <1>3, <1>5 DEF Books, Filling
  <2>2. /\ DOMAIN dirs' = DOMAIN dirs /\ e \in DOMAIN dirs
        /\ \A d \in DOMAIN dirs : d # e => dirs'[d] = dirs[d]
        /\ dirs'[e].session = dirs[e].session /\ dirs'[e].serial = s
        /\ dirs'[e] \in Spool
        /\ dirs'[e].content[file] = state
        /\ \A f \in 1..Files : f # file => dirs'[e].content[f] = dirs[e].content[f]
    <3>1. e \in DOMAIN dirs /\ dirs[e] \in Spool /\ dirs \in [DOMAIN dirs -> Spool]
      BY <2>1, MineFacts DEF BridgeTypes
    <3>2. dirs' = [dirs EXCEPT ![e] = [dirs[e] EXCEPT !.content[file] = state]]
      BY <1>5, <3>1
    <3> PICK x : x = dirs[e].content
      OBVIOUS
    <3>3. x \in [1..Files -> {"absent", "part", "whole"}]
      BY <3>1 DEF Spool
    <3> PICK y : y = [x EXCEPT ![file] = state]
      OBVIOUS
    <3>4. /\ y \in [1..Files -> {"absent", "part", "whole"}] /\ y[file] = state
          /\ \A f \in 1..Files : f # file => y[f] = x[f]
      BY <1>5, <2>1, <3>3
    <3> PICK z : z = [dirs[e] EXCEPT !.content = y]
      OBVIOUS
    <3>5. z \in Spool /\ z.content = y /\ z.session = dirs[e].session /\ z.serial = dirs[e].serial
      BY <3>1, <3>4 DEF Spool
    <3>6. dirs' = [dirs EXCEPT ![e] = z]
      BY <3>2
    <3>7. /\ DOMAIN dirs' = DOMAIN dirs /\ dirs'[e] = z
          /\ \A d \in DOMAIN dirs : d # e => dirs'[d] = dirs[d]
      BY <3>1, <3>6
    <3>8. /\ z.content[file] = state
          /\ \A f \in 1..Files : f # file => z.content[f] = dirs[e].content[f]
      BY <3>4, <3>5
    <3> QED
      BY <2>1, <3>1, <3>5, <3>7, <3>8
  <2>3. /\ \A d : Mine(d)' <=> Mine(d)
        /\ \A d \in DOMAIN dirs : dirs'[d].session = dirs[d].session
                                  /\ dirs'[d].serial = dirs[d].serial
    BY <1>1, <2>1, <2>2 DEF Mine
  <2>4. Disk'
    BY <1>1, <2>2, <2>3 DEF Disk
  <2>5. \A t \in 1..MaxOffers : cell'[t] = cell[t] \/ (t = s /\ cell'[t] = Set)
    BY <1>5, <2>1 DEF BridgeTypes
  <2>6. cell' \in [1..MaxOffers -> 0..Set]
    BY <1>5, Constants DEF BridgeTypes
  <2>7. BridgeTypes'
    <3>1. \A d \in DOMAIN dirs : dirs'[d] \in Spool
      BY <2>2 DEF BridgeTypes
    <3>2. dirs' = [d \in DOMAIN dirs |-> dirs'[d]]
      BY <1>5 DEF BridgeTypes
    <3>3. dirs' \in [DOMAIN dirs' -> Spool]
      BY <2>2, <3>1, <3>2
    <3> QED
      BY <1>1, <1>5, <2>2, <2>6, <3>3 DEF BridgeTypes
  <2>8. OnePerOffer'
    <3>1. \A d : Mine(d) => d \in DOMAIN dirs
      BY DEF Mine
    <3>2. \A d, f \in DOMAIN dirs :
            Mine(d)' /\ Mine(f)' /\ dirs'[d].serial = dirs'[f].serial => d = f
      BY <2>3 DEF Books, OnePerOffer
    <3>3. \A d \in DOMAIN dirs : Mine(d)' =>
            /\ dirs'[d].serial \in 1..remote.serial
            /\ dirs'[d].serial = remote.serial => d = remote.dir
            /\ dirs'[d].serial \in recent => d \in retired
      BY <2>3 DEF Books, OnePerOffer
    <3>4. /\ \A d \in retired : Mine(d)'
          /\ remote.dir # NoDir => Mine(remote.dir)
                                   /\ dirs'[remote.dir].serial = remote.serial
      BY <2>3, <3>1 DEF Books, OnePerOffer
    <3>5. remote.dir # NoDir => Mine(remote.dir)'
      <4> PICK d : d = remote.dir
        OBVIOUS
      <4> QED
        BY <1>1, <2>3, <3>4
    <3> QED
      BY <1>1, <2>2, <3>2, <3>3, <3>4, <3>5 DEF Books, OnePerOffer
  <2>9. \A d \in DOMAIN dirs : Mine(d) /\ dirs[d].serial = s => d = e
    BY <2>1, <2>2 DEF Books, OnePerOffer
  <2>10. cell'[s] = Set => Whole(e)'
    <3> SUFFICES ASSUME cell'[s] = Set
                 PROVE  \A f \in 1..Files : dirs'[e].content[f] = "whole"
      BY DEF Whole
    <3>1. file = Files /\ state = "whole"
      BY <1>5, <2>1, Constants
    <3> QED
      BY <2>1, <2>2, <3>1, Constants
  <2>11. Cells'
    <3> SUFFICES ASSUME NEW t \in 1..MaxOffers, cell'[t] # Empty
                 PROVE  /\ t <= remote.serial /\ (t = remote.serial => remote.dir # NoDir)
                        /\ cell'[t] = Set =>
                             \A d \in DOMAIN dirs : Mine(d) /\ dirs[d].serial = t => Whole(d)'
      BY <1>1, <2>2, <2>3 DEF Cells
    <3>1. cell[t] # Empty
      BY <2>1, <2>5, Constants
    <3>2. t <= remote.serial /\ (t = remote.serial => remote.dir # NoDir)
      BY <3>1 DEF Books, Cells
    <3>3. ASSUME cell'[t] = Set, NEW d \in DOMAIN dirs, Mine(d), dirs[d].serial = t
          PROVE  Whole(d)'
      <4>1. CASE t = s
        BY <2>9, <2>10, <3>3, <4>1
      <4>2. CASE t # s
        <5>1. cell[t] = Set /\ d # e
          BY <2>1, <2>5, <3>3, <4>2
        <5> QED
          BY <2>2, <3>3, <5>1 DEF Books, Cells, Whole
      <4> QED
        BY <4>1, <4>2
    <3> QED
      BY <3>2, <3>3
  <2>12. Handed'
    <3>1. remote.serial \in 0..MaxOffers
      BY DEF BridgeTypes
    <3>2. \A h \in handed : h.serial \in 1..remote.serial /\ h.serial \in 1..MaxOffers
      BY <3>1, Constants DEF Books, Handed
    <3>3. \A h \in handed : h.session = session /\ cell'[h.serial] = Set
      BY <2>5, <3>2 DEF Books, Handed
    <3>4. \A h \in handed : h.serial \in {remote.serial} \cup recent =>
            Mine(h.dir) /\ dirs[h.dir].serial = h.serial /\ h.dir \in DOMAIN dirs
      BY DEF Books, Handed, Mine
    <3>5. \A h \in handed : h.serial \in {remote.serial} \cup recent =>
            Mine(h.dir)' /\ dirs'[h.dir].serial = h.serial
      BY <1>1, <2>2, <2>3, <3>4 DEF Mine
    <3> QED
      BY <1>1, <3>2, <3>3, <3>5 DEF Handed
  <2>13. ASSUME NEW k \in JobIds
         PROVE  Pasting(k)' /\ Filling(k)'
    <3>1. CASE k = j
      <4>1. Pasting(k)'
        BY <1>1, <1>5, <2>1, <2>2, <2>3, <3>1 DEF Pasting
      <4>2. cell'[s] = IF job'[j].pc = "writes" THEN Set ELSE j
        BY <1>5, <2>1 DEF BridgeTypes
      <4>3. job'[j].pc = "fills" =>
              \A f \in 1..Files : f < file + 1 => dirs'[e].content[f] = "whole"
        BY <1>5, <2>1, <2>2, Constants
      <4>4. job'[j].pc = "fetches" => \A f \in 1..Files : f < file => dirs'[e].content[f] = "whole"
        BY <2>1, <2>2, Constants
      <4>5. job'[j].pc \in {"fills", "fetches"} => job'[j].file \in 1..Files
        BY <1>5, <2>1, Constants
      <4>6. Filling(k)'
        <5>1. CASE job'[j].pc = "fills"
          BY <1>5, <3>1, <4>2, <4>3, <4>5, <5>1 DEF Filling
        <5>2. CASE job'[j].pc = "fetches"
          BY <1>5, <3>1, <4>2, <4>4, <4>5, <5>2 DEF Filling
        <5>3. CASE job'[j].pc = "writes"
          BY <1>5, <3>1, <4>2, <5>3 DEF Filling
        <5> QED
          BY <1>5, <5>1, <5>2, <5>3
      <4> QED
        BY <4>1, <4>6
    <3>2. CASE k # j
      <4>1. job'[k] = job[k] /\ job[k] \in JobState
        BY <1>5, <3>2 DEF BridgeTypes
      <4>2. Live(k)' <=> Live(k)
        BY <4>1 DEF Live
      <4>3. Live(k) /\ job[k].kind # "item" =>
              /\ Mine(job[k].dir)' /\ dirs'[job[k].dir].serial = job[k].serial
              /\ job[k].serial \in 1..MaxOffers
        <5>1. remote.serial \in 0..MaxOffers
          BY DEF BridgeTypes
        <5> PICK d : d = job[k].dir
          OBVIOUS
        <5>2. Live(k) /\ job[k].kind # "item" =>
                Mine(d) /\ dirs[d].serial = job[k].serial /\ job[k].serial \in 1..MaxOffers
          BY <5>1, Constants DEF Books, Pasting
        <5>3. Mine(d) => d \in DOMAIN dirs
          BY DEF Mine
        <5> QED
          BY <2>3, <4>1, <5>2, <5>3 DEF Mine
      <4>4. Pasting(k)'
        BY <1>1, <4>1, <4>2, <4>3 DEF Books, Pasting
      <4>5. ASSUME job[k].kind = "files", job[k].pc \in {"fills", "fetches", "writes"}
            PROVE  /\ cell'[job[k].serial] = cell[job[k].serial]
                   /\ job[k].pc # "writes" => dirs'[job[k].dir] = dirs[job[k].dir]
        <5>1. Live(k) /\ job[k].serial \in 1..MaxOffers
          BY <4>3, <4>5 DEF Live
        <5>2. IF job[k].pc = "writes" THEN cell[job[k].serial] = Set ELSE cell[job[k].serial] = k
          BY <4>5 DEF Books, Filling
        <5>3. cell'[job[k].serial] = cell[job[k].serial]
          BY <2>1, <2>5, <3>2, <5>1, <5>2
        <5>4. job[k].pc # "writes" => job[k].serial # s
          BY <2>1, <3>2, <5>2
        <5>5. Mine(job[k].dir) /\ dirs[job[k].dir].serial = job[k].serial
          BY <4>5, <5>1 DEF Books, Pasting
        <5> QED
          BY <2>1, <2>2, <5>3, <5>4, <5>5 DEF Mine
      <4>6. Filling(k)'
        BY <4>1, <4>5 DEF Books, Filling
      <4> QED
        BY <4>4, <4>6
    <3> QED
      BY <3>1, <3>2
  <2> QED
    BY <2>4, <2>7, <2>8, <2>11, <2>12, <2>13 DEF Books
<1>6. CASE Begin(j)
  <2>1. job[j].pc = "starts" /\ dirs' = dirs
    BY <1>6 DEF Begin
  <2>2. CASE job[j].kind = "item" /\ job' = [job EXCEPT ![j].pc = "fetches"] /\ UNCHANGED cell
    <3>1. /\ job' \in [JobIds -> JobState] /\ job'[j].kind = "item"
          /\ job'[j].serial = s /\ job'[j].dir = e /\ job'[j].pc = "fetches"
          /\ job'[j].file = job[j].file
          /\ \A k \in JobIds : k # j => job'[k] = job[k]
      BY <1>2, <2>2 DEF JobState, JobPcs
    <3>2. UNCHANGED bridge
      BY <1>1, <2>1, <2>2 DEF bridge
    <3>3. Disk' /\ Books'
      BY <2>1, <2>2, <3>1, <3>2, SameBooks
    <3> QED
      BY <1>1, <2>1, <2>2, <3>1, <3>3 DEF BridgeTypes
  <2>3. CASE /\ job[j].kind = "files" /\ MayFill(j)
             /\ job' = [job EXCEPT ![j].pc = "fills", ![j].file = 1]
             /\ cell' = [cell EXCEPT ![job[j].serial] = j]
    <3>1. /\ job' \in [JobIds -> JobState] /\ job'[j].kind = job[j].kind
          /\ job'[j].serial = s /\ job'[j].dir = e /\ job'[j].pc = "fills" /\ job'[j].file = 1
          /\ \A k \in JobIds : k # j => job'[k] = job[k]
      BY <1>2, <2>3 DEF JobState, JobPcs
    <3> QED
      BY <1>4, <2>1, <2>3, <3>1 DEF MayFill
  <2>4. CASE /\ job[j].kind = "files" /\ Filled(j)
             /\ job' = [job EXCEPT ![j].pc = "writes"] /\ UNCHANGED cell
    <3>1. /\ job' \in [JobIds -> JobState] /\ job'[j].kind = job[j].kind
          /\ job'[j].serial = s /\ job'[j].dir = e /\ job'[j].pc = "writes"
          /\ \A k \in JobIds : k # j => job'[k] = job[k]
      BY <1>2, <2>4 DEF JobState, JobPcs
    <3> QED
      BY <1>4, <2>1, <2>4, <3>1 DEF Filled
  <2> QED
    BY <1>6, <2>2, <2>3, <2>4 DEF Begin
<1>7. CASE CreateFile(j)
  <2>1. /\ job[j].pc = "fills" /\ cell' = cell
        /\ job' = [job EXCEPT ![j].pc = "fetches"]
        /\ dirs' = [dirs EXCEPT ![e].content[job[j].file] = "part"]
    BY <1>7 DEF CreateFile
  <2>2. job[j].kind = "files"
    BY <1>2, <2>1 DEF Books, Pasting, Live, JobState
  <2>3. /\ job' \in [JobIds -> JobState] /\ job'[j].kind = job[j].kind
        /\ job'[j].serial = s /\ job'[j].dir = e /\ job'[j].pc = "fetches"
        /\ job'[j].file = job[j].file
        /\ \A k \in JobIds : k # j => job'[k] = job[k]
    BY <1>2, <2>1 DEF JobState, JobPcs
  <2> QED
    BY <1>5, <2>1, <2>2, <2>3
<1>8. CASE FileArrives(j)
  <2> PICK file : file = job[j].file
    OBVIOUS
  <2>1. /\ job[j].pc = "fetches" /\ job[j].kind = "files"
        /\ dirs' = [dirs EXCEPT ![e].content[file] = "whole"]
        /\ job' = [job EXCEPT ![j].pc = IF file = Files THEN "writes" ELSE "fills",
                              ![j].file = file + 1]
        /\ cell' = IF file = Files THEN [cell EXCEPT ![s] = Set] ELSE cell
    BY <1>8 DEF FileArrives
  <2>2. file \in Nat
    BY <1>2 DEF JobState
  <2>3. /\ job' \in [JobIds -> JobState] /\ job'[j].kind = job[j].kind
        /\ job'[j].serial = s /\ job'[j].dir = e
        /\ job'[j].pc = IF file = Files THEN "writes" ELSE "fills"
        /\ job'[j].file = file + 1
        /\ \A k \in JobIds : k # j => job'[k] = job[k]
    BY <1>2, <2>1, <2>2 DEF JobState, JobPcs
  <2> QED
    BY <1>5, <2>1, <2>3
<1> QED
  BY <1>6, <1>7, <1>8

\* Steps that end a job, report of it, or tell its task to stop.
LEMMA StopBooks ==
  ASSUME BridgeTypes, DisplayTypes, Disk, Books, Listing, NEW j \in JobIds,
         ItemArrives(j) \/ Fails(j) \/ Write(j) \/ DropTask(j) \/ Tick(j) \/ Cancel
  PROVE  BridgeTypes' /\ Disk' /\ Books'
<1>1. \A k \in JobIds : job[k] \in JobState
  BY DEF BridgeTypes
<1>2. ASSUME NEW state, Finish(j, state)
      PROVE  /\ job' \in [JobIds -> JobState]
             /\ \A k \in JobIds : k # j => job'[k] = job[k]
             /\ job'[j].pc = "ended" /\ job'[j].kind = job[j].kind
             /\ job'[j].serial = job[j].serial /\ job'[j].dir = job[j].dir
             /\ job'[j].file = job[j].file
  <2>1. job \in [JobIds -> JobState] /\ job[j] \in JobState
    BY DEF BridgeTypes
  <2>2. job' = [job EXCEPT ![j].pc = "ended", ![j].listed = FALSE]
    BY <1>2 DEF Finish
  <2> PICK x : x = [job[j] EXCEPT !.pc = "ended", !.listed = FALSE]
    OBVIOUS
  <2>3. /\ x \in JobState /\ x.pc = "ended" /\ x.kind = job[j].kind
        /\ x.serial = job[j].serial /\ x.dir = job[j].dir /\ x.file = job[j].file
    BY <2>1 DEF JobState, JobPcs
  <2>4. job' = [job EXCEPT ![j] = x]
    BY <2>1, <2>2
  <2> QED
    BY <2>1, <2>3, <2>4
<1>3. /\ Released(j) \in [1..MaxOffers -> 0..Set]
      /\ \A s \in 1..MaxOffers : Released(j)[s] = cell[s] \/ (cell[s] = j /\ Released(j)[s] = Empty)
  <2>1. DOMAIN cell = 1..MaxOffers /\ Empty \in 0..Set
    BY Constants DEF BridgeTypes, Empty
  <2> QED
    BY <2>1 DEF Released, BridgeTypes
<1>4. CASE ItemArrives(j)
  <2>1. UNCHANGED bridge /\ surface' = surface /\ job[j].pc = "fetches" /\ Finish(j, "done")
    BY <1>4 DEF ItemArrives
  <2>2. Disk' /\ Books'
    BY <1>2, <2>1, SameBooks
  <2> QED
    BY <1>2, <2>1, <2>2 DEF BridgeTypes, bridge
<1>5. CASE Fails(j)
  <2>1. /\ job[j].pc \in {"fills", "fetches"} /\ Finish(j, "failed") /\ cell' = Released(j)
        /\ UNCHANGED <<surface, session, pid, alive, remote, retired, handed, recent>>
        /\ dirs' = Dropped(dirs)
    BY <1>5 DEF Fails
  <2>2. Books'
    BY <1>2, <1>3, <2>1, EndBooks
  <2>3. /\ DOMAIN dirs' \in SUBSET Dirs /\ IsFiniteSet(DOMAIN dirs')
        /\ dirs' \in [DOMAIN dirs' -> Spool] /\ Disk'
    BY <2>1, DroppedFacts
  <2> QED
    BY <1>2, <1>3, <2>1, <2>2, <2>3 DEF BridgeTypes
<1>6. CASE Write(j)
  <2>1. /\ job[j].pc = "writes" /\ \E state : Finish(j, state)
        /\ UNCHANGED <<surface, session, pid, alive, remote, cell, retired, recent>>
        /\ dirs' = Dropped(dirs)
        /\ \/ handed' = handed
           \/ handed' = handed \cup {[session |-> session, serial |-> job[j].serial,
                                      dir |-> job[j].dir]}
    BY <1>6 DEF Write
  <2>2. /\ job' \in [JobIds -> JobState] /\ job'[j].pc = "ended"
        /\ \A k \in JobIds : k # j => job'[k] = job[k]
    BY <1>2, <2>1
  <2>3. Books'
    BY <2>1, <2>2, EndBooks
  <2>4. /\ DOMAIN dirs' \in SUBSET Dirs /\ IsFiniteSet(DOMAIN dirs')
        /\ dirs' \in [DOMAIN dirs' -> Spool] /\ Disk'
    BY <2>1, DroppedFacts
  <2>5. [session |-> session, serial |-> job[j].serial, dir |-> job[j].dir]
          \in [session : Nat, serial : Nat, dir : Dirs]
    BY <1>1 DEF BridgeTypes, JobState
  <2>6. handed' \in SUBSET [session : Nat, serial : Nat, dir : Dirs]
    BY <2>1, <2>5 DEF BridgeTypes
  <2> QED
    BY <2>1, <2>2, <2>3, <2>4, <2>6 DEF BridgeTypes
<1>7. CASE DropTask(j)
  <2>1. /\ job[j].pc = "aborted" /\ cell' = Released(j)
        /\ job' = [job EXCEPT ![j].pc = "ended"]
        /\ UNCHANGED <<surface, session, pid, alive, remote, retired, handed, recent>>
        /\ dirs' = Dropped(dirs)
    BY <1>7 DEF DropTask
  <2>2. /\ job' \in [JobIds -> JobState] /\ job'[j].pc = "ended"
        /\ \A k \in JobIds : k # j => job'[k] = job[k]
    <3>1. job \in [JobIds -> JobState] /\ job[j] \in JobState
      BY DEF BridgeTypes
    <3> PICK x : x = [job[j] EXCEPT !.pc = "ended"]
      OBVIOUS
    <3>2. x \in JobState /\ x.pc = "ended"
      BY <3>1 DEF JobState, JobPcs
    <3>3. job' = [job EXCEPT ![j] = x]
      BY <2>1, <3>1
    <3> QED
      BY <3>1, <3>2, <3>3
  <2>3. Books'
    BY <1>3, <2>1, <2>2, EndBooks
  <2>4. /\ DOMAIN dirs' \in SUBSET Dirs /\ IsFiniteSet(DOMAIN dirs')
        /\ dirs' \in [DOMAIN dirs' -> Spool] /\ Disk'
    BY <2>1, DroppedFacts
  <2> QED
    BY <1>3, <2>1, <2>2, <2>3, <2>4 DEF BridgeTypes
<1>8. CASE Tick(j)
  <2>1. /\ UNCHANGED bridge /\ surface' = surface
        /\ job[j].pc \in {"starts", "fills", "fetches", "writes"}
        /\ job' = [job EXCEPT ![j].shown = TRUE, ![j].ticks = @ + 1]
    BY <1>8 DEF Tick
  <2>2. /\ job' \in [JobIds -> JobState] /\ job'[j].pc = job[j].pc
        /\ job'[j].kind = job[j].kind /\ job'[j].serial = job[j].serial
        /\ job'[j].dir = job[j].dir /\ job'[j].file = job[j].file
        /\ \A k \in JobIds : k # j => job'[k] = job[k]
    <3>1. job \in [JobIds -> JobState] /\ job[j] \in JobState
      BY DEF BridgeTypes
    <3> PICK n : n = job[j].ticks + 1
      OBVIOUS
    <3> PICK x : x = [job[j] EXCEPT !.shown = TRUE, !.ticks = n]
      OBVIOUS
    <3>4. n \in Nat
      BY <3>1 DEF JobState
    <3>2. /\ x \in JobState /\ x.pc = job[j].pc /\ x.kind = job[j].kind
          /\ x.serial = job[j].serial /\ x.dir = job[j].dir /\ x.file = job[j].file
      BY <3>1, <3>4 DEF JobState
    <3>3. job' = [job EXCEPT ![j] = x]
      BY <2>1, <3>1
    <3> QED
      BY <3>1, <3>2, <3>3
  <2>3. Disk' /\ Books'
    BY <2>1, <2>2, SameBooks
  <2> QED
    BY <2>1, <2>2, <2>3 DEF BridgeTypes, bridge
<1>9. CASE Cancel
  <2> PICK i : i = Head(cancels)
    OBVIOUS
  <2>1. /\ UNCHANGED bridge /\ surface' = surface /\ cancels # <<>>
        /\ \/ job' = job
           \/ /\ job[i].listed
              /\ job' = [job EXCEPT ![i].listed = FALSE, ![i].pc = "aborted"]
    BY <1>9 DEF Cancel
  <2>2. i \in JobIds
    BY <2>1, HeadTailProperties DEF DisplayTypes
  <2>3. CASE job' = job
    <3>1. Disk' /\ Books'
      BY <2>1, <2>3, SameBooks
    <3> QED
      BY <2>1, <2>3, <3>1 DEF BridgeTypes, bridge
  <2>4. CASE /\ job[i].listed
             /\ job' = [job EXCEPT ![i].listed = FALSE, ![i].pc = "aborted"]
    <3>1. /\ job' \in [JobIds -> JobState] /\ job'[i].pc = "aborted"
          /\ job'[i].kind = job[i].kind /\ job'[i].serial = job[i].serial
          /\ job'[i].dir = job[i].dir /\ job'[i].file = job[i].file
          /\ \A k \in JobIds : k # i => job'[k] = job[k]
      <4>1. job \in [JobIds -> JobState] /\ job[i] \in JobState
        BY <2>2 DEF BridgeTypes
      <4> PICK x : x = [job[i] EXCEPT !.listed = FALSE, !.pc = "aborted"]
        OBVIOUS
      <4>2. /\ x \in JobState /\ x.pc = "aborted" /\ x.kind = job[i].kind
            /\ x.serial = job[i].serial /\ x.dir = job[i].dir /\ x.file = job[i].file
        BY <4>1 DEF JobState, JobPcs
      <4>3. job' = [job EXCEPT ![i] = x]
        BY <2>4, <4>1
      <4> QED
        BY <2>2, <4>1, <4>2, <4>3
    <3>2. job[i].pc \notin {"none", "ended"}
      BY <2>2, <2>4 DEF Listing
    <3>3. Disk' /\ Books'
      BY <2>1, <2>2, <3>1, <3>2, SameBooks
    <3> QED
      BY <2>1, <3>1, <3>3 DEF BridgeTypes, bridge
  <2> QED
    BY <2>1, <2>3, <2>4
<1> QED
  BY <1>4, <1>5, <1>6, <1>7, <1>8, <1>9

\* The end of a session, by its bridge or by a kill, and the next one.
LEMMA RestTypes ==
  /\ NoOffer \in [serial : 0..MaxOffers, files : BOOLEAN, dir : Dirs]
  /\ EmptyCells \in [1..MaxOffers -> 0..Set] /\ NoJobs \in [JobIds -> JobState]
<1>1. NoJob \in JobState
  BY Constants DEF NoJob, JobState, JobPcs
<1> QED
  BY <1>1, Constants DEF NoOffer, EmptyCells, NoJobs, Empty

LEMMA EndTypes ==
  ASSUME BridgeTypes, Disk, NEW killed \in BOOLEAN, Ends(killed)
  PROVE  BridgeTypes' /\ Disk' /\ alive' = FALSE /\ AtRest'
<1>1. /\ alive' = FALSE /\ UNCHANGED <<surface, session, pid>>
      /\ remote' = NoOffer /\ cell' = EmptyCells /\ retired' = {} /\ recent' = {}
      /\ job' = NoJobs /\ notes' = NoNotes /\ calling' = NotCalling /\ handed' = {}
      /\ dirs' = dirs \/ dirs' = Dropped(dirs)
  BY DEF Ends
<1>2. AtRest'
  BY <1>1 DEF AtRest
<1>3. /\ DOMAIN dirs' \in SUBSET Dirs /\ IsFiniteSet(DOMAIN dirs')
      /\ dirs' \in [DOMAIN dirs' -> Spool] /\ Disk'
  <2>1. CASE dirs' = dirs
    BY <1>1, <2>1 DEF BridgeTypes, Disk, Mine
  <2>2. CASE dirs' = Dropped(dirs)
    BY <1>1, <2>2, DroppedFacts
  <2> QED
    BY <1>1, <2>1, <2>2
<1> QED
  BY <1>1, <1>2, <1>3, RestTypes DEF BridgeTypes

LEMMA StartBooks ==
  ASSUME BridgeTypes, Disk, AtRest, Starts
  PROVE  BridgeTypes' /\ Disk' /\ alive' = TRUE /\ Books'
<1>1. /\ alive' = TRUE /\ session' = session + 1 /\ pid' \in Pids
      /\ UNCHANGED <<surface, remote, cell, retired, dirs, handed, recent, job>>
      /\ remote = NoOffer /\ cell = EmptyCells /\ retired = {} /\ recent = {}
      /\ job = NoJobs /\ handed = {}
  BY DEF Starts, AtRest
<1>2. \A d : ~Mine(d)'
  BY <1>1 DEF Mine, Disk, BridgeTypes
<1>3. Disk'
  <2>1. session \in Nat /\ \A d \in DOMAIN dirs : dirs[d].session \in Nat
    BY DEF BridgeTypes, Spool
  <2>2. \A d \in DOMAIN dirs : dirs[d].session <= session + 1
    BY <2>1 DEF Disk
  <2> QED
    BY <1>1, <1>2, <2>2 DEF Disk
<1>4. BridgeTypes'
  BY <1>1 DEF BridgeTypes
<1>5. remote'.dir = NoDir /\ remote'.serial = 0
  BY <1>1 DEF NoOffer
<1>6. OnePerOffer' /\ Handed'
  BY <1>1, <1>2, <1>5 DEF OnePerOffer, Handed
<1>7. Cells'
  BY <1>1 DEF Cells, EmptyCells
<1>8. \A j \in JobIds : job'[j] = NoJob
  BY <1>1 DEF NoJobs
<1>9. \A j \in JobIds : Pasting(j)' /\ Filling(j)'
  <2>1. NoJob.pc = "none"
    BY DEF NoJob
  <2> QED
    BY <1>8, <2>1 DEF Pasting, Filling, Live
<1> QED
  BY <1>1, <1>3, <1>4, <1>6, <1>7, <1>9 DEF Books

-----------------------------------------------------------------------------
(* Words about jobs, in a channel.                                           *)

LEMMA Grown ==
  ASSUME NEW S, NEW q \in Seq(S), NEW m \in S
  PROVE  /\ Append(q, m) \in Seq(S) /\ Len(q) \in Nat
         /\ Len(Append(q, m)) = Len(q) + 1
         /\ \A i \in 1..Len(q) : Append(q, m)[i] = q[i]
         /\ Append(q, m)[Len(q) + 1] = m
BY AppendProperties, LenProperties

LEMMA Ends1 ==
  ASSUME NEW S, NEW q \in Seq(S), q # <<>>
  PROVE  /\ Head(q) \in S /\ Head(q) = q[1] /\ Tail(q) \in Seq(S)
         /\ Len(q) \in Nat /\ Len(q) > 0 /\ Len(Tail(q)) = Len(q) - 1
         /\ \A i \in 1..Len(Tail(q)) : Tail(q)[i] = q[i + 1]
BY HeadTailProperties, ElementOfSeq, LenProperties

LEMMA ToldAppend ==
  ASSUME NEW q \in Seq(Message), NEW r \in Message, NEW j
  PROVE  /\ Told(Append(q, r), j) <=> Told(q, j) \/ r.job = j
         /\ Runs(Append(q, r), j) <=> IF r.job = j THEN r.state = "running" ELSE Runs(q, j)
<1> PICK n, a : n = Len(q) /\ a = Append(q, r)
  OBVIOUS
<1>1. /\ n \in Nat /\ Len(a) = n + 1 /\ a[n + 1] = r
      /\ \A i \in 1..n : a[i] = q[i]
  BY Grown
<1>2. Told(a, j) <=> Told(q, j) \/ r.job = j
  BY <1>1 DEF Told
<1>3. CASE r.job = j
  <2>1. Runs(a, j) => r.state = "running"
    <3> SUFFICES ASSUME NEW i \in 1..Len(a), a[i].job = j, a[i].state = "running",
                        \A k \in 1..Len(a) : i < k => a[k].job # j
                 PROVE  r.state = "running"
      BY DEF Runs
    <3>1. i = n + 1
      BY <1>1, <1>3
    <3> QED
      BY <1>1, <3>1
  <2>2. r.state = "running" => Runs(a, j)
    BY <1>1, <1>3 DEF Runs
  <2> QED
    BY <1>2, <1>3, <2>1, <2>2
<1>4. CASE r.job # j
  <2>1. Runs(a, j) => Runs(q, j)
    <3> SUFFICES ASSUME NEW i \in 1..Len(a), a[i].job = j, a[i].state = "running",
                        \A k \in 1..Len(a) : i < k => a[k].job # j
                 PROVE  Runs(q, j)
      BY DEF Runs
    <3>1. i \in 1..n /\ \A k \in 1..n : k \in 1..Len(a)
      BY <1>1, <1>4
    <3> QED
      BY <1>1, <3>1 DEF Runs
  <2>2. Runs(q, j) => Runs(a, j)
    <3> SUFFICES ASSUME NEW i \in 1..n, q[i].job = j, q[i].state = "running",
                        \A k \in 1..n : i < k => q[k].job # j
                 PROVE  Runs(a, j)
      BY DEF Runs
    <3>1. \A k \in 1..Len(a) : k \in 1..n \/ k = n + 1
      BY <1>1
    <3>2. i \in 1..Len(a) /\ \A k \in 1..Len(a) : i < k => a[k].job # j
      BY <1>1, <1>4, <3>1
    <3> QED
      BY <1>1, <3>2 DEF Runs
  <2> QED
    BY <1>2, <1>4, <2>1, <2>2
<1> QED
  BY <1>3, <1>4

LEMMA ToldTail ==
  ASSUME NEW q \in Seq(Message), q # <<>>, NEW j
  PROVE  /\ Told(q, j) <=> Told(Tail(q), j) \/ Head(q).job = j
         /\ Told(Tail(q), j) => (Runs(q, j) <=> Runs(Tail(q), j))
         /\ ~Told(Tail(q), j) => (Runs(q, j) <=> Head(q).job = j /\ Head(q).state = "running")
<1> PICK n, t : n = Len(q) /\ t = Tail(q)
  OBVIOUS
<1>1. /\ n \in Nat /\ n > 0 /\ Len(t) = n - 1 /\ q[1] = Head(q)
      /\ \A i \in 1..n - 1 : t[i] = q[i + 1]
  BY Ends1
<1>2. \A i \in 1..n : i = 1 \/ (i - 1 \in 1..n - 1 /\ q[i] = t[i - 1])
  <2> SUFFICES ASSUME NEW i \in 1..n, i # 1
               PROVE  i - 1 \in 1..n - 1 /\ q[i] = t[i - 1]
    OBVIOUS
  <2>1. i - 1 \in 1..n - 1 /\ (i - 1) + 1 = i
    BY <1>1
  <2> QED
    BY <1>1, <2>1
<1>3. Told(q, j) <=> Told(t, j) \/ Head(q).job = j
  <2>1. Told(q, j) => Told(t, j) \/ Head(q).job = j
    BY <1>1, <1>2 DEF Told
  <2>2. Told(t, j) => Told(q, j)
    <3> SUFFICES ASSUME NEW i \in 1..n - 1, t[i].job = j
                 PROVE  Told(q, j)
      BY <1>1 DEF Told
    <3>1. i + 1 \in 1..n /\ q[i + 1].job = j
      BY <1>1
    <3> QED
      BY <3>1 DEF Told
  <2>3. Head(q).job = j => Told(q, j)
    BY <1>1 DEF Told
  <2> QED
    BY <2>1, <2>2, <2>3
<1>4. ASSUME Told(t, j)
      PROVE  Runs(q, j) <=> Runs(t, j)
  <2>1. PICK m \in 1..n - 1 : t[m].job = j
    BY <1>1, <1>4 DEF Told
  <2>2. Runs(q, j) => Runs(t, j)
    <3> SUFFICES ASSUME NEW i \in 1..n, q[i].job = j, q[i].state = "running",
                        \A k \in 1..n : i < k => q[k].job # j
                 PROVE  Runs(t, j)
      BY DEF Runs
    <3>1. m + 1 \in 1..n /\ q[m + 1].job = j /\ m + 1 > 1
      BY <1>1, <2>1
    <3>2. i # 1
      BY <3>1
    <3>3. i - 1 \in 1..n - 1 /\ q[i] = t[i - 1]
      BY <1>2, <3>2
    <3>4. \A k \in 1..n - 1 : i - 1 < k => k + 1 \in 1..n /\ i < k + 1
      BY <1>1
    <3>5. \A k \in 1..n - 1 : i - 1 < k => t[k].job # j
      BY <1>1, <3>4
    <3> QED
      BY <1>1, <3>3, <3>5 DEF Runs
  <2>3. Runs(t, j) => Runs(q, j)
    <3> SUFFICES ASSUME NEW i \in 1..n - 1, t[i].job = j, t[i].state = "running",
                        \A k \in 1..n - 1 : i < k => t[k].job # j
                 PROVE  Runs(q, j)
      BY <1>1 DEF Runs
    <3>1. i + 1 \in 1..n /\ q[i + 1] = t[i]
      BY <1>1
    <3>2. \A k \in 1..n : i + 1 < k => k # 1 /\ i < k - 1
      BY <1>1
    <3>3. \A k \in 1..n : i + 1 < k => k - 1 \in 1..n - 1 /\ i < k - 1 /\ q[k] = t[k - 1]
      BY <1>2, <3>2
    <3>4. \A k \in 1..n : i + 1 < k => q[k].job # j
      BY <3>3
    <3>5. q[i + 1].job = j /\ q[i + 1].state = "running"
      BY <3>1
    <3> QED
      BY <3>1, <3>4, <3>5 DEF Runs
  <2> QED
    BY <2>2, <2>3
<1>5. ASSUME ~Told(t, j)
      PROVE  Runs(q, j) <=> Head(q).job = j /\ Head(q).state = "running"
  <2>0. \A i \in 1..n - 1 : t[i].job # j
    BY <1>1, <1>5 DEF Told
  <2>1. \A k \in 1..n : 1 < k => q[k].job # j
    <3> SUFFICES ASSUME NEW k \in 1..n, 1 < k
                 PROVE  q[k].job # j
      OBVIOUS
    <3>1. k # 1
      OBVIOUS
    <3>2. k - 1 \in 1..n - 1 /\ q[k] = t[k - 1]
      BY <1>2, <3>1
    <3> QED
      BY <2>0, <3>2
  <2>2. 1 \in 1..n
    BY <1>1
  <2> QED
    BY <1>1, <2>1, <2>2 DEF Runs
<1> QED
  BY <1>3, <1>4, <1>5

LEMMA ClosedAppend ==
  ASSUME NEW S, NEW q \in Seq(S), NEW m \in S, NEW id
  PROVE  Closed(Append(q, m), id) <=> Closed(q, id) \/ m = Signal("closed", id)
BY Grown DEF Closed

LEMMA ClosedTail ==
  ASSUME NEW S, NEW q \in Seq(S), q # <<>>, NEW id
  PROVE  Closed(q, id) <=> Closed(Tail(q), id) \/ Head(q) = Signal("closed", id)
<1> PICK n, t : n = Len(q) /\ t = Tail(q)
  OBVIOUS
<1>1. /\ n \in Nat /\ n > 0 /\ Len(t) = n - 1 /\ q[1] = Head(q)
      /\ \A i \in 1..n - 1 : t[i] = q[i + 1]
  BY Ends1
<1>2. \A i \in 1..n : i = 1 \/ (i - 1 \in 1..n - 1 /\ q[i] = t[i - 1])
  <2> SUFFICES ASSUME NEW i \in 1..n, i # 1
               PROVE  i - 1 \in 1..n - 1 /\ q[i] = t[i - 1]
    OBVIOUS
  <2>1. i - 1 \in 1..n - 1 /\ (i - 1) + 1 = i
    BY <1>1
  <2> QED
    BY <1>1, <2>1
<1>3. Closed(q, id) => Closed(t, id) \/ Head(q) = Signal("closed", id)
  BY <1>1, <1>2 DEF Closed
<1>4. Closed(t, id) => Closed(q, id)
  <2> SUFFICES ASSUME NEW i \in 1..n - 1, t[i] = Signal("closed", id)
               PROVE  Closed(q, id)
    BY <1>1 DEF Closed
  <2>1. i + 1 \in 1..n /\ q[i + 1] = Signal("closed", id)
    BY <1>1
  <2> QED
    BY <2>1 DEF Closed
<1>5. Head(q) = Signal("closed", id) => Closed(q, id)
  BY <1>1 DEF Closed
<1> QED
  BY <1>3, <1>4, <1>5

-----------------------------------------------------------------------------
(* What jobs say of themselves.                                              *)

\* One job may change, and then a word about it may be said.
LEMMA SpokenWord ==
  ASSUME DisplayTypes, Display, NEW j \in JobIds,
         UNCHANGED <<surface, session, notes, calling, screen, signals, crossed>>,
         \A k \in JobIds : k # j => job'[k] = job[k],
         \/ reports' = reports /\ (Running(j)' <=> Running(j))
         \/ \E r \in Message : /\ r.job = j /\ reports' = Append(reports, r)
                               /\ r.state = "running" <=> Running(j)'
  PROVE  reports' \in Seq(Message) /\ Display'
<1>1. reports \in Seq(Message)
  BY DEF DisplayTypes
<1>2. Mapped' /\ (surface = "notes" => \A k \in JobIds \ crossed : Posted(k)')
  BY DEF Display, Mapped, Posted, ShownAs, Shown, Closed, Signal
<1>3. \A k \in JobIds : k # j => (Running(k)' <=> Running(k))
  BY DEF Running
<1>4. \A k \in JobIds : (Running(k)' <=> Running(k)) => (Taken(k)' <=> Taken(k))
  BY DEF Taken, ShownAs, Shown
<1>5. CASE reports' = reports /\ (Running(j)' <=> Running(j))
  <2>1. \A k \in JobIds : Running(k)' <=> Running(k)
    BY <1>3, <1>5
  <2>2. \A k \in JobIds : Truth(k)'
    <3> TAKE k \in JobIds
    <3>1. Truth(k) /\ (Running(k)' <=> Running(k)) /\ (Taken(k)' <=> Taken(k))
      BY <1>4, <2>1 DEF Display
    <3>2. (Told(reports, k))' <=> Told(reports, k)
      BY <1>5
    <3>3. (Runs(reports, k))' <=> Runs(reports, k)
      BY <1>5
    <3> HIDE DEF Running, Taken, Told, Runs
    <3> QED
      BY <3>1, <3>2, <3>3 DEF Truth
  <2> QED
    BY <1>1, <1>2, <1>5, <2>2 DEF Display
<1>6. ASSUME NEW r \in Message, r.job = j, reports' = Append(reports, r),
             r.state = "running" <=> Running(j)'
      PROVE  reports' \in Seq(Message) /\ Display'
  <2>1. \A k : /\ (Told(reports, k))' <=> Told(reports, k) \/ k = j
               /\ (Runs(reports, k))' <=> IF k = j THEN r.state = "running" ELSE Runs(reports, k)
    BY <1>1, <1>6, ToldAppend
  <2>2. ASSUME NEW k \in JobIds
        PROVE  Truth(k)'
    <3>1. CASE k = j
      BY <1>6, <2>1, <3>1 DEF Truth
    <3>2. CASE k # j
      <4>1. Truth(k) /\ (Running(k)' <=> Running(k)) /\ (Taken(k)' <=> Taken(k))
        BY <1>3, <1>4, <3>2 DEF Display
      <4>2. /\ (Told(reports, k))' <=> Told(reports, k)
            /\ (Runs(reports, k))' <=> Runs(reports, k)
        BY <2>1, <3>2
      <4> HIDE DEF Running, Taken, Told, Runs
      <4> QED
        BY <4>1, <4>2 DEF Truth
    <3> QED
      BY <3>1, <3>2
  <2> QED
    BY <1>1, <1>2, <1>6, <2>2, Grown DEF Display
<1> QED
  BY <1>5, <1>6

\* So do the display's types hold, and the running jobs are those that go on.
LEMMA SpokenDisplay ==
  ASSUME DisplayTypes, Surfaces, Listing, Display, NEW j \in JobIds,
         UNCHANGED <<surface, session, display>>, cancels' \in Seq(JobIds),
         \A k \in JobIds : k # j => job'[k] = job[k],
         job'[j].listed => job'[j].pc \in {"starts", "fills", "fetches", "writes"},
         \/ reports' = reports /\ (Running(j)' <=> Running(j))
         \/ \E r \in Message : /\ r.job = j /\ reports' = Append(reports, r)
                               /\ r.state = "running" <=> Running(j)'
  PROVE  DisplayTypes' /\ Surfaces' /\ Listing' /\ Display'
<1>1. UNCHANGED <<notes, calling, screen, signals, lingers, crossed>>
  BY DEF display
<1>2. reports' \in Seq(Message) /\ Display'
  BY <1>1, SpokenWord
<1>3. DisplayTypes'
  BY <1>1, <1>2 DEF DisplayTypes
<1>4. Surfaces'
  BY <1>1 DEF Surfaces
<1>5. Listing'
  BY DEF Listing
<1> QED
  BY <1>2, <1>3, <1>4, <1>5

\* Steps of the offers and of the jobs.
LEMMA JobsDisplay ==
  ASSUME BridgeTypes, DisplayTypes, Surfaces, Listing, Display, Books, NEW j \in JobIds,
         \/ \E files \in BOOLEAN : OnRemoteOffer(files)
         \/ \E s \in recent : Grace(s)
         \/ \E kind \in {"item", "files"} : Paste(j, kind)
         \/ JobStep(j) \/ Tick(j) \/ Cancel
  PROVE  DisplayTypes' /\ Surfaces' /\ Listing' /\ Display'
<1>1. job \in [JobIds -> JobState] /\ cancels \in Seq(JobIds) /\ job[j] \in JobState
  BY DEF BridgeTypes, DisplayTypes
<1>2. \A state \in States : /\ [job |-> j, state |-> state] \in Message
                            /\ [job |-> j, state |-> state].job = j
                            /\ [job |-> j, state |-> state].state = state
  BY DEF Message
<1>3. job[j].listed => job[j].pc \in {"starts", "fills", "fetches", "writes"}
  BY DEF Listing
<1>4. ASSUME \/ \E files \in BOOLEAN : OnRemoteOffer(files)
             \/ \E s \in recent : Grace(s)
      PROVE  DisplayTypes' /\ Surfaces' /\ Listing' /\ Display'
  <2>1. UNCHANGED <<surface, session, job, reports, cancels, display>>
    BY <1>4 DEF OnRemoteOffer, Grace
  <2>2. Running(j)' <=> Running(j)
    BY <2>1 DEF Running
  <2> QED
    BY <1>1, <1>3, <2>1, <2>2, SpokenDisplay
<1>5. ASSUME NEW kind \in {"item", "files"}, Paste(j, kind)
      PROVE  DisplayTypes' /\ Surfaces' /\ Listing' /\ Display'
  <2>1. UNCHANGED <<surface, session, reports, cancels, display>> /\ job[j].pc = "none"
    BY <1>5 DEF Paste
  <2>2. PICK x : /\ job' = [job EXCEPT ![j] = x]
                 /\ x.pc = "starts" /\ x.listed = TRUE /\ x.shown = FALSE
    <3>1. \E s, d : job' = [job EXCEPT ![j] =
            [NoJob EXCEPT !.pc = "starts", !.kind = kind, !.serial = s, !.dir = d,
                          !.listed = TRUE]]
      BY <1>5 DEF Paste
    <3>2. PICK s, d : job' = [job EXCEPT ![j] =
            [NoJob EXCEPT !.pc = "starts", !.kind = kind, !.serial = s, !.dir = d,
                          !.listed = TRUE]]
      BY <3>1
    <3> DEFINE y == [NoJob EXCEPT !.pc = "starts", !.kind = kind, !.serial = s, !.dir = d,
                                  !.listed = TRUE]
    <3>3. y.pc = "starts" /\ y.listed = TRUE /\ y.shown = FALSE
      BY DEF NoJob
    <3> QED
      BY <3>2, <3>3
  <2>3. job[j].shown = FALSE
    BY <2>1 DEF Books, Pasting, NoJob
  <2>4. Running(j)' <=> Running(j)
    BY <1>1, <2>2, <2>3 DEF Running
  <2> QED
    BY <1>1, <2>1, <2>2, <2>4, SpokenDisplay
<1>6. ASSUME Begin(j) \/ CreateFile(j) \/ FileArrives(j)
      PROVE  DisplayTypes' /\ Surfaces' /\ Listing' /\ Display'
  <2>1. UNCHANGED <<surface, session, reports, cancels, display>>
    BY <1>6 DEF Begin, CreateFile, FileArrives
  <2>2. /\ \A k \in JobIds : k # j => job'[k] = job[k]
        /\ job'[j].listed = job[j].listed /\ job'[j].shown = job[j].shown
        /\ job'[j].pc \in {"starts", "fills", "fetches", "writes"}
    BY <1>1, <1>6 DEF Begin, CreateFile, FileArrives, JobState
  <2>3. Running(j)' <=> Running(j)
    BY <2>2 DEF Running
  <2> QED
    BY <1>1, <2>1, <2>2, <2>3, SpokenDisplay
<1>7. ASSUME NEW state \in {"done", "failed"}, Finish(j, state),
             UNCHANGED <<surface, session, cancels, display>>
      PROVE  DisplayTypes' /\ Surfaces' /\ Listing' /\ Display'
  <2>1. /\ job'[j].listed = FALSE /\ \A k \in JobIds : k # j => job'[k] = job[k]
    BY <1>1, <1>7 DEF Finish, JobState
  <2>2. ~Running(j)'
    BY <2>1 DEF Running
  <2>3. \/ reports' = reports /\ ~Running(j)
        \/ reports' = Append(reports, [job |-> j, state |-> state])
    BY <1>7 DEF Finish, Report, Running
  <2> QED
    BY <1>1, <1>2, <1>7, <2>1, <2>2, <2>3, SpokenDisplay DEF States
<1>8. ASSUME DropTask(j)
      PROVE  DisplayTypes' /\ Surfaces' /\ Listing' /\ Display'
  <2>1. /\ UNCHANGED <<surface, session, reports, cancels, display>>
        /\ job[j].pc = "aborted" /\ job' = [job EXCEPT ![j].pc = "ended"]
    BY <1>8 DEF DropTask
  <2>2. /\ \A k \in JobIds : k # j => job'[k] = job[k]
        /\ job'[j].listed = job[j].listed /\ job[j].listed # TRUE
    BY <1>1, <1>3, <2>1 DEF JobState
  <2>3. job[j].listed = FALSE
    BY <1>1, <2>2 DEF JobState
  <2>4. ~Running(j)' /\ ~Running(j)
    BY <2>2, <2>3 DEF Running
  <2> QED
    BY <1>1, <2>1, <2>2, <2>3, <2>4, SpokenDisplay
<1>9. ASSUME Tick(j)
      PROVE  DisplayTypes' /\ Surfaces' /\ Listing' /\ Display'
  <2>1. /\ UNCHANGED <<surface, session, cancels, display>>
        /\ job[j].pc \in {"starts", "fills", "fetches", "writes"} /\ job[j].listed
        /\ reports' = Append(reports, [job |-> j, state |-> "running"])
        /\ job' = [job EXCEPT ![j].shown = TRUE, ![j].ticks = @ + 1]
    BY <1>9 DEF Tick, Report, bridge
  <2>2. /\ \A k \in JobIds : k # j => job'[k] = job[k]
        /\ job'[j].listed = job[j].listed /\ job'[j].shown = TRUE /\ job'[j].pc = job[j].pc
    BY <1>1, <2>1 DEF JobState
  <2>3. Running(j)'
    BY <2>1, <2>2 DEF Running
  <2> QED
    BY <1>1, <1>2, <2>1, <2>2, <2>3, SpokenDisplay DEF States
<1>10. ASSUME Cancel
       PROVE  DisplayTypes' /\ Surfaces' /\ Listing' /\ Display'
  <2> PICK i : i = Head(cancels)
    OBVIOUS
  <2>1. /\ UNCHANGED <<surface, session, display>> /\ cancels # <<>> /\ cancels' = Tail(cancels)
        /\ \/ job' = job /\ reports' = reports
           \/ /\ job[i].listed
              /\ job' = [job EXCEPT ![i].listed = FALSE, ![i].pc = "aborted"]
              /\ IF job[i].shown THEN reports' = Append(reports, [job |-> i, state |-> "cancelled"])
                 ELSE reports' = reports
    BY <1>10 DEF Cancel, Report, bridge
  <2>2. i \in JobIds /\ cancels' \in Seq(JobIds)
    BY <1>1, <2>1, Ends1
  <2>3. CASE job' = job /\ reports' = reports
    <3>1. Running(j)' <=> Running(j)
      BY <2>3 DEF Running
    <3> QED
      BY <1>3, <2>1, <2>2, <2>3, <3>1, SpokenDisplay
  <2>4. CASE /\ job[i].listed
             /\ job' = [job EXCEPT ![i].listed = FALSE, ![i].pc = "aborted"]
             /\ IF job[i].shown THEN reports' = Append(reports, [job |-> i, state |-> "cancelled"])
                ELSE reports' = reports
    <3>1. job'[i].listed = FALSE /\ \A k \in JobIds : k # i => job'[k] = job[k]
      BY <1>1, <2>2, <2>4 DEF JobState
    <3>2. ~Running(i)'
      BY <3>1 DEF Running
    <3>3. \/ reports' = reports /\ ~Running(i)
          \/ reports' = Append(reports, [job |-> i, state |-> "cancelled"])
      BY <2>4 DEF Running
    <3>4. [job |-> i, state |-> "cancelled"] \in Message
      BY <2>2 DEF Message, States
    <3> QED
      BY <2>1, <2>2, <3>1, <3>2, <3>3, <3>4, SpokenDisplay
  <2> QED
    BY <2>1, <2>3, <2>4
<1>11. ASSUME JobStep(j)
       PROVE  DisplayTypes' /\ Surfaces' /\ Listing' /\ Display'
  <2>1. CASE Begin(j) \/ CreateFile(j) \/ FileArrives(j)
    BY <1>6, <2>1
  <2>2. CASE ItemArrives(j)
    BY <1>7, <2>2 DEF ItemArrives, bridge
  <2>3. CASE Fails(j)
    BY <1>7, <2>3 DEF Fails
  <2>4. CASE Write(j)
    BY <1>7, <2>4 DEF Write
  <2>5. CASE DropTask(j)
    BY <1>8, <2>5
  <2> QED
    BY <1>11, <2>1, <2>2, <2>3, <2>4, <2>5 DEF JobStep
<1> QED
  BY <1>4, <1>5, <1>9, <1>10, <1>11

-----------------------------------------------------------------------------
(* What surfaces do.                                                         *)

LEMMA SurfaceKeeps ==
  ASSUME BridgeTypes, Disk, Listing, UNCHANGED <<surface, bridge, job>>
  PROVE  BridgeTypes' /\ Disk' /\ Listing' /\ (Books => Books')
<1>1. BridgeTypes' /\ Listing' /\ Disk'
  BY DEF BridgeTypes, Listing, Disk, Mine, bridge
<1> QED
  BY <1>1, SameBooks

LEMMA ScreenTypes ==
  ASSUME BridgeTypes, DisplayTypes, NEW id \in Nat \ {0}
  PROVE  /\ \A j \in JobIds, state \in States :
              LET s == With(screen, id, Shown(j, state)) IN
              /\ DOMAIN s \in SUBSET (Nat \ {0}) /\ IsFiniteSet(DOMAIN s)
              /\ s \in [DOMAIN s -> Picture]
         /\ LET s == Without(screen, id) IN
              /\ DOMAIN s \in SUBSET (Nat \ {0}) /\ IsFiniteSet(DOMAIN s)
              /\ s \in [DOMAIN s -> Picture]
<1>1. IsFiniteSet(DOMAIN screen \cup {id}) /\ IsFiniteSet(DOMAIN screen \ {id})
  BY FS_AddElement, FS_RemoveElement DEF DisplayTypes
<1>2. \A j \in JobIds, state \in States : Shown(j, state) \in Picture
  BY DEF Shown, Picture, BridgeTypes
<1>3. DOMAIN screen \in SUBSET (Nat \ {0}) /\ screen \in [DOMAIN screen -> Picture]
  BY DEF DisplayTypes
<1>4. ASSUME NEW j \in JobIds, NEW state \in States
      PROVE  LET s == With(screen, id, Shown(j, state)) IN
             /\ DOMAIN s \in SUBSET (Nat \ {0}) /\ IsFiniteSet(DOMAIN s)
             /\ s \in [DOMAIN s -> Picture]
  <2> PICK v, s : v = Shown(j, state) /\ s = With(screen, id, v)
    OBVIOUS
  <2>1. DOMAIN s = DOMAIN screen \cup {id} /\ v \in Picture
    BY <1>2, WithFacts
  <2>2. s \in [DOMAIN s -> Picture]
    BY <1>3, <2>1, WithFacts
  <2> QED
    BY <1>1, <1>3, <2>1, <2>2
<1>5. LET s == Without(screen, id) IN
      /\ DOMAIN s \in SUBSET (Nat \ {0}) /\ IsFiniteSet(DOMAIN s)
      /\ s \in [DOMAIN s -> Picture]
  <2> PICK s : s = Without(screen, id)
    OBVIOUS
  <2>1. DOMAIN s = DOMAIN screen \ {id}
    BY WithoutFacts
  <2>2. s \in [DOMAIN s -> Picture]
    BY <1>3, WithoutFacts
  <2> QED
    BY <1>1, <1>3, <2>1, <2>2
<1> QED
  BY <1>4, <1>5

\* The next word is taken off the channel.
LEMMA NextWord ==
  ASSUME DisplayTypes, reports # <<>>, reports' = Tail(reports), UNCHANGED job,
         NEW k \in JobIds, Truth(k)
  PROVE  /\ (Told(reports, k))' => ((Runs(reports, k))' <=> Running(k)')
         /\ ~(Told(reports, k))' /\ Head(reports).job = k =>
              (Head(reports).state = "running" <=> Running(k))
         /\ ~(Told(reports, k))' /\ Head(reports).job # k /\ calling.job # k => Taken(k)
<1>1. Running(k)' <=> Running(k)
  BY DEF Running
<1>2. reports \in Seq(Message)
  BY DEF DisplayTypes
<1>3. /\ Told(reports, k) <=> (Told(reports, k))' \/ Head(reports).job = k
      /\ (Told(reports, k))' => (Runs(reports, k) <=> (Runs(reports, k))')
      /\ ~(Told(reports, k))' =>
           (Runs(reports, k) <=> Head(reports).job = k /\ Head(reports).state = "running")
  BY <1>2, ToldTail
<1> HIDE DEF Told, Runs, Running, Taken
<1> QED
  BY <1>1, <1>3 DEF Truth

LEMMA UpdateStep ==
  ASSUME BridgeTypes, DisplayTypes, Surfaces, Update
  PROVE  DisplayTypes' /\ Surfaces' /\ (Display => Display')
<1> PICK r : r = Head(reports)
  OBVIOUS
<1>1. /\ surface = "rows" /\ reports # <<>> /\ reports' = Tail(reports)
      /\ UNCHANGED <<surface, session, job, cancels, notes, calling, signals, crossed>>
      /\ screen' = IF r.state \in {"running", "failed"}
                   THEN With(screen, r.job, Shown(r.job, r.state)) ELSE Without(screen, r.job)
      /\ lingers' = IF r.state = "failed" THEN lingers \cup {r.job} ELSE lingers
  BY DEF Update, bridge
<1>2. r \in Message /\ r.job \in JobIds /\ r.state \in States /\ reports' \in Seq(Message)
  <2>1. reports \in Seq(Message)
    BY DEF DisplayTypes
  <2>2. r \in Message /\ reports' \in Seq(Message)
    BY <1>1, <2>1, Ends1
  <2> QED
    BY <2>2 DEF Message
<1>3. r.job \in Nat \ {0}
  BY <1>2, Constants
<1>4. /\ DOMAIN screen' \in SUBSET (Nat \ {0}) /\ IsFiniteSet(DOMAIN screen')
      /\ screen' \in [DOMAIN screen' -> Picture]
  BY <1>1, <1>2, <1>3, ScreenTypes
<1>5. DisplayTypes'
  BY <1>1, <1>2, <1>4 DEF DisplayTypes
<1>6. /\ \A id \in DOMAIN screen : id # r.job => id \in DOMAIN screen' /\ screen'[id] = screen[id]
      /\ \A id \in DOMAIN screen' : id # r.job => id \in DOMAIN screen
      /\ r.job \in DOMAIN screen' <=> r.state \in {"running", "failed"}
      /\ r.job \in DOMAIN screen' => screen'[r.job] = Shown(r.job, r.state)
  <2> PICK i, v : i = r.job /\ v = Shown(r.job, r.state)
    OBVIOUS
  <2>1. CASE r.state \in {"running", "failed"}
    <3>1. screen' = With(screen, i, v)
      BY <1>1, <2>1
    <3> PICK w : w = With(screen, i, v)
      OBVIOUS
    <3>2. /\ DOMAIN w = DOMAIN screen \cup {i} /\ w[i] = v
          /\ \A id \in DOMAIN screen : id # i => w[id] = screen[id]
      BY DEF With
    <3>3. screen' = w
      BY <3>1
    <3> QED
      BY <2>1, <3>2, <3>3
  <2>2. CASE r.state \notin {"running", "failed"}
    <3>1. screen' = Without(screen, i)
      BY <1>1, <2>2
    <3> PICK w : w = Without(screen, i)
      OBVIOUS
    <3>2. /\ DOMAIN w = DOMAIN screen \ {i}
          /\ \A id \in DOMAIN screen : id # i => w[id] = screen[id]
      BY DEF Without
    <3>3. screen' = w
      BY <3>1
    <3> QED
      BY <2>2, <3>2, <3>3
  <2> QED
    BY <2>1, <2>2
<1>7. Surfaces'
  <2>1. \A id \in DOMAIN screen' : screen'[id].session <= session /\ screen'[id].job = id
    <3> TAKE id \in DOMAIN screen'
    <3>1. CASE id = r.job
      BY <1>6, <3>1 DEF Shown, BridgeTypes
    <3>2. CASE id # r.job
      BY <1>1, <1>6, <3>2 DEF Surfaces
    <3> QED
      BY <3>1, <3>2
  <2> QED
    BY <1>1, <2>1 DEF Surfaces
<1>8. ASSUME Display
      PROVE  Display'
  <2>1. Mapped' /\ surface' # "notes"
    BY <1>1, <1>8 DEF Display, Mapped
  <2>2. ASSUME NEW k \in JobIds
        PROVE  Truth(k)'
    <3>1. /\ (Told(reports, k))' => ((Runs(reports, k))' <=> Running(k)')
          /\ ~(Told(reports, k))' /\ r.job = k => (r.state = "running" <=> Running(k))
          /\ ~(Told(reports, k))' /\ r.job # k /\ calling.job # k => Taken(k)
      BY <1>1, <1>8, NextWord DEF Display
    <3>2. calling.job # k /\ calling'.job # k
      BY <1>1, Constants DEF Surfaces, NotCalling
    <3>3. Running(k)' <=> Running(k)
      BY <1>1 DEF Running
    <3>4. ~(Told(reports, k))' => Taken(k)'
      <4>1. CASE r.job = k
        <5>1. ShownAs(k, k)' <=> r.state = "running"
          BY <1>1, <1>6, <4>1 DEF ShownAs, Shown
        <5> HIDE DEF Running, ShownAs, Told
        <5> QED
          BY <1>1, <3>1, <3>3, <4>1, <5>1 DEF Taken
      <4>2. CASE r.job # k
        <5>1. ShownAs(k, k)' <=> ShownAs(k, k)
          BY <1>1, <1>6, <4>2 DEF ShownAs, Shown
        <5> HIDE DEF Running, ShownAs, Told
        <5> QED
          BY <1>1, <3>1, <3>2, <3>3, <4>2, <5>1 DEF Taken
      <4> QED
        BY <4>1, <4>2
    <3> HIDE DEF Running, Taken, Told, Runs
    <3> QED
      BY <3>1, <3>2, <3>4 DEF Truth
  <2> QED
    BY <2>1, <2>2 DEF Display
<1> QED
  BY <1>5, <1>7, <1>8

LEMMA BarSteps ==
  ASSUME BridgeTypes, DisplayTypes, Surfaces, NEW j \in JobIds, Linger(j) \/ PressRow(j)
  PROVE  DisplayTypes' /\ Surfaces' /\ (Display => Display')
<1>1. CASE PressRow(j)
  <2>1. /\ UNCHANGED <<surface, session, job, reports, notes, calling, screen, signals, lingers,
                       crossed>>
        /\ cancels' \in {cancels, Append(cancels, j)} /\ surface = "rows"
    BY <1>1 DEF PressRow, bridge, display
  <2>2. cancels' \in Seq(JobIds)
    <3>1. cancels \in Seq(JobIds)
      BY DEF DisplayTypes
    <3> QED
      BY <2>1, <3>1, Grown
  <2>3. DisplayTypes' /\ Surfaces'
    BY <2>1, <2>2 DEF DisplayTypes, Surfaces
  <2>4. ASSUME NEW k \in JobIds
        PROVE  Truth(k) => Truth(k)'
    BY <2>1 DEF Truth, Told, Runs, Running, Taken, ShownAs, Shown
  <2>5. Display => Display'
    BY <2>1, <2>4 DEF Display, Mapped
  <2> QED
    BY <2>3, <2>5
<1>2. CASE Linger(j)
  <2>1. /\ UNCHANGED <<surface, session, job, reports, cancels, notes, calling, signals>>
        /\ j \in lingers /\ lingers' = lingers \ {j} /\ screen' = Without(screen, j)
        /\ crossed' = crossed \cup {j}
    BY <1>2 DEF Linger, bridge
  <2>2. surface = "rows" /\ j \in Nat \ {0}
    BY <2>1, Constants DEF Surfaces, BridgeTypes
  <2>3. /\ DOMAIN screen' = DOMAIN screen \ {j}
        /\ \A id \in DOMAIN screen : id # j => screen'[id] = screen[id]
    BY <2>1, WithoutFacts
  <2>4. /\ DOMAIN screen' \in SUBSET (Nat \ {0}) /\ IsFiniteSet(DOMAIN screen')
        /\ screen' \in [DOMAIN screen' -> Picture]
    BY <2>1, <2>2, ScreenTypes
  <2>5. DisplayTypes' /\ Surfaces'
    BY <2>1, <2>2, <2>3, <2>4 DEF DisplayTypes, Surfaces
  <2>6. ASSUME NEW k \in JobIds
        PROVE  Taken(k) => Taken(k)'
    <3>1. k # j => (ShownAs(k, k)' <=> ShownAs(k, k))
      BY <2>1, <2>3 DEF ShownAs, Shown
    <3>2. Running(k)' <=> Running(k)
      BY <2>1 DEF Running
    <3> HIDE DEF Running, ShownAs
    <3> QED
      BY <2>1, <2>2, <3>1, <3>2 DEF Taken
  <2>7. ASSUME NEW k \in JobIds
        PROVE  Truth(k) => Truth(k)'
    <3>1. /\ (Told(reports, k))' <=> Told(reports, k)
          /\ (Runs(reports, k))' <=> Runs(reports, k)
          /\ Running(k)' <=> Running(k)
      BY <2>1 DEF Running
    <3>2. Taken(k) => Taken(k)'
      BY <2>6
    <3> HIDE DEF Running, Taken, Told, Runs
    <3> QED
      BY <2>1, <3>1, <3>2 DEF Truth
  <2>8. Display => Display'
    BY <2>1, <2>2, <2>7 DEF Display, Mapped
  <2> QED
    BY <2>5, <2>8
<1> QED
  BY <1>1, <1>2

\* The notification thread takes a report.
LEMMA TakeStep ==
  ASSUME BridgeTypes, DisplayTypes, Surfaces, Display, TakeReport
  PROVE  DisplayTypes' /\ Surfaces' /\ Display'
<1> PICK r, n : r = Head(reports) /\ n = SlotFor(r)
  OBVIOUS
<1>1. /\ surface = "notes" /\ calling = NotCalling /\ reports # <<>> /\ reports' = Tail(reports)
      /\ UNCHANGED <<surface, session, job, cancels, screen, signals, lingers, crossed>>
      /\ \/ r.job \in notes.silenced /\ UNCHANGED <<calling, notes>>
         \/ /\ calling' = [job |-> r.job, state |-> r.state, replaces |-> n]
            /\ notes' = [notes EXCEPT !.silenced = @ \ {r.job}]
  BY DEF TakeReport, Silenced, bridge
<1>2. r \in Message /\ r.job \in JobIds /\ r.state \in States /\ reports' \in Seq(Message)
  <2>1. reports \in Seq(Message)
    BY DEF DisplayTypes
  <2>2. r \in Message /\ reports' \in Seq(Message)
    BY <1>1, <2>1, Ends1
  <2> QED
    BY <2>2 DEF Message
<1>3. \A j \in DOMAIN notes.by_job : /\ notes.by_job[j] \in Nat \ {0}
                                     /\ j \notin notes.silenced
  BY DEF Display, Mapped, DisplayTypes
<1>4. /\ n \in Nat
      /\ IF n = 0 THEN r.job \notin DOMAIN notes.by_job
         ELSE r.job \in DOMAIN notes.by_job /\ n = notes.by_job[r.job]
  BY <1>3 DEF SlotFor
<1>5. \A k \in JobIds : calling.job # k
  BY <1>1, Constants DEF NotCalling
<1>6. ASSUME NEW k \in JobIds
      PROVE  /\ (Told(reports, k))' => ((Runs(reports, k))' <=> Running(k)')
             /\ ~(Told(reports, k))' /\ r.job = k => (r.state = "running" <=> Running(k))
             /\ ~(Told(reports, k))' /\ r.job # k => Taken(k)
             /\ Running(k)' <=> Running(k)
  <2>1. Truth(k)
    BY DEF Display
  <2> QED
    BY <1>1, <1>5, <2>1, NextWord DEF Running
<1>7. CASE r.job \in notes.silenced /\ UNCHANGED <<calling, notes>>
  <2>1. DisplayTypes' /\ Surfaces' /\ Mapped'
    BY <1>1, <1>2, <1>7 DEF DisplayTypes, Surfaces, Display, Mapped
  <2>2. ASSUME NEW k \in JobIds
        PROVE  Truth(k)'
    <3>1. ~(Told(reports, k))' => Taken(k)'
      <4> HIDE DEF Running, Told
      <4> QED
        BY <1>1, <1>6, <1>7 DEF Taken
    <3> HIDE DEF Running, Told, Runs, Taken
    <3> QED
      BY <1>5, <1>6, <1>7, <3>1 DEF Truth
  <2>3. \A k \in JobIds : Posted(k) => Posted(k)'
    BY <1>1, <1>7 DEF Posted, ShownAs, Shown
  <2> QED
    BY <1>1, <2>1, <2>2, <2>3 DEF Display
<1>8. CASE /\ calling' = [job |-> r.job, state |-> r.state, replaces |-> n]
           /\ notes' = [notes EXCEPT !.silenced = @ \ {r.job}]
  <2>1. /\ notes'.by_job = notes.by_job /\ notes'.by_note = notes.by_note
        /\ notes'.silenced = notes.silenced \ {r.job}
        /\ notes' = [by_job |-> notes.by_job, by_note |-> notes.by_note,
                     silenced |-> notes.silenced \ {r.job}]
    BY <1>8 DEF DisplayTypes
  <2>2. calling' \in Call /\ calling'.job = r.job /\ calling'.state = r.state
        /\ calling'.replaces = n
    BY <1>2, <1>4, <1>8 DEF Call
  <2>3. notes'.by_job \in [DOMAIN notes'.by_job -> Nat]
        /\ notes'.by_note \in [DOMAIN notes'.by_note -> JobIds]
        /\ DOMAIN notes'.by_note \in SUBSET (Nat \ {0})
        /\ DOMAIN notes'.by_job \in SUBSET JobIds /\ notes'.silenced \in SUBSET JobIds
        /\ notes' = [by_job |-> notes'.by_job, by_note |-> notes'.by_note,
                     silenced |-> notes'.silenced]
    BY <2>1 DEF DisplayTypes
  <2>4. DisplayTypes' /\ Surfaces'
    BY <1>1, <1>2, <2>2, <2>3 DEF DisplayTypes, Surfaces
  <2>5. Mapped'
    BY <1>1, <1>4, <2>1, <2>2 DEF Display, Mapped
  <2>6. ASSUME NEW k \in JobIds
        PROVE  Truth(k)'
    <3>1. ~(Told(reports, k))' /\ r.job # k => Taken(k)'
      <4> HIDE DEF Running, Told
      <4> QED
        BY <1>1, <1>6, <2>1 DEF Taken
    <3> HIDE DEF Running, Told, Runs, Taken
    <3> QED
      BY <1>6, <2>2, <3>1 DEF Truth
  <2>7. \A k \in JobIds : Posted(k) => Posted(k)'
    BY <1>1, <2>1 DEF Posted, ShownAs, Shown
  <2> QED
    BY <1>1, <2>4, <2>5, <2>6, <2>7 DEF Display
<1> QED
  BY <1>1, <1>7, <1>8

\* What the user does to a notification.
LEMMA PressStep ==
  ASSUME BridgeTypes, DisplayTypes, Surfaces, NEW id \in DOMAIN screen, PressNote(id)
  PROVE  DisplayTypes' /\ Surfaces' /\ (Display => Display')
<1> DEFINE Signals == [kind : {"action", "closed"}, note : Nat]
<1> PICK a, c : a = Signal("action", id) /\ c = Signal("closed", id)
  OBVIOUS
<1>1. /\ surface = "notes"
      /\ UNCHANGED <<surface, session, job, reports, cancels, notes, calling, lingers, crossed>>
      /\ \/ signals' = Append(signals, a) /\ screen' = screen
         \/ signals' = signals \o <<a, c>> /\ screen' = Without(screen, id)
         \/ signals' = Append(signals, c) /\ screen' = Without(screen, id)
  BY DEF PressNote, bridge
<1>2. id \in Nat \ {0} /\ signals \in Seq(Signals)
  BY DEF DisplayTypes
<1>3. a \in Signals /\ c \in Signals
  BY <1>2 DEF Signal
<1>4. /\ Append(signals, a) \in Seq(Signals)
      /\ signals \o <<a, c>> = Append(Append(signals, a), c)
  <2> HIDE DEF Signals
  <2> QED
    BY <1>2, <1>3, Grown
<1>5. /\ signals' \in Seq(Signals)
      /\ \/ screen' = screen /\ \A i : (Closed(signals, i))' <=> Closed(signals, i)
         \/ /\ screen' = Without(screen, id)
            /\ \A i : (Closed(signals, i))' <=> Closed(signals, i) \/ i = id
  <2> HIDE DEF Signals
  <2>1. \A i : a # Signal("closed", i) /\ (c = Signal("closed", i) <=> i = id)
    BY DEF Signal
  <2>2. CASE signals' = Append(signals, a) /\ screen' = screen
    BY <1>2, <1>3, <1>4, <2>1, <2>2, ClosedAppend
  <2>3. CASE signals' = signals \o <<a, c>> /\ screen' = Without(screen, id)
    <3> PICK q : q = Append(signals, a)
      OBVIOUS
    <3>1. q \in Seq(Signals) /\ signals' = Append(q, c) /\ signals' \in Seq(Signals)
      BY <1>3, <1>4, <2>3, Grown
    <3>2. \A i : Closed(q, i) <=> Closed(signals, i)
      BY <1>2, <1>3, <2>1, ClosedAppend
    <3>3. \A i : (Closed(signals, i))' <=> Closed(q, i) \/ i = id
      BY <1>3, <2>1, <3>1, ClosedAppend
    <3> QED
      BY <2>3, <3>1, <3>2, <3>3
  <2>4. CASE signals' = Append(signals, c) /\ screen' = Without(screen, id)
    BY <1>2, <1>3, <2>1, <2>4, Grown, ClosedAppend
  <2> QED
    BY <1>1, <2>2, <2>3, <2>4
<1>6. /\ \A i \in DOMAIN screen : i # id => i \in DOMAIN screen' /\ screen'[i] = screen[i]
      /\ \A i \in DOMAIN screen' : i \in DOMAIN screen /\ screen'[i] = screen[i]
      /\ screen' # screen => screen' = Without(screen, id)
      /\ screen' = Without(screen, id) => id \notin DOMAIN screen'
      /\ DOMAIN screen' \in SUBSET (Nat \ {0}) /\ IsFiniteSet(DOMAIN screen')
      /\ screen' \in [DOMAIN screen' -> Picture]
  <2>1. CASE screen' = screen
    BY <1>2, <2>1 DEF DisplayTypes, Without
  <2>2. CASE screen' = Without(screen, id)
    <3> PICK w : w = Without(screen, id)
      OBVIOUS
    <3>1. /\ DOMAIN w = DOMAIN screen \ {id}
          /\ \A i \in DOMAIN screen : i # id => w[i] = screen[i]
      BY DEF Without
    <3>2. /\ DOMAIN screen' \in SUBSET (Nat \ {0}) /\ IsFiniteSet(DOMAIN screen')
          /\ screen' \in [DOMAIN screen' -> Picture]
      BY <1>2, <2>2, ScreenTypes
    <3>3. screen' = w
      BY <2>2
    <3> QED
      BY <3>1, <3>2, <3>3
  <2> QED
    BY <1>1, <2>1, <2>2
<1>7. DisplayTypes' /\ Surfaces'
  <2>1. \A i \in DOMAIN screen' : screen'[i].session <= session
    BY <1>6 DEF Surfaces
  <2> QED
    BY <1>1, <1>5, <1>6, <2>1 DEF DisplayTypes, Surfaces
<1>8. ASSUME Display
      PROVE  Display'
  <2>1. Mapped' /\ \A k \in JobIds : Truth(k)'
    <3>1. ASSUME NEW k \in JobIds
          PROVE  Truth(k)'
      <4>1. /\ (Told(reports, k))' <=> Told(reports, k)
            /\ (Runs(reports, k))' <=> Runs(reports, k)
            /\ Running(k)' <=> Running(k)
            /\ Truth(k)
        BY <1>1, <1>8 DEF Display, Running
      <4>2. Taken(k)' <=> Taken(k)
        <5> HIDE DEF Running
        <5> QED
          BY <1>1, <4>1 DEF Taken
      <4> HIDE DEF Running, Told, Runs, Taken
      <4> QED
        BY <1>1, <4>1, <4>2 DEF Truth
    <3> QED
      BY <1>1, <1>8, <3>1 DEF Display, Mapped
  <2>2. ASSUME NEW k \in JobIds \ crossed
        PROVE  Posted(k)'
    <3>1. Posted(k)
      BY <1>1, <1>8 DEF Display
    <3>2. \A i : (ShownAs(i, k))' <=> ShownAs(i, k) /\ i \in DOMAIN screen'
      BY <1>1, <1>6 DEF ShownAs, Shown
    <3>3. \A i \in DOMAIN screen' : (ShownAs(i, k))' =>
            k \in DOMAIN notes.by_job /\ notes.by_job[k] = i
      BY <1>6, <3>1, <3>2 DEF Posted
    <3>4. ASSUME k \in DOMAIN notes.by_job, NEW i, i = notes.by_job[k]
          PROVE  IF i \in DOMAIN screen' THEN (ShownAs(i, k))' /\ ~(Closed(signals, i))'
                 ELSE (Closed(signals, i))'
      <4>1. IF i \in DOMAIN screen THEN ShownAs(i, k) /\ ~Closed(signals, i)
            ELSE Closed(signals, i)
        BY <3>1, <3>4 DEF Posted
      <4>2. CASE screen' = screen /\ \A x : (Closed(signals, x))' <=> Closed(signals, x)
        <5> HIDE DEF ShownAs, Closed
        <5> QED
          BY <3>2, <4>1, <4>2
      <4>3. CASE /\ screen' = Without(screen, id)
                 /\ \A x : (Closed(signals, x))' <=> Closed(signals, x) \/ x = id
        <5>1. CASE i = id
          <6> HIDE DEF ShownAs, Closed
          <6> QED
            BY <1>6, <4>3, <5>1
        <5>2. CASE i # id
          <6> HIDE DEF ShownAs, Closed
          <6> QED
            BY <1>6, <3>2, <4>1, <4>3, <5>2
        <5> QED
          BY <5>1, <5>2
      <4> QED
        BY <1>5, <4>2, <4>3
    <3> QED
      BY <1>1, <3>3, <3>4 DEF Posted
  <2> QED
    BY <1>1, <2>1, <2>2 DEF Display
<1> QED
  BY <1>7, <1>8

\* The signal of a notification, which the user closed or whose button was pressed.
LEMMA DispatchStep ==
  ASSUME BridgeTypes, DisplayTypes, Surfaces, Display, Dispatch
  PROVE  DisplayTypes' /\ Surfaces' /\ Display'
<1> DEFINE Signals == [kind : {"action", "closed"}, note : Nat]
<1> PICK s, id, j : s = Head(signals) /\ id = s.note /\ j = notes.by_note[id]
  OBVIOUS
<1>1. /\ surface = "notes" /\ calling = NotCalling /\ signals # <<>> /\ signals' = Tail(signals)
      /\ UNCHANGED <<surface, session, job, reports, calling, screen, lingers, crossed>>
      /\ cancels' = IF s.kind = "action" /\ id \in DOMAIN notes.by_note
                    THEN Append(cancels, j) ELSE cancels
      /\ notes' = IF s.kind = "closed" /\ id \in DOMAIN notes.by_note
                  THEN [by_job |-> Without(notes.by_job, j), by_note |-> Without(notes.by_note, id),
                        silenced |-> notes.silenced \cup {j}]
                  ELSE notes
  BY DEF Dispatch, bridge
<1>2. /\ s \in Signals /\ id \in Nat /\ signals' \in Seq(Signals)
      /\ \A i : Closed(signals, i) <=> (Closed(signals, i))' \/ s = Signal("closed", i)
  <2>1. signals \in Seq(Signals)
    BY DEF DisplayTypes
  <2>2. s \in Signals /\ signals' \in Seq(Signals)
    <3> HIDE DEF Signals
    <3> QED
      BY <1>1, <2>1, Ends1
  <2>3. \A i : Closed(signals, i) <=> (Closed(signals, i))' \/ s = Signal("closed", i)
    <3> HIDE DEF Signals
    <3> QED
      BY <1>1, <2>1, ClosedTail
  <2> QED
    BY <2>2, <2>3
<1>3. \A i : s = Signal("closed", i) <=> s.kind = "closed" /\ id = i
  BY <1>2 DEF Signal
<1>4. id \in DOMAIN notes.by_note => j \in JobIds
  BY DEF DisplayTypes
<1>5. cancels' \in Seq(JobIds)
  <2>1. cancels \in Seq(JobIds)
    BY DEF DisplayTypes
  <2> QED
    BY <1>1, <1>4, <2>1, Grown
<1>6. \A k \in JobIds : calling.job # k
  BY <1>1, Constants DEF NotCalling
<1>7. \A k \in JobIds : /\ Truth(k)
                        /\ (Told(reports, k))' <=> Told(reports, k)
                        /\ (Runs(reports, k))' <=> Runs(reports, k)
                        /\ Running(k)' <=> Running(k)
  BY <1>1 DEF Display, Running
<1>8. ASSUME NEW k \in JobIds, Taken(k) => Taken(k)'
      PROVE  Truth(k)'
  <2> HIDE DEF Running, Told, Runs, Taken
  <2> QED
    BY <1>1, <1>6, <1>7, <1>8 DEF Truth
<1>9. CASE s.kind = "closed" /\ id \in DOMAIN notes.by_note
  <2> PICK bj, bn : bj = Without(notes.by_job, j) /\ bn = Without(notes.by_note, id)
    OBVIOUS
  <2>1. /\ notes' = [by_job |-> bj, by_note |-> bn, silenced |-> notes.silenced \cup {j}]
        /\ cancels' = cancels
    BY <1>1, <1>9
  <2>2. /\ DOMAIN bj = DOMAIN notes.by_job \ {j} /\ DOMAIN bn = DOMAIN notes.by_note \ {id}
        /\ \A k \in DOMAIN notes.by_job : k # j => bj[k] = notes.by_job[k]
        /\ \A i \in DOMAIN notes.by_note : i # id => bn[i] = notes.by_note[i]
    BY DEF Without
  <2>3. bj \in [DOMAIN bj -> Nat] /\ bn \in [DOMAIN bn -> JobIds]
    <3>1. /\ notes.by_job \in [DOMAIN notes.by_job -> Nat]
          /\ notes.by_note \in [DOMAIN notes.by_note -> JobIds]
      BY DEF DisplayTypes
    <3> QED
      BY <3>1, WithoutFacts
  <2>4. /\ notes'.by_job = bj /\ notes'.by_note = bn
        /\ notes'.silenced = notes.silenced \cup {j}
    BY <2>1
  <2>5. DisplayTypes'
    <3>1. /\ DOMAIN bn \in SUBSET (Nat \ {0}) /\ DOMAIN bj \in SUBSET JobIds
          /\ notes.silenced \cup {j} \in SUBSET JobIds
      BY <1>4, <1>9, <2>2 DEF DisplayTypes
    <3> QED
      BY <1>1, <1>2, <1>5, <2>1, <2>3, <2>4, <3>1 DEF DisplayTypes
  <2>6. notes.by_job[j] = id /\ j \in DOMAIN notes.by_job
    BY <1>9 DEF Display, Mapped
  <2>7. \A k \in DOMAIN notes.by_job : k # j => notes.by_job[k] # id
    BY DEF Display, Mapped
  <2>8. \A i \in DOMAIN notes.by_note : i # id => notes.by_note[i] # j
    BY <2>6 DEF Display, Mapped
  <2>9. Mapped'
    <3>1. ASSUME NEW k \in DOMAIN bj
          PROVE  bj[k] \in DOMAIN bn /\ bn[bj[k]] = k /\ k \notin notes'.silenced
      <4>1. k \in DOMAIN notes.by_job /\ k # j /\ bj[k] = notes.by_job[k]
        BY <2>2
      <4>2. /\ notes.by_job[k] \in DOMAIN notes.by_note /\ notes.by_job[k] # id
            /\ notes.by_note[notes.by_job[k]] = k /\ k \notin notes.silenced
        BY <2>7, <4>1 DEF Display, Mapped
      <4> QED
        BY <2>2, <2>4, <4>1, <4>2
    <3>2. ASSUME NEW i \in DOMAIN bn
          PROVE  bn[i] \in DOMAIN bj /\ bj[bn[i]] = i
      <4>1. i \in DOMAIN notes.by_note /\ i # id /\ bn[i] = notes.by_note[i]
        BY <2>2
      <4>2. /\ notes.by_note[i] \in DOMAIN notes.by_job /\ notes.by_note[i] # j
            /\ notes.by_job[notes.by_note[i]] = i
        BY <2>8, <4>1 DEF Display, Mapped
      <4> QED
        BY <2>2, <4>1, <4>2
    <3> QED
      BY <1>1, <2>4, <3>1, <3>2 DEF Mapped
  <2>10. ASSUME NEW k \in JobIds
         PROVE  Taken(k) => Taken(k)'
    <3> HIDE DEF Running
    <3> QED
      BY <1>1, <1>7, <2>2, <2>4 DEF Taken
  <2>11. ASSUME NEW k \in JobIds \ crossed
         PROVE  Posted(k)'
    <3>1. Posted(k) /\ \A i : (ShownAs(i, k))' <=> ShownAs(i, k)
      BY <1>1 DEF Display, ShownAs, Shown
    <3>2. CASE k = j
      <4>1. Closed(signals, id)
        BY <1>2, <1>3, <1>9
      <4>2. id \notin DOMAIN screen
        BY <2>6, <3>1, <3>2, <4>1 DEF Posted
      <4>3. \A i \in DOMAIN screen : ~ShownAs(i, k)
        BY <2>6, <3>1, <3>2, <4>2 DEF Posted
      <4> QED
        BY <1>1, <2>2, <2>4, <3>1, <3>2, <4>3 DEF Posted
    <3>3. CASE k # j
      <4>1. /\ k \in DOMAIN notes'.by_job <=> k \in DOMAIN notes.by_job
            /\ k \in DOMAIN notes.by_job => notes'.by_job[k] = notes.by_job[k]
        BY <2>2, <2>4, <3>3
      <4>2. k \in DOMAIN notes.by_job =>
              ((Closed(signals, notes.by_job[k]))' <=> Closed(signals, notes.by_job[k]))
        <5> SUFFICES ASSUME k \in DOMAIN notes.by_job, NEW i, i = notes.by_job[k]
                     PROVE  (Closed(signals, i))' <=> Closed(signals, i)
          BY <1>1, <2>2, <2>4, <4>1
        <5> QED
          BY <1>2, <1>3, <2>7, <3>3
      <4> QED
        BY <1>1, <3>1, <4>1, <4>2 DEF Posted
    <3> QED
      BY <3>2, <3>3
  <2> QED
    BY <1>1, <1>8, <2>5, <2>9, <2>10, <2>11 DEF Display, Surfaces
<1>10. CASE ~(s.kind = "closed" /\ id \in DOMAIN notes.by_note)
  <2>1. notes' = notes
    BY <1>1, <1>10
  <2>2. DisplayTypes' /\ Surfaces' /\ Mapped'
    BY <1>1, <1>2, <1>5, <2>1 DEF DisplayTypes, Surfaces, Display, Mapped
  <2>3. ASSUME NEW k \in JobIds
        PROVE  Taken(k) => Taken(k)'
    <3> HIDE DEF Running
    <3> QED
      BY <1>1, <1>7, <2>1 DEF Taken
  <2>4. ASSUME NEW k \in JobIds \ crossed
        PROVE  Posted(k)'
    <3>1. Posted(k) /\ \A i : (ShownAs(i, k))' <=> ShownAs(i, k)
      BY <1>1 DEF Display, ShownAs, Shown
    <3>2. ASSUME k \in DOMAIN notes.by_job, NEW i, i = notes.by_job[k]
          PROVE  (Closed(signals, i))' <=> Closed(signals, i)
      <4>1. i \in DOMAIN notes.by_note
        BY <3>2 DEF Display, Mapped
      <4> QED
        BY <1>2, <1>3, <1>10, <4>1
    <3> QED
      BY <1>1, <2>1, <3>1, <3>2 DEF Posted
  <2> QED
    BY <1>1, <1>8, <2>2, <2>3, <2>4 DEF Display
<1> QED
  BY <1>9, <1>10

\* The daemon shows a report, and answers with its notification's id.
LEMMA NotifyStep ==
  ASSUME BridgeTypes, DisplayTypes, Surfaces, Display, Notify
  PROVE  DisplayTypes' /\ Surfaces' /\ Display'
<1> PICK j, st, id, w :
      /\ j = calling.job /\ st = calling.state
      /\ id = IF calling.replaces # 0 THEN calling.replaces
              ELSE CHOOSE n \in 1..NewNote + MaxJobs :
                     /\ n \notin DOMAIN screen \cup DOMAIN notes.by_note
                     /\ \A i \in DOMAIN signals : signals[i].note # n
      /\ w = With(screen, id, Shown(j, st))
  OBVIOUS
<1>1. /\ calling # NotCalling /\ calling' = NotCalling /\ screen' = w
      /\ UNCHANGED <<surface, session, job, reports, cancels, signals, lingers>>
      /\ notes' = IF st = "running"
                  THEN [notes EXCEPT !.by_job = With(@, j, id), !.by_note = With(@, id, j)]
                  ELSE IF j \in DOMAIN notes.by_job
                  THEN [notes EXCEPT !.by_job = Without(@, j),
                                     !.by_note = Without(@, notes.by_job[j])]
                  ELSE notes
      /\ crossed' = IF calling.replaces # 0 /\ calling.replaces \notin DOMAIN screen
                    THEN crossed \cup {j} ELSE crossed
  BY DEF Notify, bridge
<1>2. /\ surface = "notes" /\ j \in JobIds /\ st \in States /\ calling.replaces \in Nat
      /\ calling.state = st
  BY <1>1 DEF Surfaces, BridgeTypes, DisplayTypes, Call
<1>3. /\ notes = [by_job |-> notes.by_job, by_note |-> notes.by_note,
                  silenced |-> notes.silenced]
      /\ notes.by_job \in [DOMAIN notes.by_job -> Nat]
      /\ notes.by_note \in [DOMAIN notes.by_note -> JobIds]
      /\ DOMAIN notes.by_note \in SUBSET (Nat \ {0}) /\ DOMAIN notes.by_job \in SUBSET JobIds
      /\ notes.silenced \in SUBSET JobIds
  BY DEF DisplayTypes
<1>4. /\ \A k \in DOMAIN notes.by_job :
           /\ notes.by_job[k] \in DOMAIN notes.by_note
           /\ notes.by_note[notes.by_job[k]] = k /\ k \notin notes.silenced
      /\ \A i \in DOMAIN notes.by_note :
           notes.by_note[i] \in DOMAIN notes.by_job /\ notes.by_job[notes.by_note[i]] = i
      /\ j \notin notes.silenced
      /\ IF calling.replaces = 0 THEN j \notin DOMAIN notes.by_job
         ELSE j \in DOMAIN notes.by_job /\ calling.replaces = notes.by_job[j]
  BY <1>1 DEF Display, Mapped
\* Either the notification it replaces, or one that nothing knows of.
<1>5. /\ id \in Nat \ {0}
      /\ \/ /\ calling.replaces # 0 /\ j \in DOMAIN notes.by_job /\ notes.by_job[j] = id
            /\ id \in DOMAIN notes.by_note
         \/ /\ calling.replaces = 0 /\ j \notin DOMAIN notes.by_job
            /\ id \notin DOMAIN screen /\ id \notin DOMAIN notes.by_note
            /\ ~Closed(signals, id)
  <2>1. CASE calling.replaces # 0
    BY <1>2, <1>3, <1>4, <2>1
  <2>2. CASE calling.replaces = 0
    <3>1. id = CHOOSE n \in 1..NewNote + MaxJobs :
                 /\ n \notin DOMAIN screen \cup DOMAIN notes.by_note
                 /\ \A i \in DOMAIN signals : signals[i].note # n
      BY <2>2
    <3>2. /\ id \in Nat \ {0} /\ id \notin DOMAIN screen /\ id \notin DOMAIN notes.by_note
          /\ \A i \in 1..Len(signals) : signals[i].note # id
      BY <3>1, NewNoteFresh DEF Display
    <3>3. ~Closed(signals, id)
      <4> SUFFICES ASSUME NEW i \in 1..Len(signals), signals[i] = Signal("closed", id)
                   PROVE  FALSE
        BY DEF Closed
      <4>1. Signal("closed", id).note = id
        BY DEF Signal
      <4> QED
        BY <3>2, <4>1
    <3> QED
      BY <1>4, <2>2, <3>2, <3>3
  <2> QED
    BY <2>1, <2>2
<1>6. \A k \in DOMAIN notes.by_job : k # j => notes.by_job[k] # id
  BY <1>4, <1>5
<1>7. /\ DOMAIN w = DOMAIN screen \cup {id} /\ w[id] = Shown(j, st)
      /\ \A i \in DOMAIN screen : i # id => w[i] = screen[i]
      /\ DOMAIN w \in SUBSET (Nat \ {0}) /\ IsFiniteSet(DOMAIN w)
      /\ w \in [DOMAIN w -> Picture]
  <2>1. /\ DOMAIN w \in SUBSET (Nat \ {0}) /\ IsFiniteSet(DOMAIN w)
        /\ w \in [DOMAIN w -> Picture]
    BY <1>2, <1>5, ScreenTypes
  <2> QED
    BY <2>1 DEF With
\* The maps afterwards: they have j, under this id, if it runs.
<1> DEFINE After(bj, bn) ==
      /\ notes' = [by_job |-> bj, by_note |-> bn, silenced |-> notes.silenced]
      /\ bj \in [DOMAIN bj -> Nat] /\ bn \in [DOMAIN bn -> JobIds]
      /\ DOMAIN bj = IF st = "running" THEN DOMAIN notes.by_job \cup {j}
                     ELSE DOMAIN notes.by_job \ {j}
      /\ DOMAIN bn = IF st = "running" THEN DOMAIN notes.by_note \cup {id}
                     ELSE DOMAIN notes.by_note \ {id}
      /\ \A k \in DOMAIN bj : bj[k] = IF k = j THEN id ELSE notes.by_job[k]
      /\ \A i \in DOMAIN bn : bn[i] = IF i = id THEN j ELSE notes.by_note[i]
<1>7a. \E bj, bn : After(bj, bn)
  <2>1. CASE st = "running"
    <3> PICK bj, bn : bj = With(notes.by_job, j, id) /\ bn = With(notes.by_note, id, j)
      OBVIOUS
    <3>1. /\ DOMAIN bj = DOMAIN notes.by_job \cup {j}
          /\ DOMAIN bn = DOMAIN notes.by_note \cup {id}
          /\ \A k \in DOMAIN bj : bj[k] = IF k = j THEN id ELSE notes.by_job[k]
          /\ \A i \in DOMAIN bn : bn[i] = IF i = id THEN j ELSE notes.by_note[i]
      BY DEF With
    <3>2. bj \in [DOMAIN bj -> Nat] /\ bn \in [DOMAIN bn -> JobIds]
      <4>1. id \in Nat
        BY <1>5
      <4>2. bj \in [DOMAIN bj -> Nat]
        BY <1>3, <4>1 DEF With
      <4>3. bn \in [DOMAIN bn -> JobIds]
        BY <1>2, <1>3 DEF With
      <4> QED
        BY <4>2, <4>3
    <3>3. notes' = [by_job |-> bj, by_note |-> bn, silenced |-> notes.silenced]
      <4>1. notes' = [notes EXCEPT !.by_job = bj, !.by_note = bn]
        BY <1>1, <2>1
      <4> QED
        BY <1>3, <4>1
    <3>4. After(bj, bn)
      BY <2>1, <3>1, <3>2, <3>3
    <3> HIDE DEF After
    <3> QED
      BY <3>4
  <2>2. CASE st # "running" /\ j \in DOMAIN notes.by_job
    <3> PICK bj, bn : bj = Without(notes.by_job, j) /\ bn = Without(notes.by_note, id)
      OBVIOUS
    <3>1. /\ DOMAIN bj = DOMAIN notes.by_job \ {j} /\ DOMAIN bn = DOMAIN notes.by_note \ {id}
          /\ \A k \in DOMAIN bj : k # j /\ bj[k] = notes.by_job[k]
          /\ \A i \in DOMAIN bn : i # id /\ bn[i] = notes.by_note[i]
      BY DEF Without
    <3>2. bj \in [DOMAIN bj -> Nat] /\ bn \in [DOMAIN bn -> JobIds]
      BY <1>3, WithoutFacts
    <3>3. notes' = [by_job |-> bj, by_note |-> bn, silenced |-> notes.silenced]
      <4>1. notes.by_job[j] = id
        BY <1>5, <2>2
      <4>2. notes' = [notes EXCEPT !.by_job = bj, !.by_note = bn]
        BY <1>1, <2>2, <4>1
      <4> QED
        BY <1>3, <4>2
    <3>4. After(bj, bn)
      BY <2>2, <3>1, <3>2, <3>3
    <3> HIDE DEF After
    <3> QED
      BY <3>4
  <2>3. CASE st # "running" /\ j \notin DOMAIN notes.by_job
    <3>1. notes' = notes /\ id \notin DOMAIN notes.by_note
      BY <1>1, <1>5, <2>3
    <3>2. /\ DOMAIN notes.by_job = DOMAIN notes.by_job \ {j}
          /\ DOMAIN notes.by_note = DOMAIN notes.by_note \ {id}
      BY <2>3, <3>1
    <3>3. /\ \A k \in DOMAIN notes.by_job :
               notes.by_job[k] = IF k = j THEN id ELSE notes.by_job[k]
          /\ \A i \in DOMAIN notes.by_note :
               notes.by_note[i] = IF i = id THEN j ELSE notes.by_note[i]
      BY <2>3, <3>1
    <3>4. notes' = [by_job |-> notes.by_job, by_note |-> notes.by_note,
                    silenced |-> notes.silenced]
      BY <1>3, <3>1
    <3>5. After(notes.by_job, notes.by_note)
      BY <1>3, <2>3, <3>2, <3>3, <3>4
    <3> HIDE DEF After
    <3> QED
      BY <3>5
  <2> QED
    BY <2>1, <2>2, <2>3
<1> PICK bj, bn : After(bj, bn)
  BY <1>7a
<1>8. After(bj, bn)
  OBVIOUS
<1>9. notes'.by_job = bj /\ notes'.by_note = bn /\ notes'.silenced = notes.silenced
  BY <1>8
<1>10. DisplayTypes' /\ Surfaces'
  <2>1. DOMAIN bn \in SUBSET (Nat \ {0}) /\ DOMAIN bj \in SUBSET JobIds
    BY <1>2, <1>3, <1>5, <1>8
  <2>2. crossed' \in SUBSET JobIds
    BY <1>1, <1>2 DEF DisplayTypes
  <2>3. \A i \in DOMAIN screen' : screen'[i].session <= session
    <3> TAKE i \in DOMAIN screen'
    <3>1. CASE i = id
      BY <1>1, <1>7, <3>1 DEF Shown, BridgeTypes
    <3>2. CASE i # id
      BY <1>1, <1>7, <3>2 DEF Surfaces
    <3> QED
      BY <3>1, <3>2
  <2>4. DisplayTypes'
    BY <1>1, <1>3, <1>7, <1>8, <1>9, <2>1, <2>2 DEF DisplayTypes
  <2> QED
    BY <1>1, <1>2, <2>3, <2>4 DEF Surfaces
<1>11. Mapped'
  <2>1. ASSUME NEW k \in DOMAIN bj
        PROVE  bj[k] \in DOMAIN bn /\ bn[bj[k]] = k /\ k \notin notes.silenced
    <3>1. CASE k = j
      BY <1>4, <1>8, <2>1, <3>1
    <3>2. CASE k # j
      <4>1. k \in DOMAIN notes.by_job /\ bj[k] = notes.by_job[k]
        BY <1>8, <2>1, <3>2
      <4>2. /\ notes.by_job[k] \in DOMAIN notes.by_note /\ notes.by_job[k] # id
            /\ notes.by_note[notes.by_job[k]] = k /\ k \notin notes.silenced
        BY <1>4, <1>6, <3>2, <4>1
      <4> QED
        BY <1>8, <4>1, <4>2
    <3> QED
      BY <3>1, <3>2
  <2>2. ASSUME NEW i \in DOMAIN bn
        PROVE  bn[i] \in DOMAIN bj /\ bj[bn[i]] = i
    <3>1. CASE i = id
      BY <1>8, <2>2, <3>1
    <3>2. CASE i # id
      <4>1. i \in DOMAIN notes.by_note /\ bn[i] = notes.by_note[i]
        BY <1>8, <2>2, <3>2
      <4>2. notes.by_note[i] \in DOMAIN notes.by_job /\ notes.by_job[notes.by_note[i]] = i
        BY <1>4, <4>1
      <4>3. notes.by_note[i] # j
        BY <1>4, <1>5, <3>2, <4>1, <4>2
      <4> QED
        BY <1>8, <4>1, <4>2, <4>3
    <3> QED
      BY <3>1, <3>2
  <2> QED
    BY <1>1, <1>9, <2>1, <2>2 DEF Mapped
<1>12. ASSUME NEW k \in JobIds
       PROVE  Truth(k)'
  <2>1. /\ (Told(reports, k))' <=> Told(reports, k)
        /\ (Runs(reports, k))' <=> Runs(reports, k)
        /\ Running(k)' <=> Running(k)
        /\ Truth(k)
    BY <1>1 DEF Display, Running
  <2>2. k \in DOMAIN notes'.by_job <=>
          IF k = j THEN st = "running" ELSE k \in DOMAIN notes.by_job
    BY <1>8, <1>9
  <2>3. ~Told(reports, k) => Taken(k)'
    <3>1. CASE k = j
      <4> HIDE DEF Running, Told
      <4> QED
        BY <1>1, <1>2, <2>1, <2>2, <3>1 DEF Taken, Truth
    <3>2. CASE k # j
      <4> HIDE DEF Running, Told
      <4> QED
        BY <1>1, <1>2, <1>9, <2>1, <2>2, <3>2 DEF Taken, Truth
    <3> QED
      BY <3>1, <3>2
  <2>4. calling'.job # k
    BY <1>1, Constants DEF NotCalling
  <2> HIDE DEF Running, Told, Runs, Taken
  <2> QED
    BY <2>1, <2>3, <2>4 DEF Truth
<1>13. ASSUME NEW k \in JobIds \ crossed'
       PROVE  Posted(k)'
  <2>1. Posted(k)
    BY <1>1, <1>2 DEF Display
  <2>2. \A i : (Closed(signals, i))' <=> Closed(signals, i)
    BY <1>1
  <2>3. CASE k = j
    <3>1. \A i \in DOMAIN screen : i # id => ~ShownAs(i, j)
      BY <1>5, <2>1, <2>3 DEF Posted
    <3>2. \A i \in DOMAIN screen' : i # id => ~(ShownAs(i, j))'
      BY <1>1, <1>7, <3>1 DEF ShownAs, Shown
    <3>3. id \in DOMAIN screen' /\ ((ShownAs(id, j))' <=> st = "running")
      BY <1>1, <1>7 DEF ShownAs, Shown
    <3>4. st = "running" => j \in DOMAIN notes'.by_job /\ notes'.by_job[j] = id
      BY <1>8, <1>9
    <3>5. j \in DOMAIN notes'.by_job => st = "running"
      BY <1>8, <1>9
    <3>6. ~Closed(signals, id)
      <4>1. CASE calling.replaces # 0
        <5>1. id \in DOMAIN screen /\ j \in DOMAIN notes.by_job /\ notes.by_job[j] = id
          BY <1>1, <1>5, <2>3, <4>1
        <5> QED
          BY <2>1, <2>3, <5>1 DEF Posted
      <4>2. CASE calling.replaces = 0
        BY <1>5, <4>2
      <4> QED
        BY <4>1, <4>2
    <3>7. \A i \in DOMAIN screen' : (ShownAs(i, j))' =>
            j \in DOMAIN notes'.by_job /\ notes'.by_job[j] = i
      <4> HIDE DEF ShownAs
      <4> QED
        BY <3>2, <3>3, <3>4
    <3>8. ASSUME j \in DOMAIN notes'.by_job, NEW i, i = notes'.by_job[j]
          PROVE  IF i \in DOMAIN screen' THEN (ShownAs(i, j))' /\ ~(Closed(signals, i))'
                 ELSE (Closed(signals, i))'
      <4>1. i = id /\ st = "running"
        BY <3>4, <3>5, <3>8
      <4> HIDE DEF ShownAs, Closed
      <4> QED
        BY <2>2, <3>3, <3>6, <4>1
    <3> QED
      BY <2>3, <3>7, <3>8 DEF Posted
  <2>4. CASE k # j
    <3>1. /\ k \in DOMAIN notes'.by_job <=> k \in DOMAIN notes.by_job
          /\ k \in DOMAIN notes'.by_job => notes'.by_job[k] = notes.by_job[k]
      BY <1>8, <1>9, <2>4
    <3>2. \A i : (ShownAs(i, k))' <=> i # id /\ ShownAs(i, k)
      <4> TAKE i
      <4>1. CASE i = id
        BY <1>1, <1>7, <2>4, <4>1 DEF ShownAs, Shown
      <4>2. CASE i # id
        <5>1. /\ i \in DOMAIN screen' <=> i \in DOMAIN screen
              /\ i \in DOMAIN screen => screen'[i] = screen[i]
          BY <1>1, <1>7, <4>2
        <5> QED
          BY <1>1, <4>2, <5>1 DEF ShownAs, Shown
      <4> QED
        BY <4>1, <4>2
    <3>3. \A i : i # id => (i \in DOMAIN screen' <=> i \in DOMAIN screen)
      BY <1>1, <1>7
    <3>4. k \in DOMAIN notes.by_job => notes.by_job[k] # id
      BY <1>6, <2>4
    <3>5. \A i \in DOMAIN screen' : (ShownAs(i, k))' =>
            k \in DOMAIN notes'.by_job /\ notes'.by_job[k] = i
      <4> HIDE DEF ShownAs
      <4> QED
        BY <2>1, <3>1, <3>2, <3>3 DEF Posted
    <3>6. ASSUME k \in DOMAIN notes'.by_job, NEW i, i = notes'.by_job[k]
          PROVE  IF i \in DOMAIN screen' THEN (ShownAs(i, k))' /\ ~(Closed(signals, i))'
                 ELSE (Closed(signals, i))'
      <4>1. i # id /\ i = notes.by_job[k] /\ k \in DOMAIN notes.by_job
        BY <3>1, <3>4, <3>6
      <4>2. IF i \in DOMAIN screen THEN ShownAs(i, k) /\ ~Closed(signals, i)
            ELSE Closed(signals, i)
        BY <2>1, <4>1 DEF Posted
      <4> HIDE DEF ShownAs, Closed
      <4> QED
        BY <2>2, <3>2, <3>3, <4>1, <4>2
    <3> QED
      BY <3>5, <3>6 DEF Posted
  <2> QED
    BY <2>3, <2>4
<1> QED
  BY <1>1, <1>10, <1>11, <1>12, <1>13 DEF Display

-----------------------------------------------------------------------------
(* Sessions.                                                                 *)

LEMMA Nothing ==
  /\ DOMAIN <<>> = {} /\ IsFiniteSet({}) /\ Len(<<>>) = 0
  /\ \A S : <<>> \in Seq(S) /\ <<>> \in [DOMAIN <<>> -> S]
<1>1. DOMAIN <<>> = {}
  OBVIOUS
<1>2. \A S : <<>> \in Seq(S) /\ <<>> \in [DOMAIN <<>> -> S]
  OBVIOUS
<1> QED
  BY <1>1, <1>2, FS_EmptySet

LEMMA NoNotesTypes ==
  /\ DOMAIN NoNotes.by_job = {} /\ DOMAIN NoNotes.by_note = {} /\ NoNotes.silenced = {}
  /\ NoNotes.by_job \in [DOMAIN NoNotes.by_job -> Nat]
  /\ NoNotes.by_note \in [DOMAIN NoNotes.by_note -> JobIds]
  /\ NoNotes = [by_job |-> NoNotes.by_job, by_note |-> NoNotes.by_note,
                silenced |-> NoNotes.silenced]
BY Nothing DEF NoNotes

\* Nothing runs, and nothing is said.
Still ==
  /\ surface \in {"notes", "rows"} /\ job = NoJobs
  /\ notes = NoNotes /\ calling = NotCalling /\ reports = <<>>
  /\ \A id \in DOMAIN screen : screen[id].session # session

LEMMA RestDisplay == Still => Listing /\ Display
<1> SUFFICES ASSUME Still
             PROVE  Listing /\ Display
  OBVIOUS
<1> USE DEF Still
<1>1. \A j \in JobIds : ~job[j].listed /\ ~Running(j)
  BY DEF NoJobs, NoJob, Running
<1>2. \A j \in JobIds : calling.job # j
  BY Constants DEF NotCalling
<1>3. \A id, j : ~ShownAs(id, j)
  BY DEF ShownAs, Shown
<1>4. \A j : ~Told(reports, j)
  BY Nothing DEF Told
<1>5. Mapped
  BY NoNotesTypes DEF Mapped
<1>6. ASSUME NEW j \in JobIds
      PROVE  Truth(j) /\ Posted(j)
  <2>1. j \notin DOMAIN notes.by_job
    BY NoNotesTypes
  <2>2. Taken(j) /\ Posted(j)
    <3> HIDE DEF Running, ShownAs
    <3> QED
      BY <1>1, <1>3, <2>1 DEF Taken, Posted
  <2> HIDE DEF Running, Told, Runs, Taken
  <2> QED
    BY <1>2, <1>4, <2>2 DEF Truth
<1> QED
  BY <1>1, <1>5, <1>6 DEF Listing, Display

LEMMA EndDisplay ==
  ASSUME BridgeTypes, DisplayTypes, Surfaces, NEW killed \in BOOLEAN, Ends(killed)
  PROVE  DisplayTypes' /\ Surfaces' /\ Listing'
<1>1. /\ UNCHANGED <<surface, session, signals>> /\ job' = NoJobs /\ cancels' = <<>>
      /\ notes' = NoNotes /\ calling' = NotCalling /\ crossed' = {}
      /\ reports' \in {reports, <<>>} /\ lingers' \in {lingers, {}}
      /\ screen' = screen \/ (screen' = <<>> /\ surface = "rows")
  BY DEF Ends
<1>2. /\ DOMAIN screen' \in SUBSET (Nat \ {0}) /\ IsFiniteSet(DOMAIN screen')
      /\ screen' \in [DOMAIN screen' -> Picture]
      /\ \A id \in DOMAIN screen' : id \in DOMAIN screen /\ screen'[id] = screen[id]
  <2>1. CASE screen' = screen
    BY <2>1 DEF DisplayTypes
  <2>2. CASE screen' = <<>>
    BY <2>2, Nothing
  <2> QED
    BY <1>1, <2>1, <2>2
<1>3. DisplayTypes'
  <2>1. reports' \in Seq(Message) /\ cancels' \in Seq(JobIds)
    BY <1>1, Nothing DEF DisplayTypes
  <2>2. /\ notes'.by_job \in [DOMAIN notes'.by_job -> Nat]
        /\ notes'.by_note \in [DOMAIN notes'.by_note -> JobIds]
        /\ DOMAIN notes'.by_note \in SUBSET (Nat \ {0})
        /\ notes' = [by_job |-> notes'.by_job, by_note |-> notes'.by_note,
                     silenced |-> notes'.silenced]
        /\ DOMAIN notes'.by_job \in SUBSET JobIds /\ notes'.silenced \in SUBSET JobIds
    BY <1>1, NoNotesTypes
  <2>3. lingers' \in SUBSET JobIds /\ crossed' \in SUBSET JobIds
    BY <1>1 DEF DisplayTypes
  <2>4. signals' \in Seq([kind : {"action", "closed"}, note : Nat])
    BY <1>1 DEF DisplayTypes
  <2> QED
    BY <1>1, <1>2, <2>1, <2>2, <2>3, <2>4 DEF DisplayTypes
<1>4. Surfaces'
  BY <1>1, <1>2 DEF Surfaces
<1>5. Listing'
  BY <1>1 DEF Listing, NoJobs, NoJob
<1> QED
  BY <1>3, <1>4, <1>5

LEMMA StartDisplay ==
  ASSUME BridgeTypes, DisplayTypes, Surfaces, AtRest, Starts
  PROVE  DisplayTypes' /\ Surfaces' /\ Listing' /\ Display'
<1>1. /\ UNCHANGED <<surface, job, cancels, notes, calling, screen, lingers, crossed>>
      /\ session' = session + 1 /\ reports' = <<>> /\ signals' = <<>>
      /\ notes = NoNotes /\ calling = NotCalling /\ job = NoJobs
  BY DEF Starts, AtRest
<1>2. session \in Nat /\ surface \in {"notes", "rows"}
  BY DEF BridgeTypes
<1>3. \A id \in DOMAIN screen : screen[id].session \in Nat /\ screen[id].session <= session
  BY DEF DisplayTypes, Picture, Surfaces
<1>4. \A id \in DOMAIN screen : screen[id].session <= session + 1
                                /\ screen[id].session # session + 1
  BY <1>2, <1>3
<1>5. DisplayTypes'
  BY <1>1, Nothing DEF DisplayTypes
<1>6. Surfaces'
  BY <1>1, <1>4 DEF Surfaces
<1>7. Listing' /\ Display'
  <2>1. Still'
    BY <1>1, <1>2, <1>4 DEF Still
  <2>2. (Still => Listing /\ Display)'
    BY RestDisplay, PTL
  <2> QED
    BY <2>1, <2>2
<1> QED
  BY <1>5, <1>6, <1>7

-----------------------------------------------------------------------------
(* The invariant.                                                            *)

LEMMA InitInv ==
  ASSUME Init
  PROVE  IInv
<1> PICK d, e : d = <<Neighbour, 0>>
               /\ e = [session |-> 0, serial |-> 0, content |-> [f \in 1..Files |-> "whole"]]
  OBVIOUS
<1>1. /\ surface \in {"notes", "rows"} /\ session = 1 /\ pid = Min(Pids) /\ alive = TRUE
      /\ remote = NoOffer /\ cell = EmptyCells /\ retired = {} /\ recent = {}
      /\ job = NoJobs /\ reports = <<>> /\ cancels = <<>> /\ notes = NoNotes
      /\ calling = NotCalling /\ dirs = [x \in {d} |-> e] /\ handed = {} /\ crossed = {}
      /\ screen = <<>> /\ signals = <<>> /\ lingers = {}
  BY DEF Init
<1>2. d \in Dirs /\ e \in Spool /\ d[1] = Neighbour /\ e.session = 0
  <2>1. [f \in 1..Files |-> "whole"] \in [1..Files -> {"absent", "part", "whole"}]
    OBVIOUS
  <2> QED
    BY <2>1, Constants DEF Dirs, Spool
<1>3. DOMAIN dirs = {d} /\ dirs[d] = e /\ IsFiniteSet({d})
  BY <1>1, FS_Singleton
<1>4. BridgeTypes
  <2>1. DOMAIN dirs \in SUBSET Dirs /\ IsFiniteSet(DOMAIN dirs) /\ dirs \in [DOMAIN dirs -> Spool]
    BY <1>1, <1>2, <1>3
  <2> QED
    BY <1>1, <2>1, MinPid, RestTypes DEF BridgeTypes
<1>5. \A x : ~Mine(x)
  BY <1>1, <1>2, <1>3 DEF Mine
<1>6. Disk
  BY <1>1, <1>2, <1>3, <1>5 DEF Disk
<1>7. DisplayTypes
  <2>1. /\ notes.by_job \in [DOMAIN notes.by_job -> Nat]
        /\ notes.by_note \in [DOMAIN notes.by_note -> JobIds]
        /\ DOMAIN notes.by_note \in SUBSET (Nat \ {0})
        /\ notes = [by_job |-> notes.by_job, by_note |-> notes.by_note,
                    silenced |-> notes.silenced]
        /\ DOMAIN notes.by_job \in SUBSET JobIds /\ notes.silenced \in SUBSET JobIds
    BY <1>1, NoNotesTypes
  <2> QED
    BY <1>1, <2>1, Nothing DEF DisplayTypes
<1>8. Surfaces
  BY <1>1, Nothing DEF Surfaces
<1>9. Listing /\ Display
  <2>1. Still
    BY <1>1, Nothing DEF Still
  <2> QED
    BY <2>1, RestDisplay
<1>10. Books
  <2>1. remote.dir = NoDir /\ remote.serial = 0
    BY <1>1 DEF NoOffer
  <2>2. OnePerOffer /\ Handed
    BY <1>1, <1>5, <2>1 DEF OnePerOffer, Handed
  <2>3. Cells
    BY <1>1 DEF Cells, EmptyCells
  <2>4. \A j \in JobIds : job[j] = NoJob /\ NoJob.pc = "none" /\ NoJob.kind = "item"
    BY <1>1 DEF NoJobs, NoJob
  <2>5. \A j \in JobIds : Pasting(j) /\ Filling(j)
    BY <2>4 DEF Pasting, Filling, Live
  <2> QED
    BY <2>2, <2>3, <2>5 DEF Books
<1> QED
  BY <1>1, <1>4, <1>6, <1>7, <1>8, <1>9, <1>10 DEF IInv, TypeOK

LEMMA NextInv ==
  ASSUME IInv, [Next]_vars
  PROVE  IInv'
<1>1. BridgeTypes /\ DisplayTypes /\ Disk /\ Surfaces /\ Listing
  BY DEF IInv, TypeOK
<1>2. alive => Books /\ Display
  BY DEF IInv
<1>3. ~alive => AtRest
  BY DEF IInv
<1>4. PICK i \in JobIds : TRUE
  BY Constants DEF JobIds
\* Steps of the bridge.
<1>5. ASSUME BridgeTypes', Disk', Books', DisplayTypes', Surfaces', Listing', Display',
             alive' = TRUE
      PROVE  IInv'
  BY <1>5 DEF IInv, TypeOK
<1>6. ASSUME NEW files \in BOOLEAN, OnRemoteOffer(files)
      PROVE  IInv'
  <2>1. alive = TRUE /\ alive' = alive
    BY <1>1, <1>6 DEF OnRemoteOffer, BridgeTypes
  <2>2. DisplayTypes' /\ Surfaces' /\ Listing' /\ Display'
    BY <1>1, <1>2, <1>4, <1>6, <2>1, JobsDisplay
  <2> QED
    BY <1>1, <1>2, <1>5, <1>6, <2>1, <2>2, OfferBooks
<1>7. ASSUME NEW s \in recent, Grace(s)
      PROVE  IInv'
  <2>1. alive = TRUE /\ alive' = alive
    BY <1>1, <1>7 DEF Grace, BridgeTypes
  <2>2. DisplayTypes' /\ Surfaces' /\ Listing' /\ Display'
    BY <1>1, <1>2, <1>4, <1>7, <2>1, JobsDisplay
  <2> QED
    BY <1>1, <1>2, <1>5, <1>7, <2>1, <2>2, GraceBooks
<1>8. ASSUME NEW j \in JobIds, NEW kind \in {"item", "files"}, Paste(j, kind)
      PROVE  IInv'
  <2>1. alive = TRUE /\ alive' = alive
    BY <1>1, <1>8 DEF Paste, BridgeTypes
  <2>2. DisplayTypes' /\ Surfaces' /\ Listing' /\ Display'
    BY <1>1, <1>2, <1>8, <2>1, JobsDisplay
  <2> QED
    BY <1>1, <1>2, <1>5, <1>8, <2>1, <2>2, PasteBooks
<1>9. ASSUME NEW j \in JobIds, JobStep(j) \/ Tick(j) \/ Cancel
      PROVE  IInv'
  <2>1. alive = TRUE /\ alive' = alive
    BY <1>1, <1>9 DEF JobStep, Begin, CreateFile, FileArrives, ItemArrives, Fails, Write,
                      DropTask, Tick, Cancel, BridgeTypes, bridge
  <2>2. DisplayTypes' /\ Surfaces' /\ Listing' /\ Display'
    BY <1>1, <1>2, <1>9, <2>1, JobsDisplay
  <2>3. BridgeTypes' /\ Disk' /\ Books'
    <3>1. CASE Begin(j) \/ CreateFile(j) \/ FileArrives(j)
      BY <1>1, <1>2, <2>1, <3>1, FillBooks
    <3>2. CASE ItemArrives(j) \/ Fails(j) \/ Write(j) \/ DropTask(j) \/ Tick(j) \/ Cancel
      BY <1>1, <1>2, <2>1, <3>2, StopBooks
    <3> QED
      BY <1>9, <3>1, <3>2 DEF JobStep
  <2> QED
    BY <1>5, <2>1, <2>2, <2>3
\* A session ends, or starts.
<1>10. ASSUME NEW killed \in BOOLEAN, Ends(killed)
       PROVE  IInv'
  <2>1. BridgeTypes' /\ Disk' /\ alive' = FALSE /\ AtRest'
    BY <1>1, <1>10, EndTypes
  <2>2. DisplayTypes' /\ Surfaces' /\ Listing'
    BY <1>1, <1>10, EndDisplay
  <2> QED
    BY <2>1, <2>2 DEF IInv, TypeOK
<1>11. ASSUME Starts
       PROVE  IInv'
  <2>1. AtRest
    BY <1>3, <1>11 DEF Starts
  <2>2. BridgeTypes' /\ Disk' /\ alive' = TRUE /\ Books'
    BY <1>1, <1>11, <2>1, StartBooks
  <2>3. DisplayTypes' /\ Surfaces' /\ Listing' /\ Display'
    BY <1>1, <1>11, <2>1, StartDisplay
  <2> QED
    BY <1>5, <2>2, <2>3
\* Steps of a surface.
<1>12. ASSUME UNCHANGED <<surface, bridge, job>>, DisplayTypes', Surfaces',
              alive => Display', ~alive => UNCHANGED <<notes, calling>>
       PROVE  IInv'
  <2>1. BridgeTypes' /\ Disk' /\ Listing' /\ (Books => Books')
    BY <1>1, <1>12, SurfaceKeeps
  <2>2. UNCHANGED <<alive, remote, cell, retired, recent, handed>>
    BY <1>12 DEF bridge
  <2>3. ~alive => AtRest'
    BY <1>3, <1>12, <2>2 DEF AtRest
  <2> QED
    BY <1>2, <1>12, <2>1, <2>2, <2>3 DEF IInv, TypeOK
<1>13. ASSUME SurfaceStep
       PROVE  IInv'
  <2>1. CASE Update
    <3>1. UNCHANGED <<surface, bridge, job, notes, calling>>
      BY <2>1 DEF Update
    <3> QED
      BY <1>1, <1>2, <1>12, <2>1, <3>1, UpdateStep
  <2>2. CASE TakeReport
    <3>1. UNCHANGED <<surface, bridge, job>> /\ alive
      BY <2>2 DEF TakeReport
    <3> QED
      BY <1>1, <1>2, <1>12, <2>2, <3>1, TakeStep
  <2>3. CASE Notify
    <3>1. UNCHANGED <<surface, bridge, job>> /\ calling # NotCalling
      BY <2>3 DEF Notify
    <3>2. alive
      BY <1>3, <3>1 DEF AtRest
    <3> QED
      BY <1>1, <1>2, <1>12, <2>3, <3>1, <3>2, NotifyStep
  <2>4. CASE Dispatch
    <3>1. UNCHANGED <<surface, bridge, job>> /\ alive
      BY <2>4 DEF Dispatch
    <3> QED
      BY <1>1, <1>2, <1>12, <2>4, <3>1, DispatchStep
  <2>5. ASSUME NEW j \in JobIds, Linger(j) \/ PressRow(j)
        PROVE  IInv'
    <3>1. UNCHANGED <<surface, bridge, job, notes, calling>>
      BY <2>5 DEF Linger, PressRow, display
    <3> QED
      BY <1>1, <1>2, <1>12, <2>5, <3>1, BarSteps
  <2>6. ASSUME NEW id \in DOMAIN screen, PressNote(id)
        PROVE  IInv'
    <3>1. UNCHANGED <<surface, bridge, job, notes, calling>>
      BY <2>6 DEF PressNote
    <3> QED
      BY <1>1, <1>2, <1>12, <2>6, <3>1, PressStep
  <2> QED
    BY <1>13, <2>1, <2>2, <2>3, <2>4, <2>5, <2>6 DEF SurfaceStep
<1>14. ASSUME UNCHANGED vars
       PROVE  IInv'
  <2>1. /\ UNCHANGED <<surface, bridge, job, reports, cancels, notes, calling, screen, signals,
                       lingers, crossed>>
    BY <1>14 DEF vars, display
  <2>2. UNCHANGED session
    BY <2>1 DEF bridge
  <2>3. DisplayTypes' /\ Surfaces'
    BY <1>1, <2>1, <2>2 DEF DisplayTypes, Surfaces
  <2>4. ASSUME alive
        PROVE  Display'
    <3>1. cancels' \in Seq(JobIds) /\ UNCHANGED display
      BY <1>1, <2>1 DEF DisplayTypes, display
    <3>2. (Running(i)' <=> Running(i)) /\ job'[i] = job[i]
      BY <2>1 DEF Running
    <3> QED
      BY <1>1, <1>2, <1>4, <2>1, <2>2, <2>4, <3>1, <3>2, SpokenDisplay DEF Listing
  <2> QED
    BY <1>12, <2>1, <2>3, <2>4
<1> QED
  BY <1>6, <1>7, <1>8, <1>9, <1>10, <1>11, <1>13, <1>14 DEF Next

LEMMA FilesWhole ==
  ASSUME IInv
  PROVE  HandedFilesStay
<1>1. <<Neighbour, 0>> \in DOMAIN dirs
  BY DEF IInv, Disk
<1>2. ASSUME NEW h \in handed, Stands(h)
      PROVE  /\ h.dir \in DOMAIN dirs /\ dirs[h.dir].serial = h.serial
             /\ \A f \in 1..Files : dirs[h.dir].content[f] = "whole"
  <2>1. BridgeTypes /\ Books /\ h.serial \in {remote.serial} \cup recent
    BY <1>2 DEF Stands, IInv, TypeOK
  <2>2. /\ Mine(h.dir) /\ dirs[h.dir].serial = h.serial
        /\ cell[h.serial] = Set /\ h.serial \in 1..remote.serial
    BY <2>1 DEF Books, Handed
  <2>3. h.serial \in 1..MaxOffers /\ Set # Empty
    BY <2>1, <2>2, Constants DEF BridgeTypes
  <2>4. h.dir \in DOMAIN dirs
    BY <2>2 DEF Mine
  <2>5. Whole(h.dir)
    BY <2>1, <2>2, <2>3, <2>4 DEF Books, Cells
  <2> QED
    BY <2>2, <2>4, <2>5 DEF Whole
<1> QED
  BY <1>1, <1>2 DEF HandedFilesStay

LEMMA ScreenTrue ==
  ASSUME IInv
  PROVE  ScreenShowsRunning
<1> SUFFICES ASSUME Quiet, NEW j \in JobIds \ crossed
             PROVE  (\E id \in DOMAIN screen : screen[id] = Shown(j, "running"))
                      <=> Running(j) /\ j \notin notes.silenced
  BY DEF ScreenShowsRunning, Running
<1>1. /\ Display /\ Surfaces /\ surface \in {"notes", "rows"}
      /\ reports = <<>> /\ calling = NotCalling /\ signals = <<>>
  BY DEF Quiet, IInv, TypeOK, BridgeTypes
<1>2. Taken(j)
  <2>1. ~Told(reports, j) /\ calling.job # j
    BY <1>1, Nothing, Constants DEF Told, NotCalling
  <2>2. Truth(j)
    BY <1>1 DEF Display
  <2> HIDE DEF Told, Taken, Runs, Running
  <2> QED
    BY <2>1, <2>2 DEF Truth
<1>3. CASE surface = "notes"
  <2>1. Posted(j) /\ \A id : ~Closed(signals, id)
    BY <1>1, <1>3, Nothing DEF Display, Closed
  <2>2. j \in DOMAIN notes.by_job => j \notin notes.silenced
    BY <1>1 DEF Display, Mapped
  <2>3. j \notin notes.silenced => (Running(j) <=> j \in DOMAIN notes.by_job)
    <3> HIDE DEF Running
    <3> QED
      BY <1>2, <1>3 DEF Taken
  <2>4. ASSUME NEW id \in DOMAIN screen, screen[id] = Shown(j, "running")
        PROVE  j \in DOMAIN notes.by_job
    BY <2>1, <2>4 DEF Posted, ShownAs
  <2>5. ASSUME j \in DOMAIN notes.by_job
        PROVE  \E id \in DOMAIN screen : screen[id] = Shown(j, "running")
    <3>1. ShownAs(notes.by_job[j], j)
      BY <2>1, <2>5 DEF Posted
    <3> QED
      BY <3>1 DEF ShownAs
  <2> HIDE DEF Running
  <2> QED
    BY <2>2, <2>3, <2>4, <2>5
<1>4. CASE surface = "rows"
  <2>1. Running(j) <=> ShownAs(j, j)
    <3> HIDE DEF Running, ShownAs
    <3> QED
      BY <1>2, <1>4 DEF Taken
  <2>2. j \notin notes.silenced
    BY <1>1, <1>4, NoNotesTypes DEF Surfaces
  <2>3. ASSUME NEW id \in DOMAIN screen, screen[id] = Shown(j, "running")
        PROVE  ShownAs(j, j)
    <3>1. id = j
      BY <1>1, <1>4, <2>3 DEF Surfaces, Shown
    <3> QED
      BY <2>3, <3>1 DEF ShownAs
  <2>4. ShownAs(j, j) => \E id \in DOMAIN screen : screen[id] = Shown(j, "running")
    BY DEF ShownAs
  <2> HIDE DEF Running, ShownAs
  <2> QED
    BY <2>1, <2>2, <2>3, <2>4
<1> QED
  BY <1>1, <1>3, <1>4

-----------------------------------------------------------------------------
\* The books and the display hold in every state, with the types of all there is.
THEOREM BooksKept == Spec => []IInv
<1>1. Init => IInv
  BY InitInv
<1>2. IInv /\ [Next]_vars => IInv'
  BY NextInv
<1> QED
  BY <1>1, <1>2, PTL DEF Spec

\* The types hold in every state (files.rs, progress.rs, notify.rs).
THEOREM TypeCorrect == Spec => []TypeOK
<1>1. IInv => TypeOK
  BY DEF IInv
<1> QED
  BY <1>1, BooksKept, PTL

\* Files whose list an application was handed are there and whole while their
\* offer stands and through its grace, however many pastes share them, fail or
\* are cancelled, and no sweep takes another process's (files.rs:171-192).
THEOREM FilesStay == Spec => []HandedFilesStay
<1>1. IInv => HandedFilesStay
  BY FilesWhole
<1> QED
  BY <1>1, BooksKept, PTL

\* When all was handled, what is shown as running is what runs and was not closed
\* (notify.rs:130-162, clipboard_ui.rs:342).
THEOREM ScreenIsTrue == Spec => []ScreenShowsRunning
<1>1. IInv => ScreenShowsRunning
  BY ScreenTrue
<1> QED
  BY <1>1, BooksKept, PTL

=============================================================================
