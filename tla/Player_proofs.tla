----------------------------- MODULE Player_proofs -----------------------------
(***************************************************************************)
(* Why a replay returns the containers of a recording in order, each image *)
(* with its memory, and never runs dry without a thread of its own: for    *)
(* any recording, any size of the cache and any commands.                  *)
(***************************************************************************)
EXTENDS Player, WellFoundedInduction, TLAPS

-----------------------------------------------------------------------------
(* The inductive invariant. *)

\* The containers of the .rec file.
RecFile == Containers \ images

\* Container d comes after container c in the replay.
Follows(c, d) == IF c < N THEN d = c + 1 ELSE autoRewind /\ d = 1

\* What is returned after container c.
Following(c) == IF c < N THEN c + 1 ELSE IF autoRewind THEN 1 ELSE N

\* Nothing has been taken from the cache since the beginning.
Fresh == seek \/ ppc = "rewinding"

\* The last container taken from the cache, and the last one put into it.
Taken == IF Fresh THEN Undefined ELSE IF ppc = "copy" THEN successor ELSE actual
Last  == IF queue = <<>> THEN Taken ELSE queue[Len(queue)]

\* The flags and the configuration fit together.
Control ==
  /\ ~remote => control = <<>> /\ ~rewound
  /\ ~threading => ~remote
  /\ seek => played = Undefined
  /\ ppc \in {"open", "actual"} => seek
  /\ ppc \in {"successor", "copy"} => ~seek
  /\ ppc = "ended" => ~remote /\ noMore

\* Every segment is free or holds the memory of an image.
Segments == free + Len(bufOut) = CacheSize

\* A container that was read ahead is where its file has been read to.
Buffers ==
  /\ recBuf # Undefined => recBuf = recPos
  /\ memBuf # Undefined => memBuf = memPos

\* Both files have been merged up to container l, the last one queued, or are at
\* their beginning again after the last one of the recording.
MergedUpTo(l) ==
  /\ Rec = NextOf(RecFile, l) /\ Mem = NextOf(images, l)
  /\ l = Last \/ (l = 0 /\ Last = N /\ autoRewind)

\* updateCache() has merged the two files into one sequence, without a gap.
ReadInOrder == \E l \in 0..N : MergedUpTo(l)

\* The queue continues what was taken, without a gap.
QueueInOrder ==
  /\ queue # <<>> => Follows(Taken, queue[1])
  /\ \A i \in 1..(Len(queue) - 1) : Follows(queue[i], queue[i + 1])

\* The two containers the player holds are the ones to be returned next.
InHand ==
  /\ ~Fresh => actual = Following(played)
  /\ ppc = "copy" => successor = Following(actual)
  /\ ppc = "copy" /\ ~noMore => autoRewind \/ actual < N
  /\ ~Fresh /\ ppc # "copy" => successor = actual \/ actual = 1
  /\ ~Fresh /\ ~noMore => autoRewind \/ played < N

\* There are no more containers: the last one is repeated.
AtEnd ==
  noMore /\ ppc # "rewinding" =>
    /\ ~seek /\ ~autoRewind /\ actual = N /\ successor = N /\ queue = <<>>
    /\ ppc # "copy" => played = N

\* The containers that are to be returned, by their place: the queue from 1 on,
\* before it what the player holds, from Low on.
Low ==
  IF Fresh THEN 1
  ELSE IF noMore THEN (IF played < N THEN 0 ELSE 1)
  ELSE IF ppc = "copy" THEN 0 - 1 ELSE 0

Pending(j) ==
  IF j >= 1 THEN queue[j]
  ELSE IF j = 0 /\ ppc = "copy" /\ ~noMore THEN successor ELSE actual

\* The segments whose images are pending; one may be of an image read ahead.
Filed == Len(bufOut) - (IF memBuf = Undefined THEN 0 ELSE 1)

\* The segments are in the order of the pending images, one for each.
Placed(place) ==
  /\ \A i \in 1..Filed : place[i] >= Low /\ bufOut[i] = Pending(place[i])
  /\ \A i, j \in 1..Filed : i < j => place[i] < place[j]
  /\ \A j \in Low..Len(queue) : Pending(j) \in images => \E i \in 1..Filed : place[i] = j

\* An image that was read ahead has the last segment.
SegmentsInOrder ==
  /\ memBuf # Undefined => bufOut # <<>> /\ bufOut[Len(bufOut)] = memBuf
  /\ \E place \in [1..Filed -> (0 - 1)..Len(queue)] : Placed(place)

\* The shared memory holds the memory of the image returned last.
MemoryMatches == played \in images => memory = played

\* What holds as long as the cache keeps pace with the player.
InOrder ==
  /\ Buffers /\ ReadInOrder /\ QueueInOrder /\ InHand /\ AtEnd
  /\ SegmentsInOrder /\ MemoryMatches

\* Both files have been read.
AtFileEnds == Rec = Undefined /\ Mem = Undefined

\* Without a thread of its own, the cache holds enough when it is read.
Alone ==
  ~threading =>
    /\ ~starved
    /\ upc = "fill" => ppc \in {"open", "actual", "successor"}
    /\ upc = "idle" => /\ ppc = "actual" => Len(queue) >= 2
                       /\ ppc = "successor" => queue # <<>> \/ AllRead

\* Nor does it run empty while the files are at their ends and not rewound yet.
AloneAtEnds ==
  ~threading /\ autoRewind /\ AtFileEnds =>
    IF upc = "idle" /\ ppc \in {"actual", "successor"}
    THEN free = 0 \/ Len(queue) >= (IF ppc = "actual" THEN 3 ELSE 2)
    ELSE queue # <<>>

\* The inductive invariant.
ReplayInv ==
  /\ TypeOK /\ Control /\ Segments
  /\ Intact => InOrder
  /\ Alone /\ AloneAtEnds

-----------------------------------------------------------------------------
(* Numbers. *)

\* The smaller and the greater of two numbers.
Below == {p \in Nat \X Nat : p[1] < p[2]}

\* There is no endless way down in the natural numbers.
LEMMA BelowWellFounded == IsWellFoundedOn(Below, Nat)
<1>1. IsWellFoundedOn(OpToRel(<, Nat), Nat)
  BY NatLessThanWellFounded
<1>2. OpToRel(<, Nat) = Below
  BY DEF OpToRel, Below
<1>. QED
  BY <1>1, <1>2

\* A set of numbers that is not empty has a least one.
LEMMA LeastNumber ==
  ASSUME NEW T \in SUBSET Nat, T # {}
  PROVE  \E x \in T : \A y \in T : x <= y
<1>1. \E x \in T : \A y \in T : ~(<<y, x>> \in Below)
  BY BelowWellFounded, WFMin
<1>2. PICK x \in T : \A y \in T : ~(<<y, x>> \in Below)
  BY <1>1
<1>3. \A y \in T : x \in Nat /\ y \in Nat /\ ~(y < x)
  BY <1>2 DEF Below
<1>4. \A y \in T : x <= y
  BY <1>3
<1>. QED
  BY <1>4

-----------------------------------------------------------------------------
(* The files. *)

\* What NextOf chooses: the first container of the file after the position.
LEMMA NextChosen ==
  ASSUME NEW file \in SUBSET Containers, NEW p \in 0..N, NEW c \in file, c > p
  PROVE  /\ NextOf(file, p) \in file /\ NextOf(file, p) > p
         /\ \A d \in file : d > p => NextOf(file, p) <= d
<1>1. N \in Nat
  BY PlayerAssumption
<1> DEFINE later == {d \in file : d > p}
<1>2. \A d \in file : d \in Nat
  BY <1>1 DEF Containers
<1>3. later \in SUBSET Nat /\ later # {}
  BY <1>2
<1>4. PICK x \in later : \A y \in later : x <= y
  BY <1>3, LeastNumber
<1>5. \E x1 \in file : x1 > p /\ \A d \in file : d > p => x1 <= d
  BY <1>4
<1>6. NextOf(file, p) = CHOOSE x1 \in file : x1 > p /\ \A d \in file : d > p => x1 <= d
  BY DEF NextOf
<1>. QED
  BY <1>5, <1>6

\* There is nothing after the last container of a file.
LEMMA NextNone ==
  ASSUME NEW file, NEW p, \A c \in file : ~(c > p)
  PROVE  NextOf(file, p) = Undefined
BY DEF NextOf

\* NextOf is determined by what it promises.
LEMMA NextIs ==
  ASSUME NEW file \in SUBSET Containers, NEW p \in 0..N, NEW c \in file, c > p,
         \A d \in file : d > p => c <= d
  PROVE  NextOf(file, p) = c
<1>1. NextOf(file, p) \in file /\ NextOf(file, p) > p /\ NextOf(file, p) <= c
  BY NextChosen
<1>2. c <= NextOf(file, p)
  BY <1>1
<1>3. \A d \in Containers : d \in Nat
  BY PlayerAssumption DEF Containers
<1>4. c \in Nat /\ NextOf(file, p) \in Nat
  BY <1>1, <1>3
<1>. QED
  BY <1>1, <1>2, <1>4

\* NextOf is a container of the file, or none is left.
LEMMA NextType ==
  ASSUME NEW file \in SUBSET Containers, NEW p \in 0..N
  PROVE  /\ NextOf(file, p) \in file \cup {Undefined}
         /\ NextOf(file, p) # Undefined => NextOf(file, p) > p
<1>1. CASE \E c \in file : c > p
  BY <1>1, NextChosen
<1>2. CASE ~ \E c \in file : c > p
  BY <1>2, NextNone
<1>. QED
  BY <1>1, <1>2

\* Moving on by one container that the file does not hold changes nothing.
LEMMA NextSkips ==
  ASSUME NEW file \in SUBSET Containers, NEW p \in 0..(N - 1), p + 1 \notin file
  PROVE  /\ NextOf(file, p + 1) = NextOf(file, p)
         /\ NextOf(file, p) # Undefined => NextOf(file, p) > p + 1
<1>1. N \in Nat /\ p \in 0..N /\ p + 1 \in 0..N /\ p \in Nat /\ file \subseteq Nat
  BY PlayerAssumption DEF Containers
<1>2. \A c \in file : c > p <=> c > p + 1
  BY <1>1
<1>3. CASE \E c \in file : c > p
  <2>1. PICK c \in file : c > p
    BY <1>3
  <2>2. /\ NextOf(file, p) \in file /\ NextOf(file, p) > p
        /\ \A d \in file : d > p => NextOf(file, p) <= d
    BY <1>1, <2>1, NextChosen
  <2> QED
    BY <1>1, <1>2, <2>2, NextIs
<1>4. CASE ~ \E c \in file : c > p
  BY <1>1, <1>2, <1>4, NextNone
<1>. QED
  BY <1>3, <1>4

\* Merging goes on with container l + 1, from whichever file it is in.
LEMMA MergeStep ==
  ASSUME images \subseteq Containers, NEW l \in 0..N
  PROVE  /\ l = N => NextOf(RecFile, l) = Undefined /\ NextOf(images, l) = Undefined
         /\ l < N /\ l + 1 \in images =>
              /\ NextOf(images, l) = l + 1
              /\ NextOf(RecFile, l + 1) = NextOf(RecFile, l)
              /\ NextOf(RecFile, l) # Undefined => NextOf(RecFile, l) > l + 1
         /\ l < N /\ l + 1 \notin images =>
              /\ NextOf(RecFile, l) = l + 1
              /\ NextOf(images, l + 1) = NextOf(images, l)
              /\ NextOf(images, l) # Undefined => NextOf(images, l) > l + 1
<1>1. N \in Nat /\ l \in Nat /\ RecFile \in SUBSET Containers /\ images \in SUBSET Containers
  BY PlayerAssumption DEF RecFile
<1>2. \A c \in Containers : c \in Nat /\ c <= N /\ (c > l => l + 1 <= c)
  BY <1>1 DEF Containers
<1>3. l = N => NextOf(RecFile, l) = Undefined /\ NextOf(images, l) = Undefined
  <2>1. l = N => \A c \in Containers : ~(c > l)
    BY <1>1, <1>2
  <2> QED
    BY <1>1, <2>1, NextNone
<1>4. l < N => l + 1 \in Containers /\ l \in 0..(N - 1) /\ l + 1 > l
  BY <1>1 DEF Containers
<1>5. ASSUME NEW file \in SUBSET Containers, l < N, l + 1 \in file
      PROVE  NextOf(file, l) = l + 1
  <2>1. \A d \in file : d > l => l + 1 <= d
    BY <1>2
  <2> QED
    BY <1>4, <1>5, <2>1, NextIs
<1>6. l < N /\ l + 1 \notin images => l + 1 \in RecFile
  BY <1>4 DEF RecFile
<1>7. l + 1 \in images => l + 1 \notin RecFile
  BY DEF RecFile
<1>. QED
  BY <1>1, <1>3, <1>4, <1>5, <1>6, <1>7, NextSkips

-----------------------------------------------------------------------------
(* Sequences. *)

\* What is appended is the last entry; the others stay where they are.
LEMMA Appended ==
  ASSUME NEW S, NEW s \in Seq(S), NEW e \in S
  PROVE  /\ Append(s, e) \in Seq(S) /\ Append(s, e) # <<>>
         /\ Len(s) \in Nat /\ Len(Append(s, e)) = Len(s) + 1
         /\ Append(s, e)[Len(s) + 1] = e
         /\ \A i \in 1..Len(s) : Append(s, e)[i] = s[i]
OBVIOUS

\* Taking the first entry moves the others up by one place.
LEMMA FirstTaken ==
  ASSUME NEW S, NEW s \in Seq(S), s # <<>>
  PROVE  /\ Head(s) = s[1] /\ Head(s) \in S /\ Tail(s) \in Seq(S)
         /\ Len(s) \in Nat \ {0} /\ Len(Tail(s)) = Len(s) - 1
         /\ \A i \in 1..Len(Tail(s)) : Tail(s)[i] = s[i + 1]
OBVIOUS

-----------------------------------------------------------------------------
(* Type correctness. *)

\* The constants, and the containers' numbers.
LEMMA Sizes ==
  /\ CacheSize \in Nat /\ CacheSize >= 3
  /\ N \in Nat /\ N >= 2
  /\ Undefined = 0 /\ Undefined \notin Containers
  /\ \A c \in Containers : c \in Nat /\ c >= 1 /\ c <= N
BY PlayerAssumption DEF CacheSize, Containers, Undefined

\* What can be read next from either file.
LEMMA FileTypes ==
  ASSUME TypeOK
  PROVE  /\ RecFile \in SUBSET Containers /\ images \in SUBSET Containers
         /\ Rec \in 0..N /\ Rec \notin images /\ (Rec # Undefined => Rec \in RecFile)
         /\ Mem \in 0..N /\ Mem \in images \cup {Undefined}
<1>1. /\ RecFile \in SUBSET Containers /\ images \in SUBSET Containers
      /\ recPos \in 0..N /\ memPos \in 0..N /\ recBuf \in 0..N /\ recBuf \notin images
      /\ recBuf # Undefined => recBuf \in RecFile
      /\ memBuf \in images \cup {Undefined}
  BY Sizes DEF TypeOK, Containers, Undefined, RecFile
<1>2. /\ NextOf(RecFile, recPos) \in RecFile \cup {Undefined}
      /\ NextOf(images, memPos) \in images \cup {Undefined}
  BY <1>1, NextType
<1>3. \A r \in RecFile : r \in 0..N /\ r \notin images
  BY Sizes DEF RecFile
<1>4. Undefined \in 0..N /\ Undefined \notin images /\ \A m \in images : m \in 0..N
  BY <1>1, Sizes
<1>5. Rec = recBuf \/ Rec = NextOf(RecFile, recPos)
  BY DEF Rec, RecFile
<1>6. Mem = memBuf \/ Mem = NextOf(images, memPos)
  BY DEF Mem
<1>. QED
  BY <1>1, <1>2, <1>3, <1>4, <1>5, <1>6

\* The cache keeps the types.
LEMMA CacheTypes ==
  ASSUME TypeOK, CacheStep
  PROVE  TypeOK'
<1> USE DEF CacheOnly, config, sharedVars, playerVars, moduleVars, history
<1>1. CASE StartUpdate
  BY <1>1 DEF StartUpdate, TypeOK
<1>2. CASE FillCache
  <2>1. /\ Rec \in 0..N /\ Rec \notin images /\ (Rec # Undefined => Rec \in Containers)
        /\ Mem \in images \cup {Undefined} /\ images \subseteq Containers
        /\ Undefined \in 0..N /\ Undefined \notin images
    BY FileTypes, Sizes DEF RecFile
  <2>2. /\ UNCHANGED <<images, autoRewind, remote, threading, upc, ppc, actual, successor,
                       seek, noMore, memory, playing, doStep, control, played, starved, rewound>>
        /\ recPos' = recPos \/ recPos' = Rec
        /\ memPos' = memPos \/ (memPos' = Mem /\ Mem # Undefined)
        /\ recBuf' = Undefined \/ recBuf' = Rec
        /\ memBuf' = Undefined \/ memBuf' = Mem
    BY <1>2 DEF FillCache
  <2>3. queue' \in Seq(Containers)
    <3>1. \E c \in Containers : queue' = Append(queue, c)
      <4> DEFINE takeRec == Mem = Undefined \/ (Rec # Undefined /\ RecFirst)
      <4>2. queue' = Append(queue, IF takeRec THEN Rec ELSE Mem)
        BY <1>2 DEF FillCache
      <4>3. takeRec => Rec # Undefined
        BY <1>2 DEF FillCache
      <4> QED
        BY <2>1, <4>2, <4>3
    <3> QED
      BY <3>1, Appended DEF TypeOK
  <2>4. bufOut' \in Seq(images) /\ free' \in 0..CacheSize
    <3>1. bufOut \in Seq(images) /\ free \in 0..CacheSize /\ free > 0
      BY <1>2 DEF TypeOK, FillCache
    <3>2. FillSegment
      BY <1>2 DEF FillCache
    <3>3. CASE memBuf = Undefined /\ Mem # Undefined
      <4>1. bufOut' = Append(bufOut, Mem) /\ free' = free - 1 /\ Mem \in images
        BY <2>1, <3>2, <3>3 DEF FillSegment
      <4> QED
        BY <3>1, <4>1, Appended, Sizes
    <3>4. CASE ~(memBuf = Undefined /\ Mem # Undefined)
      BY <3>1, <3>2, <3>4 DEF FillSegment
    <3> QED
      BY <3>3, <3>4
  <2>5. /\ recPos' \in 0..N /\ recPos' \notin images' /\ recBuf' \in 0..N /\ recBuf' \notin images'
        /\ memPos' \in images' \cup {0} /\ memBuf' \in images' \cup {Undefined}
    BY <2>1, <2>2 DEF TypeOK
  <2> QED
    BY <2>2, <2>3, <2>4, <2>5 DEF TypeOK
<1>3. CASE EndUpdate
  <2>1. /\ recPos' = recPos \/ recPos' = 0
        /\ memPos' = memPos \/ memPos' = 0
    BY <1>3 DEF EndUpdate, BackToStart
  <2>2. recPos' \in 0..N /\ recPos' \notin images /\ memPos' \in images \cup {0}
    BY <2>1, Sizes DEF TypeOK
  <2> QED
    BY <1>3, <2>2 DEF EndUpdate, TypeOK
<1>. QED
  BY <1>1, <1>2, <1>3 DEF CacheStep

\* So does the player.
LEMMA PlayerTypes ==
  ASSUME TypeOK, Segments, PlayerStep
  PROVE  TypeOK'
<1> USE DEF CacheOnly, ModuleOnly, config, cacheVars, sharedVars, playerVars, moduleVars, history
<1>1. CASE Open
  BY <1>1 DEF Open, TypeOK
<1>2. CASE Cycle
  <2>1. ppc' \in {"command", "actual", "successor"} /\ upc' \in {"fill", upc}
    BY <1>2 DEF Cycle
  <2> QED
    BY <1>2, <2>1 DEF Cycle, TypeOK
<1>q. /\ queue \in Seq(Containers) /\ Containers \subseteq 0..N
      /\ actual \in 0..N /\ successor \in 0..N
  BY Sizes DEF TypeOK
<1>3. CASE ReadActual
  <2>1. actual' \in 0..N /\ queue' \in Seq(Containers)
    <3>1. CASE queue # <<>>
      BY <1>3, <1>q, <3>1, FirstTaken DEF ReadActual
    <3>2. CASE queue = <<>>
      BY <1>3, <1>q, <3>2 DEF ReadActual
    <3> QED
      BY <3>1, <3>2
  <2>2. starved' \in BOOLEAN /\ seek' \in BOOLEAN
    BY <1>3 DEF ReadActual, TypeOK
  <2>3. /\ ppc' = "successor"
        /\ UNCHANGED <<config, cacheVars, free, bufOut, successor, noMore, memory,
                       moduleVars, played, rewound>>
    BY <1>3 DEF ReadActual
  <2> QED
    BY <2>1, <2>2, <2>3 DEF TypeOK
<1>4. CASE ReadSuccessor
  <2>1. successor' \in 0..N /\ queue' \in Seq(Containers)
    <3>1. CASE queue # <<>>
      BY <1>4, <1>q, <3>1, FirstTaken DEF ReadSuccessor
    <3>2. CASE queue = <<>>
      BY <1>4, <1>q, <3>2 DEF ReadSuccessor
    <3> QED
      BY <3>1, <3>2
  <2>2. noMore' \in BOOLEAN /\ starved' \in BOOLEAN
    BY <1>4 DEF ReadSuccessor, TypeOK
  <2> QED
    BY <1>4, <2>1, <2>2 DEF ReadSuccessor, TypeOK
<1>5. CASE Return
  <2>1. memory' \in images \cup {Undefined} /\ bufOut' \in Seq(images) /\ free' \in 0..CacheSize
    <3>1. CASE Copies
      <4>1. /\ memory' = Head(bufOut) /\ bufOut' = Tail(bufOut) /\ free' = free + 1
            /\ bufOut # <<>> /\ bufOut \in Seq(images) /\ free \in 0..CacheSize
            /\ free + Len(bufOut) = CacheSize
        BY <1>5, <3>1 DEF Return, Copies, TypeOK, Segments
      <4> QED
        BY <4>1, FirstTaken, Sizes
    <3>2. CASE ~Copies
      BY <1>5, <3>2 DEF Return, TypeOK
    <3> QED
      BY <3>1, <3>2
  <2> QED
    BY <1>5, <2>1 DEF Return, TypeOK
<1>6. CASE Send
  <2>1. playing' \in BOOLEAN /\ doStep' \in BOOLEAN
    BY <1>6 DEF Send
  <2> QED
    BY <1>6, <2>1 DEF Send, TypeOK
<1>7. CASE NoCommand
  <2>1. ppc' \in {"ended", "loop"}
    BY <1>7 DEF NoCommand
  <2> QED
    BY <1>7, <2>1 DEF NoCommand, TypeOK
<1>8. CASE PlayPauseStep
  <2>1. control' \in Seq(Commands) /\ playing' \in BOOLEAN /\ doStep' \in BOOLEAN
    BY <1>8, FirstTaken DEF PlayPauseStep, Command, TypeOK
  <2> QED
    BY <1>8, <2>1 DEF PlayPauseStep, TypeOK
<1>9. CASE Rewind
  <2>1. control' \in Seq(Commands) /\ queue' \in Seq(Containers) /\ bufOut' \in Seq(images)
    BY <1>9, FirstTaken DEF Rewind, Reclaim, Command, TypeOK
  <2>2. rewound' \in BOOLEAN /\ upc' \in {"idle", "fill"}
    BY <1>9 DEF Rewind
  <2>3. free' = CacheSize /\ recPos' = 0 /\ memPos' = 0
    BY <1>9 DEF Rewind, Reclaim, Segments, BackToStart
  <2>4. free' \in 0..CacheSize /\ recPos' \in 0..N /\ recPos' \notin images
    BY <2>3, Sizes DEF TypeOK
  <2> QED
    BY <1>9, <2>1, <2>2, <2>3, <2>4 DEF Rewind, TypeOK
<1>10. CASE Rewound
  <2>1. /\ played' = Undefined /\ seek' \in BOOLEAN /\ noMore' \in BOOLEAN
        /\ playing' \in BOOLEAN /\ ppc' = "loop"
    BY <1>10 DEF Rewound
  <2>2. UNCHANGED <<config, cacheVars, sharedVars, actual, successor, memory, doStep, control,
                    starved, rewound>>
    BY <1>10 DEF Rewound
  <2>3. played' \in 0..N
    BY <2>1, Sizes
  <2> QED
    BY <2>1, <2>2, <2>3 DEF TypeOK
<1>. QED
  BY <1>1, <1>2, <1>3, <1>4, <1>5, <1>6, <1>7, <1>8, <1>9, <1>10 DEF PlayerStep

\* What neither of the two threads' reading and returning changes.
Quiet ==
  \/ StartUpdate \/ Open \/ Cycle \/ Send \/ NoCommand \/ PlayPauseStep
  \/ ReceiveCommand \/ Stop \/ UNCHANGED vars

\* The steps that do not touch the containers.
LEMMA QuietSteps ==
  ASSUME Quiet
  PROVE  /\ UNCHANGED <<config, recPos, memPos, recBuf, memBuf, sharedVars, playerVars, history>>
         /\ ppc' = ppc \/ {ppc, ppc'} \cap {"copy", "rewinding"} = {}
<1> USE DEF CacheOnly, ModuleOnly, config, cacheVars, sharedVars, playerVars, moduleVars, history
<1>1. CASE StartUpdate
  BY <1>1 DEF StartUpdate
<1>2. CASE Open
  BY <1>2 DEF Open
<1>3. CASE Cycle
  BY <1>3 DEF Cycle
<1>4. CASE Send
  BY <1>4 DEF Send
<1>5. CASE NoCommand
  BY <1>5 DEF NoCommand
<1>6. CASE PlayPauseStep
  BY <1>6 DEF PlayPauseStep, Command
<1>7. CASE ReceiveCommand
  BY <1>7 DEF ReceiveCommand
<1>8. CASE Stop
  BY <1>8 DEF Stop
<1>9. CASE UNCHANGED vars
  BY <1>9 DEF vars
<1>. QED
  BY <1>1, <1>2, <1>3, <1>4, <1>5, <1>6, <1>7, <1>8, <1>9 DEF Quiet

\* Every step is a quiet one or one of the seven others.
LEMMA NextSteps ==
  ASSUME [Next]_vars
  PROVE  Quiet \/ FillCache \/ EndUpdate \/ ReadActual \/ ReadSuccessor \/ Return \/ Rewind \/ Rewound
BY DEF Next, CacheStep, PlayerStep, Quiet

\* Every step keeps the types.
LEMMA TypeStep ==
  ASSUME TypeOK, Segments, [Next]_vars
  PROVE  TypeOK'
<1>1. CASE ReceiveCommand
  <2>1. control' \in Seq(Commands)
    BY <1>1, Appended DEF ReceiveCommand, TypeOK
  <2> QED
    BY <1>1, <2>1 DEF ReceiveCommand, TypeOK, config, cacheVars, sharedVars, playerVars, history
<1>2. CASE Stop
  BY <1>2 DEF Stop, TypeOK, config, cacheVars, sharedVars, playerVars, moduleVars, history
<1>3. CASE UNCHANGED vars
  BY <1>3 DEF TypeOK, vars, config, cacheVars, sharedVars, playerVars, moduleVars, history
<1>. QED
  BY <1>1, <1>2, <1>3, CacheTypes, PlayerTypes DEF Next

\* No step takes a segment twice or loses one.
LEMMA SegmentsStep ==
  ASSUME TypeOK, Segments, [Next]_vars
  PROVE  Segments'
<1>0. /\ bufOut \in Seq(images) /\ free \in Nat /\ Len(bufOut) \in Nat
      /\ free + Len(bufOut) = CacheSize /\ CacheSize' = CacheSize
  BY Sizes DEF TypeOK, Segments, CacheSize
<1>1. CASE UNCHANGED <<free, bufOut>>
  BY <1>0, <1>1 DEF Segments
<1>2. CASE FillCache
  <2>1. CASE memBuf = Undefined /\ Mem # Undefined
    <3>1. Mem \in images /\ bufOut' = Append(bufOut, Mem) /\ free' = free - 1
      BY <1>2, <2>1, FileTypes DEF FillCache, FillSegment
    <3> QED
      BY <1>0, <3>1, Appended DEF Segments
  <2>2. CASE ~(memBuf = Undefined /\ Mem # Undefined)
    BY <1>1, <1>2, <2>2 DEF FillCache, FillSegment
  <2> QED
    BY <2>1, <2>2
<1>3. CASE Return
  <2>1. CASE Copies
    <3>1. bufOut # <<>> /\ bufOut' = Tail(bufOut) /\ free' = free + 1
      BY <1>3, <2>1 DEF Return, Copies
    <3> QED
      BY <1>0, <3>1, FirstTaken DEF Segments
  <2>2. CASE ~Copies
    BY <1>1, <1>3, <2>2 DEF Return
  <2> QED
    BY <2>1, <2>2
<1>4. CASE Rewind
  <2>1. free' = CacheSize /\ bufOut' = <<>> /\ Len(<<>>) = 0
    BY <1>0, <1>4 DEF Rewind, Reclaim
  <2> QED
    BY <1>0, <2>1 DEF Segments
<1>5. Quiet \/ EndUpdate \/ ReadActual \/ ReadSuccessor \/ Rewound => UNCHANGED <<free, bufOut>>
  BY QuietSteps DEF EndUpdate, ReadActual, ReadSuccessor, Rewound, ModuleOnly, sharedVars
<1>. QED
  BY <1>1, <1>2, <1>3, <1>4, <1>5, NextSteps

\* The flags stay consistent.
LEMMA ControlStep ==
  ASSUME TypeOK, Control, [Next]_vars
  PROVE  Control'
<1> USE DEF CacheOnly, ModuleOnly, config, cacheVars, sharedVars, playerVars, moduleVars, history
<1>1. UNCHANGED <<remote, threading>>
  BY NextSteps, QuietSteps DEF FillCache, EndUpdate, ReadActual, ReadSuccessor, Return,
     Rewind, Rewound
<1>2. ~remote => control' = <<>> /\ ~rewound'
  <2>1. ~remote => control = <<>> /\ ~rewound
    BY DEF Control
  <2>2. ~remote => ~Rewind /\ ~PlayPauseStep /\ ~ReceiveCommand
    BY <2>1 DEF Rewind, PlayPauseStep, ReceiveCommand, Command
  <2>3. UNCHANGED <<control, rewound>> \/ Rewind \/ PlayPauseStep \/ ReceiveCommand
    BY DEF Next, CacheStep, PlayerStep, StartUpdate, FillCache, EndUpdate, Open, Cycle,
       ReadActual, ReadSuccessor, Return, Send, NoCommand, Rewound, Stop, vars
  <2> QED
    BY <2>1, <2>2, <2>3
<1>3. (seek => played = Undefined)'
  <2>1. seek => played = Undefined
    BY DEF Control
  <2>2. UNCHANGED <<seek, played>> \/ seek' = FALSE \/ played' = Undefined \/ Return
    BY NextSteps, QuietSteps DEF FillCache, EndUpdate, ReadActual, ReadSuccessor, Rewind, Rewound
  <2>3. Return => ~seek /\ seek' = seek
    BY DEF Return, Control
  <2> QED
    BY <2>1, <2>2, <2>3
<1>4. /\ (ppc \in {"open", "actual"} => seek)'
      /\ (ppc \in {"successor", "copy"} => ~seek)'
  <2>1. /\ ppc \in {"open", "actual"} => seek
        /\ ppc \in {"successor", "copy"} => ~seek
    BY DEF Control
  <2>2. CASE UNCHANGED <<ppc, seek>>
    BY <2>1, <2>2
  <2>3. CASE ppc' \notin {"open", "actual", "successor", "copy"}
    BY <2>3
  <2>4. CASE Cycle
    BY <2>4 DEF Cycle, TypeOK
  <2>5. CASE ReadActual
    BY <2>5 DEF ReadActual
  <2>6. CASE ReadSuccessor
    BY <2>1, <2>6 DEF ReadSuccessor
  <2>7. \/ UNCHANGED <<ppc, seek>> \/ ppc' \notin {"open", "actual", "successor", "copy"}
        \/ Cycle \/ ReadActual \/ ReadSuccessor
    BY DEF Next, CacheStep, PlayerStep, StartUpdate, FillCache, EndUpdate, Open,
       Return, Send, NoCommand, PlayPauseStep, Rewind, Rewound, ReceiveCommand, Stop, vars
  <2> QED
    BY <2>2, <2>3, <2>4, <2>5, <2>6, <2>7
<1>5. ~threading => ~remote
  BY DEF Control
<1>6. (ppc = "ended" => ~remote /\ noMore)'
  <2>1. ppc = "ended" => ~remote /\ noMore
    BY DEF Control
  <2>2. CASE NoCommand
    BY <2>2 DEF NoCommand, Finished
  <2>3. CASE UNCHANGED <<ppc, remote, noMore>>
    BY <2>1, <2>3
  <2>4. NoCommand \/ UNCHANGED <<ppc, remote, noMore>> \/ ppc' # "ended"
    BY DEF Next, CacheStep, PlayerStep, StartUpdate, FillCache, EndUpdate, Open, Cycle,
       ReadActual, ReadSuccessor, Return, Send, PlayPauseStep, Rewind, Rewound,
       ReceiveCommand, Stop, vars
  <2> QED
    BY <2>2, <2>3, <2>4
<1>. QED
  BY <1>1, <1>2, <1>3, <1>4, <1>5, <1>6 DEF Control

-----------------------------------------------------------------------------
(* The order of the containers. *)

\* The containers taken and queued last have their types.
LEMMA OrderTypes ==
  ASSUME TypeOK
  PROVE  /\ Taken \in 0..N /\ Last \in 0..N
         /\ queue \in Seq(Containers) /\ Len(queue) \in Nat
         /\ queue # <<>> => Len(queue) \in Nat \ {0}
         /\ \A i \in 1..Len(queue) : queue[i] \in Containers
         /\ Containers \subseteq 0..N
<1>1. queue \in Seq(Containers) /\ Containers \subseteq 0..N /\ Undefined \in 0..N
  BY Sizes DEF TypeOK
<1>2. queue # <<>> => Len(queue) \in 1..Len(queue) /\ Len(queue) \in Nat \ {0}
  BY <1>1
<1>3. \A i \in 1..Len(queue) : queue[i] \in Containers
  BY <1>1
<1>4. Taken \in 0..N
  BY <1>1 DEF Taken, TypeOK
<1>. QED
  BY <1>1, <1>2, <1>3, <1>4 DEF Last

\* The steps that do not touch the containers keep them in order.
LEMMA QuietKeepsOrder ==
  ASSUME InOrder, Quiet
  PROVE  InOrder'
<1>1. /\ UNCHANGED <<config, recPos, memPos, recBuf, memBuf, sharedVars, playerVars, history>>
      /\ ppc' = ppc \/ {ppc, ppc'} \cap {"copy", "rewinding"} = {}
  BY QuietSteps
<1>2. UNCHANGED <<images, autoRewind, recPos, memPos, recBuf, memBuf, queue, bufOut, actual,
                  successor, seek, noMore, memory, played>>
  BY <1>1 DEF config, sharedVars, playerVars, history
<1>3. (ppc' = "copy" <=> ppc = "copy") /\ (ppc' = "rewinding" <=> ppc = "rewinding")
  BY <1>1
<1>4. (Fresh' <=> Fresh) /\ Taken' = Taken /\ Last' = Last
  BY <1>2, <1>3 DEF Fresh, Taken, Last
<1>5. Buffers'
  BY <1>2 DEF Buffers, InOrder
<1>6. ReadInOrder'
  <2>1. PICK l \in 0..N : MergedUpTo(l)
    BY DEF InOrder, ReadInOrder
  <2>2. MergedUpTo(l)'
    BY <1>2, <1>4, <2>1 DEF MergedUpTo, Rec, Mem, RecFile, NextOf
  <2> QED
    BY <2>2 DEF ReadInOrder
<1>7. QueueInOrder'
  BY <1>2, <1>4 DEF InOrder, QueueInOrder, Follows
<1>8. InHand'
  BY <1>2, <1>3, <1>4 DEF InOrder, InHand, Following
<1>9. AtEnd'
  BY <1>2, <1>3 DEF InOrder, AtEnd
<1>10. SegmentsInOrder'
  <2>1. Low' = Low /\ Filed' = Filed
    BY <1>2, <1>3, <1>4 DEF Low, Filed
  <2>2. \A j : Pending(j)' = Pending(j)
    BY <1>2, <1>3 DEF Pending
  <2>3. PICK place \in [1..Filed -> (0 - 1)..Len(queue)] : Placed(place)
    BY DEF InOrder, SegmentsInOrder
  <2>4. Placed(place)'
    BY <1>2, <2>1, <2>2, <2>3 DEF Placed
  <2> QED
    BY <1>2, <2>1, <2>3, <2>4 DEF InOrder, SegmentsInOrder
<1>11. MemoryMatches'
  BY <1>2 DEF InOrder, MemoryMatches
<1>. QED
  BY <1>5, <1>6, <1>7, <1>8, <1>9, <1>10, <1>11 DEF InOrder

-----------------------------------------------------------------------------
(* Filling the cache. *)

\* The container queued is the regular one.
TakesRec == Mem = Undefined \/ (Rec # Undefined /\ RecFirst)

\* What a call of fillCache does to the files.
LEMMA FillEffect ==
  ASSUME TypeOK, Buffers, FillCache
  PROVE  /\ Buffers'
         /\ TakesRec => /\ Rec # Undefined /\ queue' = Append(queue, Rec)
                        /\ Rec' = NextOf(RecFile, Rec) /\ Mem' = Mem
         /\ ~TakesRec => /\ Mem # Undefined /\ queue' = Append(queue, Mem)
                         /\ Mem' = NextOf(images, Mem) /\ Rec' = Rec
<1>1. /\ images' = images
      /\ Rec # Undefined \/ Mem # Undefined
      /\ recPos' = IF recBuf = Undefined /\ Rec # Undefined THEN Rec ELSE recPos
      /\ memPos' = IF memBuf = Undefined /\ Mem # Undefined THEN Mem ELSE memPos
      /\ queue' = Append(queue, IF TakesRec THEN Rec ELSE Mem)
      /\ recBuf' = IF TakesRec THEN Undefined ELSE Rec
      /\ memBuf' = IF TakesRec THEN Mem ELSE Undefined
  BY DEF FillCache, TakesRec, CacheOnly, config
<1>2. /\ recBuf # Undefined => Rec = recBuf /\ recPos = recBuf
      /\ recBuf = Undefined => Rec = NextOf(RecFile, recPos)
      /\ memBuf # Undefined => Mem = memBuf /\ memPos = memBuf
      /\ memBuf = Undefined => Mem = NextOf(images, memPos)
  BY DEF Buffers, Rec, Mem, RecFile
<1>3. /\ recBuf' # Undefined => Rec' = recBuf'
      /\ recBuf' = Undefined => Rec' = NextOf(RecFile, recPos')
      /\ memBuf' # Undefined => Mem' = memBuf'
      /\ memBuf' = Undefined => Mem' = NextOf(images, memPos')
  BY <1>1 DEF Rec, Mem, RecFile
<1>4. /\ Rec # Undefined => recPos' = Rec
      /\ Rec = Undefined => recPos' = recPos /\ recBuf = Undefined
      /\ Mem # Undefined => memPos' = Mem
      /\ Mem = Undefined => memPos' = memPos /\ memBuf = Undefined
  BY <1>1, <1>2
<1>5. /\ TakesRec => Rec # Undefined
      /\ ~TakesRec => Mem # Undefined
  BY <1>1 DEF TakesRec
<1>6. CASE TakesRec
  <2>1. Rec' = NextOf(RecFile, Rec)
    BY <1>1, <1>3, <1>4, <1>5, <1>6
  <2>2. Mem' = Mem
    BY <1>1, <1>2, <1>3, <1>4, <1>6
  <2> QED
    BY <1>1, <1>4, <1>5, <1>6, <2>1, <2>2 DEF Buffers
<1>7. CASE ~TakesRec
  <2>1. Mem' = NextOf(images, Mem)
    BY <1>1, <1>3, <1>4, <1>5, <1>7
  <2>2. Rec' = Rec
    BY <1>1, <1>2, <1>3, <1>4, <1>7
  <2> QED
    BY <1>1, <1>4, <1>5, <1>7, <2>1, <2>2 DEF Buffers
<1>. QED
  BY <1>6, <1>7

\* The container queued follows the one queued before it, and the files are merged
\* up to it.
LEMMA FillMerges ==
  ASSUME TypeOK, InOrder, FillCache
  PROVE  /\ ReadInOrder'
         /\ \E c \in Containers : queue' = Append(queue, c) /\ Follows(Last, c)
<1>1. PICK l \in 0..N : MergedUpTo(l)
  BY DEF InOrder, ReadInOrder
<1>2. /\ Rec = NextOf(RecFile, l) /\ Mem = NextOf(images, l)
      /\ l = Last \/ (l = 0 /\ Last = N /\ autoRewind)
  BY <1>1 DEF MergedUpTo
<1>3. Rec # Undefined \/ Mem # Undefined
  BY DEF FillCache
<1>4. images \subseteq Containers /\ l \in Nat /\ N \in Nat /\ N >= 2 /\ Undefined = 0
  BY Sizes DEF TypeOK
<1>5. l < N
  BY <1>2, <1>3, <1>4, MergeStep
<1>6. l + 1 \in Containers /\ l + 1 # 0 /\ l + 1 \in 0..N
  BY <1>4, <1>5 DEF Containers
<1>7. Follows(Last, l + 1)
  BY <1>2, <1>4, <1>5 DEF Follows
<1>8. /\ queue' = Append(queue, l + 1)
      /\ Rec' = NextOf(RecFile, l + 1) /\ Mem' = NextOf(images, l + 1)
  <2>1. Rec \in Nat /\ Mem \in Nat
    BY FileTypes, <1>4
  <2>2. CASE l + 1 \in images
    <3>1. /\ Mem = l + 1 /\ NextOf(RecFile, l + 1) = Rec
          /\ Rec # Undefined => Rec > l + 1
      BY <1>2, <1>4, <1>5, <2>2, MergeStep
    <3>2. ~TakesRec
      BY <1>4, <2>1, <3>1 DEF TakesRec, RecFirst
    <3> QED
      BY <3>1, <3>2, FillEffect DEF InOrder
  <2>3. CASE l + 1 \notin images
    <3>1. /\ Rec = l + 1 /\ NextOf(images, l + 1) = Mem
          /\ Mem # Undefined => Mem > l + 1
      BY <1>2, <1>4, <1>5, <2>3, MergeStep
    <3>2. TakesRec
      BY <1>4, <2>1, <3>1 DEF TakesRec, RecFirst
    <3> QED
      BY <3>1, <3>2, FillEffect DEF InOrder
  <2> QED
    BY <2>2, <2>3
<1>9. Last' = l + 1
  <2>1. queue \in Seq(Containers)
    BY DEF TypeOK
  <2>2. /\ queue' # <<>> /\ Len(queue') = Len(queue) + 1
        /\ queue'[Len(queue) + 1] = l + 1
    BY <1>6, <1>8, <2>1, Appended
  <2> QED
    BY <2>2 DEF Last
<1>10. images' = images
  BY DEF FillCache, CacheOnly, config
<1>11. MergedUpTo(l + 1)'
  BY <1>8, <1>9, <1>10 DEF MergedUpTo, RecFile, NextOf
<1>. QED
  BY <1>6, <1>7, <1>8, <1>11 DEF ReadInOrder

\* When both files are read, the last container of the recording is queued.
LEMMA AllQueued ==
  ASSUME TypeOK, ReadInOrder, AtFileEnds
  PROVE  Last = N
<1>1. PICK l \in 0..N : MergedUpTo(l)
  BY DEF ReadInOrder
<1>a. l \in Nat /\ N \in Nat /\ l + 1 # Undefined
  BY Sizes
<1>b. images \subseteq Containers
  BY DEF TypeOK
<1>2. NextOf(RecFile, l) = Undefined /\ NextOf(images, l) = Undefined
  BY <1>1 DEF MergedUpTo, AtFileEnds
<1>3. ~(l < N)
  BY <1>a, <1>b, <1>2, MergeStep
<1>4. l = N
  BY <1>a, <1>3
<1>. QED
  BY <1>1, <1>4 DEF MergedUpTo

\* What is appended to the queue in order keeps it in order.
LEMMA QueueGrows ==
  ASSUME TypeOK, QueueInOrder, Taken' = Taken, UNCHANGED autoRewind,
         NEW c \in Containers, queue' = Append(queue, c), Follows(Last, c)
  PROVE  QueueInOrder'
<1>1. /\ queue \in Seq(Containers) /\ Len(queue) \in Nat
      /\ Len(queue') = Len(queue) + 1 /\ queue'[Len(queue) + 1] = c
      /\ \A i \in 1..Len(queue) : queue'[i] = queue[i]
  BY OrderTypes, Appended
<1>2. \A b, d : Follows(b, d)' <=> Follows(b, d)
  BY DEF Follows
<1>3. Follows(Taken, queue'[1])
  BY <1>1 DEF QueueInOrder, Last
<1>4. ASSUME NEW i \in 1..Len(queue)
      PROVE  Follows(queue'[i], queue'[i + 1])
  <2>1. CASE i = Len(queue)
    BY <1>1, <2>1 DEF Last
  <2>2. CASE i < Len(queue)
    <3>1. i \in 1..(Len(queue) - 1) /\ i + 1 \in 1..Len(queue)
      BY <1>1, <2>2
    <3> QED
      BY <1>1, <3>1 DEF QueueInOrder
  <2> QED
    BY <1>1, <2>1, <2>2
<1>5. 1..(Len(queue') - 1) = 1..Len(queue)
  BY <1>1
<1>. QED
  BY <1>2, <1>3, <1>4, <1>5 DEF QueueInOrder

\* The segments before the one of an image read ahead.
LEMMA FiledTypes ==
  ASSUME TypeOK, SegmentsInOrder
  PROVE  /\ bufOut \in Seq(images) /\ Len(bufOut) \in Nat /\ Filed \in Nat
         /\ memBuf = Undefined => Filed = Len(bufOut)
         /\ memBuf # Undefined => /\ Filed + 1 = Len(bufOut)
                                  /\ bufOut[Filed + 1] = memBuf
<1>1. bufOut \in Seq(images) /\ Len(bufOut) \in Nat /\ (bufOut # <<>> => Len(bufOut) >= 1)
  BY DEF TypeOK
<1>2. CASE memBuf = Undefined
  BY <1>1, <1>2 DEF Filed
<1>3. CASE memBuf # Undefined
  BY <1>1, <1>3 DEF Filed, SegmentsInOrder
<1>. QED
  BY <1>1, <1>2, <1>3

\* What a call of fillCache does to the segments of the queued images.
LEMMA FillFiles ==
  ASSUME TypeOK, SegmentsInOrder, FillCache
  PROVE  /\ memBuf' # Undefined => bufOut' # <<>> /\ bufOut'[Len(bufOut')] = memBuf'
         /\ \A i \in 1..Filed : bufOut'[i] = bufOut[i]
         /\ TakesRec => Filed' = Filed
         /\ ~TakesRec => Filed' = Filed + 1 /\ bufOut'[Filed + 1] = Mem
<1>1. /\ bufOut \in Seq(images) /\ Len(bufOut) \in Nat /\ Filed \in Nat
      /\ memBuf = Undefined => Filed = Len(bufOut)
      /\ memBuf # Undefined => Filed + 1 = Len(bufOut) /\ bufOut[Filed + 1] = memBuf
  BY FiledTypes
<1>2. /\ FillSegment
      /\ memBuf' = IF TakesRec THEN Mem ELSE Undefined
      /\ ~TakesRec => Mem # Undefined
  BY DEF FillCache, TakesRec
<1>3. Filed' = Len(bufOut') - (IF memBuf' = Undefined THEN 0 ELSE 1)
  BY DEF Filed
<1>4. CASE memBuf = Undefined /\ Mem # Undefined
  <2>1. bufOut' = Append(bufOut, Mem) /\ Mem \in images
    BY <1>2, <1>4, FileTypes DEF FillSegment
  <2>2. /\ Len(bufOut') = Filed + 1 /\ bufOut' # <<>> /\ bufOut'[Filed + 1] = Mem
        /\ \A i \in 1..Filed : bufOut'[i] = bufOut[i]
    BY <1>1, <1>4, <2>1, Appended
  <2>3. TakesRec => memBuf' # Undefined /\ memBuf' = Mem
    BY <1>2, <1>4
  <2>4. ~TakesRec => memBuf' = Undefined
    BY <1>2
  <2> QED
    BY <1>1, <1>3, <2>2, <2>3, <2>4
<1>5. CASE memBuf # Undefined
  <2>1. bufOut' = bufOut /\ Mem = memBuf
    BY <1>2, <1>5 DEF FillSegment, Mem
  <2>2. bufOut # <<>>
    BY <1>5 DEF SegmentsInOrder
  <2>3. TakesRec => memBuf' # Undefined /\ memBuf' = Mem
    BY <1>2, <1>5, <2>1
  <2>4. ~TakesRec => memBuf' = Undefined
    BY <1>2
  <2> QED
    BY <1>1, <1>3, <1>5, <2>1, <2>2, <2>3, <2>4
<1>6. CASE memBuf = Undefined /\ Mem = Undefined
  <2>1. bufOut' = bufOut /\ TakesRec /\ memBuf' = Undefined
    BY <1>2, <1>6 DEF FillSegment
  <2> QED
    BY <1>1, <1>3, <1>6, <2>1
<1>. QED
  BY <1>4, <1>5, <1>6

\* Filling the cache keeps the segments in the order of the images.
LEMMA FillKeepsSegments ==
  ASSUME TypeOK, InOrder, FillCache
  PROVE  SegmentsInOrder'
<1>1. PICK place \in [1..Filed -> (0 - 1)..Len(queue)] : Placed(place)
  BY DEF InOrder, SegmentsInOrder
<1>2. UNCHANGED <<images, ppc, actual, successor, seek, noMore, played>>
  BY DEF FillCache, CacheOnly, config, playerVars, history
<1>3. PICK c \in Containers : queue' = Append(queue, c)
  BY FillMerges
<1>4. /\ queue \in Seq(Containers) /\ Len(queue) \in Nat
      /\ Len(queue') = Len(queue) + 1 /\ queue'[Len(queue) + 1] = c
      /\ \A i \in 1..Len(queue) : queue'[i] = queue[i]
  BY <1>3, OrderTypes, Appended
<1>5. /\ Low' = Low /\ Low \in {0 - 1, 0, 1} /\ Filed \in Nat
  BY <1>2, FiledTypes DEF Low, Fresh, InOrder
<1>6. /\ \A j \in (0 - 1)..Len(queue) : Pending(j)' = Pending(j)
      /\ \A j : j = Len(queue) + 1 => Pending(j)' = c
  <2>1. \A j \in (0 - 1)..Len(queue) : j >= 1 => j \in 1..Len(queue) /\ queue'[j] = queue[j]
    BY <1>4
  <2>2. \A j \in (0 - 1)..Len(queue) : Pending(j)' = Pending(j)
    BY <1>2, <2>1 DEF Pending
  <2>3. ASSUME NEW j, j = Len(queue) + 1
        PROVE  Pending(j)' = c
    BY <1>4, <2>3 DEF Pending
  <2> QED
    BY <2>2, <2>3
<1>7. /\ memBuf' # Undefined => bufOut' # <<>> /\ bufOut'[Len(bufOut')] = memBuf'
      /\ \A i \in 1..Filed : bufOut'[i] = bufOut[i]
      /\ TakesRec => Filed' = Filed
      /\ ~TakesRec => Filed' = Filed + 1 /\ bufOut'[Filed + 1] = Mem
  BY FillFiles DEF InOrder
<1>8. /\ \A i \in 1..Filed : /\ place[i] \in (0 - 1)..Len(queue)
                             /\ place[i] >= Low /\ bufOut[i] = Pending(place[i])
      /\ \A i, j \in 1..Filed : i < j => place[i] < place[j]
      /\ \A j \in Low..Len(queue) : Pending(j) \in images => \E i \in 1..Filed : place[i] = j
  BY <1>1 DEF Placed
<1>9. CASE TakesRec
  <2>1. c \notin images
    <3>1. queue' = Append(queue, Rec) /\ Rec \in Containers /\ Rec \notin images
      BY <1>9, FillEffect, FileTypes DEF InOrder, RecFile
    <3> QED
      BY <1>4, <3>1, Appended
  <2>2. place \in [1..Filed' -> (0 - 1)..Len(queue')]
    BY <1>4, <1>5, <1>7, <1>8, <1>9
  <2>3. \A j \in Low..Len(queue') : Pending(j)' \in images =>
          \E i \in 1..Filed : place[i] = j
    <3>1. ASSUME NEW j \in Low..Len(queue'), Pending(j)' \in images
          PROVE  j \in Low..Len(queue) /\ j \in (0 - 1)..Len(queue)
      <4>1. j # Len(queue) + 1
        BY <1>6, <2>1, <3>1
      <4> QED
        BY <1>4, <1>5, <4>1
    <3> QED
      BY <1>6, <1>8, <3>1
  <2>4. Placed(place)'
    BY <1>2, <1>5, <1>6, <1>7, <1>8, <1>9, <2>3 DEF Placed
  <2> QED
    BY <1>7, <2>2, <2>4 DEF SegmentsInOrder
<1>10. CASE ~TakesRec
  <2>1. Mem = c
    <3>1. queue' = Append(queue, Mem) /\ Mem \in Containers
      BY <1>10, FillEffect, FileTypes DEF InOrder
    <3> QED
      BY <1>4, <3>1, Appended
  <2>a. \E new : new = [i \in 1..(Filed + 1) |-> IF i <= Filed THEN place[i] ELSE Len(queue) + 1]
    OBVIOUS
  <2>b. PICK new : new = [i \in 1..(Filed + 1) |-> IF i <= Filed THEN place[i] ELSE Len(queue) + 1]
    BY <2>a
  <2>2. /\ \A i \in 1..Filed : new[i] = place[i]
        /\ new[Filed + 1] = Len(queue) + 1
        /\ 1..Filed' = 1..(Filed + 1) /\ Filed + 1 \in 1..(Filed + 1)
        /\ \A i \in 1..(Filed + 1) : i \in 1..Filed \/ i = Filed + 1
    BY <1>5, <1>7, <1>10, <2>b
  <2>3. new \in [1..Filed' -> (0 - 1)..Len(queue')]
    <3>1. \A i \in 1..(Filed + 1) : new[i] \in (0 - 1)..Len(queue')
      BY <1>4, <1>8, <2>2
    <3>2. DOMAIN new = 1..(Filed + 1) /\ new = [i \in DOMAIN new |-> new[i]]
      BY <2>b
    <3> QED
      BY <2>2, <3>1, <3>2
  <2>4. \A i \in 1..Filed' : new[i] >= Low /\ bufOut'[i] = Pending(new[i])'
    <3>1. ASSUME NEW i \in 1..Filed
          PROVE  new[i] >= Low /\ bufOut'[i] = Pending(new[i])'
      <4>1. new[i] = place[i] /\ place[i] \in (0 - 1)..Len(queue) /\ place[i] >= Low
            /\ bufOut'[i] = Pending(place[i])
        BY <1>7, <1>8, <2>2
      <4> QED
        BY <1>6, <4>1
    <3>2. ASSUME NEW i, i = Filed + 1
          PROVE  new[i] >= Low /\ bufOut'[i] = Pending(new[i])'
      <4>1. new[i] = Len(queue) + 1 /\ bufOut'[i] = c
        BY <1>7, <1>10, <2>1, <2>2, <3>2
      <4> QED
        BY <1>4, <1>5, <1>6, <4>1
    <3> QED
      BY <2>2, <3>1, <3>2
  <2>5. \A i, j \in 1..Filed' : i < j => new[i] < new[j]
    <3>1. \A i, j \in 1..Filed : i < j => new[i] < new[j]
      BY <1>8, <2>2
    <3>2. \A i \in 1..Filed : new[i] < new[Filed + 1]
      BY <1>4, <1>8, <2>2
    <3>3. \A i \in 1..(Filed + 1) : ~(Filed + 1 < i)
      BY <1>5
    <3> QED
      BY <2>2, <3>1, <3>2, <3>3
  <2>6. \A j \in Low..Len(queue') : Pending(j)' \in images => \E i \in 1..Filed' : new[i] = j
    <3> SUFFICES ASSUME NEW j \in Low..Len(queue'), Pending(j)' \in images
                 PROVE  \E i \in 1..Filed' : new[i] = j
      OBVIOUS
    <3>1. CASE j = Len(queue) + 1
      BY <2>2, <3>1
    <3>2. CASE j # Len(queue) + 1
      <4>1. j \in Low..Len(queue) /\ j \in (0 - 1)..Len(queue)
        BY <1>4, <1>5, <3>2
      <4>2. PICK i \in 1..Filed : place[i] = j
        BY <1>6, <1>8, <4>1
      <4> QED
        BY <1>5, <1>7, <1>10, <2>2, <4>2
    <3> QED
      BY <3>1, <3>2
  <2>7. Placed(new)'
    BY <1>2, <1>5, <2>4, <2>5, <2>6 DEF Placed
  <2> QED
    BY <1>7, <2>3, <2>7 DEF SegmentsInOrder
<1>. QED
  BY <1>9, <1>10

\* Filling the cache keeps the order.
LEMMA FillKeepsOrder ==
  ASSUME TypeOK, InOrder, FillCache
  PROVE  InOrder'
<1>1. UNCHANGED <<images, autoRewind, ppc, actual, successor, seek, noMore, memory, played>>
  BY DEF FillCache, CacheOnly, config, playerVars, history
<1>2. (Fresh' <=> Fresh) /\ Taken' = Taken
  BY <1>1 DEF Fresh, Taken
<1>3. QueueInOrder'
  BY <1>1, <1>2, FillMerges, QueueGrows DEF InOrder
<1>4. InHand'
  BY <1>1, <1>2 DEF InOrder, InHand, Following
<1>5. AtEnd'
  <2>1. CASE noMore /\ ppc # "rewinding"
    <3>1. ~seek /\ ~autoRewind /\ actual = N /\ successor = N /\ queue = <<>>
      BY <2>1 DEF InOrder, AtEnd
    <3>2. Last = N
      BY <2>1, <3>1 DEF Last, Taken, Fresh
    <3>3. \A c : ~Follows(Last, c)
      BY <3>1, <3>2, Sizes DEF Follows
    <3> QED
      BY <3>3, FillMerges
  <2>2. CASE ~(noMore /\ ppc # "rewinding")
    BY <1>1, <2>2 DEF AtEnd
  <2> QED
    BY <2>1, <2>2
<1>6. MemoryMatches'
  BY <1>1 DEF InOrder, MemoryMatches
<1>. QED
  BY <1>3, <1>4, <1>5, <1>6, FillEffect, FillMerges, FillKeepsSegments DEF InOrder

\* Back at the beginning of the files, or not: the order stays.
LEMMA EndUpdateKeepsOrder ==
  ASSUME TypeOK, InOrder, EndUpdate
  PROVE  InOrder'
<1>1. UNCHANGED <<images, autoRewind, recBuf, memBuf, queue, bufOut, ppc, actual, successor, seek,
                  noMore, memory, played>>
  BY DEF EndUpdate, CacheOnly, config, playerVars, history, sharedVars
<1>2. (Fresh' <=> Fresh) /\ Taken' = Taken /\ Last' = Last
  BY <1>1 DEF Fresh, Taken, Last
<1>3. Buffers' /\ ReadInOrder'
  <2>1. PICK l \in 0..N : MergedUpTo(l)
    BY DEF InOrder, ReadInOrder
  <2>2. CASE UNCHANGED <<recPos, memPos>>
    <3>1. MergedUpTo(l)'
      BY <1>1, <1>2, <2>1, <2>2 DEF MergedUpTo, Rec, Mem, RecFile, NextOf
    <3> QED
      BY <1>1, <2>2, <3>1 DEF ReadInOrder, Buffers, InOrder
  <2>3. CASE ~UNCHANGED <<recPos, memPos>>
    <3>1. Rec = Undefined /\ Mem = Undefined /\ autoRewind /\ recPos' = 0 /\ memPos' = 0
      BY <2>3 DEF EndUpdate, BackToStart
    <3>2. recBuf = Undefined /\ memBuf = Undefined
      BY <3>1 DEF Rec, Mem
    <3>4. Last = N
      BY <3>1, AllQueued DEF InOrder, AtFileEnds
    <3>5. Rec' = NextOf(RecFile, 0) /\ Mem' = NextOf(images, 0)
      BY <1>1, <3>1, <3>2 DEF Rec, Mem, RecFile, NextOf
    <3>6. MergedUpTo(0)' /\ 0 \in 0..N
      BY <1>1, <1>2, <3>1, <3>4, <3>5, Sizes DEF MergedUpTo, RecFile, NextOf
    <3> QED
      BY <1>1, <3>2, <3>6 DEF ReadInOrder, Buffers
  <2> QED
    BY <2>2, <2>3
<1>4. QueueInOrder'
  BY <1>1, <1>2 DEF InOrder, QueueInOrder, Follows
<1>5. InHand'
  BY <1>1, <1>2 DEF InOrder, InHand, Following
<1>6. AtEnd'
  BY <1>1 DEF InOrder, AtEnd
<1>7. SegmentsInOrder'
  <2>1. Low' = Low /\ Filed' = Filed
    BY <1>1, <1>2 DEF Low, Filed
  <2>2. \A j : Pending(j)' = Pending(j)
    BY <1>1 DEF Pending
  <2>3. PICK place \in [1..Filed -> (0 - 1)..Len(queue)] : Placed(place)
    BY DEF InOrder, SegmentsInOrder
  <2>4. Placed(place)'
    BY <1>1, <2>1, <2>2, <2>3 DEF Placed
  <2> QED
    BY <1>1, <2>1, <2>3, <2>4 DEF InOrder, SegmentsInOrder
<1>8. MemoryMatches'
  BY <1>1 DEF InOrder, MemoryMatches
<1>. QED
  BY <1>3, <1>4, <1>5, <1>6, <1>7, <1>8 DEF InOrder

-----------------------------------------------------------------------------
(* Reading from the cache. *)

\* Taking the first container of the queue keeps the rest in order.
LEMMA TakeKeepsQueue ==
  ASSUME TypeOK, InOrder, queue # <<>>, queue' = Tail(queue), Taken' = Head(queue),
         UNCHANGED <<images, autoRewind, recPos, memPos, recBuf, memBuf>>
  PROVE  Buffers' /\ ReadInOrder' /\ QueueInOrder' /\ Follows(Taken, Head(queue))
<1>1. /\ queue \in Seq(Containers) /\ Len(queue) \in Nat \ {0} /\ Head(queue) = queue[1]
      /\ Len(queue') = Len(queue) - 1 /\ queue' \in Seq(Containers)
      /\ \A i \in 1..(Len(queue) - 1) : queue'[i] = queue[i + 1]
  BY OrderTypes, FirstTaken
<1>2. queue' = <<>> <=> Len(queue) = 1
  BY <1>1
<1>3. Last' = Last
  <2>1. CASE Len(queue) = 1
    BY <1>1, <1>2, <2>1 DEF Last
  <2>2. CASE Len(queue) # 1
    <3>1. Len(queue) - 1 \in 1..(Len(queue) - 1) /\ (Len(queue) - 1) + 1 = Len(queue)
      BY <1>1, <2>2
    <3>2. queue'[Len(queue')] = queue[Len(queue)]
      BY <1>1, <3>1
    <3> QED
      BY <1>2, <2>2, <3>2 DEF Last
  <2> QED
    BY <2>1, <2>2
<1>4. ReadInOrder'
  <2>1. PICK l \in 0..N : MergedUpTo(l)
    BY DEF InOrder, ReadInOrder
  <2>2. MergedUpTo(l)'
    BY <1>3, <2>1 DEF MergedUpTo, Rec, Mem, RecFile, NextOf
  <2> QED
    BY <2>2 DEF ReadInOrder
<1>5. QueueInOrder'
  <2>1. \A b, d : Follows(b, d)' <=> Follows(b, d)
    BY DEF Follows
  <2>2. \A i \in 1..(Len(queue) - 1) : Follows(queue[i], queue[i + 1])
    BY DEF InOrder, QueueInOrder
  <2>3. queue' # <<>> => Follows(Head(queue), queue'[1])
    <3>1. queue' # <<>> => 1 \in 1..(Len(queue) - 1)
      BY <1>1, <1>2
    <3> QED
      BY <1>1, <2>2, <3>1
  <2>4. ASSUME NEW i \in 1..(Len(queue') - 1)
        PROVE  Follows(queue'[i], queue'[i + 1])
    <3>1. i \in 1..(Len(queue) - 1) /\ i + 1 \in 1..(Len(queue) - 1)
      BY <1>1
    <3> QED
      BY <1>1, <2>2, <3>1
  <2> QED
    BY <2>1, <2>3, <2>4 DEF QueueInOrder
<1>. QED
  BY <1>1, <1>4, <1>5 DEF InOrder, QueueInOrder, Buffers

\* The places of the segments move along with the queue.
LEMMA TakeKeepsSegments ==
  ASSUME TypeOK, SegmentsInOrder, queue # <<>>, queue' = Tail(queue),
         UNCHANGED <<images, bufOut, memBuf>>,
         Low \in {0, 1}, Low' = Low - 1,
         \A j \in Low'..(Len(queue) - 1) : Pending(j)' = Pending(j + 1)
  PROVE  SegmentsInOrder'
<1>1. PICK place \in [1..Filed -> (0 - 1)..Len(queue)] : Placed(place)
  BY DEF SegmentsInOrder
<1>2. Len(queue) \in Nat /\ Len(queue') = Len(queue) - 1
  BY OrderTypes, FirstTaken
<1>3. Filed' = Filed /\ Filed \in Nat
  BY FiledTypes DEF Filed
<1>a. \A i \in 1..Filed : place[i] \in (0 - 1)..Len(queue)
  OBVIOUS
<1>4. /\ \A i \in 1..Filed : place[i] >= Low /\ bufOut[i] = Pending(place[i])
      /\ \A i, j \in 1..Filed : i < j => place[i] < place[j]
      /\ \A j \in Low..Len(queue) : Pending(j) \in images => \E i \in 1..Filed : place[i] = j
  BY <1>1 DEF Placed
<1>5. PICK new : new = [i \in 1..Filed |-> place[i] - 1]
  OBVIOUS
<1>6. \A i \in 1..Filed : /\ new[i] = place[i] - 1 /\ place[i] = new[i] + 1
                          /\ new[i] \in (0 - 1)..Len(queue') /\ new[i] >= Low'
                          /\ new[i] \in Low'..(Len(queue) - 1)
  <2> SUFFICES ASSUME NEW i \in 1..Filed
               PROVE  /\ new[i] = place[i] - 1 /\ place[i] = new[i] + 1
                      /\ new[i] \in (0 - 1)..Len(queue') /\ new[i] >= Low'
                      /\ new[i] \in Low'..(Len(queue) - 1)
    OBVIOUS
  <2>1. new[i] = place[i] - 1 /\ place[i] \in (0 - 1)..Len(queue) /\ place[i] >= Low
    BY <1>a, <1>4, <1>5
  <2> QED
    BY <1>2, <2>1
<1>7. new \in [1..Filed' -> (0 - 1)..Len(queue')]
  <2>1. DOMAIN new = 1..Filed /\ new = [i \in DOMAIN new |-> new[i]]
    BY <1>5
  <2> QED
    BY <1>3, <1>6, <2>1
<1>8. \A i \in 1..Filed : new[i] >= Low' /\ bufOut'[i] = Pending(new[i])'
  <2> SUFFICES ASSUME NEW i \in 1..Filed
               PROVE  new[i] >= Low' /\ bufOut'[i] = Pending(new[i])'
    OBVIOUS
  <2>1. Pending(new[i])' = Pending(new[i] + 1)
    BY <1>6
  <2>2. new[i] + 1 = place[i]
    BY <1>6
  <2> QED
    BY <1>4, <1>6, <2>1, <2>2
<1>9. \A i, j \in 1..Filed : i < j => new[i] < new[j]
  BY <1>a, <1>4, <1>6
<1>10. \A j \in Low'..Len(queue') : Pending(j)' \in images => \E i \in 1..Filed : new[i] = j
  <2> SUFFICES ASSUME NEW j \in Low'..Len(queue'), Pending(j)' \in images
               PROVE  \E i \in 1..Filed : new[i] = j
    OBVIOUS
  <2>1. j \in Int /\ j \in Low'..(Len(queue) - 1) /\ j + 1 \in Low..Len(queue)
    BY <1>2
  <2>2. Pending(j + 1) \in images
    BY <2>1
  <2>3. PICK i \in 1..Filed : place[i] = j + 1
    BY <1>4, <2>1, <2>2
  <2>4. new[i] = j
    BY <1>6, <2>1, <2>3
  <2> QED
    BY <2>4
<1>11. Placed(new)'
  BY <1>3, <1>8, <1>9, <1>10 DEF Placed
<1>. QED
  BY <1>7, <1>11 DEF SegmentsInOrder

\* Reading the first container keeps the order.
LEMMA ReadActualKeepsOrder ==
  ASSUME TypeOK, Control, InOrder, ReadActual, ~starved'
  PROVE  InOrder'
<1>1. /\ queue # <<>> /\ actual' = Head(queue) /\ queue' = Tail(queue)
      /\ ppc = "actual" /\ seek /\ ~seek' /\ ppc' = "successor"
      /\ UNCHANGED <<images, autoRewind, recPos, memPos, recBuf, memBuf, bufOut, successor, noMore,
                     memory, played>>
  BY DEF ReadActual, Control, config, cacheVars
<1>2. played = 0 /\ ~noMore /\ Fresh /\ ~Fresh' /\ Taken = 0 /\ Taken' = Head(queue)
  BY <1>1 DEF Control, InOrder, AtEnd, Fresh, Taken, Undefined
<1>3. Buffers' /\ ReadInOrder' /\ QueueInOrder' /\ Follows(0, Head(queue))
  BY <1>1, <1>2, TakeKeepsQueue
<1>4. actual' = 1
  BY <1>1, <1>3, Sizes DEF Follows
<1>5. InHand'
  <2>1. (actual = Following(played))' /\ (played < N)'
    BY <1>1, <1>2, <1>4, Sizes DEF Following
  <2> QED
    BY <1>1, <1>4, <2>1 DEF InHand
<1>6. AtEnd'
  BY <1>1, <1>2 DEF AtEnd
<1>7. SegmentsInOrder'
  <2>1. Low = 1 /\ Low' = 0
    BY <1>1, <1>2 DEF Low
  <2>2. \A j \in 0..(Len(queue) - 1) : Pending(j)' = Pending(j + 1)
    <3>1. /\ Head(queue) = queue[1]
          /\ \A j \in 0..(Len(queue) - 1) : j # 0 => queue'[j] = queue[j + 1]
      BY <1>1, OrderTypes, FirstTaken
    <3> QED
      BY <1>1, <3>1 DEF Pending
  <2> QED
    BY <1>1, <2>1, <2>2, TakeKeepsSegments DEF InOrder
<1>8. MemoryMatches'
  BY <1>1 DEF InOrder, MemoryMatches
<1>. QED
  BY <1>3, <1>5, <1>6, <1>7, <1>8 DEF InOrder

\* Reading the successor, or that there is none, keeps the order.
LEMMA ReadSuccessorKeepsOrder ==
  ASSUME TypeOK, Control, InOrder, ReadSuccessor, ~starved'
  PROVE  InOrder'
<1>1. /\ ppc = "successor" /\ ppc' = "copy" /\ ~seek /\ ~seek'
      /\ UNCHANGED <<images, autoRewind, recPos, memPos, recBuf, memBuf, bufOut, actual, seek,
                     memory, played>>
  BY DEF ReadSuccessor, Control, config, cacheVars
<1>2. ~Fresh /\ ~Fresh' /\ Taken = actual /\ Taken' = successor'
  BY <1>1 DEF Fresh, Taken
<1>3. /\ actual = Following(played) /\ (successor = actual \/ actual = 1)
      /\ ~noMore => autoRewind \/ played < N
      /\ N \in Nat /\ N >= 2 /\ actual \in 0..N
  BY <1>1, <1>2, Sizes DEF InOrder, InHand, TypeOK
<1>4. MemoryMatches'
  BY <1>1 DEF InOrder, MemoryMatches
<1>5. CASE queue # <<>>
  <2>1. successor' = Head(queue) /\ queue' = Tail(queue) /\ noMore' = noMore
    BY <1>5 DEF ReadSuccessor
  <2>2. ~noMore
    BY <1>1, <1>5 DEF InOrder, AtEnd
  <2>3. Buffers' /\ ReadInOrder' /\ QueueInOrder' /\ Follows(actual, Head(queue))
    BY <1>1, <1>2, <1>5, <2>1, TakeKeepsQueue
  <2>4. successor' = Following(actual) /\ (autoRewind \/ actual < N)
    BY <2>1, <2>3 DEF Follows, Following
  <2>5. InHand'
    BY <1>1, <1>3, <2>1, <2>2, <2>4 DEF InHand, Following
  <2>6. AtEnd'
    BY <2>1, <2>2 DEF AtEnd
  <2>7. SegmentsInOrder'
    <3>1. Low = 0 /\ Low' = 0 - 1
      BY <1>1, <1>2, <2>1, <2>2 DEF Low
    <3>2. \A j \in (0 - 1)..(Len(queue) - 1) : Pending(j)' = Pending(j + 1)
      <4>1. /\ Head(queue) = queue[1] /\ Len(queue) \in Nat
            /\ \A j \in (0 - 1)..(Len(queue) - 1) : j >= 1 => queue'[j] = queue[j + 1]
        BY <1>5, <2>1, OrderTypes, FirstTaken
      <4>2. ASSUME NEW j \in (0 - 1)..(Len(queue) - 1)
            PROVE  Pending(j)' = Pending(j + 1)
        <5>1. CASE j = 0 - 1
          BY <1>1, <2>1, <5>1 DEF Pending
        <5>2. CASE j = 0
          BY <1>1, <2>1, <2>2, <4>1, <5>2 DEF Pending
        <5>3. CASE j >= 1
          BY <1>1, <4>1, <5>3 DEF Pending
        <5> QED
          BY <4>1, <5>1, <5>2, <5>3
      <4> QED
        BY <4>2
    <3> QED
      BY <1>1, <1>5, <2>1, <3>1, <3>2, TakeKeepsSegments DEF InOrder
  <2> QED
    BY <1>4, <2>3, <2>5, <2>6, <2>7 DEF InOrder
<1>6. CASE queue = <<>>
  <2>1. noMore' /\ queue' = queue /\ successor' = successor /\ AllRead
    BY <1>6 DEF ReadSuccessor
  <2>2. ~autoRewind /\ actual = N
    <3>1. Last = N
      BY <2>1, AllQueued DEF InOrder, AllRead, AtFileEnds
    <3> QED
      BY <1>2, <1>6, <2>1, <3>1 DEF Last, AllRead
  <2>3. successor = N
    BY <1>3, <2>2
  <2>4. Last' = Last
    BY <1>2, <1>6, <2>1, <2>2, <2>3 DEF Last
  <2>5. ReadInOrder'
    <3>1. PICK l \in 0..N : MergedUpTo(l)
      BY DEF InOrder, ReadInOrder
    <3>2. MergedUpTo(l)'
      BY <1>1, <2>4, <3>1 DEF MergedUpTo, Rec, Mem, RecFile, NextOf
    <3> QED
      BY <3>2 DEF ReadInOrder
  <2>6. QueueInOrder'
    <3>1. queue' = <<>> /\ 1..(Len(queue') - 1) = {}
      BY <1>6, <2>1
    <3> QED
      BY <3>1 DEF QueueInOrder
  <2>7. InHand'
    BY <1>1, <1>3, <2>1, <2>2, <2>3 DEF InHand, Following
  <2>8. AtEnd'
    BY <1>1, <1>6, <2>1, <2>2, <2>3 DEF AtEnd
  <2>9. SegmentsInOrder'
    <3>1. Low' = Low
      <4>1. CASE noMore
        BY <1>1, <1>2, <2>1, <4>1 DEF Low
      <4>2. CASE ~noMore
        BY <1>1, <1>2, <1>3, <2>1, <2>2, <4>2 DEF Low
      <4> QED
        BY <4>1, <4>2
    <3>2. \A j : Pending(j)' = Pending(j)
      BY <1>1, <2>1 DEF Pending
    <3>3. PICK place \in [1..Filed -> (0 - 1)..Len(queue)] : Placed(place)
      BY DEF InOrder, SegmentsInOrder
    <3>4. Filed' = Filed
      BY <1>1 DEF Filed
    <3>5. Placed(place)'
      BY <1>1, <2>1, <3>1, <3>2, <3>3, <3>4 DEF Placed
    <3> QED
      BY <1>1, <2>1, <3>3, <3>4, <3>5 DEF InOrder, SegmentsInOrder
  <2> QED
    BY <1>1, <1>4, <2>5, <2>6, <2>7, <2>8, <2>9 DEF InOrder, Buffers
<1>. QED
  BY <1>5, <1>6

-----------------------------------------------------------------------------
(* Returning a container. *)

\* An image that is returned and is the first one pending has the first segment.
LEMMA ReturnMovesOn ==
  ASSUME TypeOK, SegmentsInOrder, Return, Low <= 0, Pending(Low) = actual, Low' = Low + 1,
         \A j \in Low'..Len(queue) : Pending(j)' = Pending(j)
  PROVE  SegmentsInOrder' /\ (actual \in images => memory' = actual)
<1>1. PICK place \in [1..Filed -> (0 - 1)..Len(queue)] : Placed(place)
  BY DEF SegmentsInOrder
<1>2. UNCHANGED <<images, memBuf, queue>> /\ ppc = "copy"
  BY DEF Return, config, cacheVars
<1>3. /\ bufOut \in Seq(images) /\ Len(bufOut) \in Nat /\ Filed \in Nat
      /\ memBuf = Undefined => Filed = Len(bufOut)
      /\ memBuf # Undefined => Filed + 1 = Len(bufOut) /\ bufOut[Filed + 1] = memBuf
  BY FiledTypes
<1>4. \A i \in 1..Filed : place[i] \in (0 - 1)..Len(queue)
  OBVIOUS
<1>5. /\ \A i \in 1..Filed : place[i] >= Low /\ bufOut[i] = Pending(place[i])
      /\ \A i, j \in 1..Filed : i < j => place[i] < place[j]
      /\ \A j \in Low..Len(queue) : Pending(j) \in images => \E i \in 1..Filed : place[i] = j
  BY <1>1 DEF Placed
<1>6. Len(queue) \in Nat /\ Low \in {0 - 1, 0}
  BY OrderTypes DEF Low
<1>7. CASE actual \in images
  <2>1. PICK i \in 1..Filed : place[i] = Low
    BY <1>5, <1>6, <1>7
  <2>2. Filed >= 1 /\ 1 \in 1..Filed /\ (i # 1 => 1 < i)
    BY <1>3
  <2>3. place[1] = Low
    BY <1>4, <1>5, <1>6, <2>1, <2>2
  <2>4. bufOut # <<>> /\ bufOut[1] = actual
    BY <1>3, <1>5, <2>2, <2>3
  <2>5. memory' = actual /\ bufOut' = Tail(bufOut)
    BY <1>3, <1>7, <2>4, FirstTaken DEF Return, Copies
  <2>6. /\ Len(bufOut') = Len(bufOut) - 1 /\ bufOut' \in Seq(images)
        /\ \A k \in 1..(Len(bufOut) - 1) : bufOut'[k] = bufOut[k + 1]
    BY <1>3, <2>4, <2>5, FirstTaken
  <2>7. Filed' = Filed - 1 /\ Filed' = Len(bufOut') - (IF memBuf = Undefined THEN 0 ELSE 1)
    BY <1>2, <1>3, <2>6 DEF Filed
  <2>8. memBuf' # Undefined => bufOut' # <<>> /\ bufOut'[Len(bufOut')] = memBuf'
    <3>1. memBuf # Undefined => Len(bufOut') = Filed /\ bufOut'[Filed] = memBuf
      BY <1>3, <2>2, <2>6
    <3> QED
      BY <1>2, <2>2, <3>1
  <2>9. PICK new : new = [k \in 1..(Filed - 1) |-> place[k + 1]]
    OBVIOUS
  <2>10. \A k \in 1..(Filed - 1) : /\ new[k] = place[k + 1] /\ k + 1 \in 1..Filed
                                  /\ new[k] \in (0 - 1)..Len(queue) /\ new[k] >= Low'
                                  /\ bufOut'[k] = Pending(new[k])
    <3> SUFFICES ASSUME NEW k \in 1..(Filed - 1)
                 PROVE  /\ new[k] = place[k + 1] /\ k + 1 \in 1..Filed
                        /\ new[k] \in (0 - 1)..Len(queue) /\ new[k] >= Low'
                        /\ bufOut'[k] = Pending(new[k])
      OBVIOUS
    <3>1. k + 1 \in 1..Filed /\ 1 < k + 1 /\ k \in 1..(Len(bufOut) - 1)
      BY <1>3
    <3>2. new[k] = place[k + 1] /\ bufOut'[k] = bufOut[k + 1]
      BY <2>6, <2>9, <3>1
    <3>3. place[1] < place[k + 1]
      BY <1>5, <2>2, <3>1
    <3> QED
      BY <1>4, <1>5, <1>6, <2>3, <3>1, <3>2, <3>3
  <2>11. new \in [1..Filed' -> (0 - 1)..Len(queue')]
    <3>1. DOMAIN new = 1..(Filed - 1) /\ new = [k \in DOMAIN new |-> new[k]]
      BY <2>9
    <3> QED
      BY <1>2, <2>7, <2>10, <3>1
  <2>12. \A k \in 1..(Filed - 1) : bufOut'[k] = Pending(new[k])'
    <3> SUFFICES ASSUME NEW k \in 1..(Filed - 1)
                 PROVE  bufOut'[k] = Pending(new[k])'
      OBVIOUS
    <3>1. new[k] \in Low'..Len(queue)
      BY <1>6, <2>10
    <3> QED
      BY <2>10, <3>1
  <2>13. \A k, l \in 1..(Filed - 1) : k < l => new[k] < new[l]
    <3> SUFFICES ASSUME NEW k \in 1..(Filed - 1), NEW l \in 1..(Filed - 1), k < l
                 PROVE  new[k] < new[l]
      OBVIOUS
    <3>1. k + 1 \in 1..Filed /\ l + 1 \in 1..Filed /\ k + 1 < l + 1
      BY <1>3
    <3> QED
      BY <1>5, <2>10, <3>1
  <2>14. \A j \in Low'..Len(queue') : Pending(j)' \in images => \E k \in 1..(Filed - 1) : new[k] = j
    <3> SUFFICES ASSUME NEW j \in Low'..Len(queue'), Pending(j)' \in images
                 PROVE  \E k \in 1..(Filed - 1) : new[k] = j
      OBVIOUS
    <3>1. j \in Low'..Len(queue) /\ j \in Low..Len(queue) /\ j # Low
      BY <1>2, <1>6
    <3>2. PICK k \in 1..Filed : place[k] = j
      BY <1>5, <3>1
    <3>3. k # 1
      BY <2>3, <3>1, <3>2
    <3>4. k - 1 \in 1..(Filed - 1) /\ (k - 1) + 1 = k
      BY <1>3, <3>3
    <3>5. new[k - 1] = j
      BY <2>10, <3>2, <3>4
    <3> QED
      BY <3>4, <3>5
  <2>15. Placed(new)'
    BY <1>2, <2>7, <2>10, <2>12, <2>13, <2>14 DEF Placed
  <2> QED
    BY <2>5, <2>8, <2>11, <2>15 DEF SegmentsInOrder
<1>8. CASE actual \notin images
  <2>1. bufOut' = bufOut /\ Filed' = Filed
    BY <1>2, <1>8 DEF Return, Copies, Filed
  <2>2. \A i \in 1..Filed : place[i] >= Low' /\ place[i] \in Low'..Len(queue)
    <3> SUFFICES ASSUME NEW i \in 1..Filed
                 PROVE  place[i] >= Low' /\ place[i] \in Low'..Len(queue)
      OBVIOUS
    <3>1. i \in 1..Len(bufOut) /\ bufOut[i] \in images
      BY <1>3
    <3>2. place[i] # Low
      BY <1>5, <1>8, <3>1
    <3> QED
      BY <1>4, <1>5, <1>6, <3>2
  <2>3. \A i \in 1..Filed : bufOut'[i] = Pending(place[i])'
    BY <1>5, <2>1, <2>2
  <2>4. \A j \in Low'..Len(queue') : Pending(j)' \in images => \E i \in 1..Filed : place[i] = j
    <3>1. \A j \in Low'..Len(queue') : j \in Low..Len(queue) /\ Pending(j)' = Pending(j)
      BY <1>2, <1>6
    <3> QED
      BY <1>5, <3>1
  <2>5. Placed(place)'
    BY <1>2, <1>5, <2>1, <2>2, <2>3, <2>4 DEF Placed
  <2> QED
    BY <1>2, <1>8, <2>1, <2>5 DEF SegmentsInOrder
<1>. QED
  BY <1>7, <1>8

\* After the last container of a recording that is not rewound, both files are read.
LEMMA NothingLeft ==
  ASSUME TypeOK, InOrder, Last = N, ~autoRewind
  PROVE  AtFileEnds
<1>1. PICK l \in 0..N : MergedUpTo(l)
  BY DEF InOrder, ReadInOrder
<1>2. l = N /\ images \subseteq Containers
  BY <1>1 DEF MergedUpTo, TypeOK
<1>. QED
  BY <1>1, <1>2, MergeStep DEF MergedUpTo, AtFileEnds

\* Returning a container keeps the order.
LEMMA ReturnKeepsOrder ==
  ASSUME TypeOK, Control, InOrder, Return
  PROVE  InOrder'
<1>1. /\ ppc = "copy" /\ ppc' = "send" /\ ~seek /\ ~seek' /\ played' = actual /\ actual' = successor
      /\ UNCHANGED <<images, autoRewind, recPos, memPos, recBuf, memBuf, queue, successor, noMore>>
  BY DEF Return, Control, config, cacheVars
<1>2. ~Fresh /\ ~Fresh' /\ Taken' = Taken /\ Last' = Last
  BY <1>1 DEF Fresh, Taken, Last
<1>3. ReadInOrder'
  <2>1. PICK l \in 0..N : MergedUpTo(l)
    BY DEF InOrder, ReadInOrder
  <2>2. MergedUpTo(l)'
    BY <1>1, <1>2, <2>1 DEF MergedUpTo, Rec, Mem, RecFile, NextOf
  <2> QED
    BY <2>2 DEF ReadInOrder
<1>4. QueueInOrder'
  BY <1>1, <1>2 DEF InOrder, QueueInOrder, Follows
<1>5. InHand'
  BY <1>1, <1>2 DEF InOrder, InHand, Following
<1>6. noMore => ~autoRewind /\ actual = N /\ successor = N /\ queue = <<>>
  BY <1>1 DEF InOrder, AtEnd
<1>7. AtEnd'
  BY <1>1, <1>6 DEF AtEnd
<1>8. SegmentsInOrder' /\ MemoryMatches'
  <2>1. CASE ~noMore
    <3>1. Low = 0 - 1 /\ Low' = 0
      BY <1>1, <1>2, <2>1 DEF Low
    <3>2. /\ Pending(Low) = actual
          /\ \A j \in 0..Len(queue) : Pending(j)' = Pending(j)
      BY <1>1, <2>1, <3>1 DEF Pending
    <3> QED
      BY <1>1, <3>1, <3>2, ReturnMovesOn DEF InOrder, MemoryMatches
  <2>2. CASE noMore /\ played < N
    <3>1. Low = 0 /\ Low' = 1
      BY <1>1, <1>2, <1>6, <2>2, Sizes DEF Low
    <3>2. /\ Pending(Low) = actual
          /\ \A j \in 1..Len(queue) : Pending(j)' = Pending(j)
      BY <1>1, <2>2, <3>1 DEF Pending
    <3> QED
      BY <1>1, <3>1, <3>2, ReturnMovesOn DEF InOrder, MemoryMatches
  <2>3. CASE noMore /\ ~(played < N)
    <3>1. Low = 1 /\ Low' = 1 /\ played = N /\ actual = N
      BY <1>1, <1>2, <1>6, <2>3, Sizes DEF Low, TypeOK
    <3>2. Last = N
      BY <1>1, <1>2, <1>6, <2>3 DEF Last, Taken
    <3>3. memBuf = Undefined
      BY <1>6, <2>3, <3>2, NothingLeft DEF AtFileEnds, Mem
    <3>4. PICK place \in [1..Filed -> (0 - 1)..Len(queue)] : Placed(place)
      BY DEF InOrder, SegmentsInOrder
    <3>5. bufOut \in Seq(images) /\ Len(bufOut) \in Nat /\ Filed = Len(bufOut)
      BY <3>3, FiledTypes DEF InOrder
    <3>6. Len(queue) = 0
      BY <1>6, <2>3
    <3>7. ~(1 \in 1..Filed)
      <4>1. \A i \in 1..Filed : place[i] \in (0 - 1)..Len(queue) /\ place[i] >= Low
        BY <3>4 DEF Placed
      <4> QED
        BY <3>1, <3>6, <4>1
    <3>8. bufOut = <<>>
      BY <3>5, <3>7
    <3>9. UNCHANGED <<memory, bufOut>>
      BY <3>8 DEF Return, Copies
    <3>10. Filed' = Filed
      BY <1>1, <3>9 DEF Filed
    <3>11. Placed(place)'
      <4>1. 1..Filed = {} /\ Low'..Len(queue') = {}
        BY <1>1, <3>1, <3>5, <3>6, <3>7
      <4> QED
        BY <3>10, <4>1 DEF Placed
    <3> QED
      BY <1>1, <3>1, <3>3, <3>4, <3>9, <3>10, <3>11 DEF InOrder, MemoryMatches, SegmentsInOrder
  <2> QED
    BY <2>1, <2>2, <2>3
<1>. QED
  BY <1>1, <1>3, <1>4, <1>5, <1>7, <1>8 DEF InOrder, Buffers

-----------------------------------------------------------------------------
(* Rewinding. *)

\* A rewind with nothing read ahead starts again in order.
LEMMA RewindKeepsOrder ==
  ASSUME TypeOK, InOrder, Rewind, ~rewound'
  PROVE  InOrder'
<1>1. /\ recBuf = Undefined /\ memBuf = Undefined /\ recPos' = 0 /\ memPos' = 0
      /\ queue' = <<>> /\ bufOut' = <<>> /\ ppc' = "rewinding"
      /\ UNCHANGED <<images, recBuf, memBuf, seek, memory, played>>
  BY DEF Rewind, BackToStart, Reclaim, config, playerVars
<1>2. Fresh' /\ Last' = 0 /\ Low' = 1 /\ Filed' = 0
  BY <1>1 DEF Fresh, Last, Taken, Low, Filed, Undefined
<1>3. MergedUpTo(0)' /\ 0 \in 0..N
  BY <1>1, <1>2, Sizes DEF MergedUpTo, Rec, Mem, RecFile, NextOf
<1>4. Len(queue') = 0 /\ Len(bufOut') = 0 /\ 1..0 = {} /\ 1..(0 - 1) = {}
  BY <1>1
<1>5. QueueInOrder' /\ InHand' /\ AtEnd' /\ MemoryMatches' /\ Buffers'
  BY <1>1, <1>2, <1>4 DEF InOrder, QueueInOrder, InHand, AtEnd, MemoryMatches, Buffers
<1>6. SegmentsInOrder'
  <2>1. PICK place : place = [i \in 1..0 |-> 0]
    OBVIOUS
  <2>2. place \in [1..0 -> (0 - 1)..0]
    BY <2>1
  <2>3. Placed(place)'
    BY <1>2, <1>4 DEF Placed
  <2> QED
    BY <1>1, <1>2, <1>4, <2>2, <2>3 DEF SegmentsInOrder
<1>. QED
  BY <1>3, <1>5, <1>6 DEF InOrder, ReadInOrder

\* So does the player once the cache has been filled again.
LEMMA RewoundKeepsOrder ==
  ASSUME TypeOK, InOrder, Rewound
  PROVE  InOrder'
<1>1. /\ ppc = "rewinding" /\ ppc' = "loop" /\ seek' /\ ~noMore' /\ played' = Undefined
      /\ UNCHANGED <<images, autoRewind, recPos, memPos, recBuf, memBuf, queue, bufOut, actual,
                     successor, memory>>
  BY DEF Rewound, ModuleOnly, config, cacheVars, sharedVars
<1>2. Fresh /\ Fresh' /\ Taken' = Taken /\ Last' = Last /\ Low = 1 /\ Low' = 1 /\ Filed' = Filed
  BY <1>1 DEF Fresh, Taken, Last, Low, Filed
<1>3. ReadInOrder'
  <2>1. PICK l \in 0..N : MergedUpTo(l)
    BY DEF InOrder, ReadInOrder
  <2>2. MergedUpTo(l)'
    BY <1>1, <1>2, <2>1 DEF MergedUpTo, Rec, Mem, RecFile, NextOf
  <2> QED
    BY <2>2 DEF ReadInOrder
<1>4. QueueInOrder'
  BY <1>1, <1>2 DEF InOrder, QueueInOrder, Follows
<1>5. InHand' /\ AtEnd' /\ Buffers'
  BY <1>1, <1>2 DEF InOrder, InHand, AtEnd, Buffers
<1>6. SegmentsInOrder'
  <2>1. PICK place \in [1..Filed -> (0 - 1)..Len(queue)] : Placed(place)
    BY DEF InOrder, SegmentsInOrder
  <2>2. \A j \in Int : j >= 1 => Pending(j)' = Pending(j)
    BY <1>1 DEF Pending
  <2>3. \A i \in 1..Filed : place[i] \in Int /\ place[i] >= 1
    BY <1>2, <2>1, OrderTypes DEF Placed
  <2>4. \A j \in 1..Len(queue) : Pending(j)' = Pending(j)
    BY <2>2, OrderTypes
  <2>5. Placed(place)'
    BY <1>1, <1>2, <2>1, <2>2, <2>3, <2>4 DEF Placed
  <2> QED
    BY <1>1, <1>2, <2>1, <2>5 DEF InOrder, SegmentsInOrder
<1>7. MemoryMatches'
  BY <1>1, Sizes DEF MemoryMatches, TypeOK
<1>. QED
  BY <1>3, <1>4, <1>5, <1>6, <1>7 DEF InOrder

\* While the cache keeps pace, every step keeps the order.
LEMMA OrderStep ==
  ASSUME TypeOK, Control, Intact => InOrder, [Next]_vars
  PROVE  Intact' => InOrder'
<1> SUFFICES ASSUME ~starved', ~rewound'
             PROVE  InOrder'
  BY DEF Intact
<1>1. ~starved /\ ~rewound
  BY NextSteps, QuietSteps DEF history, FillCache, EndUpdate, CacheOnly, ReadActual, ReadSuccessor,
     Return, Rewind, Rewound, TypeOK
<1>2. InOrder
  BY <1>1 DEF Intact
<1>. QED
  BY <1>2, NextSteps, QuietKeepsOrder, FillKeepsOrder, EndUpdateKeepsOrder, ReadActualKeepsOrder,
     ReadSuccessorKeepsOrder, ReturnKeepsOrder, RewindKeepsOrder, RewoundKeepsOrder

-----------------------------------------------------------------------------
(* A cache without a thread of its own. *)

\* With no segment free there are containers enough in the queue: the segments are
\* three at least, and each holds the memory of another pending image.
LEMMA FullCache ==
  ASSUME TypeOK, Segments, InOrder, free = 0
  PROVE  /\ Len(queue) >= Low + 1
         /\ memBuf = Undefined => Len(queue) >= Low + 2
<1>1. PICK place \in [1..Filed -> (0 - 1)..Len(queue)] : Placed(place)
  BY DEF InOrder, SegmentsInOrder
<1>2. \A i \in 1..Filed : place[i] \in (0 - 1)..Len(queue)
  OBVIOUS
<1>3. /\ \A i \in 1..Filed : place[i] >= Low
      /\ \A i, j \in 1..Filed : i < j => place[i] < place[j]
  BY <1>1 DEF Placed
<1>4. Len(queue) \in Nat /\ Low \in Int
  BY OrderTypes DEF Low
<1>5. Filed \in Nat /\ Filed >= 2 /\ (memBuf = Undefined => Filed >= 3)
  BY FiledTypes, Sizes DEF Segments, InOrder
<1>6. 1 \in 1..Filed /\ 2 \in 1..Filed
  BY <1>5
<1>7. place[1] >= Low /\ place[1] < place[2]
  BY <1>3, <1>6
<1>8. Len(queue) >= Low + 1
  BY <1>2, <1>4, <1>6, <1>7
<1>9. ASSUME memBuf = Undefined
      PROVE  Len(queue) >= Low + 2
  <2>1. 3 \in 1..Filed
    BY <1>5, <1>9
  <2>2. place[2] < place[3]
    BY <1>3, <1>6, <2>1
  <2> QED
    BY <1>2, <1>4, <1>6, <1>7, <2>1, <2>2
<1>. QED
  BY <1>8, <1>9

\* At the beginning of a replay the end of both files means that the queue holds
\* the whole recording.
LEMMA WholeRecording ==
  ASSUME TypeOK, InOrder, AtFileEnds, Fresh
  PROVE  queue # <<>> /\ Len(queue) >= 2
<1>1. Last = N /\ Taken = 0 /\ N \in Nat /\ N >= 2
  BY AllQueued, Sizes DEF InOrder, Taken
<1>2. queue # <<>>
  BY <1>1 DEF Last
<1>3. queue[1] = 1 /\ queue[Len(queue)] = N
  BY <1>1, <1>2 DEF InOrder, QueueInOrder, Follows, Last
<1>. QED
  BY <1>1, <1>2, <1>3, OrderTypes

\* Without a thread the two halves never run at the same time, and nobody rewinds.
LEMMA AloneSteps ==
  ASSUME Control, Alone, ~threading, [Next]_vars
  PROVE  /\ ~remote /\ ~threading' /\ ~starved /\ ~rewound
         /\ ~StartUpdate /\ ~Rewind /\ ~PlayPauseStep /\ ~ReceiveCommand
         /\ Open \/ ReadActual \/ ReadSuccessor => upc = "idle"
         /\ upc = "fill" => ppc \in {"open", "actual", "successor"}
<1>1. ~remote /\ ~starved /\ ~rewound /\ control = <<>>
  BY DEF Control, Alone
<1>2. ~StartUpdate /\ ~Rewind /\ ~PlayPauseStep /\ ~ReceiveCommand
  BY <1>1 DEF StartUpdate, Rewind, PlayPauseStep, ReceiveCommand, Command
<1>3. threading' = threading
  BY NextSteps, QuietSteps DEF config, FillCache, EndUpdate, CacheOnly, ReadActual, ReadSuccessor,
     Return, Rewind, Rewound, ModuleOnly
<1>4. Open \/ ReadActual \/ ReadSuccessor => upc = "idle"
  BY DEF Open, ReadActual, ReadSuccessor, Filled, Waited
<1>. QED
  BY <1>1, <1>2, <1>3, <1>4 DEF Alone

\* What the player reads next is there.
LEMMA AloneStep ==
  ASSUME TypeOK, Control, Segments, InOrder, Alone, AloneAtEnds, ~threading, [Next]_vars
  PROVE  Alone'
<1>0. /\ ~remote /\ ~threading' /\ ~starved /\ ~rewound
      /\ ~StartUpdate /\ ~Rewind /\ ~PlayPauseStep /\ ~ReceiveCommand
      /\ Open \/ ReadActual \/ ReadSuccessor => upc = "idle"
      /\ upc = "fill" => ppc \in {"open", "actual", "successor"}
      /\ upc = "idle" => /\ ppc = "actual" => Len(queue) >= 2
                         /\ ppc = "successor" => queue # <<>> \/ AllRead
  BY AloneSteps DEF Alone
<1>1. /\ ppc \in {"open", "actual"} => seek
      /\ ppc \in {"successor", "copy"} => ~seek
      /\ upc \in {"idle", "fill"}
  BY DEF Control, TypeOK
<1>2. free = 0 => /\ seek => Len(queue) >= 2
                  /\ ~seek /\ ppc \in {"loop", "successor"} => queue # <<>> \/ AllRead
  <2> SUFFICES ASSUME free = 0
               PROVE  /\ seek => Len(queue) >= 2
                      /\ ~seek /\ ppc \in {"loop", "successor"} => queue # <<>> \/ AllRead
    OBVIOUS
  <2>1. Len(queue) >= Low + 1 /\ Len(queue) \in Nat
    BY FullCache, OrderTypes
  <2>2. seek => Low = 1
    BY DEF Low, Fresh
  <2>3. ASSUME ~seek, ppc \in {"loop", "successor"}
        PROVE  queue # <<>> \/ AllRead
    <3>1. CASE noMore
      <4>1. ~autoRewind /\ actual = N /\ queue = <<>>
        BY <2>3, <3>1 DEF InOrder, AtEnd
      <4>2. Last = N
        BY <2>3, <4>1 DEF Last, Taken, Fresh
      <4> QED
        BY <4>1, <4>2, NothingLeft DEF AllRead, AtFileEnds
    <3>2. CASE ~noMore
      <4>1. Low = 0
        BY <2>3, <3>2 DEF Low, Fresh
      <4> QED
        BY <2>1, <4>1
    <3> QED
      BY <3>1, <3>2
  <2> QED
    BY <2>1, <2>2, <2>3
<1>3. CASE EndUpdate
  <2>1. /\ upc = "fill" /\ upc' = "idle"
        /\ UNCHANGED <<images, autoRewind, recBuf, memBuf, queue, ppc, starved>>
    BY <1>3 DEF EndUpdate, CacheOnly, config, history, sharedVars
  <2>2. CASE free = 0 /\ UNCHANGED <<recPos, memPos>>
    <3>1. AllRead' <=> AllRead
      BY <2>1, <2>2 DEF AllRead, Rec, Mem, NextOf
    <3> QED
      BY <1>0, <1>1, <1>2, <2>1, <2>2, <3>1 DEF Alone
  <2>3. CASE AtFileEnds /\ ~(free = 0 /\ UNCHANGED <<recPos, memPos>>)
    <3>1. ppc = "actual" => Len(queue) >= 2
      BY <1>1, <2>3, WholeRecording DEF Fresh
    <3>2. autoRewind /\ ppc = "successor" => queue # <<>>
      BY <2>1, <2>3 DEF AloneAtEnds
    <3>3. ~autoRewind => AllRead'
      <4>1. ~autoRewind => UNCHANGED <<recPos, memPos>>
        BY <1>3 DEF EndUpdate
      <4> QED
        BY <2>1, <2>3, <4>1 DEF AllRead, AtFileEnds, Rec, Mem, NextOf
    <3> QED
      BY <1>0, <2>1, <3>1, <3>2, <3>3 DEF Alone
  <2> QED
    BY <1>3, <2>2, <2>3 DEF EndUpdate, AtFileEnds
<1>4. CASE Cycle
  <2>1. /\ ppc = "loop" /\ ppc' \in {"command", "actual", "successor"}
        /\ playing <=> ppc' # "command"
        /\ ppc' = "actual" => seek
        /\ ppc' = "successor" => ~seek
        /\ upc' = IF playing /\ ~threading /\ MayFill THEN "fill" ELSE upc
        /\ UNCHANGED <<images, autoRewind, recPos, memPos, recBuf, memBuf, queue, starved>>
    BY <1>4 DEF Cycle, TypeOK, config, sharedVars, history
  <2>2. AllRead' <=> AllRead
    BY <2>1 DEF AllRead, Rec, Mem, NextOf
  <2>3. upc = "idle"
    BY <1>0, <1>1, <2>1
  <2>4. ppc' # "command" /\ upc' = "idle" => free = 0 \/ Len(queue) >= 3
    <3>1. ppc' # "command" /\ upc' = "idle" => ~MayFill
      BY <2>1
    <3>2. free \in Nat /\ Len(queue) \in Nat
      BY OrderTypes, Sizes DEF TypeOK
    <3> QED
      BY <3>1, <3>2, Sizes DEF MayFill
  <2>5. Len(queue) >= 3 => queue # <<>>
    OBVIOUS
  <2>6. upc' = "fill" => ppc' \in {"actual", "successor"}
    BY <2>1, <2>3
  <2>7. upc' = "idle" =>
          /\ ppc' = "actual" => Len(queue) >= 2
          /\ ppc' = "successor" => queue # <<>> \/ AllRead
    BY <1>2, <2>1, <2>4, <2>5, OrderTypes
  <2>8. queue' = queue
    BY <2>1
  <2>9. ~starved'
    BY <1>0, <2>1
  <2> QED
    BY <2>2, <2>6, <2>7, <2>8, <2>9 DEF Alone
<1>5. CASE ReadActual
  <2>1. upc = "idle" /\ upc' = upc /\ ppc = "actual" /\ ppc' = "successor"
    BY <1>0, <1>5 DEF ReadActual, cacheVars
  <2>2. Len(queue) >= 2 /\ queue # <<>>
    BY <1>0, <2>1
  <2>3. queue' = Tail(queue) /\ starved' = starved
    BY <1>5, <2>2 DEF ReadActual
  <2>4. queue' # <<>>
    <3>1. Len(queue') >= 1
      BY <2>2, <2>3, OrderTypes, FirstTaken
    <3> QED
      BY <3>1
  <2> QED
    BY <1>0, <2>1, <2>3, <2>4 DEF Alone
<1>6. CASE ReadSuccessor
  <2>1. upc = "idle" /\ upc' = upc /\ ppc = "successor" /\ ppc' = "copy"
    BY <1>0, <1>6 DEF ReadSuccessor, cacheVars
  <2>2. ~starved'
    BY <1>0, <1>6, <2>1 DEF ReadSuccessor
  <2> QED
    BY <1>0, <2>1, <2>2 DEF Alone
<1>7. CASE FillCache
  <2>1. upc' = "fill" /\ ppc' = ppc /\ upc = "fill" /\ starved' = starved
    BY <1>7 DEF FillCache, CacheOnly, history
  <2> QED
    BY <1>0, <2>1 DEF Alone
<1>8. CASE Open \/ Return \/ Send \/ NoCommand \/ Rewound \/ Stop
  <2>1. upc' = upc /\ starved' = starved /\ ppc' \in {"loop", "send", "command", "ended", "stopped"}
        /\ ppc \notin {"actual", "successor"} /\ (ppc = "open" => upc = "idle")
    BY <1>0, <1>8 DEF Open, Return, Send, NoCommand, Rewound, Stop, ModuleOnly, cacheVars, history
  <2> QED
    BY <1>0, <1>1, <2>1 DEF Alone
<1>9. CASE UNCHANGED vars
  <2>1. UNCHANGED <<images, autoRewind, recPos, memPos, recBuf, memBuf, queue, starved, upc, ppc>>
    BY <1>9 DEF vars, config, cacheVars, sharedVars, history
  <2>2. AllRead' <=> AllRead
    BY <2>1 DEF AllRead, Rec, Mem, NextOf
  <2> QED
    BY <1>0, <2>1, <2>2 DEF Alone
<1>. QED
  BY <1>0, <1>3, <1>4, <1>5, <1>6, <1>7, <1>8, <1>9 DEF Next, CacheStep, PlayerStep

\* It does not run empty while the files wait at their ends to be rewound.
LEMMA AloneAtEndsStep ==
  ASSUME TypeOK, Control, Segments, InOrder, Alone, AloneAtEnds, ~threading, [Next]_vars
  PROVE  AloneAtEnds'
<1> SUFFICES ASSUME autoRewind', AtFileEnds'
             PROVE  IF upc' = "idle" /\ ppc' \in {"actual", "successor"}
                    THEN free' = 0 \/ Len(queue') >= (IF ppc' = "actual" THEN 3 ELSE 2)
                    ELSE queue' # <<>>
  BY DEF AloneAtEnds
<1>0. /\ ~remote /\ ~threading' /\ ~starved /\ ~rewound
      /\ ~StartUpdate /\ ~Rewind /\ ~PlayPauseStep /\ ~ReceiveCommand
      /\ Open \/ ReadActual \/ ReadSuccessor => upc = "idle"
      /\ upc = "fill" => ppc \in {"open", "actual", "successor"}
      /\ upc \in {"idle", "fill"}
  BY AloneSteps DEF TypeOK
<1>1. queue \in Seq(Containers) /\ Len(queue) \in Nat /\ (queue # <<>> => Len(queue) \in Nat \ {0})
  BY OrderTypes
<1>2. CASE FillCache
  <2>1. upc' = "fill" /\ queue' # <<>>
    <3>1. PICK c \in Containers : queue' = Append(queue, c)
      BY <1>2, FillMerges
    <3> QED
      BY <1>1, <1>2, <3>1, Appended DEF FillCache
  <2> QED
    BY <2>1
<1>3. CASE EndUpdate
  <2>1. /\ upc = "fill" /\ upc' = "idle"
        /\ UNCHANGED <<images, autoRewind, recBuf, memBuf, queue, free, ppc>>
    BY <1>3 DEF EndUpdate, CacheOnly, config, sharedVars
  <2>2. UNCHANGED <<recPos, memPos>> /\ free = 0
    <3> SUFFICES ASSUME ~(UNCHANGED <<recPos, memPos>> /\ free = 0)
                 PROVE  FALSE
      OBVIOUS
    <3>1. AtFileEnds /\ recPos' = 0 /\ memPos' = 0
      BY <1>3, <2>1 DEF EndUpdate, BackToStart, AtFileEnds
    <3>2. recBuf = Undefined /\ memBuf = Undefined
      BY <3>1 DEF AtFileEnds, Rec, Mem
    <3>3. NextOf(RecFile, 0) = Undefined /\ NextOf(images, 0) = Undefined
      BY <2>1, <3>1, <3>2 DEF AtFileEnds, Rec, Mem, RecFile, NextOf
    <3>4. images \subseteq Containers /\ 0 \in 0..N /\ 0 < N /\ 0 + 1 # Undefined
      BY Sizes DEF TypeOK
    <3> QED
      BY <3>3, <3>4, MergeStep
  <2>3. AtFileEnds
    BY <2>1, <2>2 DEF AtFileEnds, Rec, Mem, NextOf
  <2>4. ppc = "open" => queue # <<>>
    BY <2>3, WholeRecording DEF Control, Fresh
  <2> QED
    BY <1>0, <2>1, <2>2, <2>4
<1>4. ~FillCache /\ ~EndUpdate =>
        /\ UNCHANGED <<images, autoRewind, recPos, memPos, recBuf, memBuf>>
        /\ autoRewind /\ AtFileEnds
  <2>1. ~FillCache /\ ~EndUpdate => UNCHANGED <<images, autoRewind, recPos, memPos, recBuf, memBuf>>
    BY <1>0, NextSteps, QuietSteps DEF config, ReadActual, ReadSuccessor, Return, Rewound, ModuleOnly,
       cacheVars
  <2>2. ASSUME ~FillCache, ~EndUpdate
        PROVE  autoRewind /\ AtFileEnds
    <3>1. UNCHANGED <<images, autoRewind, recPos, memPos, recBuf, memBuf>>
      BY <2>1, <2>2
    <3>2. Rec' = Rec /\ Mem' = Mem
      BY <3>1 DEF Rec, Mem, NextOf
    <3> QED
      BY <3>1, <3>2 DEF AtFileEnds
  <2> QED
    BY <2>1, <2>2
<1>5. ~FillCache /\ ~EndUpdate =>
        IF upc = "idle" /\ ppc \in {"actual", "successor"}
        THEN free = 0 \/ Len(queue) >= (IF ppc = "actual" THEN 3 ELSE 2)
        ELSE queue # <<>>
  BY <1>4 DEF AloneAtEnds
<1>6. CASE Cycle
  <2>1. /\ ppc = "loop" /\ ppc' \in {"command", "actual", "successor"}
        /\ ppc' = "command" \/ playing
        /\ upc' = IF playing /\ ~threading /\ MayFill THEN "fill" ELSE upc
        /\ UNCHANGED <<queue, free>>
    BY <1>6 DEF Cycle, TypeOK, sharedVars
  <2>2. ppc' # "command" /\ upc' = "idle" => free = 0 \/ Len(queue) >= 3
    <3>1. ppc' # "command" /\ upc' = "idle" => ~MayFill
      BY <2>1
    <3>2. free \in Nat
      BY Sizes DEF TypeOK
    <3> QED
      BY <1>1, <3>1, <3>2, Sizes DEF MayFill
  <2>3. queue # <<>>
    BY <1>5, <1>6, <2>1 DEF Cycle, FillCache, EndUpdate, CacheOnly
  <2> QED
    BY <1>1, <2>1, <2>2, <2>3
<1>7. CASE ReadActual
  <2>1. upc = "idle" /\ upc' = upc /\ ppc = "actual" /\ ppc' = "successor" /\ free' = free
    BY <1>0, <1>7 DEF ReadActual, cacheVars
  <2>2. ~FillCache /\ ~EndUpdate
    BY <2>1 DEF FillCache, EndUpdate
  <2>3. free = 0 \/ Len(queue) >= 3
    BY <1>5, <2>1, <2>2
  <2>4. Len(queue) >= 3 => Len(queue') >= 2
    <3>1. Len(queue) >= 3 => queue # <<>>
      OBVIOUS
    <3>2. queue # <<>> => queue' = Tail(queue)
      BY <1>7 DEF ReadActual
    <3> QED
      BY <1>1, <3>1, <3>2, FirstTaken
  <2> QED
    BY <2>1, <2>3, <2>4
<1>8. CASE ReadSuccessor
  <2>1. upc = "idle" /\ upc' = upc /\ ppc = "successor" /\ ppc' = "copy" /\ ~seek
    BY <1>0, <1>8 DEF ReadSuccessor, cacheVars, Control
  <2>2. ~FillCache /\ ~EndUpdate
    BY <2>1 DEF FillCache, EndUpdate
  <2>3. free = 0 \/ Len(queue) >= 2
    BY <1>5, <2>1, <2>2
  <2>4. autoRewind /\ AtFileEnds
    BY <1>4, <2>2
  <2>5. Low = 0
    BY <2>1, <2>4 DEF Low, Fresh, InOrder, AtEnd
  <2>6. memBuf = Undefined
    BY <2>4 DEF AtFileEnds, Mem
  <2>7. Len(queue) >= 2 /\ queue # <<>>
    BY <2>3, <2>5, <2>6, FullCache
  <2>8. queue' # <<>>
    <3>1. queue' = Tail(queue)
      BY <1>8, <2>7 DEF ReadSuccessor
    <3>2. Len(queue') >= 1
      BY <1>1, <2>7, <3>1, FirstTaken
    <3> QED
      BY <3>2
  <2> QED
    BY <2>1, <2>8
<1>9. CASE Open \/ Return \/ Send \/ NoCommand \/ Rewound \/ Stop
  <2>1. /\ upc' = upc /\ queue' = queue
        /\ ppc \notin {"actual", "successor"} /\ ppc' \notin {"actual", "successor"}
    BY <1>9 DEF Open, Return, Send, NoCommand, Rewound, Stop, ModuleOnly, cacheVars, sharedVars
  <2>2. ~FillCache /\ ~EndUpdate
    BY <1>0, <1>9 DEF Open, Return, Send, NoCommand, Rewound, Stop, FillCache, EndUpdate
  <2> QED
    BY <1>5, <2>1, <2>2
<1>10. CASE UNCHANGED vars
  <2>1. UNCHANGED <<images, autoRewind, recPos, memPos, recBuf, memBuf, queue, free, upc, ppc>>
    BY <1>10 DEF vars, config, cacheVars, sharedVars
  <2>2. AtFileEnds
    BY <2>1 DEF AtFileEnds, Rec, Mem, NextOf
  <2> QED
    BY <2>1, <2>2 DEF AloneAtEnds
<1>. QED
  BY <1>0, <1>2, <1>3, <1>6, <1>7, <1>8, <1>9, <1>10 DEF Next, CacheStep, PlayerStep

-----------------------------------------------------------------------------
(* The theorems. *)

\* Nothing has been read, queued or returned yet.
LEMMA InvInit ==
  ASSUME Init
  PROVE  ReplayInv
<1>1. TypeOK
  <2>1. /\ images \subseteq Containers /\ 0 \notin images
        /\ recPos = 0 /\ memPos = 0 /\ recBuf = 0 /\ memBuf = 0 /\ free \in 0..CacheSize
        /\ actual = 0 /\ successor = 0 /\ memory = 0 /\ played = 0
    BY Sizes DEF Init
  <2>2. /\ remote \in BOOLEAN /\ playing \in BOOLEAN /\ upc \in {"idle", "fill"}
        /\ ppc = "open" /\ autoRewind \in BOOLEAN /\ threading \in BOOLEAN
        /\ seek \in BOOLEAN /\ noMore \in BOOLEAN /\ doStep \in BOOLEAN
        /\ starved \in BOOLEAN /\ rewound \in BOOLEAN
    BY DEF Init
  <2>3. queue \in Seq(Containers) /\ bufOut \in Seq(images) /\ control \in Seq(Commands)
    BY DEF Init
  <2> QED
    BY <2>1, <2>2, <2>3, Sizes DEF TypeOK, Undefined
<1>2. Control
  BY DEF Init, Control
<1>3. Segments
  BY Sizes DEF Init, Segments
<1>4. InOrder
  <2>1. Buffers /\ MemoryMatches /\ AtEnd
    BY DEF Init, Buffers, MemoryMatches, AtEnd
  <2>2. ReadInOrder
    <3>1. MergedUpTo(0)
      BY DEF Init, MergedUpTo, Rec, Mem, RecFile, Last, Taken, Fresh, Undefined
    <3> QED
      BY <3>1, Sizes DEF ReadInOrder
  <2>3. QueueInOrder /\ InHand
    BY DEF Init, QueueInOrder, InHand, Fresh
  <2>4. SegmentsInOrder
    <3>1. Low = 1 /\ Len(queue) = 0 /\ Filed = 0 /\ memBuf = Undefined
      BY DEF Init, Low, Fresh, Filed
    <3>2. PICK place : place = [i \in 1..Filed |-> 0]
      OBVIOUS
    <3>3. place \in [1..Filed -> (0 - 1)..Len(queue)] /\ Placed(place)
      BY <3>1, <3>2 DEF Placed
    <3> QED
      BY <3>1, <3>3 DEF SegmentsInOrder
  <2> QED
    BY <2>1, <2>2, <2>3, <2>4 DEF InOrder
<1>5. Alone
  BY DEF Init, Alone
<1>6. AloneAtEnds
  <2>1. /\ recPos = 0 /\ memPos = 0 /\ recBuf = Undefined /\ memBuf = Undefined
        /\ images \subseteq Containers
    BY <1>1 DEF Init, TypeOK
  <2>2. /\ Rec = NextOf(RecFile, 0) /\ Mem = NextOf(images, 0)
    BY <2>1 DEF Rec, Mem, RecFile
  <2>3. 0 \in 0..N /\ 0 < N /\ 0 + 1 # Undefined
    BY Sizes
  <2>4. Rec # Undefined \/ Mem # Undefined
    BY <2>1, <2>2, <2>3, MergeStep
  <2> QED
    BY <2>4 DEF AloneAtEnds, AtFileEnds
<1>. QED
  BY <1>1, <1>2, <1>3, <1>4, <1>5, <1>6 DEF ReplayInv

\* Without a thread of its own the replay is always in order.
LEMMA AloneIntact ==
  ASSUME ReplayInv, ~threading
  PROVE  Intact /\ InOrder
BY DEF ReplayInv, Alone, Control, Intact

\* Every step keeps the invariant.
LEMMA InvStep ==
  ASSUME ReplayInv, [Next]_vars
  PROVE  ReplayInv'
<1>1. TypeOK /\ Control /\ Segments /\ Alone /\ AloneAtEnds
  BY DEF ReplayInv
<1>2. TypeOK' /\ Control' /\ Segments'
  BY <1>1, TypeStep, ControlStep, SegmentsStep
<1>3. Intact' => InOrder'
  BY <1>1, OrderStep DEF ReplayInv
<1>4. Alone' /\ AloneAtEnds'
  <2>1. CASE threading
    <3>1. threading'
      BY <2>1, NextSteps, QuietSteps DEF config, FillCache, EndUpdate, CacheOnly, ReadActual,
         ReadSuccessor, Return, Rewind, Rewound, ModuleOnly
    <3> QED
      BY <3>1 DEF Alone, AloneAtEnds
  <2>2. CASE ~threading
    BY <1>1, <2>2, AloneIntact, AloneStep, AloneAtEndsStep
  <2> QED
    BY <2>1, <2>2
<1>. QED
  BY <1>2, <1>3, <1>4 DEF ReplayInv

\* The invariant of a replay: the cache merges the files in order, the queue and
\* the containers in hand follow each other, every pending image has a segment
\* and the segments are in the order of the images.
THEOREM ReplayKept == Spec => []ReplayInv
<1>1. Init => ReplayInv
  BY InvInit
<1>2. ReplayInv /\ [Next]_vars => ReplayInv'
  BY InvStep
<1>. QED
  BY <1>1, <1>2, PTL DEF Spec

\* The positions, the buffers and the queues have their types.
THEOREM PlayerTyped == Spec => []TypeOK
<1>1. ReplayInv => TypeOK
  BY DEF ReplayInv
<1>. QED
  BY <1>1, ReplayKept, PTL

\* PlayerModule::body() sends an image while the shared memory holds its data.
THEOREM ReplayImagesMatch == Spec => []ImagesMatch
<1>1. ReplayInv => ImagesMatch
  BY DEF ReplayInv, InOrder, MemoryMatches, ImagesMatch
<1>. QED
  BY <1>1, ReplayKept, PTL

\* Without a thread getNextContainerToBeSent() finds what it reads in the cache,
\* or the recording is at its end.
THEOREM ReplayNeverStarvesAlone == Spec => []NeverStarvesAlone
<1>1. ReplayInv => NeverStarvesAlone
  BY AloneIntact DEF Intact, NeverStarvesAlone
<1>. QED
  BY <1>1, ReplayKept, PTL

\* body() returns by itself only after the last container.
THEOREM ReplayEndsAtTheEnd == Spec => []EndsAtTheEnd
<1>1. ReplayInv => EndsAtTheEnd
  <2> SUFFICES ASSUME ReplayInv, ppc = "ended", ~starved
               PROVE  played = N /\ ~autoRewind
    BY DEF EndsAtTheEnd
  <2>1. noMore /\ ~rewound
    BY DEF ReplayInv, Control
  <2> QED
    BY <2>1 DEF ReplayInv, Intact, InOrder, AtEnd
<1>. QED
  BY <1>1, ReplayKept, PTL

\* getNextContainerToBeSent() returns the containers in their order.
THEOREM ReplayInOrder == Spec => PlayedInOrder
<1> DEFINE OneAfterTheOther ==
      ppc = "copy" /\ ppc' = "send" /\ Intact =>
        played' = IF played < N THEN played + 1 ELSE IF autoRewind THEN 1 ELSE N
<1>1. ReplayInv /\ [Next]_vars => [OneAfterTheOther]_vars
  <2> SUFFICES ASSUME ReplayInv, Next, ppc = "copy", ppc' = "send", Intact
               PROVE  played' = IF played < N THEN played + 1 ELSE IF autoRewind THEN 1 ELSE N
    OBVIOUS
  <2>1. Return
    BY DEF Next, CacheStep, PlayerStep, StartUpdate, FillCache, EndUpdate, CacheOnly, Open, Cycle,
       ReadActual, ReadSuccessor, Send, NoCommand, PlayPauseStep, Command, Rewind, Rewound,
       ReceiveCommand, Stop
  <2>2. ~Fresh
    BY DEF ReplayInv, Control, Fresh
  <2>3. actual = Following(played)
    BY <2>2 DEF ReplayInv, InOrder, InHand
  <2> QED
    BY <2>1, <2>3 DEF Return, Following
<1>. QED
  BY <1>1, ReplayKept, PTL DEF Spec, PlayedInOrder
================================================================================
