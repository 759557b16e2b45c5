-------------------------------- MODULE Player --------------------------------
(***************************************************************************)
(* Replaying a recording: PlayerCache, whose thread reads the two files    *)
(* ahead and merges them by time stamp; Player, which hands out container  *)
(* after container, each image with its memory; and PlayerModule::body(),  *)
(* which sends them and obeys the commands of a remote control.            *)
(*                                                                         *)
(* The containers of a recording are numbered in the order of their time   *)
(* stamps; "images" are those in the .mem file, the others are in the .rec *)
(* file.                                                                   *)
(***************************************************************************)
EXTENDS Integers, Sequences, FiniteSets

CONSTANTS
  N,         \* containers in the recording
  Size,      \* the size of the cache asked for
  MaxQueued, \* bound: commands waiting for the module
  Commands   \* commands the remote control sends

\* A player with a thread waits until the cache holds two containers.
ASSUME PlayerAssumption ==
  /\ N \in Nat \ {0, 1} /\ Size \in Nat /\ MaxQueued \in Nat
  /\ Commands \subseteq {"play", "pause", "step", "rewind"}

VARIABLES
  images, autoRewind, remote, threading, \* the recording and the configuration
  upc,            \* updateCache(): "idle" or "fill", which holds m_modifyCacheMutex
  recPos, memPos, \* the container last read from either file
  recBuf, memBuf, \* m_recBuffer, m_memBuffer: read but younger than the other
  queue,          \* m_queue
  free, bufOut,   \* free segments; the images whose memory is in the others
  ppc,            \* where the player's thread is
  actual, successor, seek, noMore, \* Player's m_...
  playing, doStep, control, \* PlayerModule::body(), m_playerControl
  memory,         \* the shared memory: the image whose data it holds
  played,         \* history: the container returned last, since the beginning
  starved,        \* history: the cache was empty before the end of the recording
  rewound         \* history: rewound with a container read ahead in a buffer

config     == <<images, autoRewind, remote, threading>>
cacheVars  == <<upc, recPos, memPos, recBuf, memBuf>>
sharedVars == <<queue, free, bufOut>>
playerVars == <<actual, successor, seek, noMore, memory>>
moduleVars == <<playing, doStep, control>>
history    == <<played, starved, rewound>>
vars       == <<config, cacheVars, sharedVars, ppc, playerVars, moduleVars, history>>

Containers == 1..N
Undefined  == 0

\* Mutant of CacheSize: as asked for.
SizeAsAsked == Size

CacheSize == IF Size < 3 THEN 3 ELSE Size

TypeOK ==
  /\ images \subseteq Containers
  /\ autoRewind \in BOOLEAN /\ remote \in BOOLEAN /\ threading \in BOOLEAN
  /\ upc \in {"idle", "fill"}
  /\ recPos \in 0..N /\ recPos \notin images
  /\ recBuf \in 0..N /\ recBuf \notin images
  /\ memPos \in images \cup {0} /\ memBuf \in images \cup {Undefined}
  /\ queue \in Seq(Containers)
  /\ bufOut \in Seq(images) /\ free \in 0..CacheSize
  /\ ppc \in {"open", "loop", "actual", "successor", "copy", "send", "command",
              "rewinding", "ended", "stopped"}
  /\ actual \in 0..N /\ successor \in 0..N
  /\ seek \in BOOLEAN /\ noMore \in BOOLEAN
  /\ playing \in BOOLEAN /\ doStep \in BOOLEAN /\ control \in Seq(Commands)
  /\ memory \in images \cup {Undefined} /\ played \in 0..N
  /\ starved \in BOOLEAN /\ rewound \in BOOLEAN

Init ==
  /\ images \in SUBSET Containers
  /\ autoRewind \in BOOLEAN /\ threading \in BOOLEAN
  /\ remote \in (IF threading THEN BOOLEAN ELSE {FALSE})
  /\ upc = (IF threading THEN "idle" ELSE "fill")
  /\ recPos = 0 /\ memPos = 0 /\ recBuf = Undefined /\ memBuf = Undefined
  /\ queue = <<>> /\ bufOut = <<>> /\ free = CacheSize
  /\ ppc = "open"
  /\ actual = Undefined /\ successor = Undefined /\ memory = Undefined
  /\ seek = TRUE /\ noMore = FALSE
  /\ playing = ~remote /\ doStep = FALSE /\ control = <<>>
  /\ played = Undefined
  /\ starved = FALSE /\ rewound = FALSE

-----------------------------------------------------------------------------
(* PlayerCache. *)

CacheOnly == UNCHANGED <<config, ppc, playerVars, moduleVars, history>>

\* The next container of a file, Undefined at its end.
NextOf(file, pos) ==
  IF \E c \in file : c > pos
  THEN CHOOSE c \in file : c > pos /\ \A d \in file : d > pos => c <= d
  ELSE Undefined

Rec == IF recBuf # Undefined THEN recBuf ELSE NextOf(Containers \ images, recPos)
Mem == IF memBuf # Undefined THEN memBuf ELSE NextOf(images, memPos)

\* The loop of updateCache() is entered: the number of entries is read once.
MayFill == Len(queue) < CacheSize /\ free > 0

\* run(): the next cycle.
StartUpdate ==
  /\ threading /\ upc = "idle"
  /\ ppc \notin {"ended", "stopped"}
  /\ MayFill
  /\ upc' = "fill"
  /\ CacheOnly
  /\ UNCHANGED <<recPos, memPos, recBuf, memBuf, sharedVars>>

\* putRawMemoryDataIntoBuffer: the memory of an image just read takes a segment.
FillSegment ==
  IF memBuf = Undefined /\ Mem # Undefined
  THEN /\ bufOut' = Append(bufOut, Mem)
       /\ free' = free - 1
  ELSE UNCHANGED <<bufOut, free>>

\* Mutant of RecFirst: the other way round.
RecLast == Rec > Mem

\* The older container is queued, the younger one is kept.
RecFirst == Rec < Mem

\* fillCache, with a container left in at least one of the files.
FillCache ==
  /\ upc = "fill" /\ free > 0
  /\ Rec # Undefined \/ Mem # Undefined
  /\ FillSegment
  /\ recPos' = IF recBuf = Undefined /\ Rec # Undefined THEN Rec ELSE recPos
  /\ memPos' = IF memBuf = Undefined /\ Mem # Undefined THEN Mem ELSE memPos
  /\ LET takeRec == Mem = Undefined \/ (Rec # Undefined /\ RecFirst)
     IN  /\ queue' = Append(queue, IF takeRec THEN Rec ELSE Mem)
         /\ recBuf' = IF takeRec THEN Undefined ELSE Rec
         /\ memBuf' = IF takeRec THEN Mem ELSE Undefined
  /\ CacheOnly
  /\ UNCHANGED upc

\* Mutant of BackToStart: only the file with the regular containers.
RecToStart == recPos' = 0 /\ UNCHANGED memPos

\* rewindInputStreams
BackToStart == recPos' = 0 /\ memPos' = 0

\* The loop of updateCache() ends: no segment is free, or both files are read.
EndUpdate ==
  /\ upc = "fill"
  /\ upc' = "idle"
  /\ \/ /\ free = 0
        /\ UNCHANGED <<recPos, memPos>>
     \/ /\ free > 0 /\ Rec = Undefined /\ Mem = Undefined
        /\ IF autoRewind THEN BackToStart ELSE UNCHANGED <<recPos, memPos>>
  /\ CacheOnly
  /\ UNCHANGED <<recBuf, memBuf, sharedVars>>

-----------------------------------------------------------------------------
(* Player, called by PlayerModule::body(). *)

\* Without a thread of its own the cache is filled before it is read.
Filled == threading \/ upc = "idle"

\* Everything has been read and queued, and nothing comes after it.
AllRead == ~autoRewind /\ Rec = Undefined /\ Mem = Undefined

\* The constructor, and rewind() after it has cleared the cache, wait for two
\* containers.
Waited == IF threading THEN Len(queue) >= 2 ELSE upc = "idle"

Open ==
  /\ ppc = "open" /\ Waited
  /\ ppc' = "loop"
  /\ UNCHANGED <<config, cacheVars, sharedVars, playerVars, moduleVars, history>>

\* A cycle of body(); getNextContainerToBeSent() if it is playing.
Cycle ==
  /\ ppc = "loop"
  /\ ppc' = CASE ~playing -> "command" [] playing /\ seek -> "actual" [] OTHER -> "successor"
  /\ upc' = IF playing /\ ~threading /\ MayFill THEN "fill" ELSE upc
  /\ UNCHANGED <<config, recPos, memPos, recBuf, memBuf, sharedVars, playerVars,
                 moduleVars, history>>

\* At the beginning: read the actual container.
ReadActual ==
  /\ ppc = "actual" /\ Filled
  /\ IF queue # <<>>
     THEN actual' = Head(queue) /\ queue' = Tail(queue) /\ UNCHANGED starved
     ELSE starved' = TRUE /\ UNCHANGED <<actual, queue>>
  /\ seek' = FALSE
  /\ ppc' = "successor"
  /\ UNCHANGED <<config, cacheVars, free, bufOut, successor, noMore, memory,
                 moduleVars, played, rewound>>

\* While there are more containers, read the successor.
ReadSuccessor ==
  /\ ppc = "successor" /\ Filled
  /\ IF queue # <<>>
     THEN /\ successor' = Head(queue)
          /\ queue' = Tail(queue)
          /\ UNCHANGED <<noMore, starved>>
     ELSE /\ noMore' = TRUE
          /\ starved' = (starved \/ ~AllRead)
          /\ UNCHANGED <<successor, queue>>
  /\ ppc' = "copy"
  /\ UNCHANGED <<config, cacheVars, free, bufOut, actual, seek, memory,
                 moduleVars, played, rewound>>

\* Mutant of Copies: only when two images are cached.
CopiesLate == actual \in images /\ Len(bufOut) > 1

Copies == actual \in images /\ bufOut # <<>>

\* copyMemoryToSharedMemory; the actual container is returned and the successor
\* takes its place.
Return ==
  /\ ppc = "copy"
  /\ IF Copies
     THEN /\ memory' = Head(bufOut)
          /\ bufOut' = Tail(bufOut)
          /\ free' = free + 1
     ELSE UNCHANGED <<memory, bufOut, free>>
  /\ played' = actual
  /\ actual' = successor
  /\ ppc' = "send"
  /\ UNCHANGED <<config, cacheVars, queue, successor, seek, noMore, moduleVars,
                 starved, rewound>>

-----------------------------------------------------------------------------
(* PlayerModule. *)

ModuleOnly == UNCHANGED <<config, cacheVars, sharedVars, actual, successor, memory>>

\* The container is sent only if no command is waiting.
Sends == played # Undefined /\ (~remote \/ control = <<>>)

\* A step ends here.
Send ==
  /\ ppc = "send"
  /\ playing' = (playing /\ ~doStep)
  /\ doStep' = FALSE
  /\ ppc' = "command"
  /\ ModuleOnly
  /\ UNCHANGED <<seek, noMore, control, played, starved, rewound>>

\* Mutant of Finished: as soon as everything has been read.
FinishedReading == ~remote /\ AllRead /\ queue = <<>>

\* Mutant of Finished: only while the cache holds containers.
FinishedEarly == ~remote /\ noMore /\ queue # <<>>

\* If replaying is finished, exit.
Finished == ~remote /\ noMore

\* No command: the cycle ends.
NoCommand ==
  /\ ppc = "command" /\ control = <<>>
  /\ ppc' = IF Finished THEN "ended" ELSE "loop"
  /\ ModuleOnly
  /\ UNCHANGED <<seek, noMore, moduleVars, history>>

Command(c) ==
  /\ ppc = "command" /\ control # <<>> /\ Head(control) = c
  /\ control' = Tail(control)

PlayPauseStep ==
  /\ \E c \in Commands \ {"rewind"} :
       /\ Command(c)
       /\ playing' = (c # "pause")
       /\ doStep' = (c = "step")
  /\ ppc' = "loop"
  /\ ModuleOnly
  /\ UNCHANGED <<seek, noMore, history>>

\* All segments become free.
Reclaim == free' = free + Len(bufOut) /\ bufOut' = <<>>

\* Player::rewind, clearQueueRewindInputStreams: it waits for m_modifyCacheMutex.
Rewind ==
  /\ Command("rewind") /\ upc = "idle"
  /\ queue' = <<>>
  /\ Reclaim
  /\ BackToStart
  /\ rewound' = (rewound \/ recBuf # Undefined \/ memBuf # Undefined)
  /\ upc' = (IF threading THEN "idle" ELSE "fill")
  /\ ppc' = "rewinding"
  /\ UNCHANGED <<config, recBuf, memBuf, playerVars, playing, doStep,
                 played, starved>>

Rewound ==
  /\ ppc = "rewinding" /\ Waited
  /\ seek' = TRUE
  /\ noMore' = FALSE
  /\ playing' = FALSE
  /\ ppc' = "loop"
  /\ played' = Undefined
  /\ ModuleOnly
  /\ UNCHANGED <<doStep, control, starved, rewound>>

\* The conference's thread enters a command.
ReceiveCommand ==
  /\ remote /\ Len(control) < MaxQueued
  /\ \E c \in Commands : control' = Append(control, c)
  /\ ppc \notin {"ended", "stopped"}
  /\ UNCHANGED <<config, cacheVars, sharedVars, ppc, playerVars, playing, doStep,
                 history>>

\* The module is not RUNNING any more.
Stop ==
  /\ ppc = "loop"
  /\ ppc' = "stopped"
  /\ UNCHANGED <<config, cacheVars, sharedVars, playerVars, moduleVars, history>>

-----------------------------------------------------------------------------

CacheStep == StartUpdate \/ FillCache \/ EndUpdate

PlayerStep ==
  \/ Open \/ Cycle \/ ReadActual \/ ReadSuccessor \/ Return \/ Send \/ NoCommand
  \/ PlayPauseStep \/ Rewind \/ Rewound

Next == CacheStep \/ PlayerStep \/ ReceiveCommand \/ Stop

Spec == Init /\ [][Next]_vars

\* Both threads are scheduled; the player's waits for a mutex that the cache's
\* gives back, and sleeps without, in every cycle.  No command has to come.
FairSpec == Spec /\ WF_vars(CacheStep) /\ WF_vars(PlayerStep) /\ SF_vars(Rewind)

-----------------------------------------------------------------------------

\* The cache kept pace with the player, and nothing had been read ahead when
\* the player was rewound.
Intact == ~starved /\ ~rewound

\* An image is sent while the shared memory holds its own data.
ImagesMatch ==
  ppc = "send" /\ Sends /\ Intact /\ played \in images => memory = played

\* Containers are returned in the order of their time stamps, from the first
\* one after a rewind, and none is left out or repeated; at the end of the
\* recording the last is repeated, or the first follows.
PlayedInOrder ==
  [][ppc = "copy" /\ ppc' = "send" /\ Intact =>
       played' = IF played < N THEN played + 1 ELSE IF autoRewind THEN 1 ELSE N]_vars

\* Without a thread of its own the cache never runs empty before the end of
\* the recording: three segments are enough.
NeverStarvesAlone == ~threading => ~starved

\* A replay that ends by itself has played everything, unless the cache did
\* not keep pace.
EndsAtTheEnd == ppc = "ended" => starved \/ (played = N /\ ~autoRewind)

\* A replay without rewinding comes to its end.
ReplayEnds == [](~remote /\ ~autoRewind => <>(ppc \in {"ended", "stopped"}))

\* A rewind is done once the cache has been filled again.
RewindReturns == ppc = "rewinding" ~> ppc = "loop"

-----------------------------------------------------------------------------
(* What comments of the program say, and the code does not do. *)

\* Player::rewind: this method restarts the player.  So the first container
\* that is returned after it is the first one of the recording.
RewindRestarts ==
  [][ppc = "copy" /\ ppc' = "send" /\ ~starved /\ played = Undefined
       => played' = 1]_vars
================================================================================
