------------------------------- MODULE Recorder -------------------------------
(***************************************************************************)
(* Recording: the conference's thread, which hands every container to the  *)
(* recorder's FIFO queue and those that describe shared memory also to     *)
(* SharedDataListener; RecorderModule::body(), which writes the queue to   *)
(* the file; and SharedDataWriter, whose thread writes copies of shared    *)
(* memory.  A fixed number of memory segments goes round between listener  *)
(* (m_bufferIn: free) and writer (m_bufferOut: filled).                    *)
(*                                                                         *)
(* Without threading (an embedded recorder, fed by Recorder::store) one    *)
(* thread does it all.                                                     *)
(***************************************************************************)
EXTENDS Integers, Sequences

CONSTANTS
  NSegments,  \* number of memory segments
  MaxReceived \* bound: containers received

ASSUME RecorderAssumption == NSegments \in Nat /\ MaxReceived \in Nat

Segments == 0..(NSegments - 1)
None     == -1

\* "large" stands for shared memory that is not copied: it cannot be attached,
\* or is not smaller than a segment.
Commands   == {"record", "stop"}
Kinds      == {"regular", "shared", "large"} \cup Commands
Containers == [no : Nat, kind : Kinds]

VARIABLES
  threading, remote, \* configuration: a writer thread, control by commands
  mpc,       \* where body(), or the destructor after it, is
  left,      \* entries recordQueueEntries() has still to write
  recording, \* body(): commanded to record
  command,   \* the last command in the key/value data store
  cpc, cont, \* where the conference's thread is, and the container it handles
  held,      \* the segment SharedDataListener has taken
  wpc, work, \* where recordEntries() is, and the entry it writes
  stopped,   \* the writer's service was told to stop
  fifo, bufIn, bufOut, \* the queues; an entry of bufOut: segment and header
  mem,       \* mem[s]: what was copied to segment s, as its container's number
  good,      \* the stream of the .mem file is good
  dropped,   \* m_droppedSharedMemories
  log, out,  \* the two files: numbers of containers; headers with data
  received,  \* history: containers received
  accepted,  \* history: containers whose memory was queued for writing
  lost,      \* history: segments that were taken and not queued
  discarded, \* history: regular containers removed from the queue unwritten
  entered,   \* history: regular containers entered into the queue
  due        \* history: what was entered when body() ended (log), and how much
             \* was accepted when the writer was stopped (out)

config   == <<threading, remote>>
bodyVars == <<left, recording, due>>
confVars == <<cont, held, dropped, received>>
workVars == <<work, stopped, out>>
fifoVars == <<fifo, log, discarded, entered>>
poolVars == <<bufIn, bufOut, mem, lost, accepted>>
vars     == <<config, mpc, cpc, wpc, command, good, bodyVars, confVars, workVars, fifoVars,
              poolVars>>

Entries == [seg : Segments, head : Nat]
NoEntry == [seg |-> None, head |-> 0]

ControlType ==
  /\ threading \in BOOLEAN /\ remote \in BOOLEAN /\ good \in BOOLEAN
  /\ mpc \in {"loop", "record", "command", "clear", "drain", "stop", "flush", "gone"}
  /\ cpc \in {"idle", "add", "copy", "enter", "put", "write", "undefined"}
  /\ wpc \in {"check", "look", "write", "give", "ended"}
  /\ command \in Commands \cup {"none"}

BodyType ==
  left \in Nat /\ recording \in BOOLEAN /\ due \in [log : SUBSET Nat, out : Nat]

ConferenceType ==
  cont \in Containers /\ held \in Segments \cup {None} /\ dropped \in Nat /\ received \in Nat

WriterType ==
  /\ work \in Entries \cup {NoEntry} /\ stopped \in BOOLEAN
  /\ out \in Seq([head : Nat, data : Nat])

FifoType ==
  /\ fifo \in Seq(Containers) /\ log \in Seq(Nat)
  /\ discarded \subseteq Nat /\ entered \subseteq Nat

PoolType ==
  /\ bufIn \in Seq(Segments) /\ bufOut \in Seq(Entries) /\ mem \in [Segments -> Nat]
  /\ lost \subseteq Segments /\ accepted \in Seq(Nat)

TypeOK ==
  ControlType /\ BodyType /\ ConferenceType /\ WriterType /\ FifoType /\ PoolType

\* Numbered from 0, in the order in which they are queued.
NewSegments == [i \in 1..NSegments |-> i - 1]

Init ==
  /\ threading \in BOOLEAN
  /\ remote \in (IF threading THEN BOOLEAN ELSE {FALSE})
  /\ mpc = "loop" /\ left = 0 /\ recording = ~remote /\ command = "none"
  /\ cpc = "idle" /\ cont = [no |-> 0, kind |-> "regular"] /\ held = None
  /\ wpc = (IF threading THEN "check" ELSE "ended")
  /\ work = NoEntry /\ stopped = FALSE
  /\ fifo = <<>> /\ bufOut = <<>>
  /\ bufIn = NewSegments
  /\ mem = [s \in Segments |-> 0]
  /\ good = TRUE
  /\ dropped = 0 /\ log = <<>> /\ out = <<>>
  /\ received = 0 /\ accepted = <<>> /\ lost = {} /\ discarded = {}
  /\ entered = {} /\ due = [log |-> {}, out |-> 0]

-----------------------------------------------------------------------------
(* The conference's thread. *)

\* The recorder's queues exist.
Alive == mpc # "gone"

ConferenceOnly == UNCHANGED <<config, mpc, good, bodyVars, workVars>>

\* The next container is handled.
Arrives(kind) ==
  /\ cpc = "idle" /\ received < MaxReceived
  /\ received' = received + 1
  /\ cont' = [no |-> received + 1, kind |-> kind]
  /\ entered' = entered \cup (IF kind = "regular" THEN {received + 1} ELSE {})

\* nextContainer: every container is entered into the FIFO queue; then those of
\* shared memory are added to the listener, and all are put under their type.
Receive(kind) ==
  /\ threading /\ Alive
  /\ kind \in Commands => remote
  /\ Arrives(kind)
  /\ fifo' = Append(fifo, cont')
  /\ cpc' = CASE kind \in {"shared", "large"} -> "add"
              [] kind \in Commands            -> "put"
              [] OTHER                        -> "idle"
  /\ ConferenceOnly
  /\ UNCHANGED <<wpc, command, held, dropped, log, discarded, poolVars>>

PutCommand ==
  /\ Alive /\ cpc = "put"
  /\ command' = cont.kind
  /\ cpc' = "idle"
  /\ ConferenceOnly
  /\ UNCHANGED <<wpc, confVars, fifoVars, poolVars>>

\* Recorder::store in the thread of the caller.  The queue is empty before, so
\* recordQueueEntries() writes this container.
Store(kind) ==
  /\ ~threading /\ mpc = "loop"
  /\ kind \notin Commands
  /\ Arrives(kind)
  /\ IF kind = "regular"
     THEN log' = Append(log, received + 1) /\ UNCHANGED cpc
     ELSE cpc' = "add" /\ UNCHANGED log
  /\ ConferenceOnly
  /\ UNCHANGED <<wpc, command, held, dropped, fifo, discarded, poolVars>>

\* add() is done; without threading it calls recordEntries() itself.
Added ==
  IF threading
  THEN cpc' = "idle" /\ UNCHANGED wpc
  ELSE cpc' = "write" /\ wpc' = "look"

\* copySharedMemoryToMemorySegment: no free segment, ...
DropContainer ==
  /\ Alive /\ cpc = "add"
  /\ bufIn = <<>>
  /\ dropped' = dropped + 1
  /\ Added
  /\ ConferenceOnly
  /\ UNCHANGED <<command, cont, held, received, fifoVars, poolVars>>

\* ... or the next usable one is taken, ...
TakeSegment ==
  /\ Alive /\ cpc = "add"
  /\ bufIn # <<>>
  /\ held' = Head(bufIn)
  /\ bufIn' = Tail(bufIn)
  /\ cpc' = "copy"
  /\ ConferenceOnly
  /\ UNCHANGED <<wpc, command, cont, dropped, received, fifoVars, bufOut, mem,
                 lost, accepted>>

\* ... filled from the shared memory, ...
CopyMemory ==
  /\ Alive /\ cpc = "copy"
  /\ cont.kind = "shared"
  /\ mem' = [mem EXCEPT ![held] = cont.no]
  /\ cpc' = "enter"
  /\ ConferenceOnly
  /\ UNCHANGED <<wpc, command, confVars, fifoVars, bufIn, bufOut, lost, accepted>>

\* ... or, if that is not possible, forgotten; ...
CopyFails ==
  /\ Alive /\ cpc = "copy"
  /\ cont.kind = "large"
  /\ lost' = lost \cup {held}
  /\ held' = None
  /\ dropped' = dropped + 1
  /\ Added
  /\ ConferenceOnly
  /\ UNCHANGED <<command, cont, received, fifoVars, bufIn, bufOut, mem, accepted>>

\* ... and a filled one is queued for the writer.
EnterSegment ==
  /\ Alive /\ cpc = "enter"
  /\ bufOut' = Append(bufOut, [seg |-> held, head |-> cont.no])
  /\ accepted' = Append(accepted, cont.no)
  /\ held' = None
  /\ Added
  /\ ConferenceOnly
  /\ UNCHANGED <<command, cont, dropped, received, fifoVars, bufIn, mem, lost>>

\* body() has returned and the recorder is destroyed, but its data stores are
\* still registered: from here on the thread works on freed memory.
UseAfterEnd ==
  /\ ~Alive /\ threading
  /\ cpc # "undefined"
  /\ cpc' = "undefined"
  /\ ConferenceOnly
  /\ UNCHANGED <<wpc, command, confVars, fifoVars, poolVars>>

-----------------------------------------------------------------------------
(* SharedDataWriter::recordEntries, in its own thread, in the thread that    *)
(* calls add(), or in the destructor.                                        *)

WriterOnly == UNCHANGED <<config, command, good, bodyVars, confVars, stopped,
                          fifoVars, mem, lost, accepted>>

\* Mutant of Running: the service goes on while it has free segments.
RunWhileFree == ~stopped \/ bufIn # <<>>

Running == ~stopped

\* run(): the next cycle, or the end.
Cycle ==
  /\ wpc = "check"
  /\ wpc' = IF Running THEN "look" ELSE "ended"
  /\ WriterOnly
  /\ UNCHANGED <<mpc, cpc, work, out, bufIn, bufOut>>

\* Mutant of Unwritten: the last entry is kept back.
SeveralUnwritten == Len(bufOut) > 1

Unwritten == bufOut # <<>>

\* Mutant of TakeEntry: the segment is given back before it is written.
FreeOnTaking ==
  /\ wpc = "look" /\ Unwritten /\ good
  /\ work' = Head(bufOut)
  /\ bufOut' = Tail(bufOut)
  /\ bufIn' = Append(bufIn, Head(bufOut).seg)
  /\ wpc' = "write"
  /\ WriterOnly
  /\ UNCHANGED <<mpc, cpc, out>>

\* While the stream is not good, the loop only sleeps.
TakeEntry ==
  /\ wpc = "look" /\ Unwritten /\ good
  /\ work' = Head(bufOut)
  /\ bufOut' = Tail(bufOut)
  /\ wpc' = "write"
  /\ WriterOnly
  /\ UNCHANGED <<mpc, cpc, out, bufIn>>

\* Mutant of Image: under the header of the latest container.
ImageOfLatest == [head |-> cont.no, data |-> mem[work.seg]]

\* A header, and the memory that is written after it.
Image == [head |-> work.head, data |-> mem[work.seg]]

\* A stream that has failed swallows what is written.
WriteEntry ==
  /\ wpc = "write"
  /\ out' = IF good THEN Append(out, Image) ELSE out
  /\ wpc' = "give"
  /\ WriterOnly
  /\ UNCHANGED <<mpc, cpc, work, bufIn, bufOut>>

\* Mutant of Freed: the segment is not given back.
NotFreed == bufIn

Freed == Append(bufIn, work.seg)

FreeSegment ==
  /\ wpc = "give"
  /\ bufIn' = Freed
  /\ work' = NoEntry
  /\ wpc' = "look"
  /\ WriterOnly
  /\ UNCHANGED <<mpc, cpc, out, bufOut>>

\* recordEntries() returns to whoever called it.
EntriesDone ==
  /\ wpc = "look" /\ ~Unwritten
  /\ wpc' = IF threading /\ mpc # "flush" THEN "check" ELSE "ended"
  /\ cpc' = IF cpc = "write" THEN "idle" ELSE cpc
  /\ mpc' = IF mpc = "flush" THEN "gone" ELSE mpc
  /\ WriterOnly
  /\ UNCHANGED <<work, out, bufIn, bufOut>>

\* The disk is full, or gone.
StreamFails ==
  /\ good
  /\ good' = FALSE
  /\ UNCHANGED <<config, mpc, cpc, wpc, command, bodyVars, confVars, workVars,
                 fifoVars, poolVars>>

-----------------------------------------------------------------------------
(* RecorderModule::body and Recorder's destructor. *)

BodyOnly == UNCHANGED <<config, cpc, command, good, confVars, work, out, poolVars>>

\* Mutant of QueueSize: counted from 0.
LastIndex == IF fifo = <<>> THEN 0 ELSE Len(fifo) - 1

QueueSize == Len(fifo)

\* A cycle of body() while the module is RUNNING.
BodyCycle ==
  /\ threading /\ mpc = "loop"
  /\ mpc' = IF recording THEN "record" ELSE "command"
  /\ left' = IF recording THEN QueueSize ELSE 0
  /\ BodyOnly
  /\ UNCHANGED <<wpc, recording, due, stopped, fifoVars>>

\* recordQueueEntries: as many entries as the queue had when it was asked.
RecordEntry ==
  /\ mpc \in {"record", "drain"} /\ left > 0
  /\ left' = left - 1
  /\ fifo' = Tail(fifo)
  /\ log' = IF Head(fifo).kind = "regular" THEN Append(log, Head(fifo).no) ELSE log
  /\ BodyOnly
  /\ UNCHANGED <<mpc, wpc, recording, due, stopped, discarded, entered>>

Recorded ==
  /\ mpc = "record" /\ left = 0
  /\ mpc' = "command"
  /\ BodyOnly
  /\ UNCHANGED <<wpc, bodyVars, stopped, fifoVars>>

\* kvds.get(RECORDER_COMMAND)
ObeyCommand ==
  /\ mpc = "command"
  /\ recording' = IF command = "none" THEN recording ELSE command = "record"
  /\ mpc' = IF recording' THEN "loop" ELSE "clear"
  /\ BodyOnly
  /\ UNCHANGED <<wpc, left, due, stopped, fifoVars>>

\* Not recording: discard existing entries.
ClearQueue ==
  /\ mpc = "clear"
  /\ discarded' = discarded \cup {fifo[i].no : i \in 1..Len(fifo)}
  /\ fifo' = <<>>
  /\ mpc' = "loop"
  /\ BodyOnly
  /\ UNCHANGED <<wpc, bodyVars, stopped, log, entered>>

\* The module is stopped: body() returns, the destructor writes what is left.
EndRecording ==
  /\ mpc = "loop"
  /\ threading \/ cpc = "idle"
  /\ mpc' = "drain"
  /\ left' = QueueSize
  /\ due' = [due EXCEPT !.log = entered]
  /\ BodyOnly
  /\ UNCHANGED <<wpc, recording, stopped, fifoVars>>

\* ~SharedDataListener stops the writer's service ...
StopWriter ==
  /\ mpc = "drain" /\ left = 0
  /\ stopped' = TRUE
  /\ mpc' = "stop"
  /\ due' = [due EXCEPT !.out = Len(accepted)]
  /\ BodyOnly
  /\ UNCHANGED <<wpc, left, recording, fifoVars>>

\* ... and after the join deletes it: its destructor writes the queue once more.
DeleteWriter ==
  /\ mpc = "stop" /\ wpc = "ended"
  /\ mpc' = "flush"
  /\ wpc' = "look"
  /\ BodyOnly
  /\ UNCHANGED <<bodyVars, stopped, fifoVars>>

-----------------------------------------------------------------------------

Conference ==
  \/ \E kind \in Kinds : Receive(kind) \/ Store(kind)
  \/ PutCommand \/ DropContainer \/ TakeSegment \/ CopyMemory \/ CopyFails
  \/ EnterSegment \/ UseAfterEnd

Writer == Cycle \/ TakeEntry \/ WriteEntry \/ FreeSegment \/ EntriesDone

Body ==
  \/ BodyCycle \/ RecordEntry \/ Recorded \/ ObeyCommand \/ ClearQueue
  \/ StopWriter \/ DeleteWriter

Next == Conference \/ Writer \/ Body \/ EndRecording \/ StreamFails

Spec == Init /\ [][Next]_vars

\* The writer's thread and the module's thread are scheduled; no container has to
\* come, nobody has to stop the module, the stream need not fail.
FairSpec == Spec /\ WF_vars(Writer) /\ WF_vars(Body)

-----------------------------------------------------------------------------
(* The segments. *)

\* A segment is free, with the listener, queued, with the writer, or lost: taken
\* for a memory that could not be copied, and never given back.
NoneMissing ==
  \A s \in Segments :
    \/ s \in {held, work.seg} \cup lost
    \/ \E i \in 1..Len(bufIn) : bufIn[i] = s
    \/ \E i \in 1..Len(bufOut) : bufOut[i].seg = s

NoneTwice ==
  /\ \A i, j \in 1..Len(bufIn) : bufIn[i] = bufIn[j] => i = j
  /\ \A i, j \in 1..Len(bufOut) : bufOut[i].seg = bufOut[j].seg => i = j
  /\ \A i \in 1..Len(bufIn) :
       /\ bufIn[i] \notin {held, work.seg} \cup lost
       /\ \A j \in 1..Len(bufOut) : bufIn[i] # bufOut[j].seg
  /\ \A i \in 1..Len(bufOut) : bufOut[i].seg \notin {held, work.seg} \cup lost
  /\ held = work.seg => held = None
  /\ held \notin lost /\ work.seg \notin lost

\* However listener and writer interleave, every memory segment is in one place.
SegmentsInOnePlace == NoneMissing /\ NoneTwice

\* The file is in the order of what was accepted, each memory under its own
\* header and never overwritten by a later one while its segment waits.
RL == INSTANCE RecordLog WITH Numbers <- 1..MaxReceived, written <- out

RefinesRecordLog == RL!Spec

-----------------------------------------------------------------------------
(* The end of a recording. *)

Logged(n) == \E i \in 1..Len(log) : log[i] = n

\* When the recorder is gone, all that was accepted before its writer was
\* stopped is in the file (unless the stream failed), and every regular
\* container that arrived before body() ended was written or discarded.
EndComplete ==
  mpc = "gone" =>
    /\ good => Len(out) >= due.out
    /\ \A n \in due.log : n \in discarded \/ Logged(n)

Queued(n, last) == \E i \in 1..last : fifo[i] = [no |-> n, kind |-> "regular"]

\* What was entered is written, discarded or queued; the destructor knows how many
\* entries of the queue are still due, and the writer what was accepted.
Owed ==
  /\ mpc \in {"record", "drain"} => left <= Len(fifo)
  /\ \A n \in entered : n \in discarded \/ Logged(n) \/ Queued(n, Len(fifo))
  /\ mpc = "drain" => \A n \in due.log : n \in discarded \/ Logged(n) \/ Queued(n, left)
  /\ mpc \in {"stop", "flush", "gone"} =>
       /\ \A n \in due.log : n \in discarded \/ Logged(n)
       /\ due.out <= Len(accepted)

\* Who has a segment in hand, and that without threading there is one thread.
InHand ==
  /\ cpc \in {"copy", "enter"} => held # None
  /\ held # None => cpc \in {"copy", "enter", "undefined"}
  /\ work # NoEntry <=> wpc \in {"write", "give"}
  /\ cpc \in {"add", "copy", "enter"} => cont.no \in 1..MaxReceived
  /\ cpc = "put" => cont.kind \in Commands
  /\ ~threading =>
       /\ wpc # "ended" => cpc = "write" \/ mpc = "flush"
       /\ mpc # "loop" => cpc = "idle"

\* The entries that were taken from bufOut and written, or are about to be.
Taken == Len(out) + (IF wpc = "write" THEN 1 ELSE 0)

\* What is queued continues what is in the file, and every segment that is queued
\* holds the memory of its header.
FileContinues ==
  /\ good =>
       /\ Len(accepted) = Taken + Len(bufOut)
       /\ wpc = "write" => accepted[Taken] = work.head
       /\ \A i \in 1..Len(bufOut) : bufOut[i].head = accepted[Taken + i]
  /\ cpc = "enter" => mem[held] = cont.no
  /\ wpc = "write" => mem[work.seg] = work.head
  /\ \A i \in 1..Len(bufOut) : mem[bufOut[i].seg] = bufOut[i].head

\* Inductive: types, segments, the order of the file and what is owed at the end.
RecordingInv ==
  TypeOK /\ InHand /\ SegmentsInOnePlace /\ FileContinues /\ Owed /\ EndComplete

\* A recording that ends comes to its end, unless the stream fails.
RecordingEnds == mpc = "drain" ~> mpc = "gone" \/ ~good

\* What is accepted is written, unless the stream fails or the recording ends.
AcceptedIsWritten ==
  \A k \in 1..MaxReceived :
    Len(accepted) >= k ~> Len(out) >= k \/ ~good \/ mpc = "gone"

-----------------------------------------------------------------------------
(* What comments of the program say, and the code does not do. *)

\* RecorderModule::body discards existing entries while it is not recording: so
\* a remotely controlled recorder that was never told to record has written
\* nothing.
RecordsOnCommand == remote /\ command = "none" => log = <<>> /\ out = <<>>
================================================================================
