----------------------------- MODULE Recorder_proofs -----------------------------
(***************************************************************************)
(* What a recording keeps for any number of memory segments and containers *)
(* and in every configuration: the segments stay apart, the file implements*)
(* RecordLog, and what is owed at the end is written.                      *)
(***************************************************************************)
EXTENDS Recorder, TLAPS

-----------------------------------------------------------------------------
(* Sequences, segments and entries. *)

LEMMA Appended ==
  ASSUME NEW S, NEW s \in Seq(S), NEW e \in S
  PROVE  /\ Append(s, e) \in Seq(S) /\ Len(Append(s, e)) = Len(s) + 1
         /\ Append(s, e)[Len(s) + 1] = e
         /\ \A i \in 1..Len(s) : Append(s, e)[i] = s[i]
         /\ Len(s) \in Nat
OBVIOUS

LEMMA FirstTaken ==
  ASSUME NEW S, NEW s \in Seq(S), s # <<>>
  PROVE  /\ Head(s) = s[1] /\ Head(s) \in S /\ Tail(s) \in Seq(S)
         /\ Len(s) \in Nat \ {0} /\ Len(Tail(s)) = Len(s) - 1
         /\ \A i \in 1..Len(Tail(s)) : Tail(s)[i] = s[i + 1]
OBVIOUS

LEMMA EntryType ==
  /\ None \notin Segments
  /\ \A s \in Segments, n \in Nat : [seg |-> s, head |-> n] \in Entries
  /\ \A e \in Entries : e.seg \in Segments /\ e.head \in Nat /\ e # NoEntry
  /\ NoEntry.seg = None
BY DEF None, Segments, Entries, NoEntry

LEMMA Arrived ==
  ASSUME ConferenceType, NEW kind \in Kinds, Arrives(kind)
  PROVE  /\ cont' = [no |-> received + 1, kind |-> kind] /\ cont' \in Containers
         /\ cont'.no = received + 1 /\ cont'.kind = kind
         /\ cont'.no \in 1..MaxReceived /\ received' \in Nat
         /\ entered \subseteq Nat => entered' \subseteq Nat
         /\ \A n \in entered' : n \in entered \/ (n = received + 1 /\ kind = "regular")
BY RecorderAssumption DEF Arrives, ConferenceType, Containers

-----------------------------------------------------------------------------
(* The conference's thread. *)

LEMMA ReceiveKeeps ==
  ASSUME RecordingInv, NEW kind \in Kinds, Receive(kind)
  PROVE  RecordingInv'
<1> USE DEF RecordingInv, TypeOK, SegmentsInOnePlace, Receive, ConferenceOnly, Arrives,
        config, bodyVars, confVars, workVars, fifoVars, poolVars
<1> DEFINE new == [no |-> received + 1, kind |-> kind]
<1>a. /\ cont' = new /\ new \in Containers /\ new.no = received + 1 /\ new.kind = kind
      /\ received + 1 \in 1..MaxReceived /\ received + 1 \in Nat /\ entered' \subseteq Nat
      /\ \A n \in entered' : n \in entered \/ (n = received + 1 /\ kind = "regular")
  BY Arrived DEF FifoType
<1>b. /\ Append(fifo, new) \in Seq(Containers) /\ Len(Append(fifo, new)) = Len(fifo) + 1
      /\ Append(fifo, new)[Len(fifo) + 1] = new /\ Len(fifo) \in Nat
      /\ \A i \in 1..Len(fifo) : Append(fifo, new)[i] = fifo[i]
  BY <1>a, Appended DEF FifoType
<1>c. fifo' = Append(fifo, new)
  BY <1>a
<1> HIDE DEF new
<1>1. ControlType' /\ BodyType' /\ WriterType' /\ PoolType'
  BY DEF ControlType, BodyType, WriterType, PoolType
<1>2. ConferenceType'
  BY <1>a DEF ConferenceType
<1>3. FifoType'
  BY <1>a, <1>b, <1>c DEF FifoType
<1>4. InHand'
  BY <1>a DEF InHand, ControlType
<1>5. NoneMissing' /\ NoneTwice'
  BY DEF NoneMissing, NoneTwice
<1>6. FileContinues'
  BY DEF FileContinues, Taken
<1>7. EndComplete'
  BY DEF EndComplete, Logged
<1>8. Owed'
  <2>1. \A n, i : Queued(n, i) /\ i <= Len(fifo) /\ i \in Nat => Queued(n, i)'
    BY <1>b, <1>c DEF Queued
  <2>2. \A n : n = received + 1 /\ kind = "regular" => Queued(n, Len(fifo))'
    BY <1>b, <1>c DEF Queued, new
  <2>3. \A n : Queued(n, Len(fifo)) => Queued(n, Len(fifo))'
    BY <1>b, <1>c DEF Queued
  <2>4. UNCHANGED <<mpc, left, due, discarded, log, accepted>> /\ Len(fifo') = Len(fifo) + 1
    BY <1>b, <1>c
  <2>5. \A n : Logged(n)' <=> Logged(n)
    BY <2>4 DEF Logged
  <2>6. \A n \in entered' : n \in discarded \/ Logged(n) \/ Queued(n, Len(fifo))'
    BY <1>a, <2>2, <2>3 DEF Owed
  <2> QED BY <1>b, <2>1, <2>4, <2>5, <2>6 DEF Owed, BodyType
<1> QED BY <1>1, <1>2, <1>3, <1>4, <1>5, <1>6, <1>7, <1>8

LEMMA StoreKeeps ==
  ASSUME RecordingInv, NEW kind \in Kinds, Store(kind)
  PROVE  RecordingInv'
<1> USE DEF RecordingInv, TypeOK, SegmentsInOnePlace, Store, ConferenceOnly, Arrives,
        config, bodyVars, confVars, workVars, fifoVars, poolVars
<1>a. /\ cont' \in Containers /\ received + 1 \in Nat /\ cont'.no \in 1..MaxReceived
      /\ entered' \subseteq Nat
      /\ \A n \in entered' : n \in entered \/ (n = received + 1 /\ kind = "regular")
  BY Arrived DEF FifoType
<1>b. kind = "regular" =>
        /\ log' = Append(log, received + 1) /\ log' \in Seq(Nat)
        /\ Len(log') = Len(log) + 1 /\ log'[Len(log) + 1] = received + 1
        /\ \A i \in 1..Len(log) : log'[i] = log[i]
  <2>1. log \in Seq(Nat)
    BY DEF FifoType
  <2>2. /\ Append(log, received + 1) \in Seq(Nat)
        /\ Len(Append(log, received + 1)) = Len(log) + 1
        /\ Append(log, received + 1)[Len(log) + 1] = received + 1
        /\ \A i \in 1..Len(log) : Append(log, received + 1)[i] = log[i]
    BY <1>a, <2>1, Appended
  <2> QED BY <2>2
<1>c. Len(log) \in Nat
  BY DEF FifoType
<1>1. ControlType' /\ BodyType' /\ WriterType' /\ PoolType'
  BY DEF ControlType, BodyType, WriterType, PoolType
<1>2. ConferenceType'
  BY <1>a DEF ConferenceType
<1>3. FifoType'
  BY <1>a, <1>b DEF FifoType
<1>4. InHand'
  BY <1>a DEF InHand, ControlType
<1>5. NoneMissing' /\ NoneTwice'
  BY DEF NoneMissing, NoneTwice
<1>6. FileContinues'
  BY DEF FileContinues, Taken
<1>7. EndComplete'
  BY DEF EndComplete, Logged
<1>8. Owed'
  <2>1. \A n : Logged(n) => Logged(n)'
    BY <1>b, <1>c DEF Logged
  <2>2. \A n : n = received + 1 /\ kind = "regular" => Logged(n)'
    BY <1>b, <1>c DEF Logged
  <2>3. \A n, i : Queued(n, i)' <=> Queued(n, i)
    BY DEF Queued
  <2>4. UNCHANGED <<mpc, left, due, discarded, fifo, accepted>>
    OBVIOUS
  <2> QED BY <1>a, <2>1, <2>2, <2>3, <2>4 DEF Owed
<1> QED BY <1>1, <1>2, <1>3, <1>4, <1>5, <1>6, <1>7, <1>8

LEMMA PutCommandKeeps ==
  ASSUME RecordingInv, PutCommand
  PROVE  RecordingInv'
<1> USE DEF RecordingInv, TypeOK, SegmentsInOnePlace, PutCommand, ConferenceOnly, config,
        bodyVars, confVars, workVars, fifoVars, poolVars
<1>1. BodyType' /\ ConferenceType' /\ WriterType' /\ FifoType' /\ PoolType'
  BY DEF BodyType, ConferenceType, WriterType, FifoType, PoolType
<1>2. ControlType'
  BY DEF ControlType, InHand
<1>3. InHand'
  BY DEF InHand
<1>4. NoneMissing' /\ NoneTwice'
  BY DEF NoneMissing, NoneTwice
<1>5. FileContinues'
  BY DEF FileContinues, Taken
<1>6. Owed' /\ EndComplete'
  BY DEF Owed, Logged, Queued, EndComplete
<1> QED BY <1>1, <1>2, <1>3, <1>4, <1>5, <1>6

LEMMA DropContainerKeeps ==
  ASSUME RecordingInv, DropContainer
  PROVE  RecordingInv'
<1> USE DEF RecordingInv, TypeOK, SegmentsInOnePlace, DropContainer, ConferenceOnly, Added,
        config, bodyVars, confVars, workVars, fifoVars, poolVars
<1>1. /\ ControlType' /\ BodyType' /\ ConferenceType'
      /\ WriterType' /\ FifoType' /\ PoolType'
  BY DEF ControlType, BodyType, ConferenceType, WriterType, FifoType, PoolType
<1>2. InHand'
  BY DEF InHand
<1>3. NoneMissing' /\ NoneTwice'
  BY DEF NoneMissing, NoneTwice
<1>4. FileContinues'
  <2>1. /\ UNCHANGED <<good, out, accepted, bufOut, work, mem, held, cont>>
        /\ cpc' # "enter" /\ (wpc' = "write" <=> wpc = "write")
    BY DEF InHand
  <2> QED BY <2>1 DEF FileContinues, Taken
<1>5. Owed' /\ EndComplete'
  BY DEF Owed, Logged, Queued, EndComplete
<1> QED BY <1>1, <1>2, <1>3, <1>4, <1>5

LEMMA TakeSegmentKeeps ==
  ASSUME RecordingInv, TakeSegment
  PROVE  RecordingInv'
<1> USE DEF RecordingInv, TypeOK, SegmentsInOnePlace, TakeSegment, ConferenceOnly, config,
        bodyVars, confVars, workVars, fifoVars, poolVars
<1>a. /\ Head(bufIn) = bufIn[1] /\ Head(bufIn) \in Segments /\ Tail(bufIn) \in Seq(Segments)
      /\ Len(bufIn) \in Nat \ {0} /\ Len(Tail(bufIn)) = Len(bufIn) - 1
      /\ \A i \in 1..Len(Tail(bufIn)) : Tail(bufIn)[i] = bufIn[i + 1]
  BY FirstTaken DEF PoolType
<1>b. held = None /\ cpc = "add" /\ cpc' = "copy" /\ held' = bufIn[1] /\ bufIn' = Tail(bufIn)
  BY <1>a DEF InHand
<1>c. UNCHANGED <<wpc, work, bufOut, mem, lost, accepted, mpc, threading, cont>>
  OBVIOUS
<1>1. ControlType' /\ BodyType' /\ WriterType' /\ FifoType'
  BY DEF ControlType, BodyType, WriterType, FifoType
<1>2. ConferenceType'
  BY <1>a DEF ConferenceType
<1>3. PoolType'
  BY <1>a DEF PoolType
<1>4. InHand'
  BY <1>a, <1>b, <1>c, EntryType DEF InHand
<1>5. NoneMissing'
  <2> SUFFICES ASSUME NEW s \in Segments, s \notin {held', work.seg} \cup lost,
                      \A i \in 1..Len(bufOut) : bufOut[i].seg # s
               PROVE  \E i \in 1..Len(bufIn') : bufIn'[i] = s
    BY <1>c DEF NoneMissing
  <2>1. PICK i \in 1..Len(bufIn) : bufIn[i] = s
    BY <1>b, EntryType DEF NoneMissing
  <2>2. i - 1 \in 1..Len(bufIn') /\ bufIn'[i - 1] = s
    BY <1>a, <1>b, <2>1
  <2> QED BY <2>2
<1>6. NoneTwice'
  <2>1. \A i \in 1..Len(bufIn') :
          i + 1 \in 1..Len(bufIn) /\ bufIn'[i] = bufIn[i + 1] /\ bufIn'[i] # held'
    BY <1>a, <1>b DEF NoneTwice
  <2>2. /\ held' \notin lost /\ held' # work.seg /\ 1 \in 1..Len(bufIn)
        /\ \A i \in 1..Len(bufOut) : bufOut[i].seg # held'
    BY <1>a, <1>b DEF NoneTwice
  <2> QED BY <1>c, <2>1, <2>2 DEF NoneTwice
<1>7. FileContinues'
  BY DEF FileContinues, Taken
<1>8. Owed' /\ EndComplete'
  BY DEF Owed, Logged, Queued, EndComplete
<1> QED BY <1>1, <1>2, <1>3, <1>4, <1>5, <1>6, <1>7, <1>8

LEMMA CopyMemoryKeeps ==
  ASSUME RecordingInv, CopyMemory
  PROVE  RecordingInv'
<1> USE DEF RecordingInv, TypeOK, SegmentsInOnePlace, CopyMemory, ConferenceOnly, config,
        bodyVars, confVars, workVars, fifoVars, poolVars
<1>1. ControlType' /\ BodyType' /\ ConferenceType' /\ WriterType' /\ FifoType'
  BY DEF ControlType, BodyType, ConferenceType, WriterType, FifoType
<1>2. PoolType'
  <2>1. held \in Segments /\ cont.no \in Nat
    BY RecorderAssumption DEF InHand, ConferenceType
  <2> QED BY <2>1 DEF PoolType
<1>3. InHand'
  BY DEF InHand
<1>4. NoneMissing' /\ NoneTwice'
  BY DEF NoneMissing, NoneTwice
<1>5. FileContinues'
  <2>1. held \in Segments /\ held # None
    BY DEF InHand, ConferenceType
  <2>2. /\ wpc = "write" => work.seg # held
        /\ \A i \in 1..Len(bufOut) : bufOut[i].seg # held
    BY <2>1 DEF NoneTwice
  <2>3. mem'[held] = cont.no /\ \A s \in Segments : s # held => mem'[s] = mem[s]
    BY <2>1 DEF PoolType
  <2>4. wpc = "write" => work.seg \in Segments
    BY EntryType DEF WriterType, InHand
  <2>5. \A i \in 1..Len(bufOut) : bufOut[i].seg \in Segments
    BY EntryType DEF PoolType
  <2>6. UNCHANGED <<good, out, accepted, bufOut, work, wpc, held, cont>>
    OBVIOUS
  <2> QED BY <2>2, <2>3, <2>4, <2>5, <2>6 DEF FileContinues, Taken
<1>6. Owed' /\ EndComplete'
  BY DEF Owed, Logged, Queued, EndComplete
<1> QED BY <1>1, <1>2, <1>3, <1>4, <1>5, <1>6

LEMMA CopyFailsKeeps ==
  ASSUME RecordingInv, CopyFails
  PROVE  RecordingInv'
<1> USE DEF RecordingInv, TypeOK, SegmentsInOnePlace, CopyFails, ConferenceOnly, Added,
        config, bodyVars, confVars, workVars, fifoVars, poolVars
<1>1. ControlType' /\ BodyType' /\ ConferenceType' /\ WriterType' /\ FifoType'
  BY DEF ControlType, BodyType, ConferenceType, WriterType, FifoType
<1>2. PoolType'
  BY DEF PoolType, InHand, ConferenceType
<1>3. InHand'
  BY DEF InHand
<1>4. NoneMissing'
  <2>1. lost' = lost \cup {held} /\ UNCHANGED <<bufIn, bufOut, work>>
    OBVIOUS
  <2> QED BY <2>1 DEF NoneMissing
<1>5. NoneTwice'
  <2>1. held # None /\ None \notin lost
    BY EntryType DEF InHand, PoolType
  <2>2. \A i \in 1..Len(bufIn) : bufIn[i] # None
    BY EntryType DEF PoolType
  <2>3. \A i \in 1..Len(bufOut) : bufOut[i].seg # None
    BY EntryType DEF PoolType
  <2>4. lost' = lost \cup {held} /\ held' = None /\ UNCHANGED <<bufIn, bufOut, work>>
    OBVIOUS
  <2> QED BY <2>1, <2>2, <2>3, <2>4 DEF NoneTwice
<1>6. FileContinues'
  <2>1. /\ UNCHANGED <<good, out, accepted, bufOut, work, mem, cont>>
        /\ cpc' # "enter" /\ (wpc' = "write" <=> wpc = "write")
    BY DEF InHand
  <2> QED BY <2>1 DEF FileContinues, Taken
<1>7. Owed' /\ EndComplete'
  BY DEF Owed, Logged, Queued, EndComplete
<1> QED BY <1>1, <1>2, <1>3, <1>4, <1>5, <1>6, <1>7

LEMMA EnterSegmentKeeps ==
  ASSUME RecordingInv, EnterSegment
  PROVE  RecordingInv'
<1> USE DEF RecordingInv, TypeOK, SegmentsInOnePlace, EnterSegment, ConferenceOnly, Added,
        config, bodyVars, confVars, workVars, fifoVars, poolVars
<1> DEFINE new == [seg |-> held, head |-> cont.no]
<1>a. /\ held \in Segments /\ held # None /\ cont.no \in Nat /\ new \in Entries
      /\ new.seg = held /\ new.head = cont.no
  BY RecorderAssumption, EntryType DEF InHand, ConferenceType
<1>b. /\ Append(bufOut, new) \in Seq(Entries) /\ Len(Append(bufOut, new)) = Len(bufOut) + 1
      /\ Append(bufOut, new)[Len(bufOut) + 1] = new /\ Len(bufOut) \in Nat
      /\ \A i \in 1..Len(bufOut) : Append(bufOut, new)[i] = bufOut[i]
  <2>1. bufOut \in Seq(Entries)
    BY DEF PoolType
  <2> HIDE DEF new
  <2> QED BY <1>a, <2>1, Appended
<1>c. /\ Append(accepted, cont.no) \in Seq(Nat)
      /\ Len(Append(accepted, cont.no)) = Len(accepted) + 1
      /\ Append(accepted, cont.no)[Len(accepted) + 1] = cont.no /\ Len(accepted) \in Nat
      /\ \A i \in 1..Len(accepted) : Append(accepted, cont.no)[i] = accepted[i]
  <2>1. accepted \in Seq(Nat)
    BY DEF PoolType
  <2> QED BY <1>a, <2>1, Appended
<1>d. bufOut' = Append(bufOut, new) /\ accepted' = Append(accepted, cont.no) /\ held' = None
  OBVIOUS
<1>e. /\ UNCHANGED <<bufIn, work, lost, mem, out, good, threading, mpc, left, due, fifo, log,
                     discarded, entered, cont>>
      /\ wpc' = "write" <=> wpc = "write"
  BY DEF InHand
<1> HIDE DEF new
<1>1. ControlType' /\ BodyType' /\ ConferenceType' /\ WriterType' /\ FifoType'
  BY DEF ControlType, BodyType, ConferenceType, WriterType, FifoType
<1>2. PoolType'
  BY <1>b, <1>c, <1>d, <1>e DEF PoolType
<1>3. InHand'
  BY DEF InHand
<1>4. NoneMissing'
  <2>1. /\ \A i \in 1..Len(bufOut) : i \in 1..Len(bufOut') /\ bufOut'[i].seg = bufOut[i].seg
        /\ Len(bufOut) + 1 \in 1..Len(bufOut') /\ bufOut'[Len(bufOut) + 1].seg = held
    BY <1>a, <1>b, <1>d
  <2> QED BY <1>e, <2>1 DEF NoneMissing
<1>5. NoneTwice'
  <2>1. \A i \in 1..Len(bufOut') :
          \/ i \in 1..Len(bufOut) /\ bufOut'[i].seg = bufOut[i].seg
          \/ i = Len(bufOut) + 1 /\ bufOut'[i].seg = held
    BY <1>a, <1>b, <1>d
  <2>2. \A i \in 1..Len(bufOut) : bufOut[i].seg \notin {held, None, work.seg} \cup lost
    BY EntryType DEF NoneTwice, PoolType
  <2>3. held # work.seg /\ held \notin lost /\ None \notin lost /\ work.seg \notin lost
    BY <1>a, EntryType DEF NoneTwice, PoolType
  <2>4. \A i \in 1..Len(bufIn) :
          /\ bufIn[i] \notin {held, None, work.seg} \cup lost
          /\ \A j \in 1..Len(bufOut) : bufIn[i] # bufOut[j].seg
    BY EntryType DEF NoneTwice, PoolType
  <2>5. \A i, j \in 1..Len(bufOut) : bufOut[i].seg = bufOut[j].seg => i = j
    BY DEF NoneTwice
  <2>6. \A i, j \in 1..Len(bufOut') : bufOut'[i].seg = bufOut'[j].seg => i = j
    BY <2>1, <2>2, <2>5
  <2>7. \A i \in 1..Len(bufOut') : bufOut'[i].seg \notin {None, work.seg} \cup lost
    BY <1>a, <2>1, <2>2, <2>3
  <2>8. \A i \in 1..Len(bufIn), j \in 1..Len(bufOut') : bufIn[i] # bufOut'[j].seg
    BY <2>1, <2>4
  <2>9. \A i, j \in 1..Len(bufIn) : bufIn[i] = bufIn[j] => i = j
    BY DEF NoneTwice
  <2> QED BY <1>d, <1>e, <2>3, <2>4, <2>6, <2>7, <2>8, <2>9 DEF NoneTwice
<1>6. FileContinues'
  <2>1. Len(out) \in Nat
    BY DEF WriterType
  <2>2. Taken' = Taken /\ Taken \in Nat /\ (wpc = "write" => Taken > 0)
    BY <1>e, <2>1 DEF Taken
  <2>3. mem[held] = cont.no
    BY DEF FileContinues
  <2>4. ASSUME good'
        PROVE  /\ Len(accepted') = Taken' + Len(bufOut')
               /\ wpc' = "write" => accepted'[Taken'] = work'.head
               /\ \A i \in 1..Len(bufOut') : bufOut'[i].head = accepted'[Taken' + i]
    <3>0. good /\ work' = work /\ (wpc' = "write" <=> wpc = "write")
      BY <1>e, <2>4
    <3>1. Len(accepted) = Taken + Len(bufOut)
      BY <3>0 DEF FileContinues
    <3>2. wpc = "write" => accepted'[Taken] = work.head
      BY <1>b, <1>c, <1>d, <2>2, <3>0, <3>1 DEF FileContinues
    <3>3. ASSUME NEW i \in 1..Len(bufOut)
          PROVE  bufOut'[i].head = accepted'[Taken + i]
      <4>1. Taken + i \in 1..Len(accepted) /\ bufOut[i].head = accepted[Taken + i]
        BY <1>b, <2>2, <3>0, <3>1 DEF FileContinues
      <4> QED BY <1>b, <1>c, <1>d, <4>1
    <3>4. bufOut'[Len(bufOut) + 1].head = accepted'[Taken + (Len(bufOut) + 1)]
      <4>1. Taken + (Len(bufOut) + 1) = Len(accepted) + 1
        BY <1>b, <1>c, <2>2, <3>1
      <4> QED BY <1>a, <1>b, <1>c, <1>d, <4>1
    <3>5. Len(accepted') = Taken + Len(bufOut')
      BY <1>b, <1>c, <1>d, <2>2, <3>1
    <3>6. \A i \in 1..Len(bufOut') : i \in 1..Len(bufOut) \/ i = Len(bufOut) + 1
      BY <1>b, <1>d
    <3>7. \A i \in 1..Len(bufOut') : bufOut'[i].head = accepted'[Taken + i]
      BY <3>3, <3>4, <3>6
    <3> QED BY <2>2, <3>0, <3>2, <3>5, <3>7
  <2>5. \A i \in 1..Len(bufOut') : mem[bufOut'[i].seg] = bufOut'[i].head
    BY <1>a, <1>b, <1>d, <2>3 DEF FileContinues
  <2>6. (wpc' = "write" => mem[work.seg] = work.head) /\ cpc' # "enter"
    BY <1>e DEF FileContinues
  <2>8. \A i \in 1..Len(bufOut') : mem'[bufOut'[i].seg] = bufOut'[i].head
    BY <1>e, <2>5
  <2>9. (wpc' = "write" => mem'[work'.seg] = work'.head) /\ cpc' # "enter"
    BY <1>e, <2>6
  <2> QED BY <2>4, <2>8, <2>9 DEF FileContinues
<1>7. EndComplete'
  BY DEF EndComplete, Logged
<1>8. Owed'
  BY <1>c, <1>d, <1>e DEF Owed, Logged, Queued, BodyType
<1> QED BY <1>1, <1>2, <1>3, <1>4, <1>5, <1>6, <1>7, <1>8

LEMMA UseAfterEndKeeps ==
  ASSUME RecordingInv, UseAfterEnd
  PROVE  RecordingInv'
<1> USE DEF RecordingInv, TypeOK, SegmentsInOnePlace, UseAfterEnd, ConferenceOnly, config,
        bodyVars, confVars, workVars, fifoVars, poolVars
<1>1. /\ ControlType' /\ BodyType' /\ ConferenceType'
      /\ WriterType' /\ FifoType' /\ PoolType'
  BY DEF ControlType, BodyType, ConferenceType, WriterType, FifoType, PoolType
<1>2. InHand'
  BY DEF InHand
<1>3. NoneMissing' /\ NoneTwice'
  BY DEF NoneMissing, NoneTwice
<1>4. FileContinues'
  BY DEF FileContinues, Taken
<1>5. Owed' /\ EndComplete'
  BY DEF Owed, Logged, Queued, EndComplete
<1> QED BY <1>1, <1>2, <1>3, <1>4, <1>5

-----------------------------------------------------------------------------
(* The writer. *)

LEMMA CycleKeeps ==
  ASSUME RecordingInv, Cycle
  PROVE  RecordingInv'
<1> USE DEF RecordingInv, TypeOK, SegmentsInOnePlace, Cycle, WriterOnly, config, bodyVars,
        confVars, workVars, fifoVars, poolVars
<1>1. /\ ControlType' /\ BodyType' /\ ConferenceType'
      /\ WriterType' /\ FifoType' /\ PoolType'
  BY DEF ControlType, BodyType, ConferenceType, WriterType, FifoType, PoolType
<1>2. InHand'
  BY DEF InHand
<1>3. NoneMissing' /\ NoneTwice'
  BY DEF NoneMissing, NoneTwice
<1>4. FileContinues'
  BY DEF FileContinues, Taken
<1>5. Owed' /\ EndComplete'
  BY DEF Owed, Logged, Queued, EndComplete
<1> QED BY <1>1, <1>2, <1>3, <1>4, <1>5

LEMMA TakeEntryKeeps ==
  ASSUME RecordingInv, TakeEntry
  PROVE  RecordingInv'
<1> USE DEF RecordingInv, TypeOK, SegmentsInOnePlace, TakeEntry, WriterOnly, config,
        bodyVars, confVars, workVars, fifoVars, poolVars
<1>a. /\ Head(bufOut) = bufOut[1] /\ bufOut[1] \in Entries /\ Tail(bufOut) \in Seq(Entries)
      /\ Len(bufOut) \in Nat \ {0} /\ Len(Tail(bufOut)) = Len(bufOut) - 1
      /\ \A i \in 1..Len(Tail(bufOut)) : Tail(bufOut)[i] = bufOut[i + 1]
  BY FirstTaken DEF PoolType, Unwritten
<1>b. /\ work = NoEntry /\ work' = bufOut[1] /\ bufOut' = Tail(bufOut) /\ wpc = "look"
      /\ wpc' = "write" /\ good
  BY <1>a DEF InHand
<1>c. UNCHANGED <<bufIn, held, lost, mem, out, good, accepted, threading, cpc, mpc, cont>>
  OBVIOUS
<1>d. work'.seg = bufOut[1].seg /\ bufOut[1].seg \in Segments /\ work' # NoEntry /\ work.seg = None
  BY <1>a, <1>b, EntryType
<1>e. \A i \in 1..Len(bufOut') : i + 1 \in 1..Len(bufOut) /\ bufOut'[i] = bufOut[i + 1]
  BY <1>a, <1>b
<1>1. ControlType' /\ BodyType' /\ ConferenceType' /\ FifoType'
  BY DEF ControlType, BodyType, ConferenceType, FifoType
<1>2. WriterType'
  BY <1>a, <1>b DEF WriterType
<1>3. PoolType'
  BY <1>a, <1>b, <1>c DEF PoolType
<1>4. InHand'
  BY <1>a, <1>b, <1>c, <1>d DEF InHand
<1>5. NoneMissing'
  <2> SUFFICES ASSUME NEW s \in Segments, s \notin {held, work'.seg} \cup lost,
                      \A i \in 1..Len(bufIn) : bufIn[i] # s
               PROVE  \E i \in 1..Len(bufOut') : bufOut'[i].seg = s
    BY <1>c DEF NoneMissing
  <2>1. PICK i \in 1..Len(bufOut) : bufOut[i].seg = s
    BY <1>d, EntryType DEF NoneMissing
  <2>2. i - 1 \in 1..Len(bufOut') /\ bufOut'[i - 1].seg = s
    BY <1>a, <1>b, <1>d, <2>1
  <2> QED BY <2>2
<1>6. NoneTwice'
  <2>1. \A i \in 1..Len(bufOut) :
          /\ bufOut[i].seg \notin {held} \cup lost
          /\ \A j \in 1..Len(bufOut) : bufOut[i].seg = bufOut[j].seg => i = j
          /\ \A j \in 1..Len(bufIn) : bufIn[j] # bufOut[i].seg
    BY DEF NoneTwice
  <2>2. 1 \in 1..Len(bufOut) /\ \A i \in 1..Len(bufOut') : i + 1 # 1
    BY <1>a
  <2>3. \A i \in 1..Len(bufOut') : bufOut'[i].seg # work'.seg
    BY <1>d, <1>e, <2>1, <2>2
  <2>4. \A i, j \in 1..Len(bufOut') : bufOut'[i].seg = bufOut'[j].seg => i + 1 = j + 1
    BY <1>e, <2>1
  <2>5. /\ \A i, j \in 1..Len(bufIn) : bufIn[i] = bufIn[j] => i = j
        /\ \A i \in 1..Len(bufIn) : bufIn[i] \notin {held} \cup lost
        /\ held \notin lost
    BY DEF NoneTwice
  <2>6. /\ \A i \in 1..Len(bufIn) : bufIn[i] # work'.seg
        /\ work'.seg # held /\ work'.seg \notin lost
    BY <1>d, <2>1, <2>2
  <2>7. \A i, j \in 1..Len(bufOut') : bufOut'[i].seg = bufOut'[j].seg => i = j
    BY <2>4
  <2>8. \A i \in 1..Len(bufOut') :
          /\ bufOut'[i].seg \notin {held} \cup lost
          /\ \A j \in 1..Len(bufIn) : bufIn[j] # bufOut'[i].seg
    BY <1>e, <2>1
  <2> QED BY <1>c, <2>3, <2>5, <2>6, <2>7, <2>8 DEF NoneTwice
<1>7. FileContinues'
  <2>1. Len(out) \in Nat
    BY DEF WriterType
  <2>2. Taken = Len(out) /\ Taken' = Len(out) + 1
    BY <1>b, <1>c, <2>1 DEF Taken
  <2>3. /\ Len(accepted) = Taken + Len(bufOut)
        /\ \A i \in 1..Len(bufOut) : bufOut[i].head = accepted[Taken + i]
    BY <1>b DEF FileContinues
  <2>4. Len(accepted) = Taken' + Len(bufOut')
    BY <1>a, <1>b, <2>1, <2>2, <2>3
  <2>5. accepted[Taken'] = work'.head
    BY <1>a, <1>b, <2>1, <2>2, <2>3
  <2>6. ASSUME NEW i \in 1..Len(bufOut') PROVE bufOut'[i].head = accepted[Taken' + i]
    <3>1. Taken' + i = Taken + (i + 1)
      BY <2>1, <2>2
    <3> QED BY <1>e, <2>3, <3>1
  <2>7. /\ mem[work'.seg] = work'.head
        /\ \A i \in 1..Len(bufOut') : mem[bufOut'[i].seg] = bufOut'[i].head
        /\ cpc = "enter" => mem[held] = cont.no
    BY <1>a, <1>b, <1>e DEF FileContinues
  <2> QED BY <1>c, <2>4, <2>5, <2>6, <2>7 DEF FileContinues
<1>8. Owed' /\ EndComplete'
  BY DEF Owed, Logged, Queued, EndComplete
<1> QED BY <1>1, <1>2, <1>3, <1>4, <1>5, <1>6, <1>7, <1>8

LEMMA WriteEntryKeeps ==
  ASSUME RecordingInv, WriteEntry
  PROVE  RecordingInv'
<1> USE DEF RecordingInv, TypeOK, SegmentsInOnePlace, WriteEntry, WriterOnly, config,
        bodyVars, confVars, workVars, fifoVars, poolVars
<1>a. /\ [head |-> work.head, data |-> mem[work.seg]] \in [head : Nat, data : Nat]
      /\ out \in Seq([head : Nat, data : Nat])
  <2>1. work \in Entries
    BY DEF InHand, WriterType
  <2> QED BY <2>1, EntryType DEF WriterType, PoolType
<1>b. /\ out' \in Seq([head : Nat, data : Nat])
      /\ Len(out) \in Nat /\ Len(out') = IF good THEN Len(out) + 1 ELSE Len(out)
  <2>1. \A e \in [head : Nat, data : Nat] :
          /\ Append(out, e) \in Seq([head : Nat, data : Nat])
          /\ Len(Append(out, e)) = Len(out) + 1 /\ Len(out) \in Nat
    BY <1>a, Appended
  <2> QED BY <1>a, <2>1 DEF Image
<1>1. ControlType' /\ BodyType' /\ ConferenceType' /\ FifoType' /\ PoolType'
  BY DEF ControlType, BodyType, ConferenceType, FifoType, PoolType
<1>2. WriterType'
  BY <1>b DEF WriterType
<1>3. InHand'
  BY DEF InHand
<1>4. NoneMissing' /\ NoneTwice'
  BY DEF NoneMissing, NoneTwice
<1>5. FileContinues'
  <2>1. Taken = Len(out) + 1 /\ (good => Taken' = Taken)
    BY <1>b DEF Taken
  <2> QED BY <1>b, <2>1 DEF FileContinues
<1>6. Owed'
  BY DEF Owed, Logged, Queued
<1>7. EndComplete'
  BY <1>b DEF EndComplete, Logged, BodyType
<1> QED BY <1>1, <1>2, <1>3, <1>4, <1>5, <1>6, <1>7

LEMMA FreeSegmentKeeps ==
  ASSUME RecordingInv, FreeSegment
  PROVE  RecordingInv'
<1> USE DEF RecordingInv, TypeOK, SegmentsInOnePlace, FreeSegment, WriterOnly, config,
        bodyVars, confVars, workVars, fifoVars, poolVars
<1>a. /\ work.seg \in Segments /\ work \in Entries /\ bufIn \in Seq(Segments)
  BY EntryType DEF InHand, WriterType, PoolType
<1>b. /\ Append(bufIn, work.seg) \in Seq(Segments)
      /\ Len(Append(bufIn, work.seg)) = Len(bufIn) + 1 /\ Len(bufIn) \in Nat
      /\ Append(bufIn, work.seg)[Len(bufIn) + 1] = work.seg
      /\ \A i \in 1..Len(bufIn) : Append(bufIn, work.seg)[i] = bufIn[i]
  BY <1>a, Appended
<1>c. /\ bufIn' = Append(bufIn, work.seg) /\ work' = NoEntry /\ work'.seg = None
      /\ UNCHANGED <<bufOut, held, lost, mem, out, good, accepted, threading, cpc, mpc, cont>>
  BY EntryType DEF Freed
<1>1. ControlType' /\ BodyType' /\ ConferenceType' /\ WriterType' /\ FifoType'
  BY DEF ControlType, BodyType, ConferenceType, WriterType, FifoType
<1>2. PoolType'
  BY <1>b, <1>c DEF PoolType
<1>3. InHand'
  BY DEF InHand
<1>4. NoneMissing'
  <2>1. /\ \A i \in 1..Len(bufIn) : i \in 1..Len(bufIn') /\ bufIn'[i] = bufIn[i]
        /\ Len(bufIn) + 1 \in 1..Len(bufIn') /\ bufIn'[Len(bufIn) + 1] = work.seg
    BY <1>b, <1>c
  <2> QED BY <1>c, <2>1 DEF NoneMissing
<1>5. NoneTwice'
  <2>1. \A i \in 1..Len(bufIn') :
          \/ i \in 1..Len(bufIn) /\ bufIn'[i] = bufIn[i]
          \/ i = Len(bufIn) + 1 /\ bufIn'[i] = work.seg
    BY <1>b, <1>c
  <2>2. \A i \in 1..Len(bufIn) : bufIn[i] \notin {held, None, work.seg} \cup lost
    BY <1>a, EntryType DEF NoneTwice, PoolType
  <2>3. held # work.seg /\ held \notin lost /\ None \notin lost /\ work.seg \notin lost
        /\ work.seg # None
    BY <1>a, EntryType DEF NoneTwice, PoolType
  <2>4. \A i \in 1..Len(bufOut) :
          /\ bufOut[i].seg \notin {held, None, work.seg} \cup lost
          /\ \A j \in 1..Len(bufIn) : bufIn[j] # bufOut[i].seg
    BY EntryType DEF NoneTwice, PoolType
  <2>5. \A i, j \in 1..Len(bufIn) : bufIn[i] = bufIn[j] => i = j
    BY DEF NoneTwice
  <2>6. \A i, j \in 1..Len(bufIn') : bufIn'[i] = bufIn'[j] => i = j
    BY <2>1, <2>2, <2>5
  <2>7. \A i \in 1..Len(bufIn') : bufIn'[i] \notin {held, None} \cup lost
    BY <2>1, <2>2, <2>3
  <2>8. \A i \in 1..Len(bufIn'), j \in 1..Len(bufOut) : bufIn'[i] # bufOut[j].seg
    BY <2>1, <2>4
  <2>9. \A i, j \in 1..Len(bufOut) : bufOut[i].seg = bufOut[j].seg => i = j
    BY DEF NoneTwice
  <2> QED BY <1>c, <2>3, <2>4, <2>6, <2>7, <2>8, <2>9 DEF NoneTwice
<1>6. FileContinues'
  BY DEF FileContinues, Taken
<1>7. Owed' /\ EndComplete'
  BY DEF Owed, Logged, Queued, EndComplete
<1> QED BY <1>1, <1>2, <1>3, <1>4, <1>5, <1>6, <1>7

LEMMA EntriesDoneKeeps ==
  ASSUME RecordingInv, EntriesDone
  PROVE  RecordingInv'
<1> USE DEF RecordingInv, TypeOK, SegmentsInOnePlace, EntriesDone, WriterOnly, config,
        bodyVars, confVars, workVars, fifoVars, poolVars
<1>1. /\ ControlType' /\ BodyType' /\ ConferenceType'
      /\ WriterType' /\ FifoType' /\ PoolType'
  BY DEF ControlType, BodyType, ConferenceType, WriterType, FifoType, PoolType
<1>2. InHand'
  BY DEF InHand
<1>3. NoneMissing' /\ NoneTwice'
  BY DEF NoneMissing, NoneTwice
<1>4. FileContinues'
  BY DEF FileContinues, Taken
<1>5. Owed'
  BY DEF Owed, Logged, Queued
<1>6. EndComplete'
  <2>1. Len(bufOut) = 0 /\ Len(out) \in Nat
    BY DEF Unwritten, WriterType
  <2>2. good => Len(accepted) = Len(out)
    BY <2>1 DEF FileContinues, Taken
  <2>3. mpc' = "gone" => mpc \in {"flush", "gone"}
    OBVIOUS
  <2>4. UNCHANGED <<due, out, good, discarded, log>>
    OBVIOUS
  <2>5. mpc = "flush" => due.out <= Len(accepted) /\ \A n \in due.log : n \in discarded \/ Logged(n)
    BY DEF Owed
  <2> QED BY <2>1, <2>2, <2>3, <2>4, <2>5 DEF EndComplete, Logged, BodyType
<1> QED BY <1>1, <1>2, <1>3, <1>4, <1>5, <1>6

LEMMA StreamFailsKeeps ==
  ASSUME RecordingInv, StreamFails
  PROVE  RecordingInv'
<1> USE DEF RecordingInv, TypeOK, SegmentsInOnePlace, StreamFails, config, bodyVars,
        confVars, workVars, fifoVars, poolVars
<1>1. BodyType' /\ ConferenceType' /\ WriterType' /\ FifoType' /\ PoolType'
  BY DEF BodyType, ConferenceType, WriterType, FifoType, PoolType
<1>2. ControlType'
  BY DEF ControlType
<1>3. InHand'
  BY DEF InHand
<1>4. NoneMissing' /\ NoneTwice'
  BY DEF NoneMissing, NoneTwice
<1>5. FileContinues'
  BY DEF FileContinues, Taken
<1>6. Owed' /\ EndComplete'
  BY DEF Owed, Logged, Queued, EndComplete
<1> QED BY <1>1, <1>2, <1>3, <1>4, <1>5, <1>6

-----------------------------------------------------------------------------
(* The module's thread and the destructor. *)

LEMMA BodyCycleKeeps ==
  ASSUME RecordingInv, BodyCycle
  PROVE  RecordingInv'
<1> USE DEF RecordingInv, TypeOK, SegmentsInOnePlace, BodyCycle, BodyOnly, config, bodyVars,
        confVars, workVars, fifoVars, poolVars
<1>1. ControlType' /\ ConferenceType' /\ WriterType' /\ FifoType' /\ PoolType'
  BY DEF ControlType, ConferenceType, WriterType, FifoType, PoolType
<1>2. BodyType'
  BY DEF BodyType, FifoType, QueueSize
<1>3. InHand'
  BY DEF InHand
<1>4. NoneMissing' /\ NoneTwice'
  BY DEF NoneMissing, NoneTwice
<1>5. FileContinues'
  BY DEF FileContinues, Taken
<1>6. EndComplete'
  BY DEF EndComplete, Logged
<1>7. Owed'
  BY DEF Owed, Logged, Queued, FifoType, QueueSize
<1> QED BY <1>1, <1>2, <1>3, <1>4, <1>5, <1>6, <1>7

LEMMA RecordEntryKeeps ==
  ASSUME RecordingInv, RecordEntry
  PROVE  RecordingInv'
<1> USE DEF RecordingInv, TypeOK, SegmentsInOnePlace, RecordEntry, BodyOnly, config,
        bodyVars, confVars, workVars, fifoVars, poolVars
<1>a. /\ left \in Nat /\ left > 0 /\ left <= Len(fifo) /\ fifo # <<>>
      /\ fifo \in Seq(Containers) /\ log \in Seq(Nat)
  BY DEF BodyType, FifoType, Owed
<1>b. /\ Head(fifo) = fifo[1] /\ fifo[1] \in Containers /\ Tail(fifo) \in Seq(Containers)
      /\ Len(fifo) \in Nat \ {0} /\ Len(Tail(fifo)) = Len(fifo) - 1
      /\ \A i \in 1..Len(Tail(fifo)) : Tail(fifo)[i] = fifo[i + 1]
  BY <1>a, FirstTaken
<1>c. fifo[1].no \in Nat
  BY <1>b DEF Containers
<1>d. /\ Append(log, fifo[1].no) \in Seq(Nat) /\ Len(Append(log, fifo[1].no)) = Len(log) + 1
      /\ Append(log, fifo[1].no)[Len(log) + 1] = fifo[1].no /\ Len(log) \in Nat
      /\ \A i \in 1..Len(log) : Append(log, fifo[1].no)[i] = log[i]
  BY <1>a, <1>c, Appended
<1>e. /\ fifo' = Tail(fifo) /\ left' = left - 1 /\ mpc' = mpc /\ mpc \in {"record", "drain"}
      /\ log' = IF fifo[1].kind = "regular" THEN Append(log, fifo[1].no) ELSE log
      /\ UNCHANGED <<discarded, entered, due, accepted>>
  BY <1>b
<1>1. ControlType' /\ ConferenceType' /\ WriterType' /\ PoolType'
  BY DEF ControlType, ConferenceType, WriterType, PoolType
<1>2. BodyType'
  BY <1>a, <1>e DEF BodyType
<1>3. FifoType'
  BY <1>b, <1>d, <1>e DEF FifoType
<1>4. InHand'
  BY DEF InHand
<1>5. NoneMissing' /\ NoneTwice'
  BY DEF NoneMissing, NoneTwice
<1>6. FileContinues'
  BY DEF FileContinues, Taken
<1>7. EndComplete'
  BY DEF EndComplete, Logged
<1>8. Owed'
  <2>1. \A n : Logged(n) => Logged(n)'
    BY <1>d, <1>e DEF Logged
  <2>2. \A n : fifo[1] = [no |-> n, kind |-> "regular"] => Logged(n)'
    <3> SUFFICES ASSUME NEW n, fifo[1] = [no |-> n, kind |-> "regular"] PROVE Logged(n)'
      OBVIOUS
    <3>1. fifo[1].no = n /\ fifo[1].kind = "regular"
      OBVIOUS
    <3> QED BY <1>d, <1>e, <3>1 DEF Logged
  <2>3. ASSUME NEW n, NEW l \in 1..Len(fifo), Queued(n, l)
        PROVE  Logged(n)' \/ \E i \in 1..(l - 1) : fifo'[i] = [no |-> n, kind |-> "regular"]
    <3>1. PICK i \in 1..l : fifo[i] = [no |-> n, kind |-> "regular"]
      BY <2>3 DEF Queued
    <3>2. CASE i = 1
      BY <2>2, <3>1, <3>2
    <3>3. CASE i # 1
      <4>1. i - 1 \in 1..(l - 1) /\ fifo'[i - 1] = fifo[i]
        BY <1>b, <1>e, <3>3
      <4> QED BY <3>1, <4>1
    <3> QED BY <3>2, <3>3
  <2>4. left' <= Len(fifo')
    BY <1>a, <1>b, <1>e
  <2>5. \A n \in entered' : n \in discarded \/ Logged(n)' \/ Queued(n, Len(fifo))'
    <3>1. Len(fifo) \in 1..Len(fifo) /\ Len(fifo') = Len(fifo) - 1
      BY <1>b, <1>e
    <3>2. \A n \in entered : n \in discarded \/ Logged(n) \/ Queued(n, Len(fifo))
      BY DEF Owed
    <3> QED BY <1>e, <2>1, <2>3, <3>1, <3>2 DEF Queued
  <2>6. mpc = "drain" => \A n \in due.log : n \in discarded \/ Logged(n)' \/ Queued(n, left)'
    <3>1. left \in 1..Len(fifo)
      BY <1>a, <1>b
    <3>2. mpc = "drain" => \A n \in due.log : n \in discarded \/ Logged(n) \/ Queued(n, left)
      BY DEF Owed
    <3> QED BY <1>e, <2>1, <2>3, <3>1, <3>2 DEF Queued
  <2> QED BY <1>e, <2>4, <2>5, <2>6 DEF Owed
<1> QED BY <1>1, <1>2, <1>3, <1>4, <1>5, <1>6, <1>7, <1>8

LEMMA RecordedKeeps ==
  ASSUME RecordingInv, Recorded
  PROVE  RecordingInv'
<1> USE DEF RecordingInv, TypeOK, SegmentsInOnePlace, Recorded, BodyOnly, config, bodyVars,
        confVars, workVars, fifoVars, poolVars
<1>1. /\ ControlType' /\ BodyType' /\ ConferenceType'
      /\ WriterType' /\ FifoType' /\ PoolType'
  BY DEF ControlType, BodyType, ConferenceType, WriterType, FifoType, PoolType
<1>2. InHand'
  BY DEF InHand
<1>3. NoneMissing' /\ NoneTwice'
  BY DEF NoneMissing, NoneTwice
<1>4. FileContinues'
  BY DEF FileContinues, Taken
<1>5. Owed' /\ EndComplete'
  BY DEF Owed, Logged, Queued, EndComplete
<1> QED BY <1>1, <1>2, <1>3, <1>4, <1>5

LEMMA ObeyCommandKeeps ==
  ASSUME RecordingInv, ObeyCommand
  PROVE  RecordingInv'
<1> USE DEF RecordingInv, TypeOK, SegmentsInOnePlace, ObeyCommand, BodyOnly, config,
        bodyVars, confVars, workVars, fifoVars, poolVars
<1>1. ControlType' /\ ConferenceType' /\ WriterType' /\ FifoType' /\ PoolType'
  BY DEF ControlType, ConferenceType, WriterType, FifoType, PoolType
<1>2. BodyType'
  BY DEF BodyType
<1>3. InHand'
  BY DEF InHand
<1>4. NoneMissing' /\ NoneTwice'
  BY DEF NoneMissing, NoneTwice
<1>5. FileContinues'
  BY DEF FileContinues, Taken
<1>6. Owed' /\ EndComplete'
  BY DEF Owed, Logged, Queued, EndComplete
<1> QED BY <1>1, <1>2, <1>3, <1>4, <1>5, <1>6

LEMMA ClearQueueKeeps ==
  ASSUME RecordingInv, ClearQueue
  PROVE  RecordingInv'
<1> USE DEF RecordingInv, TypeOK, SegmentsInOnePlace, ClearQueue, BodyOnly, config,
        bodyVars, confVars, workVars, fifoVars, poolVars
<1>a. /\ mpc = "clear" /\ mpc' = "loop" /\ fifo' = <<>>
      /\ discarded' = discarded \cup {fifo[i].no : i \in 1..Len(fifo)}
      /\ UNCHANGED <<log, entered>>
  OBVIOUS
<1>1. ControlType' /\ BodyType' /\ ConferenceType' /\ WriterType' /\ PoolType'
  BY DEF ControlType, BodyType, ConferenceType, WriterType, PoolType
<1>2. FifoType'
  <2>1. \A c \in Containers : c.no \in Nat
    BY DEF Containers
  <2>2. \A i \in 1..Len(fifo) : fifo[i] \in Containers
    BY DEF FifoType
  <2>3. discarded' \subseteq Nat /\ log' = log /\ entered' = entered /\ fifo' = <<>>
    BY <1>a, <2>1, <2>2 DEF FifoType
  <2> HIDE DEF ClearQueue
  <2> QED BY <2>3 DEF FifoType
<1>3. InHand'
  BY DEF InHand
<1>4. NoneMissing' /\ NoneTwice'
  BY DEF NoneMissing, NoneTwice
<1>5. FileContinues'
  BY DEF FileContinues, Taken
<1>6. EndComplete'
  BY DEF EndComplete, Logged
<1>7. Owed'
  <2>1. ASSUME NEW n, Queued(n, Len(fifo)) PROVE n \in discarded'
    <3>1. PICK i \in 1..Len(fifo) : fifo[i] = [no |-> n, kind |-> "regular"]
      BY <2>1 DEF Queued
    <3> QED BY <1>a, <3>1
  <2>2. \A n : Logged(n)' <=> Logged(n)
    BY <1>a DEF Logged
  <2> QED BY <1>a, <2>1, <2>2 DEF Owed
<1> QED BY <1>1, <1>2, <1>3, <1>4, <1>5, <1>6, <1>7

LEMMA EndRecordingKeeps ==
  ASSUME RecordingInv, EndRecording
  PROVE  RecordingInv'
<1> USE DEF RecordingInv, TypeOK, SegmentsInOnePlace, EndRecording, BodyOnly, config,
        bodyVars, confVars, workVars, fifoVars, poolVars
<1>1. ControlType' /\ ConferenceType' /\ WriterType' /\ FifoType' /\ PoolType'
  BY DEF ControlType, ConferenceType, WriterType, FifoType, PoolType
<1>2. BodyType'
  <2>1. Len(fifo) \in Nat /\ due \in [log : SUBSET Nat, out : Nat] /\ entered \in SUBSET Nat
    BY DEF FifoType, BodyType
  <2>2. [due EXCEPT !.log = entered] \in [log : SUBSET Nat, out : Nat]
    BY <2>1
  <2> QED BY <2>1, <2>2 DEF BodyType, QueueSize
<1>3. InHand'
  BY DEF InHand
<1>4. NoneMissing' /\ NoneTwice'
  BY DEF NoneMissing, NoneTwice
<1>5. FileContinues'
  BY DEF FileContinues, Taken
<1>6. EndComplete'
  BY DEF EndComplete, Logged
<1>7. Owed'
  <2>1. /\ left' = Len(fifo) /\ due'.log = entered /\ mpc' = "drain" /\ Len(fifo) \in Nat
        /\ UNCHANGED <<fifo, log, discarded, entered, accepted>>
    BY DEF QueueSize, BodyType, FifoType
  <2>2. \A n : Logged(n)' <=> Logged(n)
    BY <2>1 DEF Logged
  <2>3. \A n, l : Queued(n, l)' <=> Queued(n, l)
    BY <2>1 DEF Queued
  <2>4. \A n \in entered : n \in discarded \/ Logged(n) \/ Queued(n, Len(fifo))
    BY DEF Owed
  <2>5. \A n \in entered : n \in discarded \/ Logged(n)' \/ Queued(n, Len(fifo))'
    BY <2>1, <2>2, <2>4 DEF Queued
  <2>6. \A n \in due'.log : n \in discarded \/ Logged(n)' \/ Queued(n, left)'
    BY <2>1, <2>5 DEF Queued
  <2> QED BY <2>1, <2>5, <2>6 DEF Owed
<1> QED BY <1>1, <1>2, <1>3, <1>4, <1>5, <1>6, <1>7

LEMMA StopWriterKeeps ==
  ASSUME RecordingInv, StopWriter
  PROVE  RecordingInv'
<1> USE DEF RecordingInv, TypeOK, SegmentsInOnePlace, StopWriter, BodyOnly, config,
        bodyVars, confVars, workVars, fifoVars, poolVars
<1>1. ControlType' /\ ConferenceType' /\ FifoType' /\ PoolType'
  BY DEF ControlType, ConferenceType, FifoType, PoolType
<1>2. WriterType'
  BY DEF WriterType
<1>3. BodyType'
  <2>1. Len(accepted) \in Nat
    BY DEF PoolType
  <2>2. left' = left /\ due' = [due EXCEPT !.out = Len(accepted)] /\ recording' = recording
    OBVIOUS
  <2> HIDE DEF StopWriter
  <2>3. due' \in [log : SUBSET Nat, out : Nat]
    BY <2>1, <2>2 DEF BodyType
  <2>4. recording' \in BOOLEAN
    BY <2>2 DEF BodyType
  <2>5. left' \in Nat
    BY <2>2 DEF BodyType
  <2> QED BY <2>3, <2>4, <2>5 DEF BodyType
<1>4. InHand'
  BY DEF InHand
<1>5. NoneMissing' /\ NoneTwice'
  BY DEF NoneMissing, NoneTwice
<1>6. FileContinues'
  BY DEF FileContinues, Taken
<1>7. Owed' /\ EndComplete'
  BY DEF Owed, Logged, Queued, EndComplete
<1> QED BY <1>1, <1>2, <1>3, <1>4, <1>5, <1>6, <1>7

LEMMA DeleteWriterKeeps ==
  ASSUME RecordingInv, DeleteWriter
  PROVE  RecordingInv'
<1> USE DEF RecordingInv, TypeOK, SegmentsInOnePlace, DeleteWriter, BodyOnly, config,
        bodyVars, confVars, workVars, fifoVars, poolVars
<1>1. /\ ControlType' /\ BodyType' /\ ConferenceType'
      /\ WriterType' /\ FifoType' /\ PoolType'
  BY DEF ControlType, BodyType, ConferenceType, WriterType, FifoType, PoolType
<1>2. InHand'
  BY DEF InHand
<1>3. NoneMissing' /\ NoneTwice'
  BY DEF NoneMissing, NoneTwice
<1>4. FileContinues'
  BY DEF FileContinues, Taken
<1>5. Owed' /\ EndComplete'
  BY DEF Owed, Logged, Queued, EndComplete
<1> QED BY <1>1, <1>2, <1>3, <1>4, <1>5

-----------------------------------------------------------------------------
(* Theorems. *)

LEMMA InitRecording == Init => RecordingInv
<1> SUFFICES ASSUME Init PROVE RecordingInv
  OBVIOUS
<1> USE DEF Init, NewSegments
<1>1. FifoType
  BY DEF FifoType
<1>11. WriterType
  <2>1. out \in Seq([head : Nat, data : Nat])
    OBVIOUS
  <2>2. stopped \in BOOLEAN
    OBVIOUS
  <2> QED BY <2>1, <2>2 DEF WriterType
<1>10. ControlType
  BY DEF ControlType, Commands
<1>2. BodyType
  BY DEF BodyType
<1>3. ConferenceType
  BY DEF ConferenceType, Containers, Kinds
<1>4. /\ bufIn \in Seq(Segments) /\ Len(bufIn) = NSegments
      /\ \A i \in 1..NSegments : bufIn[i] = i - 1
  <2>1. \A i \in 1..NSegments : i - 1 \in Segments
    BY RecorderAssumption DEF Segments
  <2> QED BY <2>1, RecorderAssumption
<1>5. PoolType
  BY <1>4 DEF PoolType
<1>6. InHand
  BY DEF InHand
<1>7. NoneMissing
  <2>1. \A s \in Segments : s + 1 \in 1..NSegments /\ (s + 1) - 1 = s
    BY RecorderAssumption DEF Segments
  <2> QED BY <1>4, <2>1 DEF NoneMissing
<1>8. NoneTwice
  <2>1. NoEntry.seg = None /\ \A i \in 1..Len(bufIn) : bufIn[i] # None
    BY <1>4, EntryType, RecorderAssumption DEF None
  <2>2. \A i, j \in 1..Len(bufIn) : bufIn[i] = bufIn[j] => i = j
    BY <1>4, RecorderAssumption
  <2>3. /\ held = None /\ work.seg = None /\ lost = {} /\ Len(bufOut) = 0
    BY <2>1
  <2> HIDE DEF Init, NewSegments
  <2>4. \A i \in 1..Len(bufIn) : bufIn[i] \notin {held, work.seg} \cup lost
    BY <2>1, <2>3
  <2> QED BY <2>2, <2>3, <2>4 DEF NoneTwice
<1>9. FileContinues /\ Owed /\ EndComplete
  BY DEF FileContinues, Taken, Owed, EndComplete
<1> QED BY <1>1, <1>2, <1>3, <1>5, <1>6, <1>7, <1>8, <1>9, <1>10, <1>11
        DEF RecordingInv, TypeOK, SegmentsInOnePlace

LEMMA StutterKeeps ==
  ASSUME RecordingInv, UNCHANGED vars
  PROVE  RecordingInv'
<1> USE DEF RecordingInv, TypeOK, SegmentsInOnePlace, vars, config, bodyVars, confVars,
        workVars, fifoVars, poolVars
<1>1. /\ ControlType' /\ BodyType' /\ ConferenceType'
      /\ WriterType' /\ FifoType' /\ PoolType'
  BY DEF ControlType, BodyType, ConferenceType, WriterType, FifoType, PoolType
<1>2. InHand' /\ NoneMissing' /\ NoneTwice'
  BY DEF InHand, NoneMissing, NoneTwice
<1>3. FileContinues'
  BY DEF FileContinues, Taken
<1>4. Owed' /\ EndComplete'
  BY DEF Owed, EndComplete, Logged, Queued
<1> QED BY <1>1, <1>2, <1>3, <1>4

LEMMA StepKeeps ==
  ASSUME RecordingInv, [Next]_vars
  PROVE  RecordingInv'
<1>1. CASE Conference
  BY <1>1, ReceiveKeeps, StoreKeeps, PutCommandKeeps, DropContainerKeeps, TakeSegmentKeeps,
     CopyMemoryKeeps, CopyFailsKeeps, EnterSegmentKeeps, UseAfterEndKeeps DEF Conference
<1>2. CASE Writer
  BY <1>2, CycleKeeps, TakeEntryKeeps, WriteEntryKeeps, FreeSegmentKeeps, EntriesDoneKeeps
     DEF Writer
<1>3. CASE Body \/ EndRecording
  BY <1>3, BodyCycleKeeps, RecordEntryKeeps, RecordedKeeps, ObeyCommandKeeps, ClearQueueKeeps,
     EndRecordingKeeps, StopWriterKeeps, DeleteWriterKeeps DEF Body
<1> QED BY <1>1, <1>2, <1>3, StreamFailsKeeps, StutterKeeps DEF Next

\* The inductive invariant: types, whereabouts of the segments, the file as a
\* continuation of what was accepted, and what is owed at the end.
THEOREM RecordingKept == Spec => []RecordingInv
<1>1. Init => RecordingInv
  BY InitRecording
<1>2. RecordingInv /\ [Next]_vars => RecordingInv'
  BY StepKeeps
<1> QED BY <1>1, <1>2, PTL DEF Spec

\* However listener and writer take turns, every memory segment is in one place,
\* for any number of segments.
THEOREM SegmentsStayApart == Spec => []SegmentsInOnePlace
<1>1. RecordingInv => SegmentsInOnePlace
  BY DEF RecordingInv
<1> QED BY <1>1, RecordingKept, PTL

\* When the recorder is gone, what it owed is in the files.
THEOREM EndIsComplete == Spec => []EndComplete
<1>1. RecordingInv => EndComplete
  BY DEF RecordingInv
<1> QED BY <1>1, RecordingKept, PTL

\* A step accepts a container, or writes the next accepted one, or does not touch
\* the file.
LEMMA StepRefines ==
  ASSUME RecordingInv, [Next]_vars
  PROVE  [RL!Next]_RL!logVars
<1> USE DEF RecordingInv, RL!Next, RL!Accept, RL!Write, RL!logVars
<1>1. CASE EnterSegment
  <2>1. cont.no \in 1..MaxReceived
    BY <1>1 DEF InHand, EnterSegment
  <2>2. accepted' = Append(accepted, cont.no) /\ out' = out
    BY <1>1 DEF EnterSegment, ConferenceOnly, workVars
  <2> QED BY <2>1, <2>2
<1>2. CASE WriteEntry
  <2>1. accepted' = accepted /\ out' = IF good THEN Append(out, Image) ELSE out
    BY <1>2 DEF WriteEntry, WriterOnly
  <2>2. Len(out) \in Nat /\ Len(bufOut) \in Nat
    BY DEF TypeOK, WriterType, PoolType
  <2>3. good => Len(out) < Len(accepted) /\ accepted[Len(out) + 1] = work.head
    BY <1>2, <2>2 DEF WriteEntry, FileContinues, Taken
  <2>4. mem[work.seg] = work.head
    BY <1>2 DEF WriteEntry, FileContinues
  <2> QED BY <2>1, <2>3, <2>4 DEF Image
<1>3. CASE UNCHANGED <<accepted, out>>
  BY <1>3
<1>4. ASSUME ~EnterSegment, ~WriteEntry PROVE UNCHANGED <<accepted, out>>
  <2> USE DEF poolVars, workVars
  <2>1. CASE Conference
    BY <1>4, <2>1 DEF Conference, ConferenceOnly, Receive, Store, PutCommand, DropContainer,
       TakeSegment, CopyMemory, CopyFails, UseAfterEnd
  <2>2. CASE Writer
    BY <1>4, <2>2 DEF Writer, WriterOnly, Cycle, TakeEntry, FreeSegment, EntriesDone
  <2>3. CASE Body \/ EndRecording
    BY <2>3 DEF Body, BodyOnly, BodyCycle, RecordEntry, Recorded, ObeyCommand, ClearQueue,
       EndRecording, StopWriter, DeleteWriter
  <2>4. CASE StreamFails
    BY <2>4 DEF StreamFails
  <2>5. CASE UNCHANGED vars
    BY <2>5 DEF vars
  <2> QED BY <2>1, <2>2, <2>3, <2>4, <2>5 DEF Next
<1> QED BY <1>1, <1>2, <1>3, <1>4

\* The recorder implements RecordLog: whatever is in the file is what was
\* accepted, in that order, without gaps, each memory under its own header.
THEOREM RecorderImplementsLog == Spec => RefinesRecordLog
<1>1. Init => RL!Init
  BY DEF Init, RL!Init
<1>2. RecordingInv /\ [Next]_vars => [RL!Next]_RL!logVars
  BY StepRefines
<1> QED BY <1>1, <1>2, RecordingKept, PTL DEF Spec, RefinesRecordLog, RL!Spec
================================================================================
