---------------------------- MODULE Conference_proofs ----------------------------
(***************************************************************************)
(* What the way of a container to a module keeps for any number of         *)
(* datagrams and consumers: nothing is lost, repeated or overtaken, no     *)
(* consumer sleeps over data, a destroyed module is not called.            *)
(***************************************************************************)
EXTENDS Conference, TLAPS, SequenceTheorems

-----------------------------------------------------------------------------
(* Sequences. *)

LEMMA FirstAndRest ==
  ASSUME NEW S, NEW s \in Seq(S), s # <<>>
  PROVE  /\ Head(s) \in S /\ Tail(s) \in Seq(S)
         /\ Len(Tail(s)) = Len(s) - 1
         /\ s = <<Head(s)>> \o Tail(s)
<1>1. /\ Head(s) \in S /\ Tail(s) \in Seq(S) /\ Len(Tail(s)) = Len(s) - 1
      /\ <<Head(s)>> \in Seq(S)
  BY HeadTailProperties
<1>2. s = <<Head(s)>> \o Tail(s)
  OBVIOUS
<1> QED BY <1>1, <1>2

LEMMA AppendedLast ==
  ASSUME NEW S, NEW s \in Seq(S), NEW e \in S
  PROVE  /\ Append(s, e) = s \o <<e>> /\ Append(s, e) \in Seq(S) /\ <<e>> \in Seq(S)
         /\ Len(Append(s, e)) = Len(s) + 1
         /\ s # <<>> => Tail(Append(s, e)) = Append(Tail(s), e)
OBVIOUS

LEMMA UpToNext ==
  ASSUME NEW n \in Nat
  PROVE  [i \in 1..n |-> i] \o <<n + 1>> = [i \in 1..(n + 1) |-> i]
OBVIOUS

-----------------------------------------------------------------------------
(* Types. *)

LEMMA InitDelivery == Init => DeliveryInv
BY ConferenceAssumption DEF Init, DeliveryInv, TypeOK, InHand, NothingLost, NoMissedData,
   NoLateCall, Pending, Datagrams

LEMMA PipelineType ==
  ASSUME TypeOK, InHand, Pipeline \/ NextString
  PROVE  TypeOK'
<1> USE DEF TypeOK, PipeOnly, closeVars, storeVars
<1>1. CASE NextString
  <2>1. arrived + 1 \in Datagrams /\ arrived \in Nat
    BY <1>1, ConferenceAssumption DEF NextString, Datagrams
  <2>2. Append(queue, arrived + 1) \in Seq(Datagrams)
        /\ Len(Append(queue, arrived + 1)) = Len(queue) + 1
    BY <2>1, AppendedLast
  <2>3. arrived' \in 0..MaxArrived
    BY <2>1, <1>1 DEF NextString, Datagrams
  <2>4. queue' \in Seq(Datagrams) /\ batch' \in 0..Len(queue')
    BY <1>1, <2>2 DEF NextString
  <2> QED BY <1>1, <2>3, <2>4 DEF NextString
<1>2. CASE Lock
  BY <1>2 DEF Lock
<1>3. CASE Wait
  BY <1>3 DEF Wait
<1>4. CASE CountEntries
  BY <1>4 DEF CountEntries, NumberOfEntries
<1>5. CASE Listen
  BY <1>5 DEF Listen
<1>6. CASE Front
  BY <1>6 DEF Front
<1>7. CASE Receive
  BY <1>7 DEF Receive
<1>8. CASE Add
  <2>1. queue # <<>>
    BY <1>8 DEF Add, InHand
  <2>2. Append(fifo, Head(queue)) \in Seq(Datagrams)
    BY <2>1, FirstAndRest, AppendedLast
  <2> QED BY <1>8, <2>2 DEF Add, Entered
<1>9. CASE WakeConsumers
  BY <1>9 DEF WakeConsumers
<1>10. CASE Pop
  <2>1. queue # <<>> /\ batch > 0
    BY <1>10 DEF Pop, InHand
  <2>2. Tail(queue) \in Seq(Datagrams) /\ Len(Tail(queue)) = Len(queue) - 1
    BY <2>1, FirstAndRest
  <2>3. batch' \in 0..Len(queue')
    BY <1>10, <2>1, <2>2 DEF Pop, Processed
  <2> QED BY <1>10, <2>2, <2>3 DEF Pop
<1> QED BY <1>1, <1>2, <1>3, <1>4, <1>5, <1>6, <1>7, <1>8, <1>9, <1>10 DEF Pipeline

LEMMA OtherType ==
  ASSUME TypeOK,
         \/ Spurious \/ Detach \/ Close
         \/ \E c \in Consumers : Leave(c) \/ Leaves(c)
  PROVE  TypeOK'
<1> USE DEF TypeOK, pipeVars, closeVars, storeVars, PipeOnly, StoreOnly, CloseOnly
<1>1. CASE Spurious
  BY <1>1 DEF Spurious
<1>2. CASE Detach
  BY <1>2 DEF Detach
<1>3. CASE StopReceiver
  BY <1>3 DEF StopReceiver
<1>4. CASE Unset
  BY <1>4 DEF Unset
<1>5. CASE Halt
  BY <1>5 DEF Halt
<1>6. CASE WakePipeline
  BY <1>6 DEF WakePipeline
<1>7. CASE Join
  BY <1>7 DEF Join
<1>8. ASSUME NEW c \in Consumers, Leave(c) \/ WaitForData(c) \/ CheckEmpty(c) PROVE TypeOK'
  BY <1>8 DEF Leave, WaitForData, CheckEmpty
<1>9. ASSUME NEW c \in Consumers, Take(c) PROVE TypeOK'
  <2>1. CASE fifo = <<>>
    BY <1>9, <2>1 DEF Take
  <2>2. CASE fifo # <<>>
    <3>1. Tail(fifo) \in Seq(Datagrams) /\ Append(taken, Head(fifo)) \in Seq(Datagrams)
      BY <2>2, FirstAndRest, AppendedLast
    <3> QED BY <1>9, <2>2, <3>1 DEF Take
  <2> QED BY <2>1, <2>2
<1> QED BY <1>1, <1>2, <1>3, <1>4, <1>5, <1>6, <1>7, <1>8, <1>9 DEF Close, Leaves

-----------------------------------------------------------------------------
(* Nothing is lost. *)

LEMMA PendingType ==
  ASSUME TypeOK, InHand
  PROVE  Pending \in Seq(Datagrams) /\ taken \o fifo \in Seq(Datagrams)
<1>1. wpc \in {"wake", "pop"} => queue # <<>>
  BY DEF TypeOK, InHand
<1>2. Pending \in Seq(Datagrams)
  BY <1>1, FirstAndRest DEF Pending, TypeOK
<1> QED BY <1>2, ConcatProperties DEF TypeOK

\* A datagram that arrives becomes the last of all.
LEMMA ArrivedIsLast ==
  ASSUME TypeOK, InHand, NothingLost, NextString
  PROVE  NothingLost'
<1> SUFFICES ASSUME dpc = "open"
             PROVE  (taken \o fifo \o Pending)' = [i \in 1..(arrived + 1) |-> i]
  BY DEF NothingLost, NextString, PipeOnly, closeVars
<1>1. arrived \in Nat /\ arrived + 1 \in Datagrams
  BY ConferenceAssumption DEF TypeOK, NextString, Datagrams
<1>2. wpc \in {"wake", "pop"} => queue # <<>>
  BY DEF TypeOK, InHand
<1>3. Pending' = Append(Pending, arrived + 1)
  <2>1. CASE wpc \in {"wake", "pop"}
    <3>1. wpc' = wpc
      BY <2>1 DEF NextString
    <3> QED BY <2>1, <3>1, <1>1, <1>2, AppendedLast DEF Pending, NextString, TypeOK
  <2>2. CASE wpc \notin {"wake", "pop"}
    BY <2>2 DEF Pending, NextString
  <2> QED BY <2>1, <2>2
<1>4. Pending' = Pending \o <<arrived + 1>> /\ <<arrived + 1>> \in Seq(Datagrams)
  BY <1>1, <1>3, PendingType, AppendedLast
<1>5. (taken \o fifo) \o (Pending \o <<arrived + 1>>)
        = ((taken \o fifo) \o Pending) \o <<arrived + 1>>
  BY <1>4, PendingType
<1>6. (taken \o fifo \o Pending)' = (taken \o fifo) \o (Pending \o <<arrived + 1>>)
  BY <1>4 DEF NextString, PipeOnly, storeVars
<1> QED BY <1>1, <1>5, <1>6, UpToNext DEF NothingLost

\* What is handed to the data store is the first that was pending.
LEMMA AddedIsFirst ==
  ASSUME TypeOK, InHand, NothingLost, Add
  PROVE  NothingLost'
<1> DEFINE first == <<Head(queue)>>
           rest == Tail(queue)
<1>1. queue # <<>>
  BY DEF Add, InHand, TypeOK
<1>2. Head(queue) \in Datagrams /\ first \in Seq(Datagrams) /\ rest \in Seq(Datagrams)
  BY <1>1, FirstAndRest DEF TypeOK
<1>3. queue = first \o rest
  BY <1>1, FirstAndRest DEF TypeOK
<1>4. fifo' = fifo \o first /\ taken' = taken
  <2>1. Append(fifo, Head(queue)) = fifo \o <<Head(queue)>>
    BY <1>2, AppendedLast DEF TypeOK
  <2> QED BY <2>1 DEF Add, Entered
<1>5. Pending = queue /\ Pending' = rest
  BY DEF Add, Pending
<1>6. taken \in Seq(Datagrams) /\ fifo \in Seq(Datagrams)
  BY DEF TypeOK
<1> HIDE DEF first, rest
<1>7. (taken \o fifo) \o first = taken \o (fifo \o first)
  BY <1>2, <1>6
<1>8. ((taken \o fifo) \o first) \o rest = (taken \o fifo) \o (first \o rest)
  <2>1. first \in Seq(Datagrams) /\ rest \in Seq(Datagrams)
    BY <1>2
  <2>2. taken \o fifo \in Seq(Datagrams)
    BY PendingType
  <2> QED BY <2>1, <2>2
<1>9. (taken \o fifo \o Pending)' = taken \o fifo \o Pending
  BY <1>3, <1>4, <1>5, <1>7, <1>8, Zenon
<1> QED BY <1>9 DEF NothingLost, Add, closeVars

\* What a consumer takes is the first of the data store.
LEMMA TakenIsFirst ==
  ASSUME TypeOK, InHand, NothingLost, NEW c \in Consumers, Take(c)
  PROVE  NothingLost'
<1>1. Pending' = Pending /\ dpc' = dpc /\ arrived' = arrived
  BY DEF Take, StoreOnly, pipeVars, closeVars, Pending
<1>2. CASE fifo = <<>>
  BY <1>1, <1>2 DEF Take, NothingLost
<1>3. CASE fifo # <<>>
  <2> DEFINE first == <<Head(fifo)>>
  <2>1. first \in Seq(Datagrams) /\ Tail(fifo) \in Seq(Datagrams)
    BY <1>3, FirstAndRest DEF TypeOK
  <2>4. fifo = first \o Tail(fifo)
    BY <1>3, FirstAndRest DEF TypeOK
  <2>2. taken' = taken \o first /\ fifo' = Tail(fifo)
    <3>1. Head(fifo) \in Datagrams
      BY <1>3, FirstAndRest DEF TypeOK
    <3>2. Append(taken, Head(fifo)) = taken \o <<Head(fifo)>>
      BY <3>1, AppendedLast DEF TypeOK
    <3> QED BY <1>3, <3>2 DEF Take
  <2> HIDE DEF first
  <2>0. taken \in Seq(Datagrams)
    BY DEF TypeOK
  <2>3. (taken \o first) \o Tail(fifo) = taken \o (first \o Tail(fifo))
    BY <2>0, <2>1
  <2>5. (taken \o fifo)' = taken \o fifo
    BY <2>2, <2>3, <2>4, Zenon
  <2> QED BY <1>1, <2>5 DEF NothingLost
<1> QED BY <1>2, <1>3

LEMMA NothingGetsLost ==
  ASSUME DeliveryInv, Next
  PROVE  NothingLost'
<1> USE DEF DeliveryInv, PipeOnly, StoreOnly, CloseOnly, pipeVars, closeVars, storeVars
<1>1. CASE NextString
  BY <1>1, ArrivedIsLast
<1>2. CASE Add
  BY <1>2, AddedIsFirst
<1>3. ASSUME NEW c \in Consumers, Take(c) PROVE NothingLost'
  BY <1>3, TakenIsFirst
<1>4. ASSUME taken' = taken, fifo' = fifo, arrived' = arrived,
             dpc' = "open" => dpc = "open" /\ Pending' = Pending
      PROVE  NothingLost'
  BY <1>4 DEF NothingLost
<1>5. CASE Lock \/ Wait \/ CountEntries \/ Listen \/ Receive
  BY <1>4, <1>5 DEF Lock, Wait, CountEntries, Listen, Receive, Pending, InHand
<1>6. CASE Front \/ WakeConsumers \/ Pop
  BY <1>4, <1>6 DEF Front, WakeConsumers, Pop, Pending, InHand
<1>7. CASE Spurious
  BY <1>4, <1>7 DEF Spurious, Pending
<1>8. CASE Detach \/ Close
  BY <1>4, <1>8 DEF Detach, Close, StopReceiver, Unset, Halt, WakePipeline, Join, Pending
<1>9. ASSUME NEW c \in Consumers, Leave(c) \/ WaitForData(c) \/ CheckEmpty(c)
      PROVE  NothingLost'
  BY <1>4, <1>9 DEF Leave, WaitForData, CheckEmpty, Pending
<1> QED BY <1>1, <1>2, <1>3, <1>5, <1>6, <1>7, <1>8, <1>9 DEF Next, Pipeline, Leaves

-----------------------------------------------------------------------------
(* Consumers are woken, and destroyed modules are not called. *)

LEMMA HandedOn ==
  ASSUME DeliveryInv, Next
  PROVE  InHand' /\ NoMissedData' /\ NoLateCall'
<1> USE DEF DeliveryInv, TypeOK, InHand, NoMissedData, NoLateCall, PipeOnly, StoreOnly,
        CloseOnly, pipeVars, closeVars, storeVars
<1>1. CASE NextString
  BY <1>1 DEF NextString
<1>2. CASE Lock \/ Wait \/ CountEntries \/ Listen
  BY <1>2 DEF Lock, Wait, CountEntries, Listen
<1>3. CASE Front
  <2>1. batch # 0 => batch > 0
    OBVIOUS
  <2>2. UNCHANGED <<batch, containerListener, dpc, cpc, fifo>> /\ wpc = "front"
    BY <1>3 DEF Front
  <2>3. CASE batch = 0
    <3>1. wpc' = "check"
      BY <1>3, <2>3 DEF Front
    <3> QED BY <2>2, <3>1
  <2>4. CASE batch # 0
    <3>1. wpc' \in {"receive", "pop"}
      BY <1>3, <2>4 DEF Front
    <3> QED BY <2>1, <2>2, <2>4, <3>1
  <2> QED BY <2>3, <2>4
<1>12. CASE Receive
  BY <1>12 DEF Receive
<1>4. CASE Add
  BY <1>4 DEF Add
<1>5. CASE WakeConsumers
  BY <1>5 DEF WakeConsumers, ConditionFree
<1>6. CASE Pop
  BY <1>6 DEF Pop
<1>7. CASE Spurious
  BY <1>7 DEF Spurious
<1>8. CASE Detach
  BY <1>8 DEF Detach, ListenerFree
<1>9. CASE Close
  BY <1>9 DEF Close, StopReceiver, Unset, Halt, WakePipeline, Join
<1>10. ASSUME NEW c \in Consumers, Leave(c) PROVE InHand' /\ NoMissedData' /\ NoLateCall'
  BY <1>10 DEF Leave
<1>11. ASSUME NEW c \in Consumers, Leaves(c) PROVE InHand' /\ NoMissedData' /\ NoLateCall'
  BY <1>11 DEF Leaves, WaitForData, CheckEmpty, Take
<1> QED BY <1>1, <1>2, <1>3, <1>4, <1>5, <1>6, <1>7, <1>8, <1>9, <1>10, <1>11, <1>12
       DEF Next, Pipeline

-----------------------------------------------------------------------------
(* Theorems. *)

\* The inductive invariant: whoever waits is woken, whatever is under way stays in
\* its order, and the types.
THEOREM DeliveryKept == Spec => []DeliveryInv
<1>1. Init => DeliveryInv
  BY InitDelivery
<1>2. DeliveryInv /\ [Next]_vars => DeliveryInv'
  <2> SUFFICES ASSUME DeliveryInv, [Next]_vars PROVE DeliveryInv'
    OBVIOUS
  <2>1. CASE Next
    <3>1. TypeOK'
      BY <2>1, PipelineType, OtherType DEF Next, DeliveryInv
    <3> QED BY <2>1, <3>1, NothingGetsLost, HandedOn DEF DeliveryInv
  <2>2. CASE UNCHANGED vars
    <3> USE <2>2 DEF vars, pipeVars, closeVars, storeVars, DeliveryInv
    <3>1. TypeOK'
      BY DEF TypeOK
    <3>2. InHand' /\ NoMissedData' /\ NoLateCall'
      BY DEF InHand, NoMissedData, NoLateCall
    <3>3. NothingLost'
      BY DEF NothingLost, Pending
    <3> QED BY <3>1, <3>2, <3>3
  <2> QED BY <2>1, <2>2
<1> QED BY <1>1, <1>2, PTL DEF Spec

\* For any number of datagrams and of consumers: until the module is destroyed,
\* none is lost, repeated or overtaken between the receiver and the consumers.
THEOREM NothingIsLost == Spec => []NothingLost
<1>1. DeliveryInv => NothingLost
  BY DEF DeliveryInv
<1> QED BY <1>1, DeliveryKept, PTL

\* No consumer sleeps while there is data, unless the pipeline's thread is about
\* to wake it.
THEOREM NobodySleepsOverData == Spec => []NoMissedData
<1>1. DeliveryInv => NoMissedData
  BY DEF DeliveryInv
<1> QED BY <1>1, DeliveryKept, PTL

\* A module is not called any more once it has been unset as the listener.
THEOREM DestroyedAreNotCalled == Spec => []NoLateCall
<1>1. DeliveryInv => NoLateCall
  BY DEF DeliveryInv
<1> QED BY <1>1, DeliveryKept, PTL
=============================================================================
