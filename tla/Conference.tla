------------------------------- MODULE Conference -------------------------------
(***************************************************************************)
(* How a container reaches a module: the thread of POSIXUDPReceiver, which *)
(* enters datagrams into a StringPipeline; the pipeline's thread, which    *)
(* hands them to UDPMultiCastContainerConference and, while a listener is  *)
(* set, to ConferenceClientModule::nextContainer(), which enters them into *)
(* a FIFOQueue; the consumers of that queue; and the destructors, which    *)
(* take all of this down again.                                            *)
(*                                                                         *)
(* Datagrams are numbered as they arrive: what the network has lost or put *)
(* out of order stays so.                                                  *)
(***************************************************************************)
EXTENDS Integers, Sequences

CONSTANTS
  MaxArrived, \* bound: datagrams received
  Consumers   \* threads that call leave()

ASSUME ConferenceAssumption == MaxArrived \in Nat

VARIABLES
  arrived,   \* datagrams received
  queue,     \* the pipeline's m_queue
  running,   \* the pipeline's m_threadState
  wpc, batch, \* where the pipeline's thread is, and the entries it has still to hand out
  stringListener, containerListener, \* are they set?
  dpc,       \* where the destructors are
  fifo,      \* m_queue of the data store
  cpc,       \* where the consumers are
  taken      \* history: what the consumers have got

pipeVars  == <<arrived, queue, running, batch, wpc>>
closeVars == <<stringListener, containerListener, dpc>>
storeVars == <<fifo, cpc, taken>>
vars      == <<pipeVars, closeVars, storeVars>>

Datagrams == 1..MaxArrived

TypeOK ==
  /\ arrived \in 0..MaxArrived
  /\ queue \in Seq(Datagrams) /\ fifo \in Seq(Datagrams) /\ taken \in Seq(Datagrams)
  /\ batch \in 0..Len(queue)
  /\ running \in BOOLEAN /\ stringListener \in BOOLEAN /\ containerListener \in BOOLEAN
  /\ wpc \in {"check", "locked", "waiting", "woken", "listen", "front", "has",
              "receive", "add", "wake", "pop", "ended"}
  /\ dpc \in {"open", "detached", "stopped", "unset", "halted", "woken", "join",
              "closed"}
  /\ cpc \in [Consumers -> {"idle", "empty", "waiting", "check", "take", "undefined"}]

Init ==
  /\ arrived = 0 /\ queue = <<>> /\ running = TRUE /\ wpc = "check" /\ batch = 0
  /\ stringListener = TRUE /\ containerListener = TRUE /\ dpc = "open"
  /\ fifo = <<>> /\ cpc = [c \in Consumers |-> "idle"] /\ taken = <<>>

-----------------------------------------------------------------------------
(* The receiver's thread, and the pipeline's. *)

PipeOnly == UNCHANGED <<closeVars, storeVars>>

\* nextString, under m_queueCondition: enter the data, wake the pipeline's thread.
NextString ==
  /\ dpc \in {"open", "detached"} /\ arrived < MaxArrived
  /\ wpc # "locked"
  /\ arrived' = arrived + 1
  /\ queue' = Append(queue, arrived + 1)
  /\ wpc' = IF wpc = "waiting" THEN "woken" ELSE wpc
  /\ PipeOnly
  /\ UNCHANGED <<running, batch>>

\* The loop of run(): lock m_queueCondition ...
Lock ==
  /\ wpc = "check"
  /\ wpc' = IF running THEN "locked" ELSE "ended"
  /\ PipeOnly
  /\ UNCHANGED <<arrived, queue, running, batch>>

\* ... and wait, whatever the queue holds.
Wait ==
  /\ wpc = "locked"
  /\ wpc' = "waiting"
  /\ PipeOnly
  /\ UNCHANGED <<arrived, queue, running, batch>>

\* Mutant of NumberOfEntries: one for each signal.
OneEntry == IF queue = <<>> THEN 0 ELSE 1

NumberOfEntries == Len(queue)

\* If it is still running, the thread determines the amount of current entries.
CountEntries ==
  /\ wpc = "woken"
  /\ IF running
     THEN batch' = NumberOfEntries /\ wpc' = "listen"
     ELSE wpc' = "check" /\ UNCHANGED batch
  /\ PipeOnly
  /\ UNCHANGED <<arrived, queue, running>>

\* Under m_stringListenerMutex, for the whole loop: is there a listener?
Listen ==
  /\ wpc = "listen"
  /\ IF stringListener
     THEN wpc' = "front" /\ UNCHANGED batch
     ELSE wpc' = "check" /\ batch' = 0
  /\ PipeOnly
  /\ UNCHANGED <<arrived, queue, running>>

\* Acquire the next entry, and let the listener have it: if the conference has a
\* listener ...
Front ==
  /\ wpc = "front"
  /\ wpc' = IF batch = 0 THEN "check"
            ELSE IF containerListener THEN "receive" ELSE "pop"
  /\ PipeOnly
  /\ UNCHANGED <<arrived, queue, running, batch>>

\* ... it asks once more, under m_containerListenerMutex, and calls it.
Receive ==
  /\ wpc = "receive"
  /\ wpc' = IF containerListener THEN "add" ELSE "pop"
  /\ PipeOnly
  /\ UNCHANGED <<arrived, queue, running, batch>>

\* Mutant of Entered: in front of the others.
EnteredInFront == <<Head(queue)>> \o fifo

Entered == Append(fifo, Head(queue))

\* ConferenceClientModule::nextContainer: enter it into the data store ...
Add ==
  /\ wpc = "add"
  /\ fifo' = Entered
  /\ wpc' = "wake"
  /\ UNCHANGED <<arrived, queue, running, batch, closeVars, cpc, taken>>

\* Mutant of ConditionFree: without the lock.
NoLock == TRUE

\* No consumer is between its look at the queue and its wait.
ConditionFree == \A c \in Consumers : cpc[c] # "empty"

\* ... and wake the consumers, under the data store's m_condition.
WakeConsumers ==
  /\ wpc = "wake" /\ ConditionFree
  /\ cpc' = [c \in Consumers |-> IF cpc[c] = "waiting" THEN "check" ELSE cpc[c]]
  /\ wpc' = "pop"
  /\ UNCHANGED <<arrived, queue, running, batch, closeVars, fifo, taken>>

\* Mutant of Processed: the entry is not counted.
NotCounted == batch

Processed == batch - 1

\* Remove the processed entry.
Pop ==
  /\ wpc = "pop"
  /\ queue' = Tail(queue)
  /\ batch' = Processed
  /\ wpc' = "front"
  /\ PipeOnly
  /\ UNCHANGED <<arrived, running>>

\* A wait on a condition may end without a signal.
Spurious ==
  \/ /\ wpc = "waiting"
     /\ wpc' = "woken"
     /\ PipeOnly
     /\ UNCHANGED <<arrived, queue, running, batch>>
  \/ \E c \in Consumers :
       /\ cpc[c] = "waiting"
       /\ cpc' = [cpc EXCEPT ![c] = "check"]
       /\ UNCHANGED <<pipeVars, closeVars, fifo, taken>>

-----------------------------------------------------------------------------
(* FIFOQueue::leave, called by the module's body. *)

StoreOnly == UNCHANGED <<pipeVars, closeVars>>

\* waitForData, under m_condition: if the queue is empty, ...
Leave(c) ==
  /\ dpc = "open" /\ cpc[c] = "idle"
  /\ cpc' = [cpc EXCEPT ![c] = IF fifo = <<>> THEN "empty" ELSE "check"]
  /\ StoreOnly
  /\ UNCHANGED <<fifo, taken>>

\* ... wait, once.
WaitForData(c) ==
  /\ cpc[c] = "empty"
  /\ cpc' = [cpc EXCEPT ![c] = "waiting"]
  /\ StoreOnly
  /\ UNCHANGED <<fifo, taken>>

\* Not empty, or an empty container is returned.
CheckEmpty(c) ==
  /\ cpc[c] = "check"
  /\ cpc' = [cpc EXCEPT ![c] = IF fifo = <<>> THEN "idle" ELSE "take"]
  /\ StoreOnly
  /\ UNCHANGED <<fifo, taken>>

\* Under another lock: remove the front, which is undefined if it is gone.
Take(c) ==
  /\ cpc[c] = "take"
  /\ IF fifo = <<>>
     THEN /\ cpc' = [cpc EXCEPT ![c] = "undefined"]
          /\ UNCHANGED <<fifo, taken>>
     ELSE /\ cpc' = [cpc EXCEPT ![c] = "idle"]
          /\ taken' = Append(taken, Head(fifo))
          /\ fifo' = Tail(fifo)
  /\ StoreOnly

-----------------------------------------------------------------------------
(* The destructors, once the module's body has returned. *)

CloseOnly == UNCHANGED <<arrived, queue, batch, storeVars>>

\* Mutant of ListenerFree: without the lock.
NotWaiting == TRUE

\* The pipeline's thread does not hold m_containerListenerMutex.
ListenerFree == wpc \notin {"add", "wake"}

\* ~ConferenceClientModule: setContainerListener(NULL)
Detach ==
  /\ dpc = "open" /\ \A c \in Consumers : cpc[c] = "idle"
  /\ ListenerFree
  /\ containerListener' = FALSE
  /\ dpc' = "detached"
  /\ CloseOnly
  /\ UNCHANGED <<running, wpc, stringListener>>

\* ~UDPMultiCastContainerConference stops the receiver and joins its thread ...
StopReceiver ==
  /\ dpc = "detached"
  /\ dpc' = "stopped"
  /\ CloseOnly
  /\ UNCHANGED <<running, wpc, stringListener, containerListener>>

\* ... and then takes m_stringListenerMutex for setStringListener(NULL).
Unset ==
  /\ dpc = "stopped"
  /\ wpc \notin {"front", "receive", "add", "wake", "pop"}
  /\ stringListener' = FALSE
  /\ dpc' = "unset"
  /\ CloseOnly
  /\ UNCHANGED <<running, wpc, containerListener>>

\* StringPipeline::stop ...
Halt ==
  /\ dpc = "unset"
  /\ running' = FALSE
  /\ dpc' = "halted"
  /\ CloseOnly
  /\ UNCHANGED <<wpc, stringListener, containerListener>>

\* ... wakes the thread, without locking m_queueCondition; the destructors call
\* it twice.
WakePipeline ==
  /\ dpc \in {"halted", "woken"}
  /\ wpc' = IF wpc = "waiting" THEN "woken" ELSE wpc
  /\ dpc' = IF dpc = "halted" THEN "woken" ELSE "join"
  /\ CloseOnly
  /\ UNCHANGED <<running, stringListener, containerListener>>

Join ==
  /\ dpc = "join" /\ wpc = "ended"
  /\ dpc' = "closed"
  /\ CloseOnly
  /\ UNCHANGED <<running, wpc, stringListener, containerListener>>

-----------------------------------------------------------------------------

Pipeline ==
  \/ Lock \/ Wait \/ CountEntries \/ Listen \/ Front \/ Receive \/ Add
  \/ WakeConsumers \/ Pop

\* A call of leave(), once it has been made.
Leaves(c) == WaitForData(c) \/ CheckEmpty(c) \/ Take(c)

Close == StopReceiver \/ Unset \/ Halt \/ WakePipeline \/ Join

Next ==
  \/ NextString \/ Pipeline \/ Spurious \/ Detach \/ Close
  \/ \E c \in Consumers : Leave(c) \/ Leaves(c)

Spec == Init /\ [][Next]_vars

\* The threads are scheduled, and get a mutex that is free again and again;
\* nothing has to arrive, and nobody has to consume.
FairSpec ==
  /\ Spec /\ WF_vars(Pipeline) /\ SF_vars(WakeConsumers) /\ WF_vars(Close)
  /\ \A c \in Consumers : WF_vars(Leaves(c))

-----------------------------------------------------------------------------

\* What the thread of the pipeline has still to hand to the data store.
Pending == IF wpc \in {"wake", "pop"} THEN Tail(queue) ELSE queue

\* Until the module is destroyed, no datagram is lost, repeated or overtaken on
\* its way through the two queues and three threads.
NothingLost == dpc = "open" => taken \o fifo \o Pending = [i \in 1..arrived |-> i]

\* A consumer does not wait while there is data, unless it is about to be woken.
NoMissedData ==
  \A c \in Consumers : cpc[c] = "waiting" /\ fifo # <<>> => wpc = "wake"

\* The module is not called any more once its destructor has unset it as the
\* listener.
NoLateCall == dpc # "open" => wpc \notin {"add", "wake"}

\* There is an entry to hand out whenever the thread is about to, the module is the
\* listener until it is destroyed, and a consumer that has found the queue empty
\* and does not wait yet will not sleep over data either.
InHand ==
  /\ wpc \in {"receive", "add", "wake", "pop"} => batch > 0
  /\ containerListener <=> dpc = "open"
  /\ \A c \in Consumers : cpc[c] = "empty" /\ fifo # <<>> => wpc = "wake"

\* Inductive: types, and how containers are handed on.
DeliveryInv == TypeOK /\ InHand /\ NothingLost /\ NoMissedData /\ NoLateCall

\* Whatever has arrived before the pipeline's thread is awake reaches the data
\* store, unless the module is destroyed.
WokenDelivers ==
  \A n \in Datagrams :
    wpc = "woken" /\ arrived >= n ~> Len(taken) + Len(fifo) >= n \/ dpc # "open"

-----------------------------------------------------------------------------
(* What comments of the program say, and the code does not do. *)

\* StringPipeline::nextString: wake awaiting threads.  So what has arrived is
\* delivered, without another datagram having to arrive.
ArrivedIsDelivered ==
  \A n \in Datagrams : arrived >= n ~> Len(taken) + Len(fifo) >= n \/ dpc # "open"

\* StringPipeline::~StringPipeline: stop the queue, stop the thread.
PipelineStops == dpc = "halted" ~> dpc = "closed"

\* FIFOQueue::leave returns the front or an empty container.
NeverUndefined == \A c \in Consumers : cpc[c] # "undefined"
================================================================================
