# OpenDaVINCI in TLA+

Models, checks and proofs of the distributed core of this repository: the
`supercomponent` server, the client modules it controls, and the library
(`libopendavinci`) both are built from. Paths are relative to the repository.

## The system

A running system is one `supercomponent` process and a number of client module
processes (player, recorder, a driver, a lane detector, ...). A client finds
supercomponent by a UDP multicast discovery, connects to it by TCP, sends a
description of itself, asks for its configuration, and then runs its `body()`.
At a *managed level* supercomponent also schedules the clients: in every cycle
it sends each module a pulse, at the stricter levels waits for the module to
confirm it, and at level simulation carries the containers the modules exchange.
Otherwise containers travel on a UDP multicast conference into the data stores
(FIFO, LIFO, key/value) of each module.

| Component | State | Operations | Interacts by |
|---|---|---|---|
| supercomponent's cycle (`SuperComponent`, `ConnectedModules`) | modules connected, modules shut down, containers to distribute | pulse, pulse_ack, pulse_ack_containers, deleteAllModules, onNewModule, handle... | `m_modulesMutex`, calls to ModuleConnection, listener callbacks |
| `dmcp::connection::ModuleConnection` | acknowledgement flags, connection lost, containers, listener | pulse..., nextContainer, handleConnectionError | TCP, conditions, the state listener |
| client module (`ManagedClientModule`, `ClientModule`, `dmcp::connection::Client`) | module state, last pulse, virtual time, aligner | the breakpoint `reached()` per level, getPulseMessage, nextContainer, handleConnectionError | TCP, `m_pulseCondition`, module state |
| set up (`ConnectionAcceptor`, `connection::Server`, `discoverer`) | listening socket, response received | accept, wait for description and configuration, discover | threads, TCP, UDP |
| TCP and framing (`TCPConnection`, `StringProtocol`, `NetstringsProtocol`) | partial data, listeners, socket | send, receivedString, receive thread | listener callbacks under mutexes |
| data stores (`FIFOQueue`, `LIFOQueue`, buffered ones, `KeyValueDataStore`) | a queue and its size | enter, leave, waitForData, clear | mutex and condition |
| UDP conference (`StringPipeline`, `UDPReceiver`) | queue of packets | nextString, run, stop | condition, threads |
| recorder (`Recorder`, `SharedDataListener`, `SharedDataWriter`) | free and full memory segments | add, recordEntries, store | two FIFO queues, a service thread |
| player (`Player`, `PlayerCache`, `PlayerModule`) | cache, read-ahead buffers, segments, position | fillCache, rewind, getNextContainerToBeSent | mutex, a service thread |
| simulation runtime (`RuntimeControl`, `ConferenceClientModuleRunner`, `RunModuleBreakpoint`) | simulated time, breakpoint flags | run, step, reached, continueExecution | threads polling flags |

What makes them hard, and what makes them correct:

* *Managed levels.* Four kinds of threads (main thread, acceptor, a receiver per
  connection at either end) work on flags protected by different mutexes, with
  waits that have no predicate and a timeout nobody looks at. Correct: a module
  that keeps up works only in its own turn; pulses are read in order; virtual
  time does not run ahead; containers are collected once; a round ends; a lost
  or stopped partner is noticed.
* *Connections.* Callbacks run under a lock and take another lock; connections
  are deleted, and their threads joined, under a lock. Correct: no deadlock, no
  entry without a module, no thread waiting for ever.
* *Framing.* A stream is cut anywhere. Correct: the messages that come out are
  those that went in, each as soon as it is complete.
* *Data stores and pipeline.* Check and act under separate locks, waits without
  a look at the queue. Correct: nothing entered is lost or delivered twice.
* *Recorder and player.* A fixed number of memory segments goes round between
  two queues. Correct: no segment is lost or in two places, containers and
  their memory stay together across a rewind, the threads can be stopped.
* *Simulation runtime.* Two threads hand over by polled flags. Correct: time
  advances only while every module is at its breakpoint; the simulation ends
  when all modules have finished.

The full list of hazards, each at its line, is in `PROJECT.json`.

## Modules

| Module | Models |
|---|---|
| `PulseLink` | the TCP links: one FIFO per direction and module, closed by `eof` |
| `PulseServer` | supercomponent: main thread, acceptor's last step, one receiver per connection |
| `PulseClient` | a client module: main thread with its breakpoint, receiver thread, failures |
| `ManagedLevel` | both composed; properties, inductive invariant, fairness |
| `LockStep` | what the levels with acknowledgements promise, without messages or threads |
| `ModuleRegistry` | how connections become modules of supercomponent and are deleted: acceptor, receivers and main thread, lock by lock |
| `Recorder` | a recording: the conference's thread, the module's thread, the writer's thread and the destructors |
| `RecordLog` | what a recording promises of the shared memory it accepts |
| `Player` | a replay: the cache's thread, the merging of two files, the module with its commands |
| `Runtime`, `MCRuntime` | the simulation runtime: the scheduler, the modules' threads, their breakpoints; an instance |
| `Conference` | the way of a datagram: receiver, pipeline, listeners, FIFO queue, consumers, destructors |
| `Framing`, `MCFraming` | how a stream of bytes becomes messages again; an instance |
| `ManagedLevel_proofs` | type correctness, order and lock step of `ManagedLevel` |
| `Carried_proofs` | its modules' virtual time, and the containers they return |
| `ModuleRegistry_proofs`, `Recorder_proofs`, `Player_proofs`, `Runtime_proofs`, `Conference_proofs`, `Framing_proofs` | the proofs about these modules |

`ManagedLevel` and `ModuleRegistry` look at the same supercomponent from two
sides: the first inside a round, with the maps changed in one step, the second
between the rounds, with a round as a time in which `m_modulesMutex` is held. A
connection's messages (`PulseLink`) are what `Framing` makes of the bytes. `Recorder` and
`Conference` meet at `nextContainer()`: the first begins where the second has handed a
container to its listener.

### PulseServer

`spc` is the place of the main thread: `idle` (between two cycles of `body()`),
`visit` (head of the loop over `m_modules`), then inside `pulse_ack(_containers)`
`lostcheck`, `clear`, `send`, `check`, `waiting`, `return`, one per critical
section of the code; `stuck` is a thread that locks a mutex it already holds.
`cursor` is the iterator, modules being numbered in the order of the map.
`registered` says whether a module is in `m_modules` ("in"), in
`m_shutdownModules` ("out"), in neither yet ("new") or deleted. `hasAck`, `lost`,
`batch` are the flags and the containers of a `ModuleConnection`; `receiver` is the
place of its receiver thread, split at the points of `handleConnectionError`
between which the main thread can run.

| Action | Code |
|---|---|
| `Join` | the end of `SuperComponent::onNewModule` |
| `BeginRound`, `EndRound`, `Stop` | the cycle of `SuperComponent::body()` and its end |
| `SkipModule`, `EnterTurn`, `EndTurn` | the loops of `ConnectedModules::pulse`, `pulse_ack`, `pulse_ack_containers` |
| `CheckLost`, `ClearAck`, `SendPulse`, `CheckAck`, `AckTimeout` | `ModuleConnection::pulse`, `pulse_ack`, `pulse_ack_containers` |
| `SendFails` | the failing `::send` in `POSIXTCPConnection::sendImplementation`, and the error listener it calls |
| `ReceiveAck`, `ReceiveState`, `ReceiveExit` | `ModuleConnection::nextContainer` and the listener's `handle...` |
| `PeerClosed`, `WakeOnLoss`, `NotifyLost` | `ModuleConnection::handleConnectionError` |

The levels share this code: `pulse_shift` differs from `pulse` in the time between
two sends only, `simulation_rt` from `simulation` in the pace of the rounds; neither
changes the control, so both are covered by their sibling. A round holds
`m_modulesMutex` from `BeginRound` to `EndRound`; `MutexFree` is that mutex seen
from the receivers. A wait on a condition is two steps on each side (check, wait;
set, wake), so that lost wake ups happen as in the code. A timeout may come at any
moment, which includes the timed wait that returns at once
(`POSIXCondition.cpp:63`) and the one that ends without a signal. `Stop` is there
if `Stoppable`: supercomponent runs until it is told to end.

### PulseClient

`cpc` is the place of the module's main thread: `setup`, `reached` (the breakpoint
inside `getModuleState()`), `prewait`, `waiting`, `woken` (in `getPulseMessage()`),
`check` (reading the state), `compute` (the body), `gone`. `slot` is `m_pulseMessage`,
`cur` the pulse the module has read last, `running` its module state. `crpc` is the
place of its receiver thread. `Leave`, `Abort` and `Crash` are the three ways a
process ends: with its state and exit code, with an exit code only, with nothing.

`getPulseMessage()` is one `pthread_cond_wait()` without a predicate or a loop
(`Client.cpp:157-160`). It may end although nobody has signalled: `Spurious`. The module
then reads the old pulse, or one stored and not signalled yet, advances its time, works and
confirms as if a pulse had come. `spurious` counts such waits, which `Unsteady` modules
have, up to `MaxSpurious` of them.

| Action | Code |
|---|---|
| `SetUp`, `Reached`, `Continue`, `Compute` | `ClientModule::runModule`, the breakpoint in `getModuleState()`, the body |
| `StartWaiting`, `Spurious`, `ReadPulse` | `Client::getPulseMessage()` and its callers in `ManagedClientModule` |
| `Leave`, `Abort`, `Crash` | the end of the process |
| `StorePulse`, `WakeOnPulse`, `SupercomponentLost`, `StopRunning` | `Client::nextContainer`, `handleConnectionError` |

### LockStep

Turns, working modules and strict modules. `ManagedLevel` implements it with
`turn` the module the main thread has sent the pulse of this turn to, `working`
the modules that are awake, and `strict` those whose turns all ended with an
acknowledgement of their own pulse, whose waits all ended with a signal, and whose
connection has not been given up. A module that is late once is not strict any more: the
acknowledgement it sends later is taken for the next one (`AckIsForThisPulse`, below), and
from then on the code keeps no order for it. Neither is one whose wait ended by itself: it
works outside of its turn, and confirms a pulse twice. That is as much as the code
promises; `LockStep` says besides that what such modules do does not put any other
module out of step.

### ModuleRegistry

`modules` and `shutdown` are `m_modules` and `m_shutdownModules`, functions from
descriptors to the `ConnectedModule` entered (named after its client), to `Null` or
`Absent`. `rpc` is where the receiver thread of a connection is, one place before
each lock a handler takes ("has", "get", "remove", "add", "shuthas", "shutget"), `op`
the handler, `held` the pointer it has looked up, `listening` the connections with
a state listener. A handler holds the listener's lock throughout (`InHandler`).
`apc` and `mpc` are the places of the acceptor and the main thread; a sweep
(`deleteAllModules`) holds the lock of its `table` until `left` is empty.

`waitForModuleDescription()` is another wait without a predicate (`ModuleConnection.cpp:76-82`):
if it ends by itself (`Spurious`), the acceptor goes on with the empty descriptor the
connection was made with (`Blank`). The module is entered under it, and removed under the
descriptor it has by then: `Name` is `m_descriptor` at the time it is read. A module this
has happened to is in `unnamed` for good. The code keeps no order for it; the properties
are about the others, the `Steady` ones, whatever the unnamed ones do to them.

| Action | Code |
|---|---|
| `Connect`, `Describe`, `Run`, `Leave`, `Abort`, `Crash` | the client's end of the connection |
| `Refuse`, `Accept` | `POSIXTCPAcceptor::run`, `Server::onNewConnection` |
| `Spurious` | the wait for the description ends without a signal |
| `DescriptionArrived`, `SetListener`, `CheckName`, `AddModule` | `SuperComponent::onNewModule` |
| `ReceiveRequest`, `SendConfiguration`, `SendConfigurationFails`, `Receive` | `ModuleConnection::nextContainer`, `handleConnectionError` |
| `HasModule`, `GetModule`, `UseModule`, `RemoveModule`, `AddShutdown`, `HasShutdown`, `GetShutdown` | `handleChangeState`, `handleExitCode`, `handleConnectionLost`, one step per lock |
| `StartSweep`, `ClearListener`, `DeleteModule`, `EndSweep` | `ConnectedModules::deleteAllModules`, with the join of the receiver |
| `SetHandler`, `EndRound`, `Stop`, `JoinAcceptor` | `SuperComponent` from its constructor to the end of `body()` |

### Recorder and RecordLog

Memory segments are numbered from 0, as in the code; `bufIn` and `bufOut` are the queues of free and of filled
ones, `lost` those the code leaks, `mem` what a segment holds, as the number of the container it was copied for.
`mpc` is the place of `RecorderModule::body()` and then of the destructors, `cpc` that of
the thread that calls `nextContainer()`, `wpc` that of `recordEntries()`, which runs in
the writer's thread, in `add()` if there is none, or in the writer's destructor. `threading`
and `remote` are the configuration, fixed in `Init`.

| Action | Code |
|---|---|
| `Receive`, `PutCommand` | `ConferenceClientModule::nextContainer`, which enters a container into the recorder's FIFO queue, its `SharedDataListener` and the key/value store |
| `Store` | `Recorder::store` |
| `DropContainer`, `TakeSegment`, `CopyMemory`, `CopyFails`, `EnterSegment` | `SharedDataListener::add`, `copySharedMemoryToMemorySegment` |
| `Cycle`, `TakeEntry`, `WriteEntry`, `FreeSegment`, `EntriesDone` | `SharedDataWriter::run`, `recordEntries` |
| `BodyCycle`, `RecordEntry`, `Recorded`, `ObeyCommand`, `ClearQueue` | `RecorderModule::body`, `Recorder::recordQueueEntries` |
| `EndRecording`, `StopWriter`, `DeleteWriter` | `~Recorder`, `~SharedDataListener`, `~SharedDataWriter` |
| `StreamFails` | an output stream that is not good any more |
| `UseAfterEnd` | a container that is handed to data stores that have been destroyed |

`RecordLog` has two actions: memory is accepted, and what was accepted first and is not
in the file yet is written. `Recorder` implements it with `written` the `.mem` file; the other
file is the subject of `EndComplete`.

### Player

The containers of a recording are numbered in the order of their time stamps, and
`images` are those with shared memory, which are in the second file. `upc` is where
`PlayerCache::updateCache` is, `recPos` and `memPos` the positions in the files, `recBuf` and
`memBuf` what was read and not queued yet, `free` and `bufOut` the segments. `ppc` is
where the module's thread is.

| Action | Code |
|---|---|
| `StartUpdate`, `FillCache`, `EndUpdate` | `PlayerCache::run`, `updateCache`, `fillCache` |
| `Open` | `Player`'s constructor |
| `ReadActual`, `ReadSuccessor`, `Return` | `Player::getNextContainerToBeSent`, `PlayerCache::getNextContainer`, `copyMemoryToSharedMemory` |
| `Cycle`, `Send`, `NoCommand`, `PlayPauseStep` | `PlayerModule::body` |
| `Rewind`, `Rewound` | `Player::rewind`, `PlayerCache::clearQueueRewindInputStreams` |
| `ReceiveCommand`, `Stop` | the conference, the end of RUNNING |

### Runtime

`rpc` and `k` are where `RuntimeControl::run` is and the runner it works on; `mpc[m]` is
where the thread of module m is, `hpc[m]` where a second thread of that module that sends
containers is. `reached`, `continue` and `allowed` are the flags of the breakpoint and of
the `BlockableContainerReceiver`. Time is counted in ticks, `Second` of them in a second.

| Action | Code |
|---|---|
| `Cycle`, `NotDue`, `Increment`, `Return` | `RuntimeControl::run` |
| `Start`, `Resume`, `ContinueExecution`, `TurnEnds`, `NotResponding` | `ConferenceClientModuleRunner::step`, `Runner::needsExecution` |
| `Stop`, `Joined` | `RuntimeControl::run` after its loop, `Service::stop`, `beforeStop` |
| `Unwind`, `Destroyed` | the destructors after an exception |
| `Signal` | `AbstractModule`'s signal handler |
| `SetUp`, `GetModuleState`, `ReadState`, `Finish`, `End`, `Fail` | `ConferenceClientModuleRunner::run`, `runModule`, `body` |
| `Disallow`, `Reach`, `Released`, `Consume` | `RunModuleBreakpoint::reached` |
| `Check`, `Deliver` | `BlockableContainerReceiver::nextContainer` |

### Conference

`wpc` is where the pipeline's thread is, `dpc` where the destructors are, `cpc` where each
consumer is in `FIFOQueue::leave`. Who holds which mutex can be read off these places.
`NothingLost` says of the three threads together what the two queues promise.

| Action | Code |
|---|---|
| `NextString` | `POSIXUDPReceiver::run`, `StringPipeline::nextString` |
| `Lock`, `Wait`, `CountEntries`, `Listen`, `Front`, `Pop` | `StringPipeline::run` |
| `Receive`, `Add`, `WakeConsumers` | `UDPMultiCastContainerConference::nextString`, `ContainerConference::receive`, `ConferenceClientModule::nextContainer`, `AbstractDataStore::wakeAll` |
| `Leave`, `WaitForData`, `CheckEmpty`, `Take` | `FIFOQueue::leave`, `AbstractDataStore::waitForData` |
| `Detach`, `StopReceiver`, `Unset`, `Halt`, `WakePipeline`, `Join` | the destructors of module, conference, receiver and pipeline |
| `Spurious` | a wait on a condition that ends without a signal |

### Framing

The stream is a sequence of bytes, each named by its message and its place in it; the
receiver reads a length from where it believes a message to begin. `Receive` is
`receivedString()` of `TCPConnection` and, line for line the same, `StringProtocol`. Reading
a length from fewer than four bytes leaves the stringstream failed for good: later chunks
are not stored, and each of them hands on an empty message (`ReadFails`). The chunks are
cut anywhere, headers included, unless `whole`. `handed` is what came out, empty messages
included; `Received` counts the others. `NoByteLost` says that as long as no length was read
from too few bytes, every byte of the partial data and of the network is followed by
the next one of the stream (`NextByte`), from the first that was not handed on yet.

### Abstractions

* Batches of containers are numbers; the number of the pulse an acknowledgement
  answers is a history variable the program cannot read.
* The deletion of a connection (`Stop`, `BeginRound`) is one step, and so is
  moving a module to `m_shutdownModules`; the locks taken in between are the
  subject of `ModuleRegistry`.
* In `ModuleRegistry` a module's state and exit code are not kept: they feed only
  messages on the console. A round is a lock held; what a failing send of a pulse
  does is in `PulseServer`. Runtime statistics and acknowledgements of pulses touch
  neither map and are left out. Pending connections are accepted in any order, and a
  client connects once: a process that connects again counts as another client, with
  the same descriptor if it is in `Twins`.
* A connection refused because no handler is set yet (`Refuse`) is opened and deleted
  in one step.
* `m_containersToBeTransferredToSupercomponent` is read and written under
  different mutexes. The model reads and writes it in one step each, in any order; a list
  that is copied while it changes is outside of the model.
* A wait on a condition may end without a signal. This is modelled wherever the code does not
  look again at what it has waited for: the waits for a pulse and for a description, and all
  of `Conference`. The timed waits may end at any time anyway; `Service::start` waits in a
  loop on its predicate.
* In `ModuleRegistry` a descriptor that is read while the receiver assigns it is read before or
  after: the data race on its strings is outside of the model.
* The alignment of level pulse (10 pulses in the code) is a constant.
* In `Recorder`, what is copied is the number of its container, and a container too large
  for a segment or without shared memory is of kind `large`. The number of containers is
  bounded, which hides that `~Recorder` might go on for ever if they arrived faster
  than they can be written. What freed memory does is outside of the model.
* In `Player` the delays between containers are left out: they only say how long the module
  sleeps. A recording holds at least two containers: the player waits for the second one.
* In `Runtime` the waits for a flag, which poll, are guards; a module that does not respond
  in time may be slow or hang. System components run in the scheduler's thread between
  turns, and reporters after them; neither is modelled.
* In `Framing` a message is shorter than 256 bytes, so that the first bytes of its length
  are zero; bytes that are not a header may be read as any length.

## Runs

Deadlock is not checked in any run because the systems really stop:
`ManagedLevel` after `MaxRounds`, after `Stop`, and when every module is gone;
`ModuleRegistry` when supercomponent has ended, `Recorder` and `Player` at the end of the
recording, `Runtime` when `run()` has returned, `Conference` when everything is destroyed,
`Framing` when all messages have arrived. Threads that wait for each other are found by
liveness properties.

| Run | Instance | Shows |
|---|---|---|
| `ack` | 2 modules, the first of which may wake without a signal once, 2 rounds, pulse_time_ack | `StrictWorkInTurn`, `RefinesLockStep` |
| `simulation` | 1 module, which may leave, abort or crash and wake twice without a signal, 4 rounds, simulation; supercomponent may stop | `TypeOK`, `BatchesOnce`, `NoBatchSkipped`, `PulsesMoveForward`, `VirtualTimeNotAhead`, the inductive invariant `LockStepInv` |
| `rounds_end` | 2 modules (one excluded by name, the other may leave, abort, crash or wake once without a signal), 2 rounds, pulse_time_ack, with fairness | `RoundsEnd` |
| `registry` | 2 clients with distinct descriptors that may leave, abort or crash, the wait for the description of one of which may end without a signal; supercomponent may stop; with fairness | `TypeOK`, `OneOwner`, `NoDeadModuleUsed`, `LiveModulesStay`, `DescribedAreRegistered`, the inductive invariant `RegistryInv` |
| `recorder` | 2 segments, 3 containers of any kind; with and without threads and remote control; the stream may fail, the recording end at any point; with fairness | `SegmentsInOnePlace`, `RefinesRecordLog`, `EndComplete`, `RecordingEnds`, `AcceptedIsWritten`, the inductive invariant `RecordingInv` |
| `player` | every recording of 3 containers, a cache of 3 (the least the code makes), with and without threads, rewinding and remote control; with fairness | `ImagesMatch`, `PlayedInOrder`, `NeverStarvesAlone`, `EndsAtTheEnd`, `ReplayEnds`, `RewindReturns` |
| `runtime` | 3 modules with turns every 3, 2 and 9 of 6 ticks a second, two of them with a second thread, 2 seconds; with fairness | `OneAtATime`, `BlockedWhileHeld`, `NoTurnMissed`, `RunEnds`, the inductive invariant `HandOverInv` |
| `conference` | 4 datagrams, one consumer, spurious wake ups, destruction at any point; with fairness | `NothingLost`, `NoMissedData`, `NoLateCall`, `WokenDelivers`, the inductive invariant `DeliveryInv` |
| `framing` | 5 messages of 1 to 3 bytes, up to 3 under way, chunks of any size; with fairness | `WholeAndInOrder`, `NoByteLost`, `NeverFurtherBehind` |

Bounds.

* `ManagedLevel`: two modules are the least number for which turns can be mixed up; two
  rounds the least for which an acknowledgement can be late, and in the second the
  module may be awake for the first pulse, have the second stored and be waited for.
  `ack` is about turns: its modules do not fail and supercomponent is not stopped, which
  would make four times as many states and no other turns; the second module has to keep
  step while the first wakes by itself, in its turn or not. `simulation` is about
  what one connection carries, with every failure: four rounds, so that rounds fall before,
  across and after a failure, and an acknowledgement too late or one too many meets a
  turn after that. `rounds_end` needs one module that is skipped and one whose connection is lost
  at any point of its turn, before the send and after it.
* `ModuleRegistry` has no bound on its rounds or messages: a client sends a handful
  of messages in its life, and all behaviours are explored. Two clients are enough for
  one's handler, in both maps, to meet the other's acceptance and deletion, and for one without
  a name to meet one that has kept it.
* `Recorder`: with two segments and three containers the pool runs empty, a segment is
  used again, and one can be in each of the listener's and the writer's hands.
* `Player`: three containers let either file be older, be exhausted first, or be
  empty, and a rewind find a container read ahead; a replay that rewinds by itself
  goes round without a bound. `MaxQueued` bounds the commands waiting.
* `Runtime`: two seconds hold turns at the same and at different ticks, a period above one
  second, and the end of the running time.
* `Conference`: four datagrams let the pipeline's thread hand out several at a time while
  more arrive, and consumers be ahead and behind.
* `Framing`: a window of three lets a chunk hold more than two messages and the cut of a third.

The proofs hold for any value of these constants.

Runs that show a disagreement between the code and what its comments say
(`findings` of `PROJECT.json` quote both):

| Run | What happens |
|---|---|
| `crash` | A pulse is sent to a module that has crashed. `send` fails, the error listener runs in the main thread, under `m_modulesMutex`, and locks it again. |
| `torn_down` | A module does not reach its breakpoint in time, an exception is thrown, and the destructor waits for the module's thread, which is held at its breakpoint: the context components are never torn down. |
| `stuck_datagram` | A datagram that arrives while the pipeline's thread hands out others wakes nobody and stays in the queue until the next one arrives. |

More disagreements are stated at the end of the modules, without a run of their own. TLC finds
each of them violated with the given instance (invariants except where marked: A an
action property, L liveness under the module's `FairSpec`):

| Property | Instance | What happens |
|---|---|---|
| `AckIsForThisPulse` | `ack`, N = 1, 1 round | The breakpoint confirms before it waits, also the first time. This acknowledgement may arrive after supercomponent cleared its flag: then it ends the wait for the first pulse. |
| `NextPulseIsReturned` (A) | `ack`, N = 1, 1 round | A wait that ends by itself returns the pulse of before once more: virtual time advances, the body works and the pulse is confirmed again. |
| `ReceivedPulseIsReturned` | pulse_time, N = 1, 2 rounds | A pulse that arrives while the module computes is stored and signalled to nobody; the next `getPulseMessage()` waits for one more. |
| `StopStopsClients` (L) | pulse_time or none, N = 1, 1 round | The receiver wakes the module before the state is NOT_RUNNING; it sees RUNNING and waits for a pulse nobody will send. At level none, NOT_RUNNING is overwritten by RUNNING after `setUp()`. |
| `SweepsEnd` (L) | `registry`, one client, `Unsteady = {}` | A module sends its exit code and closes its connection. The sweep holds the lock of `m_shutdownModules` and waits for the listener's; the receiver holds the listener's and waits for that of the map. |
| `NoGhosts` | `registry`, one client, `Unsteady = {}` | A client describes itself and is lost before the listener is set: nobody is told, and the module is added afterwards and stays. |
| `AcceptorIsJoined` (L) | `registry`, one client, `Silent`, `Unsteady = {}` | A client connects and leaves without a description. The acceptor waits for ever, accepts nobody else, and supercomponent's end waits for it. It holds if every client describes itself. |
| `LiveModulesStay` (A) | `registry`, `Twins = Clients`, `Unsteady = {}` | Of two clients with one descriptor the second is not added, but its end removes the first, which is deleted while it runs (`SuperComponent.cpp:383`). |
| `RecordsOnCommand` | `recorder` | A remotely controlled recorder that was never told to record writes shared memory at once, and at its end what is in the queue. |
| `RewindRestarts` (A) | `player` | A container that was read ahead when the player is rewound stays in its buffer: it comes again, out of its time. |
| `SentInTurn` (A) | `runtime` | A second thread that has passed the check before its module is held delivers a container in another's turn. |
| `FinishedMeansAll` (A) | `runtime` | Whether the simulation goes on is what the last module says, whatever those before it have said. |
| `NoTurnMissed` (A) | `runtime`, `Periods` 5, 5, 5 | A period that does not divide the second loses the turns across it. |
| `PipelineStops` (L) | `conference` | `stop()` wakes without the lock: a thread between its check and its wait sleeps on, and the destructor joins it for ever. |
| `NeverUndefined` | `conference`, two consumers | Both see the last entry; the second removes the front of an empty queue. The program's queues have one consumer each. |
| `CompleteIsHandedOn` (L) | `framing` | One message is taken from a chunk; a second complete one waits for the next chunk. |

Fairness. In every module it is the scheduling of threads by the operating system;
what depends on other processes, a user or a failure is never fair.

* `ManagedLevel`: weak fairness of the main thread, of every receiver thread
  and of every module's main thread; the timeout of a wait is part of the main
  thread's. Not fair are `Join`, `Stop`, `Abort`, `Crash`, `Spurious`.
* `ModuleRegistry`: weak fairness of the main thread and strong fairness of
  the acceptor and of every receiver: these wait for a mutex that the main thread
  takes again in every cycle, but between two cycles it sleeps without any lock
  (`SuperComponent.cpp:235`, `319`), so that a waiting thread gets its turn. A client
  that has connected sends its description (`Client::initialize` follows the connection
  at once), unless it is one of `Silent`. No wait has to end without a signal.
* `Recorder`: weak fairness of the writer's and the module's threads. The conference's
  thread need not even finish what it has begun, and nothing has to fail.
* `Player`: weak fairness of both threads, and strong of `Rewind`, which waits for a mutex
  that the cache's thread gives back in every cycle. No command has to come.
* `Runtime`: weak fairness of `run()` and of every module's threads: bodies come back to
  `getModuleState()`, however late. A second thread has to deliver, not to send again.
* `Conference`: weak fairness of the pipeline, of the destructors once they have begun and
  of calls of `leave()` that were made; strong fairness of waking the consumers, which
  waits for a mutex each of them holds for a moment.
* `Framing`: the network delivers; nobody has to send.

## Proofs

`ManagedLevel_proofs` proves `TypeCorrect`: `Spec => []TypeOK` at every level, for every
number of modules and rounds. The types are inductive with one addition: at level
pulse a waiting module has pulses left to align.

It also proves, for every number of modules and rounds:

* `PulsesOrdered`, at every level: `PulseOrder` is inductive. What is under way to a module is
  sorted, not older than `slot`, that not older than `cur`, and `cur` not
  older than any acknowledgement of the module, under way or received.
  `NoOlderPulse`, an action property, follows.
* `PulsesInLockStep`, assuming `Acked`: `LockStepInv` is inductive. That strict modules
  work in their turn only is not inductive by itself: one has to know
  that a pulse of this round does not exist before it is sent (`NotSentYet`), that
  only a deleted connection is closed (`OnlyPulses`), and that a module in step
  has at most one pulse under way, awaking it, or in work, which it has
  not confirmed (`OnePulse`). The last conjunct is what makes the end of a turn
  safe: if the turn ends with the module's own acknowledgement, nothing of
  it is left under way. A module whose wait ends without a signal loses its step in that
  very step, which touches nothing the others' step depends on (`OwnSteps`, `OutOfStep`).
* `WorkInTurn` (`StrictWorkInTurn`) and `Refinement` (`Spec => RefinesLockStep`), assuming
  `Acked`, from that invariant. Without acknowledgements no module is strict for long:
  sending a pulse without waiting ends it.

`Carried_proofs` proves `TimeNotAhead` (`VirtualTimeNotAhead`) at every level. What a
module has worked, is awoken for and has under way is at most what was sent to it,
where the end of its connection counts as one more, and so does every wait that has ended
without a signal (`VirtualTimeInv`). For this not to
shrink when a pulse is sent, a turn must begin only for a registered module; and that
the end of the connection is the last thing under way is what keeps the extra slice
from being worked before it.

It also proves `CollectedOnce` (`BatchesOnce`) at every level. A timed out turn leaves its
acknowledgement to the next one, so a batch may be collected a turn late or be
overwritten; it is never collected twice because what is collected, received and under way
is in order (`BatchesInOrder`), and what the module has made and not confirmed is
later than all of it (`BatchesMade`).

That of a module that keeps step none is skipped (`NoneSkipped`, assuming `Acked`) takes both
halves. Lock step says that the module is awake in its turn only, by a pulse it has not
confirmed; `PulseOfTurn` adds that this is the pulse of the turn. So when the turn ends with that
pulse's acknowledgement the module has made one batch more than was collected, and what
was received with the acknowledgement is that batch (`BatchOfTurn`). It is made after
`EnterTurn` has cleared the list, and never is what was cleared.

`ModuleRegistry_proofs` proves `RegistryTypes` (`TypeOK`, for any clients, twins and silent
ones) and, for any number of clients with distinct descriptors (`Twins = {}`, without
which the last of them does not hold), `OneOwnerKept`, `DeadModulesUnused` and `LiveModulesKept`.
They are about the modules the wait for whose description has not ended by itself, and hold
whatever the others do: those are entered and looked up under `Blank` or their own descriptor,
which no steady module has.
They follow from the inductive invariant `RegistryInv` (`RegistryKept`). The maps are
locked for one look up at a time, so what `hasModule()` has seen could be gone when
`getModule()` is called. It is not, and the invariant says why: only a module's own
receiver moves its entry (`EntryInv`), the sweep of `m_modules` comes after the
acceptor's end and that of either map has to clear the listener first, which waits for
the handler (`HandlerInv`); a deleted module has no thread left and is in no map
but the one being swept, behind the iterator (`DeletedInv`, `SweepInv`); what is in
`m_shutdownModules` got there by a message that a client sends at its end (`GoneInv`).

`Recorder_proofs` proves, for any number of segments and containers, that `RecordingInv` is
inductive (`RecordingKept`), and from it `SegmentsStayApart`, `EndIsComplete` and the refinement
`RecorderImplementsLog` (`Spec => RefinesRecordLog`). The refinement needs to know that what
is in the file, in the writer's hand and in `bufOut` together is what was accepted, in order,
and that the segment of each still holds its own memory (`FileContinues`); the second
because no segment is in two places (`SegmentsInOnePlace`). What the end owes (`Owed`) is why
the number of entries the destructor writes, read once, is enough.

`Runtime_proofs` proves, for any number of modules and any periods, `OneExecutesAtATime` and
`HeldAreBlocked` (`BlockedWhileHeld`), from `HandOverInv` (`HandOverKept`): `reached` and
`continue` are each set by one side and taken back by the other in turn
(`FlagsInTurn`), so that a flag seen is never one of an earlier turn. That the time step is a
positive number (`StepType`) needs that a greatest divisor exists, from the well-foundedness
of the natural numbers.
`TurnsKept` (`NoTurnMissed`) assumes that every period is longer than a second or divides it
(`Commensurable`); without this it is false, as the table above shows. Then what
`needsExecution` looks at is whether the time is a multiple of the period (`DueAtMultiples`),
and a step of the time, which divides every period, passes no multiple by
(`SameMultiple`). `TurnsInv` carries this through a cycle: the runners `run()` has come to
have had the turn of now, the others that of the latest multiple before.

`Conference_proofs` proves, for any number of datagrams and any consumers, `DeliveryKept` (`DeliveryInv`
is inductive) and from it `NothingIsLost`, `NobodySleepsOverData` and `DestroyedAreNotCalled`.

`Player_proofs` proves, for every recording, any size of the cache and any commands, that
`ReplayInv` is inductive (`ReplayKept`), and from it `PlayerTyped`, `ReplayImagesMatch`,
`ReplayNeverStarvesAlone`, `ReplayEndsAtTheEnd` and the action property `ReplayInOrder`
(`PlayedInOrder`). While the cache keeps pace and no container was read ahead when the player
was rewound (`Intact`), the replay is in order (`InOrder`): the files have been merged without a gap
up to the last container queued (`ReadInOrder`), the queue continues what the player has
taken (`QueueInOrder`), and the two containers in its hands are the next to be returned
(`InHand`). That an image meets its own memory is not inductive, since a segment is filled
when a container is read ahead and consumed two steps later, by number only. The
invariant therefore places the segments (`SegmentsInOrder`): each belongs to a pending image,
in the player's hands or in the queue, every pending image has one, and they are in the same
order; an image read ahead and not queued yet has the last one. Without a thread
nobody rewinds and the two halves take turns (`Alone`). That the cache never runs empty then
rests on its least size: it stops filling at the end of both files, where all that is left is in
the queue, or when no segment is free, and then each of the three segments or more holds
another pending image, more than the player has in its hands (`AloneAtEnds` is the same
while the files wait at their ends to be rewound).

`Framing_proofs` proves, for any messages and chunks cut anywhere, that `FramingInv`
is inductive (`FramingKept`), and from it `HandedOnWhole` (`WholeAndInOrder`), `StreamGoesOn`
(`NoByteLost`) and `FramingTyped`. Both properties are needed for each other: a message is handed
on whole because the partial data begins with its first byte and goes on without a gap, and
the rest begins with the first byte of the next one because what was handed on had
the length the header says. Neither is a definition by recursion here: the stream is described by
each byte's successor, and that a chain of bytes from the first of a message reaches the
byte n places on is shown by a least counterexample, from the well-foundedness of the
natural numbers, in place of an induction.

With that, every invariant and every action property a passing run checks is a theorem, and
so are both refinements. What stays with TLC is liveness under fairness (`RoundsEnd`,
`DescribedAreRegistered`, `RecordingEnds`, `AcceptedIsWritten`, `ReplayEnds`, `RewindReturns`,
`RunEnds`, `WokenDelivers`, `NeverFurtherBehind`), which is out of this prover's reach, and the
runs that show a disagreement, which are about one behaviour.

The assumptions are those about the constants (`...Assumption` in each module), which TLC
evaluates in every run, and three named hypotheses, each of which is in the statement of the
theorems that need it: `Acked` for the lock step, `Twins = {}` for the registry and `Commensurable`
for the turns. The instances of the runs satisfy them. Without `Acked` no module is strict,
without the other two `LiveModulesStay` and `NoTurnMissed` are false, as the tables above
show.

## Plan

1. Done: the managed levels, with the proofs of all their safety properties.
2. Done: `ModuleRegistry`, `Recorder`, `Player`, `Runtime`, `Conference` and `Framing`, with the
   proofs of all their safety properties.
3. Left: the discovery (`discoverer::Client` and `Server`), where a late response may answer
   the next request; `RealtimeService`.

## Not modelled

* The UDP multicast discovery, and the contents of configurations. A response that
  arrives after its timeout answers the next request, with the same address.
* The frequency arithmetic of `wait()` and of supercomponent's time slices: it says how long
  a thread sleeps, and the models let every sleep take any time.
* `NetstringsProtocol` and the buffered queues: nothing in the program but tests uses them.
  (`LIFOQueue` holds the one container the player has read ahead from a file.)
* Sending on a conference (one call of the operating system), packet listeners, the reporters
  and system components of the simulation runtime.
* Serialization, configuration files, URLs, time stamps: sequential conversions.
* Shared memory, databases, archives, serial ports: thin wrappers of system calls.
* Vehicle models, image processing, rendering and user interfaces (`hesperia`,
  `libvehiclecontext`, `apps`): numerics and drawing.
* Vendored code (`3rdParty`, `_buildtools`), which is by far most of the repository's lines.
