----------------------------- MODULE PulseServer -----------------------------
(***************************************************************************)
(* The supercomponent side of the managed levels: the main thread, which   *)
(* runs SuperComponent::body() and in it ConnectedModules::pulse,          *)
(* pulse_ack or pulse_ack_containers, and one receiver thread per          *)
(* connection, which runs ModuleConnection::nextContainer and              *)
(* handleConnectionError.                                                  *)
(*                                                                         *)
(* The main thread holds m_modulesMutex for a whole round.  A receiver     *)
(* that has to look up its module (state, exit code, lost connection)      *)
(* therefore stops at that mutex until the round is over, and with it      *)
(* every message behind the one it is handling.                            *)
(***************************************************************************)
EXTENDS PulseLink

CONSTANT
  Stoppable \* supercomponent may be stopped

ASSUME ServerAssumption == Stoppable \in BOOLEAN

VARIABLES
  spc,         \* where the main thread is
  round,       \* pulses started so far: the number of the current pulse
  cursor,      \* the iterator of the loop over m_modules
  registered,  \* per module: "new", "in" m_modules, "out" (shut down), "deleted"
  receiver,    \* per module: where the receiver thread of its connection is
  hasAck,      \* m_hasReceivedPulseAck, m_hasReceivedPulseAckContainers
  lost,        \* m_connectionLost
  batch,       \* m_containersToBeTransferredToSupercomponent, 0 if empty
  collected,   \* allContainersToBeDeliveredInNextCycle
  distributed, \* containersToBeDistributedToModules
  ackOf,       \* history: the pulse the last received ACK answered
  lastBatch,   \* history: the last batch of containers collected from a module
  inStep       \* history: every turn of the module so far ended by its own ACK

serverVars == <<spc, round, cursor, registered, receiver, hasAck, lost, batch,
                collected, distributed, ackOf, lastBatch, inStep>>

ServerTypeOK ==
  /\ spc \in {"idle", "visit", "lostcheck", "clear", "send", "check",
              "waiting", "return", "stuck", "stopped"}
  /\ round \in Nat
  /\ cursor \in 1..(N + 1)
  /\ spc \notin {"idle", "visit", "stopped"} => cursor <= N
  /\ registered \in [Modules -> {"new", "in", "out", "deleted"}]
  /\ receiver \in [Modules -> {"recv", "wake", "notify", "ended"}]
  /\ hasAck \in [Modules -> BOOLEAN]
  /\ lost \in [Modules -> BOOLEAN]
  /\ batch \in [Modules -> Nat]
  /\ collected \subseteq (Modules \X Nat)
  /\ distributed \subseteq (Modules \X Nat)
  /\ ackOf \in [Modules -> Nat]
  /\ lastBatch \in [Modules -> Nat]
  /\ inStep \in [Modules -> BOOLEAN]

ServerInit ==
  /\ spc = "idle"
  /\ round = 0
  /\ cursor = 1
  /\ registered = [m \in Modules |-> "new"]
  /\ receiver = [m \in Modules |-> "recv"]
  /\ hasAck = [m \in Modules |-> FALSE]
  /\ lost = [m \in Modules |-> FALSE]
  /\ batch = [m \in Modules |-> 0]
  /\ collected = {}
  /\ distributed = {}
  /\ ackOf = [m \in Modules |-> 0]
  /\ lastBatch = [m \in Modules |-> 0]
  /\ inStep = [m \in Modules |-> TRUE]

\* m_modulesMutex of m_modules is not held by the main thread.
MutexFree == spc \in {"idle", "stopped"}

\* The main thread is in pulse_ack of module m and has sent the pulse.
InTurn(m) == cursor = m /\ spc \in {"check", "waiting", "return"}

\* wakeAll on the condition the main thread may be waiting on for module m.
WakeMain(m) == spc' = IF spc = "waiting" /\ cursor = m THEN "return" ELSE spc

-----------------------------------------------------------------------------
(* The acceptor thread. *)

\* The rest of onNewModule once the module description has arrived.
Join(m) ==
  /\ registered[m] = "new"
  /\ MutexFree
  /\ spc # "stopped"
  /\ registered' = [registered EXCEPT ![m] = "in"]
  /\ UNCHANGED <<linkVars, spc, round, cursor, receiver, hasAck, lost, batch,
                 collected, distributed, ackOf, lastBatch, inStep>>

-----------------------------------------------------------------------------
(* The main thread. *)

\* Close the given connections: each receiver is joined, each client that is
\* still there sees the end of its connection.
Disconnect(gone) ==
  /\ registered' = [m \in Modules |->
                      IF m \in gone THEN "deleted" ELSE registered[m]]
  /\ receiver' = [m \in Modules |-> IF m \in gone THEN "ended" ELSE receiver[m]]
  /\ up' = [m \in Modules |-> IF m \in gone THEN <<>> ELSE up[m]]
  /\ down' = [m \in Modules |->
                IF m \in gone /\ m \in open /\ registered[m] # "deleted"
                THEN Append(down[m], Closed) ELSE down[m]]
  /\ UNCHANGED open

\* A cycle of body(): delete what is in m_shutdownModules, start the pulse.
BeginRound ==
  /\ spc = "idle"
  /\ round < MaxRounds
  /\ Disconnect({m \in Modules : registered[m] = "out"})
  /\ round' = round + 1
  /\ IF Level = "NONE"
     THEN UNCHANGED <<spc, cursor, collected>>
     ELSE /\ spc' = "visit"
          /\ cursor' = 1
          /\ collected' = {}
  /\ UNCHANGED <<hasAck, lost, batch, distributed, ackOf, lastBatch, inStep>>

\* Mutant of SkipModule: the iterator is incremented for a skipped module, and
\* in the loop header once more.
SkipTwice ==
  /\ spc = "visit"
  /\ cursor <= N
  /\ registered[cursor] # "in" \/ cursor \in Ignored
  /\ cursor' = cursor + 2
  /\ UNCHANGED <<linkVars, spc, round, registered, receiver, hasAck, lost,
                 batch, collected, distributed, ackOf, lastBatch, inStep>>

\* Modules that are not connected, or that are excluded, get no pulse.
SkipModule ==
  /\ spc = "visit"
  /\ cursor <= N
  /\ registered[cursor] # "in" \/ cursor \in Ignored
  /\ cursor' = cursor + 1
  /\ UNCHANGED <<linkVars, spc, round, registered, receiver, hasAck, lost,
                 batch, collected, distributed, ackOf, lastBatch, inStep>>

\* Mutant of EnterTurn: the containers of an earlier turn are not cleared.
EnterTurnWithOldBatch ==
  /\ spc = "visit"
  /\ cursor <= N
  /\ registered[cursor] = "in" /\ cursor \notin Ignored
  /\ spc' = IF Acked THEN "lostcheck" ELSE "send"
  /\ UNCHANGED <<linkVars, round, cursor, registered, receiver, hasAck, lost,
                 batch, collected, distributed, ackOf, lastBatch, inStep>>

\* Entry of pulse_ack_containers: assume that no containers are received.
EnterTurn ==
  /\ spc = "visit"
  /\ cursor <= N
  /\ registered[cursor] = "in" /\ cursor \notin Ignored
  /\ spc' = IF Acked THEN "lostcheck" ELSE "send"
  /\ batch' = [batch EXCEPT ![cursor] = 0]
  /\ UNCHANGED <<linkVars, round, cursor, registered, receiver, hasAck, lost,
                 collected, distributed, ackOf, lastBatch, inStep>>

CheckLost ==
  /\ spc = "lostcheck"
  /\ spc' = IF lost[cursor] THEN "return" ELSE "clear"
  /\ UNCHANGED <<linkVars, round, cursor, registered, receiver, hasAck, lost,
                 batch, collected, distributed, ackOf, lastBatch, inStep>>

ClearAck ==
  /\ spc = "clear"
  /\ hasAck' = [hasAck EXCEPT ![cursor] = FALSE]
  /\ spc' = "send"
  /\ UNCHANGED <<linkVars, round, cursor, registered, receiver, lost, batch,
                 collected, distributed, ackOf, lastBatch, inStep>>

\* Mutant of SendPulse: the acknowledgement is not waited for at any level.
SendWithoutWaiting ==
  /\ spc = "send"
  /\ down' = [down EXCEPT ![cursor] =
                IF cursor \in open THEN Append(@, Pulse(round)) ELSE @]
  /\ spc' = "visit"
  /\ cursor' = cursor + 1
  /\ UNCHANGED <<up, open, round, registered, receiver, hasAck, lost, batch,
                 collected, distributed, ackOf, lastBatch, inStep>>

\* m_connection->send(c).  Without acknowledgements the loop goes straight on.
SendPulse ==
  /\ spc = "send"
  /\ down' = [down EXCEPT ![cursor] =
                IF cursor \in open THEN Append(@, Pulse(round)) ELSE @]
  /\ IF Acked
     THEN spc' = "check" /\ UNCHANGED <<cursor, inStep>>
     ELSE /\ spc' = "visit"
          /\ cursor' = cursor + 1
          /\ inStep' = [inStep EXCEPT ![cursor] = FALSE]
  /\ UNCHANGED <<up, open, round, registered, receiver, hasAck, lost, batch,
                 collected, distributed, ackOf, lastBatch>>

\* ::send() reports that the peer is gone.  The main thread then runs
\* handleConnectionError itself and asks m_modules for the module, whose
\* mutex it already holds: the mutex is not recursive, it never returns.
SendFails ==
  /\ spc = "send"
  /\ cursor \notin open
  /\ lost' = [lost EXCEPT ![cursor] = TRUE]
  /\ spc' = "stuck"
  /\ UNCHANGED <<linkVars, round, cursor, registered, receiver, hasAck, batch,
                 collected, distributed, ackOf, lastBatch, inStep>>

\* Mutant of CheckAck: the containers are cleared after the pulse was sent.
ClearOnCheck ==
  /\ spc = "check"
  /\ spc' = IF hasAck[cursor] THEN "return" ELSE "waiting"
  /\ batch' = [batch EXCEPT ![cursor] = 0]
  /\ UNCHANGED <<linkVars, round, cursor, registered, receiver, hasAck, lost,
                 collected, distributed, ackOf, lastBatch, inStep>>

CheckAck ==
  /\ spc = "check"
  /\ spc' = IF hasAck[cursor] THEN "return" ELSE "waiting"
  /\ UNCHANGED <<linkVars, round, cursor, registered, receiver, hasAck, lost,
                 batch, collected, distributed, ackOf, lastBatch, inStep>>

\* Mutant of AckTimeout: the main thread waits until it has an acknowledgement.
WaitForAck ==
  /\ spc = "waiting"
  /\ hasAck[cursor]
  /\ spc' = "return"
  /\ UNCHANGED <<linkVars, round, cursor, registered, receiver, hasAck, lost,
                 batch, collected, distributed, ackOf, lastBatch, inStep>>

\* Mutant of AckTimeout: the pulse is sent again when the time is up.
ResendOnTimeout ==
  /\ spc = "waiting"
  /\ spc' = "return"
  /\ down' = [down EXCEPT ![cursor] =
                IF cursor \in open THEN Append(@, Pulse(round)) ELSE @]
  /\ UNCHANGED <<up, open, round, cursor, registered, receiver, hasAck, lost,
                 batch, collected, distributed, ackOf, lastBatch, inStep>>

\* waitOnSignalWithTimeout gives up; its result is not looked at.
AckTimeout ==
  /\ spc = "waiting"
  /\ spc' = "return"
  /\ UNCHANGED <<linkVars, round, cursor, registered, receiver, hasAck, lost,
                 batch, collected, distributed, ackOf, lastBatch, inStep>>

\* pulse_ack(_containers) returns, the loop takes the containers and goes on.
EndTurn ==
  /\ spc = "return"
  /\ collected' = collected \cup
                    (IF batch[cursor] # 0 THEN {<<cursor, batch[cursor]>>} ELSE {})
  /\ lastBatch' = [lastBatch EXCEPT ![cursor] =
                     IF batch[cursor] # 0 THEN batch[cursor] ELSE @]
  /\ inStep' = [inStep EXCEPT ![cursor] =
                  @ /\ hasAck[cursor] /\ ackOf[cursor] = round]
  /\ cursor' = cursor + 1
  /\ spc' = "visit"
  /\ UNCHANGED <<linkVars, round, registered, receiver, hasAck, lost, batch,
                 distributed, ackOf>>

EndRound ==
  /\ spc = "visit"
  /\ cursor = N + 1
  /\ distributed' = collected
  /\ spc' = "idle"
  /\ UNCHANGED <<linkVars, round, cursor, registered, receiver, hasAck, lost,
                 batch, collected, ackOf, lastBatch, inStep>>

\* The module state is no longer RUNNING: body() leaves its loop and closes
\* every connection.
Stop ==
  /\ Stoppable
  /\ spc = "idle"
  /\ spc' = "stopped"
  /\ Disconnect(Modules)
  /\ UNCHANGED <<round, cursor, hasAck, lost, batch, collected, distributed,
                 ackOf, lastBatch, inStep>>

-----------------------------------------------------------------------------
(* The receiver thread of module m's connection. *)

Received(m, type) ==
  /\ receiver[m] = "recv"
  /\ up[m] # <<>>
  /\ Head(up[m]).type = type
  /\ up' = [up EXCEPT ![m] = Tail(@)]

ReceiveAck(m) ==
  /\ Received(m, "ack")
  /\ hasAck' = [hasAck EXCEPT ![m] = TRUE]
  /\ batch' = [batch EXCEPT ![m] = Head(up[m]).batch]
  /\ ackOf' = [ackOf EXCEPT ![m] = Head(up[m]).no]
  /\ WakeMain(m)
  /\ UNCHANGED <<down, open, round, cursor, registered, receiver, lost,
                 collected, distributed, lastBatch, inStep>>

\* handleChangeState looks the module up: it waits for m_modulesMutex.
ReceiveState(m) ==
  /\ registered[m] = "in" => MutexFree
  /\ Received(m, "state")
  /\ UNCHANGED <<down, open, serverVars>>

\* handleExitCode moves the module to m_shutdownModules; it is ignored for a
\* module that has not been added yet.
ReceiveExit(m) ==
  /\ registered[m] = "in" => MutexFree
  /\ Received(m, "exit")
  /\ registered' = [registered EXCEPT ![m] = IF @ = "in" THEN "out" ELSE @]
  /\ UNCHANGED <<down, open, spc, round, cursor, receiver, hasAck, lost, batch,
                 collected, distributed, ackOf, lastBatch, inStep>>

\* recv() returned 0: handleConnectionError sets the flag, ...
PeerClosed(m) ==
  /\ Received(m, "eof")
  /\ lost' = [lost EXCEPT ![m] = TRUE]
  /\ receiver' = [receiver EXCEPT ![m] = "wake"]
  /\ UNCHANGED <<down, open, spc, round, cursor, registered, hasAck, batch,
                 collected, distributed, ackOf, lastBatch, inStep>>

\* ... awakes whoever waits for an ACK, ...
WakeOnLoss(m) ==
  /\ receiver[m] = "wake"
  /\ WakeMain(m)
  /\ receiver' = [receiver EXCEPT ![m] = "notify"]
  /\ UNCHANGED <<linkVars, round, cursor, registered, hasAck, lost, batch,
                 collected, distributed, ackOf, lastBatch, inStep>>

\* ... and handleConnectionLost moves the module to m_shutdownModules.
NotifyLost(m) ==
  /\ receiver[m] = "notify"
  /\ registered[m] = "in" => MutexFree
  /\ registered' = [registered EXCEPT ![m] = IF @ = "in" THEN "out" ELSE @]
  /\ receiver' = [receiver EXCEPT ![m] = "ended"]
  /\ UNCHANGED <<linkVars, spc, round, cursor, hasAck, lost, batch, collected,
                 distributed, ackOf, lastBatch, inStep>>

-----------------------------------------------------------------------------

MainStep ==
  \/ BeginRound \/ SkipModule \/ EnterTurn \/ CheckLost \/ ClearAck
  \/ SendPulse \/ SendFails \/ CheckAck \/ AckTimeout \/ EndTurn \/ EndRound

ReceiverStep(m) ==
  \/ ReceiveAck(m) \/ ReceiveState(m) \/ ReceiveExit(m)
  \/ PeerClosed(m) \/ WakeOnLoss(m) \/ NotifyLost(m)

ServerStep == MainStep \/ Stop \/ \E m \in Modules : Join(m) \/ ReceiverStep(m)
==============================================================================
