----------------------------- MODULE ManagedLevel -----------------------------
(***************************************************************************)
(* supercomponent and its client modules at a managed level: PulseServer   *)
(* and PulseClient composed over the links of PulseLink.                   *)
(***************************************************************************)
EXTENDS PulseServer, PulseClient, FiniteSets

vars == <<linkVars, serverVars, clientVars>>

TypeOK == LinkTypeOK /\ ServerTypeOK /\ ClientTypeOK

Init == LinkInit /\ ServerInit /\ ClientInit

Next ==
  \/ ServerStep /\ UNCHANGED clientVars
  \/ ClientStep /\ UNCHANGED serverVars

Spec == Init /\ [][Next]_vars

-----------------------------------------------------------------------------
(* Lock step. *)

\* The module has always confirmed its pulse before its turn ended, no wait of it
\* has ended without a signal, and its connection has not been given up.
Strict(m) == inStep[m] /\ spurious[m] = 0 /\ registered[m] \in {"new", "in"}

\* A module that has kept step executes the slice of a pulse only while the
\* main thread waits in pulse_ack for that very module: the deterministic
\* scheduling that managed levels pulse_time_ack and simulation exist for.  What
\* another module does, late, awake by itself or gone, does not put it out of step.
StrictWorkInTurn == \A m \in Modules : Strict(m) /\ Busy(m) => InTurn(m)

\* The rounds follow LockStep: the turn is that of the module the main thread
\* has sent the pulse to, the strict modules are those that kept step.
LS == INSTANCE LockStep WITH
        turn    <- IF \E m \in Modules : InTurn(m) THEN cursor ELSE 0,
        working <- {m \in Modules : Busy(m)},
        strict  <- {m \in Modules : Strict(m)}

RefinesLockStep == LS!Spec

\* A module never goes back to an older pulse than the one it has read.
PulsesMoveForward == [][\A m \in Modules : cur'[m] >= cur[m]]_vars

-----------------------------------------------------------------------------
(* Why the modules keep step: an inductive strengthening.                    *)

\* The main thread is in a round and has not sent its pulse to m yet.
NotSent(m) ==
  /\ spc \notin {"idle", "stopped"}
  /\ \/ cursor < m
     \/ cursor = m /\ spc \notin {"check", "waiting", "return"}

\* Pulses arrive in order: what is still under way is not older than what the
\* module has stored, and that not older than what it has read.
PulsesInOrder(m) ==
  /\ cur[m] <= slot[m]
  /\ slot[m] <= round
  /\ \A i \in 1..Len(down[m]) :
       /\ down[m][i].no <= round
       /\ down[m][i].type = "pulse" =>
            /\ slot[m] <= down[m][i].no
            /\ \A j \in 1..(i - 1) : down[m][j].no <= down[m][i].no

\* An acknowledgement, still under way or already received, answers a pulse the
\* module has read, which is one that supercomponent has sent.
AckCausality ==
  \A m \in Modules :
    /\ cur[m] <= round
    /\ ackOf[m] <= cur[m]
    /\ \A i \in 1..Len(up[m]) : up[m][i].no <= cur[m]

PulseOrder == AckCausality /\ \A m \in Modules : PulsesInOrder(m)

\* The pulse of this round does not exist before it is sent.
NotSentYet(m) ==
  NotSent(m) =>
    /\ slot[m] < round
    /\ \A i \in 1..Len(down[m]) : down[m][i].no < round

\* The module has confirmed the pulse of this round.
OwnAck(m) ==
  \/ ackOf[m] = round
  \/ \E i \in 1..Len(up[m]) : up[m][i].no = round

\* The pulse is under way to the module, or is about to awake it.
Coming(m) == down[m] # <<>> \/ crpc[m] = "wake"

\* A module that keeps step has at most one unfinished pulse, that of the turn
\* it is in, and has not confirmed it.
OnePulse(m) ==
  Strict(m) =>
    /\ Len(down[m]) <= 1
    /\ down[m] # <<>> => crpc[m] # "wake"
    /\ Coming(m) => ~Busy(m) /\ cur[m] < round
    /\ Coming(m) \/ Busy(m) => InTurn(m) /\ ~OwnAck(m)

\* Only connections that have been deleted are closed by supercomponent.
OnlyPulses(m) ==
  registered[m] # "deleted" =>
    \A i \in 1..Len(down[m]) : down[m][i].type = "pulse"

PulsesOnTime ==
  /\ spc \notin {"idle", "stopped"} => round > 0
  /\ \A m \in Modules : NotSentYet(m) /\ OnlyPulses(m)

LockStepInv ==
  /\ PulseOrder
  /\ PulsesOnTime
  /\ \A m \in Modules : OnePulse(m)

-----------------------------------------------------------------------------
(* Containers (managed level simulation). *)

\* The containers a module returns are collected in order and at most once,
\* whatever turns timed out or were confirmed by a late acknowledgement in
\* between: a batch that is collected is later than all collected before.
BatchesOnce ==
  [][\A m \in Modules : \A c \in collected' \ collected :
        c[1] = m => c[2] > lastBatch[m]]_vars

\* Of a module that keeps step none is skipped: each turn collects what the module
\* has made in it, and no list is cleared or overwritten before it is collected.
NoBatchSkipped ==
  [][\A m \in Modules : \A c \in collected' \ collected :
        c[1] = m /\ Strict(m)' => c[2] = lastBatch[m] + 1]_vars

-----------------------------------------------------------------------------
(* Virtual time. *)

\* The virtual time of a module, which advances by one slice each time it is
\* awake, never gets ahead of the pulses supercomponent has sent, but for one
\* slice each time the module wakes without a signal, and for one when the end of
\* the connection awakes it.
VirtualTimeNotAhead ==
  \A m \in Modules :
    clock[m] <= round + spurious[m]
                + (IF crpc[m] \in {"notify", "ended"} THEN 1 ELSE 0)

-----------------------------------------------------------------------------
(* Liveness.  Every thread is scheduled; nobody has to join, leave or      *)
(* crash, and supercomponent need not be stopped.  AckTimeout is fair      *)
(* because waitOnSignalWithTimeout returns after the timeout.              *)

Fairness ==
  /\ WF_vars(MainStep /\ UNCHANGED clientVars)
  /\ \A m \in Modules :
       /\ WF_vars(ReceiverStep(m) /\ UNCHANGED clientVars)
       /\ WF_vars(ModuleStep(m) /\ UNCHANGED serverVars)
       /\ WF_vars(ClientReceiverStep(m) /\ UNCHANGED serverVars)

FairSpec == Spec /\ Fairness

\* Every round comes to its end, whatever pulses, acknowledgements and wake ups are
\* missed in it and wherever a connection is lost, unless a send of it fails.
RoundsEnd == spc \in {"visit", "waiting"} ~> spc \in {"idle", "stuck"}

-----------------------------------------------------------------------------
(* What comments and tests of the program say, and the code does not do. *)

\* ConnectedModules::pulse_ack: the call blocks until the client has confirmed
\* the processing of this pulse.  So if the wait ended with an ACK on a live
\* connection, it is the ACK of this pulse.
AckIsForThisPulse ==
  spc = "return" /\ ~lost[cursor] /\ hasAck[cursor] => ackOf[cursor] = round

\* ManagedClientModule::reached_ManagedLevel_Pulse_Time: the call blocks until
\* the next pulse has been received.  So a module does not wait on when the
\* receiver has stored a new pulse and is done with it.
ReceivedPulseIsReturned ==
  \A m \in Modules : ~(cpc[m] = "waiting" /\ crpc[m] = "recv" /\ slot[m] > cur[m])

\* ... and what it returns is the next pulse, not the last one again.
NextPulseIsReturned == [][\A m \in Modules : clock'[m] # clock[m] => cur'[m] > cur[m]]_vars

\* ManagedLevelTestSuite: stopping supercomponent also stops the client.
StopStopsClients == spc = "stopped" ~> \A m \in Modules : cpc[m] = "gone"

\* SuperComponent::body: disconnected modules are removed.
DisconnectedAreRemoved ==
  \A m \in Modules : m \notin open /\ registered[m] = "in" ~> registered[m] # "in"
==============================================================================
