------------------------------ MODULE PulseLink ------------------------------
(***************************************************************************)
(* The TCP links between supercomponent and its client modules: one FIFO   *)
(* per direction and per module.  A link ends with an "eof" message in the *)
(* direction of the side that has not closed it: recv() then returns zero  *)
(* and the receiver thread of that side reports the lost connection.       *)
(*                                                                         *)
(* Modules are numbered in the order of ModuleDescriptorComparator, in     *)
(* which ConnectedModules iterates over its map.                           *)
(***************************************************************************)
EXTENDS Integers, Sequences

CONSTANTS
  N,          \* number of client modules that connect
  MaxRounds,  \* bound: pulses supercomponent sends before it is stopped
  Level,      \* the managed level supercomponent was started with
  Ignored     \* modules named in supercomponent.pulsetimeack.exclude

Levels == {"NONE", "PULSE", "PULSE_TIME", "PULSE_TIME_ACK", "SIMULATION"}

\* ML_PULSE_TIME_ACK, and ML_SIMULATION / ML_SIMULATION_RT, confirm a pulse.
Acked == Level \in {"PULSE_TIME_ACK", "SIMULATION"}

ASSUME LinkAssumption ==
  /\ N \in Nat
  /\ MaxRounds \in Nat
  /\ Level \in Levels
  /\ Ignored \subseteq 1..N
  /\ Ignored # {} => Acked   \* the list is only read at these levels

Modules == 1..N

VARIABLES
  up,    \* up[m]: messages from module m not yet received by supercomponent
  down,  \* down[m]: messages to module m it has not received yet
  open   \* the modules whose end of the socket is open

linkVars == <<up, down, open>>

\* To a module: the pulse of a round, or the end of the connection.
Pulse(k) == [type |-> "pulse", no |-> k]
Closed   == [type |-> "eof",   no |-> 0]

\* From a module.  A PulseAckMessage is empty: "no", the pulse the module had
\* processed last, is a history annotation the program cannot read; "batch"
\* stands for the containers of a PulseAckContainersMessage.
Ack(k, b)    == [type |-> "ack", no |-> k, batch |-> b]
Note(type)   == [type |-> type, no |-> 0, batch |-> 0]
StateMessage == Note("state")
ExitMessage  == Note("exit")
UpEof        == Note("eof")

DownMessages == [type : {"pulse", "eof"}, no : Nat]
UpMessages   == [type : {"ack", "state", "exit", "eof"}, no : Nat, batch : Nat]

LinkTypeOK ==
  /\ up   \in [Modules -> Seq(UpMessages)]
  /\ down \in [Modules -> Seq(DownMessages)]
  /\ open \subseteq Modules

LinkInit ==
  /\ up   = [m \in Modules |-> <<>>]
  /\ down = [m \in Modules |-> <<>>]
  /\ open = Modules
==============================================================================
