------------------------------- MODULE LockStep -------------------------------
(***************************************************************************)
(* What managed levels pulse_time_ack and simulation promise about the     *)
(* execution of the client modules, without pulses, acknowledgements or    *)
(* threads: supercomponent hands a turn to one module at a time, and a     *)
(* strict module works only in its own turn, and has finished when the     *)
(* turn ends.  A module that begins to work on its own, or whose turn is   *)
(* ended in any other way, is not strict any more; nothing is promised     *)
(* about it from then on, and nothing it does changes that of the others.  *)
(***************************************************************************)
EXTENDS Integers

CONSTANT N

Modules == 1..N

VARIABLES
  turn,     \* the module whose turn it is, 0 if none
  working,  \* the modules that execute their body
  strict    \* the modules that have kept to their turns so far

lockStepVars == <<turn, working, strict>>

Init ==
  /\ turn = 0
  /\ working = {}
  /\ strict = Modules

GiveTurn(m) ==
  /\ turn = 0
  /\ turn' = m
  /\ UNCHANGED <<working, strict>>

\* A strict module starts to work only in its turn; one that starts on its own is
\* written off.
Start(m) ==
  /\ working' = working \cup {m}
  /\ \/ (m \in strict => turn = m) /\ strict' = strict
     \/ strict' = strict \ {m}
  /\ UNCHANGED turn

Finish(m) ==
  /\ working' = working \ {m}
  /\ UNCHANGED <<turn, strict>>

\* A turn ends when the module has finished, or the module is written off.
EndTurn ==
  /\ turn # 0
  /\ turn' = 0
  /\ \/ turn \notin working /\ strict' = strict
     \/ strict' = strict \ {turn}
  /\ UNCHANGED working

\* Modules that fail or are disconnected are written off at any time.
WriteOff ==
  /\ strict' \subseteq strict
  /\ UNCHANGED <<turn, working>>

Next ==
  \/ WriteOff
  \/ EndTurn
  \/ \E m \in Modules : GiveTurn(m) \/ Start(m) \/ Finish(m)

Spec == Init /\ [][Next]_lockStepVars

\* Of the strict modules at most one works, and only in its turn.
OneAtATime == working \cap strict \subseteq {turn}
==============================================================================
