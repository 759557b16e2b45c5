----------------------------- MODULE PulseClient -----------------------------
(***************************************************************************)
(* The client module's side of the managed levels: its main thread         *)
(* (ClientModule::runModule, ManagedClientModule, and the body, of which   *)
(* only the calls of getModuleState() matter) and the receiver thread of   *)
(* its connection (dmcp::connection::Client).                              *)
(*                                                                         *)
(* Client::getPulseMessage() waits on m_pulseCondition without a predicate: *)
(* a wakeAll that finds nobody waiting is lost, a wait may end although    *)
(* nobody has signalled, and m_pulseMessage holds only the latest pulse.   *)
(***************************************************************************)
EXTENDS PulseLink

CONSTANTS
  Leavers,   \* modules whose body may end, fail or crash on its own
  Alignment, \* pulses awaited by reached_ManagedLevel_Pulse (10 in the code)
  Unsteady,  \* modules of which a wait may end without a signal
  MaxSpurious \* bound: such waits of a module

ASSUME ClientAssumption ==
  /\ Leavers \subseteq 1..N
  /\ Alignment \in Nat \ {0}
  /\ Unsteady \subseteq 1..N
  /\ MaxSpurious \in Nat

VARIABLES
  cpc,      \* where the module's main thread is
  crpc,     \* where the receiver thread of its connection is
  slot,     \* m_pulseMessage of the dmcp Client: the last pulse received
  cur,      \* the pulse getPulseMessage() returned last
  running,  \* m_moduleState = RUNNING
  aligner,  \* calls of getPulseMessage() left to align with supercomponent
  clock,    \* m_time: the number of time slices it has been advanced
  made,     \* number of the last batch of containers the body produced
  spurious  \* history: waits for a pulse that ended without a signal

clientVars == <<cpc, crpc, slot, cur, running, aligner, clock, made, spurious>>

ClientTypeOK ==
  /\ cpc \in [Modules -> {"setup", "reached", "prewait", "waiting", "woken",
                          "check", "compute", "gone"}]
  /\ crpc \in [Modules -> {"recv", "wake", "notify", "ended"}]
  /\ slot \in [Modules -> Nat]
  /\ cur \in [Modules -> Nat]
  /\ running \in [Modules -> BOOLEAN]
  /\ aligner \in [Modules -> Nat]
  /\ \A m \in Modules :
       Level = "PULSE" /\ cpc[m] \in {"prewait", "waiting", "woken"} => aligner[m] > 0
  /\ clock \in [Modules -> Nat]
  /\ made \in [Modules -> Nat]
  /\ spurious \in [Modules -> Nat]

ClientInit ==
  /\ cpc = [m \in Modules |-> "setup"]
  /\ crpc = [m \in Modules |-> "recv"]
  /\ slot = [m \in Modules |-> 0]
  /\ cur = [m \in Modules |-> 0]
  /\ running = [m \in Modules |-> FALSE]
  /\ aligner = [m \in Modules |-> Alignment]
  /\ clock = [m \in Modules |-> 0]
  /\ made = [m \in Modules |-> 0]
  /\ spurious = [m \in Modules |-> 0]

\* Does the breakpoint of this module wait for a pulse?
Waits(m) == CASE Level = "NONE"  -> FALSE
              [] Level = "PULSE" -> aligner[m] > 0
              [] OTHER           -> TRUE

\* The module is executing the slice of a pulse it has received.
Busy(m) == cpc[m] \in {"woken", "check", "compute"}

\* supercomponent has closed this connection.
Broken(m) == \/ crpc[m] \in {"notify", "ended"}
             \/ \E i \in 1..Len(down[m]) : down[m][i] = Closed

\* A send on a broken connection may fail; the sender then runs
\* handleConnectionError itself, which leaves the module NOT_RUNNING.
Send(m, messages, isRunning) ==
  /\ up' = [up EXCEPT ![m] = @ \o messages]
  /\ running' = [running EXCEPT ![m] = isRunning]

-----------------------------------------------------------------------------
(* The main thread of module m. *)

\* setUp() is done: set RUNNING, whatever the state was, and announce it.
SetUp(m) ==
  /\ cpc[m] = "setup"
  /\ \/ Send(m, <<StateMessage>>, TRUE)
     \/ Broken(m) /\ Send(m, <<>>, FALSE)
  /\ cpc' = [cpc EXCEPT ![m] = "reached"]
  /\ UNCHANGED <<down, open, crpc, slot, cur, aligner, clock, made, spurious>>

\* getModuleState() calls the breakpoint: confirm the last pulse, then wait.
Reached(m) ==
  /\ cpc[m] = "reached"
  /\ IF Acked
     THEN \/ Send(m, <<Ack(cur[m], made[m])>>, running[m])
          \/ Broken(m) /\ Send(m, <<>>, FALSE)
     ELSE UNCHANGED <<up, running>>
  /\ cpc' = [cpc EXCEPT ![m] = IF Waits(m) THEN "prewait" ELSE "check"]
  /\ UNCHANGED <<down, open, crpc, slot, cur, aligner, clock, made, spurious>>

\* Lock m_pulseCondition and wait on it.
StartWaiting(m) ==
  /\ cpc[m] = "prewait"
  /\ cpc' = [cpc EXCEPT ![m] = "waiting"]
  /\ UNCHANGED <<linkVars, crpc, slot, cur, running, aligner, clock, made,
                 spurious>>

\* waitOnSignal() is one pthread_cond_wait(), which may return without a signal:
\* the module goes on as if a pulse had come.
Spurious(m) ==
  /\ cpc[m] = "waiting"
  /\ m \in Unsteady
  /\ spurious[m] < MaxSpurious
  /\ spurious' = [spurious EXCEPT ![m] = @ + 1]
  /\ cpc' = [cpc EXCEPT ![m] = "woken"]
  /\ UNCHANGED <<linkVars, crpc, slot, cur, running, aligner, clock, made>>

\* Mutant of ReadPulse: the pulse is confirmed when it is read.
ConfirmOnReading(m) ==
  /\ cpc[m] = "woken"
  /\ cur' = [cur EXCEPT ![m] = slot[m]]
  /\ Send(m, <<Ack(slot[m], made[m])>>, running[m])
  /\ clock' = [clock EXCEPT ![m] = @ + 1]
  /\ cpc' = [cpc EXCEPT ![m] = "check"]
  /\ UNCHANGED <<down, open, crpc, slot, aligner, made, spurious>>

\* Awake, for whatever reason: read m_pulseMessage, whatever it holds by now, and
\* advance m_time by one slice.
ReadPulse(m) ==
  /\ cpc[m] = "woken"
  /\ cur' = [cur EXCEPT ![m] = slot[m]]
  /\ IF Level = "PULSE"
     THEN /\ aligner' = [aligner EXCEPT ![m] = @ - 1]
          /\ cpc' = [cpc EXCEPT ![m] =
                       IF aligner[m] > 1 THEN "prewait" ELSE "check"]
          /\ UNCHANGED clock
     ELSE /\ clock' = [clock EXCEPT ![m] = @ + 1]
          /\ cpc' = [cpc EXCEPT ![m] = "check"]
          /\ UNCHANGED aligner
  /\ UNCHANGED <<linkVars, crpc, slot, running, made, spurious>>

\* The breakpoint returned; getModuleState() now reads the state.
Continue(m) ==
  /\ cpc[m] = "check"
  /\ running[m]
  /\ cpc' = [cpc EXCEPT ![m] = "compute"]
  /\ UNCHANGED <<linkVars, crpc, slot, cur, running, aligner, clock, made,
                 spurious>>

\* One iteration of the body.
Compute(m) ==
  /\ cpc[m] = "compute"
  /\ made' = [made EXCEPT ![m] = IF Level = "SIMULATION" THEN @ + 1 ELSE @]
  /\ cpc' = [cpc EXCEPT ![m] = "reached"]
  /\ UNCHANGED <<linkVars, crpc, slot, cur, running, aligner, clock, spurious>>

\* The process ends, after the given last messages.
Terminate(m, messages) ==
  /\ up' = [up EXCEPT ![m] = @ \o Append(messages, UpEof)]
  /\ down' = [down EXCEPT ![m] = <<>>]
  /\ open' = open \ {m}
  /\ cpc' = [cpc EXCEPT ![m] = "gone"]
  /\ crpc' = [crpc EXCEPT ![m] = "ended"]
  /\ running' = [running EXCEPT ![m] = FALSE]
  /\ UNCHANGED <<slot, cur, aligner, clock, made, spurious>>

\* The body saw that the state is not RUNNING, or it is done.
Leave(m) ==
  /\ \/ cpc[m] = "check" /\ ~running[m]
     \/ cpc[m] = "compute" /\ m \in Leavers
  /\ Terminate(m, <<StateMessage, ExitMessage>>)

\* setUp() or body() throws: the state is not announced.
Abort(m) ==
  /\ cpc[m] \in {"setup", "compute"}
  /\ m \in Leavers
  /\ Terminate(m, <<ExitMessage>>)

\* The process dies.
Crash(m) ==
  /\ cpc[m] # "gone"
  /\ m \in Leavers
  /\ Terminate(m, <<>>)

-----------------------------------------------------------------------------
(* The receiver thread of module m's connection. *)

WakeModule(m) == cpc' = [cpc EXCEPT ![m] = IF @ = "waiting" THEN "woken" ELSE @]

\* Mutant of StorePulse: the latest message is taken first.
StoreLatest(m) ==
  /\ crpc[m] = "recv"
  /\ down[m] # <<>>
  /\ down[m][Len(down[m])].type = "pulse"
  /\ slot' = [slot EXCEPT ![m] = down[m][Len(down[m])].no]
  /\ down' = [down EXCEPT ![m] = SubSeq(@, 1, Len(@) - 1)]
  /\ crpc' = [crpc EXCEPT ![m] = "wake"]
  /\ UNCHANGED <<up, open, cpc, cur, running, aligner, clock, made, spurious>>

\* Mutant of StorePulse: a message already handled is delivered again.
StoreAgain(m) ==
  /\ crpc[m] = "recv"
  /\ down[m] # <<>>
  /\ Head(down[m]).type = "pulse"
  /\ slot' = [slot EXCEPT ![m] = Head(down[m]).no]
  /\ crpc' = [crpc EXCEPT ![m] = "wake"]
  /\ UNCHANGED <<up, down, open, cpc, cur, running, aligner, clock, made,
                 spurious>>

\* nextContainer stores the pulse under one lock ...
StorePulse(m) ==
  /\ crpc[m] = "recv"
  /\ down[m] # <<>>
  /\ Head(down[m]).type = "pulse"
  /\ slot' = [slot EXCEPT ![m] = Head(down[m]).no]
  /\ down' = [down EXCEPT ![m] = Tail(@)]
  /\ crpc' = [crpc EXCEPT ![m] = "wake"]
  /\ UNCHANGED <<up, open, cpc, cur, running, aligner, clock, made, spurious>>

\* ... and wakes the waiting module under another.
WakeOnPulse(m) ==
  /\ crpc[m] = "wake"
  /\ WakeModule(m)
  /\ crpc' = [crpc EXCEPT ![m] = "recv"]
  /\ UNCHANGED <<linkVars, slot, cur, running, aligner, clock, made, spurious>>

\* handleConnectionError: wake the module first, ...
SupercomponentLost(m) ==
  /\ crpc[m] = "recv"
  /\ down[m] # <<>>
  /\ Head(down[m]).type = "eof"
  /\ down' = [down EXCEPT ![m] = Tail(@)]
  /\ WakeModule(m)
  /\ crpc' = [crpc EXCEPT ![m] = "notify"]
  /\ UNCHANGED <<up, open, slot, cur, running, aligner, clock, made, spurious>>

\* ... then let handleConnectionLost set its state.
StopRunning(m) ==
  /\ crpc[m] = "notify"
  /\ running' = [running EXCEPT ![m] = FALSE]
  /\ crpc' = [crpc EXCEPT ![m] = "ended"]
  /\ UNCHANGED <<linkVars, cpc, slot, cur, aligner, clock, made, spurious>>

-----------------------------------------------------------------------------

ModuleStep(m) ==
  \/ SetUp(m) \/ Reached(m) \/ StartWaiting(m) \/ ReadPulse(m)
  \/ Continue(m) \/ Compute(m) \/ Leave(m)

ClientReceiverStep(m) ==
  \/ StorePulse(m) \/ WakeOnPulse(m) \/ SupercomponentLost(m) \/ StopRunning(m)

ClientStep ==
  \E m \in Modules :
    ModuleStep(m) \/ ClientReceiverStep(m) \/ Spurious(m) \/ Abort(m) \/ Crash(m)
==============================================================================
