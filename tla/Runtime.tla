-------------------------------- MODULE Runtime --------------------------------
(***************************************************************************)
(* The simulation runtime: RuntimeControl::run(), which executes modules   *)
(* one after another in virtual time; the ConferenceClientModuleRunner of  *)
(* each, whose thread runs the module; and RunModuleBreakpoint, where that *)
(* thread is held between the module's turns.                              *)
(*                                                                         *)
(* Time is counted in ticks.  A container that is sent is delivered in the *)
(* sender's thread, so whoever executes is whoever changes what the others *)
(* see; a module may have a second thread that sends containers, too.      *)
(***************************************************************************)
EXTENDS Integers

CONSTANTS
  N,           \* modules, in the order of the RuntimeEnvironment
  Period,      \* Period[m]: ticks between two turns of m, from its frequency
  Second,      \* ticks in a second
  MaxSeconds,  \* maxRunningTimeInSeconds
  Threaded     \* the modules with a second thread

Modules == 1..N

ASSUME RuntimeAssumption ==
  /\ N \in Nat \ {0} /\ Second \in Nat \ {0} /\ MaxSeconds \in Nat
  /\ Period \in [Modules -> Nat \ {0}]
  /\ Threaded \subseteq Modules

VARIABLES
  time,     \* the virtual time
  rpc, k,   \* where run() is, and the runner at hand
  more,     \* moreModulesSchedulable
  forced,   \* the runtime's module state is not RUNNING any more
  started,  \* m_conferenceClientModuleStarted
  reached,  \* m_reached
  continue, \* m_continue
  allowed,  \* m_nextContainerAllowed
  bp,       \* m_breakpoint is set
  running,  \* the module state of a module is RUNNING
  finished, \* m_conferenceClientModuleFinished
  mpc,      \* where the thread of a module is
  hpc,      \* where its second thread is: about to check, or to deliver
  lastRun   \* history: when the last turn of a module ended

schedule  == <<time, rpc, k, more, forced, started, lastRun>>
breaks    == <<reached, continue, allowed, bp>>
vars      == <<schedule, breaks, running, finished, mpc, hpc>>

TypeOK ==
  /\ time \in Nat
  /\ rpc \in {"cycle", "turn", "continue", "wait", "stop", "release", "join",
              "unwind", "destroy", "done"}
  /\ k \in 1..(N + 1)
  /\ more \in BOOLEAN /\ forced \in BOOLEAN
  /\ started \in [Modules -> BOOLEAN] /\ reached \in [Modules -> BOOLEAN]
  /\ continue \in [Modules -> BOOLEAN] /\ allowed \in [Modules -> BOOLEAN]
  /\ bp \in [Modules -> BOOLEAN] /\ running \in [Modules -> BOOLEAN]
  /\ finished \in [Modules -> BOOLEAN]
  /\ mpc \in [Modules -> {"new", "setUp", "work", "disallow", "reach", "held",
                          "consume", "read", "leave", "ended", "failed"}]
  /\ hpc \in [Modules -> {"check", "deliver"}]
  /\ lastRun \in [Modules -> Nat]

Init ==
  /\ time = 0 /\ rpc = "cycle" /\ k = 1 /\ more = TRUE /\ forced = FALSE
  /\ started = [m \in Modules |-> FALSE] /\ reached = [m \in Modules |-> FALSE]
  /\ continue = [m \in Modules |-> FALSE] /\ allowed = [m \in Modules |-> FALSE]
  /\ bp = [m \in Modules |-> TRUE] /\ running = [m \in Modules |-> FALSE]
  /\ finished = [m \in Modules |-> FALSE] /\ mpc = [m \in Modules |-> "new"]
  /\ hpc = [m \in Modules |-> "check"] /\ lastRun = [m \in Modules |-> 0]

-----------------------------------------------------------------------------
(* RuntimeControl::run *)

\* Mutant of Step: the smallest period.
SmallestPeriod ==
  CHOOSE p \in {Period[m] : m \in Modules} : \A m \in Modules : p <= Period[m]

\* getGreatestTimeStep: the greatest common divisor of the periods.
Step ==
  LET Divides(d) == \A m \in Modules : Period[m] % d = 0
  IN  CHOOSE d \in 1..Period[1] :
        Divides(d) /\ \A e \in 1..Period[1] : Divides(e) => e <= d

\* needsExecution: within a second only the fraction of the time counts.
Due(m) ==
  /\ (IF Period[m] > Second THEN time ELSE time % Second) % Period[m] = 0
  /\ ~finished[m]

TimeLeft == time \div Second < MaxSeconds

\* Another cycle, or the modules are stopped.
Cycle ==
  /\ rpc = "cycle"
  /\ rpc' = IF more /\ TimeLeft /\ ~forced THEN "turn" ELSE "stop"
  /\ k' = 1
  /\ UNCHANGED <<time, more, forced, started, lastRun, breaks, running, finished,
                 mpc, hpc>>

\* The next runner; what it says about further cycles replaces what those before
\* it have said.
NotDue ==
  /\ rpc = "turn" /\ k <= N
  /\ ~Due(k)
  /\ more' = ~finished[k]
  /\ k' = k + 1
  /\ UNCHANGED <<time, rpc, forced, started, lastRun, breaks, running, finished,
                 mpc, hpc>>

\* The module is started at its first turn; its thread allows sending ...
Start ==
  /\ rpc = "turn" /\ k <= N
  /\ Due(k) /\ ~started[k]
  /\ more' = TRUE
  /\ started' = [started EXCEPT ![k] = TRUE]
  /\ allowed' = [allowed EXCEPT ![k] = TRUE]
  /\ mpc' = [mpc EXCEPT ![k] = "setUp"]
  /\ rpc' = "wait"
  /\ UNCHANGED <<time, k, forced, lastRun, reached, continue, bp, running, finished,
                 hpc>>

\* Mutant of PrepareReached: the flag stays.
KeepReached == UNCHANGED reached

PrepareReached == reached' = [reached EXCEPT ![k] = FALSE]

\* ... and released from its breakpoint at every other one.
Resume ==
  /\ rpc = "turn" /\ k <= N
  /\ Due(k) /\ started[k]
  /\ more' = TRUE
  /\ PrepareReached
  /\ rpc' = "continue"
  /\ UNCHANGED <<time, k, forced, started, lastRun, continue, allowed, bp, running,
                 finished, mpc, hpc>>

\* continueExecution, in a turn or when the module is stopped.
ContinueExecution ==
  /\ rpc \in {"continue", "release"}
  /\ continue' = [continue EXCEPT ![k] = TRUE]
  /\ rpc' = IF rpc = "continue" THEN "wait" ELSE "join"
  /\ UNCHANGED <<time, k, more, forced, started, lastRun, reached, allowed, bp,
                 running, finished, mpc, hpc>>

\* The runner has seen its module reach the breakpoint.
TurnEnds ==
  /\ rpc = "wait" /\ reached[k]
  /\ lastRun' = [lastRun EXCEPT ![k] = time]
  /\ k' = k + 1
  /\ rpc' = "turn"
  /\ UNCHANGED <<time, more, forced, started, breaks, running, finished, mpc, hpc>>

\* The module does not respond: an exception destroys the runners.
NotResponding ==
  /\ rpc = "wait" /\ ~reached[k]
  /\ rpc' = "unwind"
  /\ k' = 1
  /\ UNCHANGED <<time, more, forced, started, lastRun, breaks, running, finished,
                 mpc, hpc>>

Increment ==
  /\ rpc = "turn" /\ k = N + 1
  /\ time' = time + Step
  /\ rpc' = "cycle"
  /\ UNCHANGED <<k, more, forced, started, lastRun, breaks, running, finished, mpc,
                 hpc>>

\* Mutant of StopRunning: the module is not told.
KeepRunning == UNCHANGED running

StopRunning == running' = [running EXCEPT ![k] = FALSE]

\* runner->stop(): beforeStop(), unless the module was never started.
Stop ==
  /\ rpc = "stop" /\ k <= N
  /\ IF started[k]
     THEN /\ StopRunning
          /\ bp' = [bp EXCEPT ![k] = FALSE]
          /\ allowed' = [allowed EXCEPT ![k] = TRUE]
          /\ PrepareReached
          /\ rpc' = "release"
          /\ UNCHANGED k
     ELSE k' = k + 1 /\ UNCHANGED <<running, bp, allowed, reached, rpc>>
  /\ UNCHANGED <<time, more, forced, started, lastRun, continue, finished, mpc, hpc>>

\* The thread of the module has ended, or was never started.
Gone(m) == mpc[m] \in {"new", "ended", "failed"}

\* ... and the join, before the next one is stopped.
Joined ==
  /\ rpc = "join" /\ Gone(k)
  /\ k' = k + 1
  /\ rpc' = "stop"
  /\ UNCHANGED <<time, more, forced, started, lastRun, breaks, running, finished,
                 mpc, hpc>>

\* ~ConferenceClientModuleRunner only allows sending; then ~Service joins.
Unwind ==
  /\ rpc = "unwind" /\ k <= N
  /\ allowed' = [allowed EXCEPT ![k] = TRUE]
  /\ rpc' = "destroy"
  /\ UNCHANGED <<time, k, more, forced, started, lastRun, reached, continue, bp,
                 running, finished, mpc, hpc>>

Destroyed ==
  /\ rpc = "destroy" /\ Gone(k)
  /\ k' = k + 1
  /\ rpc' = "unwind"
  /\ UNCHANGED <<time, more, forced, started, lastRun, breaks, running, finished,
                 mpc, hpc>>

\* The result, and tearDownSystemContextComponents() in any case.
Return ==
  /\ rpc \in {"stop", "unwind"} /\ k = N + 1
  /\ rpc' = "done"
  /\ UNCHANGED <<time, k, more, forced, started, lastRun, breaks, running, finished,
                 mpc, hpc>>

\* signalHandler: every module of the process, the runtime included, is told.
Signal ==
  /\ rpc # "done" /\ ~forced
  /\ forced' = TRUE
  /\ running' = [m \in Modules |-> FALSE]
  /\ UNCHANGED <<time, rpc, k, more, started, lastRun, breaks, finished, mpc, hpc>>

-----------------------------------------------------------------------------
(* The thread of a module: ConferenceClientModuleRunner::run. *)

ModuleOnly == UNCHANGED <<schedule, bp, hpc>>

Goes(m, from, to) == mpc[m] = from /\ mpc' = [mpc EXCEPT ![m] = to]

\* setUp() done, setModuleState(RUNNING), whatever the state was.
SetUp(m) ==
  /\ Goes(m, "setUp", "work")
  /\ running' = [running EXCEPT ![m] = TRUE]
  /\ ModuleOnly
  /\ UNCHANGED <<reached, continue, allowed, finished>>

\* getModuleState() in body(): is there a breakpoint?
GetModuleState(m) ==
  /\ Goes(m, "work", IF bp[m] THEN "disallow" ELSE "read")
  /\ ModuleOnly
  /\ UNCHANGED <<reached, continue, allowed, running, finished>>

\* Mutant of NextContainerAllowed: sending is never disallowed.
AlwaysAllowed(m, yes) == allowed' = [allowed EXCEPT ![m] = TRUE]

\* setNextContainerAllowed
NextContainerAllowed(m, yes) == allowed' = [allowed EXCEPT ![m] = yes]

\* reached(): sending is disabled before the breakpoint counts as reached, ...
Disallow(m) ==
  /\ Goes(m, "disallow", "reach")
  /\ NextContainerAllowed(m, FALSE)
  /\ ModuleOnly
  /\ UNCHANGED <<reached, continue, running, finished>>

Reach(m) ==
  /\ Goes(m, "reach", "held")
  /\ reached' = [reached EXCEPT ![m] = TRUE]
  /\ ModuleOnly
  /\ UNCHANGED <<continue, allowed, running, finished>>

\* ... the thread waits for continue, enables sending, ...
Released(m) ==
  /\ continue[m]
  /\ Goes(m, "held", "consume")
  /\ NextContainerAllowed(m, TRUE)
  /\ ModuleOnly
  /\ UNCHANGED <<reached, continue, running, finished>>

\* Mutant of ConsumeContinue: the flag stays.
KeepContinue(m) == UNCHANGED continue

ConsumeContinue(m) == continue' = [continue EXCEPT ![m] = FALSE]

\* ... and consumes continue.
Consume(m) ==
  /\ Goes(m, "consume", "read")
  /\ ConsumeContinue(m)
  /\ ModuleOnly
  /\ UNCHANGED <<reached, allowed, running, finished>>

\* getModuleState() returns, and body() goes on or returns.
ReadState(m) ==
  /\ Goes(m, "read", IF running[m] THEN "work" ELSE "leave")
  /\ ModuleOnly
  /\ UNCHANGED <<reached, continue, allowed, running, finished>>

\* body() returns by itself; in any case tearDown() follows.
Finish(m) ==
  /\ Goes(m, "work", "leave")
  /\ ModuleOnly
  /\ UNCHANGED <<reached, continue, allowed, running, finished>>

\* runModule() has returned OKAY.  By then the module has ended its own thread.
End(m) ==
  /\ hpc[m] = "check"
  /\ Goes(m, "leave", "ended")
  /\ running' = [running EXCEPT ![m] = FALSE]
  /\ finished' = [finished EXCEPT ![m] = TRUE]
  /\ reached' = [reached EXCEPT ![m] = TRUE]
  /\ ModuleOnly
  /\ UNCHANGED <<continue, allowed>>

\* runModule() returns anything else: let RuntimeControl kill us.
Fail(m) ==
  /\ mpc[m] \in {"setUp", "work", "leave"}
  /\ mpc' = [mpc EXCEPT ![m] = "failed"]
  /\ ModuleOnly
  /\ UNCHANGED <<reached, continue, allowed, running, finished>>

-----------------------------------------------------------------------------
(* A second thread of a module sends containers. *)

\* BlockableContainerReceiver::nextContainer: wait until it is allowed, ...
Check(m) ==
  /\ ~Gone(m) /\ hpc[m] = "check"
  /\ allowed[m]
  /\ hpc' = [hpc EXCEPT ![m] = "deliver"]
  /\ UNCHANGED <<schedule, breaks, running, finished, mpc>>

\* ... then deliver the container to the others.
Deliver(m) ==
  /\ hpc[m] = "deliver"
  /\ hpc' = [hpc EXCEPT ![m] = "check"]
  /\ UNCHANGED <<schedule, breaks, running, finished, mpc>>

-----------------------------------------------------------------------------

Control ==
  \/ Cycle \/ NotDue \/ Start \/ Resume \/ ContinueExecution \/ TurnEnds
  \/ NotResponding \/ Increment \/ Stop \/ Joined \/ Unwind \/ Destroyed \/ Return

Module(m) ==
  \/ SetUp(m) \/ GetModuleState(m) \/ Disallow(m) \/ Reach(m) \/ Released(m)
  \/ Consume(m) \/ ReadState(m) \/ Finish(m) \/ End(m) \/ Fail(m)

Next ==
  \/ Control \/ Signal
  \/ \E m \in Modules : Module(m)
  \/ \E m \in Threaded : Check(m) \/ Deliver(m)

Spec == Init /\ [][Next]_vars

\* Every thread is scheduled, and the bodies of the modules come back to
\* getModuleState(), however late.
FairSpec ==
  /\ Spec /\ WF_vars(Control)
  /\ \A m \in Modules : WF_vars(Module(m)) /\ WF_vars(Deliver(m))

-----------------------------------------------------------------------------

\* run() has thrown an exception, and ends because of it.
Thrown == rpc \in {"unwind", "destroy"}

\* The thread of the module executes or may do so without being told again.
Executes(m) ==
  \/ mpc[m] \in {"setUp", "work", "disallow", "reach", "consume", "read", "leave"}
  \/ mpc[m] = "held" /\ continue[m]

\* run() works on the runner of module k.
AtRunner == rpc \in {"wait", "continue", "release", "join", "destroy"}

\* The thread does nothing until it is told to.
Quiet(m) == Gone(m) \/ (mpc[m] = "held" /\ ~continue[m])

\* The two flags are handed over one after the other: continue is only set for
\* a module that is held or has ended, and consumed before the module goes on;
\* reached is only set while the module is quiet, and taken back before it is
\* told to continue.
FlagsInTurn ==
  /\ \A m \in Modules :
       /\ continue[m] => mpc[m] \in {"held", "consume", "ended", "failed"}
       /\ reached[m] => started[m] /\ Quiet(m)
  /\ rpc \in {"continue", "release"} => started[k] /\ ~reached[k]

\* A module that may send although it is about to be held, or is held, is the one
\* that is told to go on because it is stopped.
HeldMayNotSend ==
  \A m \in Modules :
    mpc[m] \in {"reach", "held"} /\ allowed[m] =>
      Thrown \/ (k = m /\ rpc \in {"release", "join"})

\* Where the scheduler is: only modules that were started have threads, and an
\* exception leaves none behind.
SchedulerKnows ==
  /\ \A m \in Modules : started[m] <=> mpc[m] # "new"
  /\ AtRunner => k \in Modules
  /\ Thrown => \A m \in Modules : m < k => Gone(m)

\* A module executes only while its runner waits for it: never two at a time,
\* and never while the virtual time moves or a system component is executed.
OneAtATime ==
  ~Thrown => \A m \in Modules : Executes(m) => rpc \in {"wait", "join"} /\ k = m

\* Inductive: how run() and the modules hand over to each other.
HandOverInv == TypeOK /\ FlagsInTurn /\ HeldMayNotSend /\ SchedulerKnows /\ OneAtATime

\* A second thread gets past the check only when its module is released.
BlockedWhileHeld ==
  [][\A m \in Modules :
       hpc[m] = "check" /\ hpc'[m] = "deliver" =>
         Thrown \/ (rpc \in {"wait", "release", "join"} /\ k = m)]_vars

\* When the time moves on, every module that has not finished has had its turn
\* at the latest multiple of its period.
NoTurnMissed ==
  [][time' # time =>
       \A m \in Modules :
         finished[m] \/ lastRun[m] = (time \div Period[m]) * Period[m]]_vars

\* run() ends, whatever the modules do, unless one does not respond.
RunEnds == <>(rpc = "done" \/ Thrown)

-----------------------------------------------------------------------------
(* What comments of the program say, and the code does not do. *)

\* "Tear down SystemContextComponents in any case."
TornDown == <>(rpc = "done")

\* Sending is disabled before the breakpoint is reached, since the time is
\* incremented after it: no container of a module is delivered out of its turn.
SentInTurn ==
  [][\A m \in Modules :
       hpc[m] = "deliver" /\ hpc'[m] = "check" => Executes(m)]_vars

\* "All applications in RuntimeEnvironment have finished."
FinishedMeansAll ==
  [][rpc = "cycle" /\ rpc' = "stop" /\ ~more => \A m \in Modules : finished[m]]_vars
================================================================================
