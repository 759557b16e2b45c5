----------------------------- MODULE Runtime_proofs -----------------------------
(***************************************************************************)
(* What the runtime keeps for any number of modules with any periods: how  *)
(* run() and the threads of the modules hand over to each other, that one  *)
(* module executes at a time, and that sending is blocked between turns;   *)
(* and, if the periods divide the second or exceed it, that no turn is     *)
(* missed.                                                                 *)
(***************************************************************************)
EXTENDS Runtime, TLAPS, WellFoundedInduction

-----------------------------------------------------------------------------
(* The time step. *)

LessThan == {p \in Nat \X Nat : p[1] < p[2]}

LEMMA LessThanWellFounded == IsWellFoundedOn(LessThan, Nat)
BY NatLessThanWellFounded DEF OpToRel, LessThan

LEMMA LeastNumber ==
  ASSUME NEW S \in SUBSET Nat, S # {}
  PROVE  \E x \in S : \A y \in S : x <= y
<1>1. PICK x \in S : \A y \in S : <<y, x>> \notin LessThan
  BY LessThanWellFounded, WFMin
<1>2. \A y \in S : ~(y < x)
  BY <1>1 DEF LessThan
<1>3. \A y \in S : x <= y
  BY <1>2
<1> QED BY <1>3

\* The periods have a common divisor, and so a greatest one: the distances of the
\* common divisors to the first period have a least one.
LEMMA StepType == Step \in Nat \ {0} /\ \A m \in Modules : Period[m] % Step = 0
<1> DEFINE Divides(d) == \A m \in Modules : Period[m] % d = 0
           D == {d \in 1..Period[1] : Divides(d)}
           Distances == {x \in Nat : x < Period[1] /\ Period[1] - x \in D}
<1>1. 1 \in Modules /\ \A m \in Modules : Period[m] \in Nat \ {0}
  BY RuntimeAssumption DEF Modules
<1>2. \A n \in Nat : n % 1 = 0
  BY SMT
<1>3. 1 \in D
  BY <1>1, <1>2
<1>4. Period[1] - 1 \in Distances
  BY <1>1, <1>3
<1>5. PICK x \in Distances : \A y \in Distances : x <= y
  BY <1>4, LeastNumber
<1>6. Period[1] - x \in D
  OBVIOUS
<1>7. \A e \in D : e <= Period[1] - x
  <2> TAKE e \in D
  <2>1. Period[1] - e \in Distances
    BY <1>1
  <2> QED BY <1>1, <1>5, <2>1
<1>8. \E d \in 1..Period[1] :
        Divides(d) /\ \A e \in 1..Period[1] : Divides(e) => e <= d
  BY <1>1, <1>6, <1>7
<1>9. Step \in 1..Period[1] /\ Divides(Step)
  BY <1>8 DEF Step
<1> QED BY <1>1, <1>9

-----------------------------------------------------------------------------
(* The hand over. *)

LEMMA ModulesType ==
  /\ N \in Nat \ {0}
  /\ \A i : i \in Modules <=> i \in Int /\ 1 <= i /\ i <= N
BY RuntimeAssumption DEF Modules

LEMMA InitHandOver == Init => HandOverInv
<1> SUFFICES ASSUME Init PROVE HandOverInv
  OBVIOUS
<1> USE ModulesType DEF Init
<1>1. k \in 1..(N + 1) /\ time \in Nat
  OBVIOUS
<1>2. TypeOK
  BY <1>1 DEF TypeOK
<1>3. FlagsInTurn /\ HeldMayNotSend /\ SchedulerKnows /\ OneAtATime
  BY DEF FlagsInTurn, HeldMayNotSend, SchedulerKnows, OneAtATime, Executes,
         Thrown, AtRunner, Gone, Quiet
<1> QED BY <1>2, <1>3 DEF HandOverInv

\* The steps of run() that change no more than where it is.
LEMMA SchedulerHandsOver ==
  ASSUME HandOverInv,
         \/ Cycle \/ NotDue \/ TurnEnds \/ NotResponding \/ Increment
         \/ Joined \/ Destroyed \/ Return
  PROVE  HandOverInv'
<1> USE ModulesType DEF HandOverInv, TypeOK, FlagsInTurn, HeldMayNotSend,
        SchedulerKnows, OneAtATime, Executes, Thrown, AtRunner, Gone, Quiet, breaks
<1>1. CASE Cycle
  BY <1>1 DEF Cycle
<1>2. CASE NotDue
  BY <1>2 DEF NotDue
<1>3. CASE TurnEnds
  BY <1>3 DEF TurnEnds
<1>4. CASE NotResponding
  BY <1>4 DEF NotResponding
<1>5. CASE Increment
  BY <1>5, StepType DEF Increment
<1>6. CASE Joined
  BY <1>6 DEF Joined
<1>7. CASE Destroyed
  BY <1>7 DEF Destroyed
<1>8. CASE Return
  BY <1>8 DEF Return
<1> QED BY <1>1, <1>2, <1>3, <1>4, <1>5, <1>6, <1>7, <1>8

\* Those that change the flags of a module.
LEMMA RunnerHandsOver ==
  ASSUME HandOverInv,
         Start \/ Resume \/ ContinueExecution \/ Stop \/ Unwind
  PROVE  HandOverInv'
<1> USE ModulesType DEF HandOverInv, TypeOK, FlagsInTurn, HeldMayNotSend,
        SchedulerKnows, OneAtATime, Executes, Thrown, AtRunner, Gone, Quiet
<1>1. CASE Start
  <2>1. TypeOK'
    BY <1>1 DEF Start
  <2>2. FlagsInTurn'
    BY <1>1 DEF Start
  <2>3. HeldMayNotSend'
    BY <1>1 DEF Start
  <2>4. SchedulerKnows'
    BY <1>1 DEF Start
  <2>5. OneAtATime'
    BY <1>1 DEF Start
  <2> QED BY <2>1, <2>2, <2>3, <2>4, <2>5
<1>2. CASE Resume
  BY <1>2 DEF Resume, PrepareReached
<1>3. CASE ContinueExecution
  BY <1>3 DEF ContinueExecution
<1>4. ASSUME Stop, started[k] PROVE HandOverInv'
  <2>1. /\ rpc = "stop" /\ rpc' = "release" /\ k' = k /\ k \in Modules
        /\ running' = [running EXCEPT ![k] = FALSE]
        /\ bp' = [bp EXCEPT ![k] = FALSE]
        /\ allowed' = [allowed EXCEPT ![k] = TRUE]
        /\ reached' = [reached EXCEPT ![k] = FALSE]
        /\ UNCHANGED <<time, more, forced, started, lastRun, continue, finished, mpc,
                       hpc>>
    BY <1>4 DEF Stop, PrepareReached, StopRunning
  <2>2. TypeOK'
    BY <2>1
  <2>3. FlagsInTurn'
    BY <1>4, <2>1
  <2>4. HeldMayNotSend'
    BY <2>1
  <2>5. SchedulerKnows' /\ OneAtATime'
    BY <1>4, <2>1 DEF Stop
  <2> QED BY <2>2, <2>3, <2>4, <2>5
<1>5. ASSUME Stop, ~started[k] PROVE HandOverInv'
  <2>1. /\ rpc = "stop" /\ k \in Modules /\ k' = k + 1
        /\ UNCHANGED <<time, rpc, more, forced, started, lastRun, reached, continue,
                       allowed, bp, running, finished, mpc, hpc>>
    BY <1>5 DEF Stop
  <2> QED BY <2>1
<1>6. CASE Unwind
  BY <1>6 DEF Unwind
<1> QED BY <1>1, <1>2, <1>3, <1>4, <1>5, <1>6

LEMMA SignalHandsOver ==
  ASSUME HandOverInv, Signal
  PROVE  HandOverInv'
BY DEF Signal, HandOverInv, TypeOK, FlagsInTurn, HeldMayNotSend, SchedulerKnows,
       OneAtATime, Executes, Thrown, AtRunner, Gone, Quiet, breaks

LEMMA ModuleHandsOver ==
  ASSUME HandOverInv, NEW m \in Modules, Module(m)
  PROVE  HandOverInv'
<1> USE DEF HandOverInv, TypeOK, FlagsInTurn, HeldMayNotSend, SchedulerKnows,
        OneAtATime, Executes, Thrown, AtRunner, Gone, Quiet, Goes, ModuleOnly,
        schedule
<1>1. CASE SetUp(m)
  BY <1>1 DEF SetUp
<1>2. CASE GetModuleState(m)
  BY <1>2 DEF GetModuleState
<1>3. CASE Disallow(m)
  BY <1>3 DEF Disallow, NextContainerAllowed
<1>4. CASE Reach(m)
  BY <1>4 DEF Reach
<1>5. CASE Released(m)
  BY <1>5 DEF Released, NextContainerAllowed
<1>6. CASE Consume(m)
  BY <1>6 DEF Consume, ConsumeContinue
<1>7. CASE ReadState(m)
  BY <1>7 DEF ReadState
<1>8. CASE Finish(m)
  BY <1>8 DEF Finish
<1>9. CASE End(m)
  BY <1>9 DEF End
<1>10. CASE Fail(m)
  BY <1>10 DEF Fail
<1> QED BY <1>1, <1>2, <1>3, <1>4, <1>5, <1>6, <1>7, <1>8, <1>9, <1>10 DEF Module

LEMMA SenderHandsOver ==
  ASSUME HandOverInv, NEW m \in Threaded, Check(m) \/ Deliver(m)
  PROVE  HandOverInv'
BY RuntimeAssumption DEF Check, Deliver, HandOverInv, TypeOK, FlagsInTurn, HeldMayNotSend,
       SchedulerKnows, OneAtATime, Executes, Thrown, AtRunner, Gone, Quiet, schedule, breaks

-----------------------------------------------------------------------------
(* Theorems. *)

LEMMA StepHandsOver ==
  ASSUME HandOverInv, [Next]_vars
  PROVE  HandOverInv'
<1>1. CASE Control
  BY <1>1, SchedulerHandsOver, RunnerHandsOver DEF Control
<1>2. CASE Signal
  BY <1>2, SignalHandsOver
<1>3. CASE \E m \in Modules : Module(m)
  BY <1>3, ModuleHandsOver
<1>4. CASE \E m \in Threaded : Check(m) \/ Deliver(m)
  BY <1>4, SenderHandsOver
<1>5. CASE UNCHANGED vars
  BY <1>5 DEF vars, HandOverInv, TypeOK, FlagsInTurn, HeldMayNotSend, SchedulerKnows,
         OneAtATime, Executes, Thrown, AtRunner, Gone, Quiet, schedule, breaks
<1> QED BY <1>1, <1>2, <1>3, <1>4, <1>5 DEF Next

\* The inductive invariant: the runtime is type correct, the flags are handed over
\* in turn, a held module may not send, no thread is left behind by an exception.
THEOREM HandOverKept == Spec => []HandOverInv
<1>1. Init => HandOverInv
  BY InitHandOver
<1>2. HandOverInv /\ [Next]_vars => HandOverInv'
  BY StepHandsOver
<1> QED BY <1>1, <1>2, PTL DEF Spec

\* For any number of modules and any periods, a module executes only while run()
\* waits for it, unless a module has not responded.
THEOREM OneExecutesAtATime == Spec => []OneAtATime
<1>1. HandOverInv => OneAtATime
  BY DEF HandOverInv
<1> QED BY <1>1, HandOverKept, PTL

\* A second thread gets past the check before sending only while its module is
\* released: whoever may send is neither held nor about to be, or is being
\* stopped, and a module that executes is the one run() waits for.
THEOREM HeldAreBlocked == Spec => BlockedWhileHeld
<1> DEFINE Blocked == \A m \in Modules :
                        hpc[m] = "check" /\ hpc'[m] = "deliver" =>
                          Thrown \/ (rpc \in {"wait", "release", "join"} /\ k = m)
<1>1. HandOverInv /\ [Next]_vars => [Blocked]_vars
  <2> SUFFICES ASSUME HandOverInv, [Next]_vars, NEW m \in Modules,
                      hpc[m] = "check", hpc'[m] = "deliver"
               PROVE  Thrown \/ (rpc \in {"wait", "release", "join"} /\ k = m)
    OBVIOUS
  <2>1. Check(m)
    <3>1. hpc' # hpc /\ hpc \in [Modules -> {"check", "deliver"}]
      BY DEF HandOverInv, TypeOK
    <3>2. ~Control
      BY <3>1 DEF Control, Cycle, NotDue, Start, Resume, ContinueExecution, TurnEnds,
             NotResponding, Increment, Stop, Joined, Unwind, Destroyed, Return
    <3>3. ~Signal
      BY <3>1 DEF Signal
    <3>4. ~ \E n \in Modules : Module(n)
      BY <3>1 DEF Module, SetUp, GetModuleState, Disallow, Reach, Released, Consume,
             ReadState, Finish, End, Fail, ModuleOnly
    <3>5. PICK n \in Threaded : Check(n) \/ Deliver(n)
      BY <3>1, <3>2, <3>3, <3>4 DEF Next, vars
    <3>6. n \in Modules
      BY RuntimeAssumption
    <3> QED BY <3>1, <3>5, <3>6 DEF Check, Deliver
  <2>2. allowed[m] /\ ~Gone(m)
    BY <2>1 DEF Check
  <2>3. CASE mpc[m] \in {"reach", "held"}
    BY <2>2, <2>3 DEF HandOverInv, HeldMayNotSend
  <2>4. CASE mpc[m] \notin {"reach", "held"}
    <3>1. Executes(m)
      BY <2>2, <2>4 DEF HandOverInv, TypeOK, Executes, Gone
    <3> QED BY <3>1 DEF HandOverInv, OneAtATime
  <2> QED BY <2>3, <2>4
<1> HIDE DEF Blocked
<1>2. Spec => [][Blocked]_vars
  BY <1>1, HandOverKept, PTL DEF Spec
<1> QED BY <1>2 DEF Blocked, BlockedWhileHeld

-----------------------------------------------------------------------------
(* Multiples and remainders. *)

\* Quotient and remainder.
LEMMA QuotientRemainder ==
  ASSUME NEW t \in Nat, NEW p \in Nat \ {0}
  PROVE  /\ t \div p \in Nat /\ t % p \in Nat /\ t % p < p
         /\ t = (t \div p) * p + (t % p)
OBVIOUS

\* Multiples of a number are at least that number apart.
LEMMA MultiplesApart ==
  ASSUME NEW s \in Nat, NEW i \in Int, NEW j \in Int, i < j
  PROVE  i * s + s <= j * s
OBVIOUS

\* They are the only ones.
LEMMA OnlyQuotient ==
  ASSUME NEW p \in Nat \ {0}, NEW q \in Nat, NEW r \in Nat, r < p
  PROVE  (q * p + r) \div p = q /\ (q * p + r) % p = r
<1> DEFINE t == q * p + r
           d == t \div p
           e == t % p
<1>1. t \in Nat
  OBVIOUS
<1>2. d \in Nat /\ e \in Nat /\ e < p /\ t = d * p + e
  BY <1>1, QuotientRemainder
<1> HIDE DEF d, e
<1>3. ~(d < q)
  BY <1>2, MultiplesApart
<1>4. ~(q < d)
  BY <1>2, MultiplesApart
<1>5. d = q
  BY <1>2, <1>3, <1>4
<1>6. e = r
  BY <1>2, <1>5
<1> QED BY <1>5, <1>6 DEF d, e

\* No remainder is left of multiples only.
LEMMA ZeroRemainder ==
  ASSUME NEW t \in Nat, NEW p \in Nat \ {0}
  PROVE  t % p = 0 <=> \E q \in Nat : t = q * p
<1>1. t \div p \in Nat /\ t = (t \div p) * p + (t % p)
  BY QuotientRemainder
<1>2. ASSUME t % p = 0 PROVE \E q \in Nat : t = q * p
  <2>1. (t \div p) * p \in Nat
    BY <1>1
  <2>2. t = (t \div p) * p
    BY <1>1, <1>2, <2>1
  <2> QED BY <1>1, <2>2
<1>3. ASSUME NEW q \in Nat, t = q * p PROVE t % p = 0
  <2>1. (q * p + 0) % p = 0
    BY <1>3, OnlyQuotient
  <2>2. q * p + 0 = t
    BY <1>3
  <2> QED BY <2>1, <2>2
<1> QED BY <1>2, <1>3

\* Of a time that counts within the second, with a period that divides it.
LEMMA WithinSecond ==
  ASSUME NEW t \in Nat, NEW p \in Nat \ {0}, NEW s \in Nat \ {0}, s % p = 0
  PROVE  (t % s) % p = t % p
<1>1. PICK c \in Nat : s = c * p
  BY ZeroRemainder
<1> DEFINE q == t \div s
           r == t % s
           u == r \div p
           v == r % p
<1>2. q \in Nat /\ r \in Nat /\ t = q * s + r
  BY QuotientRemainder
<1> HIDE DEF q, r
<1>3. u \in Nat /\ v \in Nat /\ v < p /\ r = u * p + v
  BY <1>2, QuotientRemainder
<1> HIDE DEF u, v
<1>4. q * c + u \in Nat /\ t = (q * c + u) * p + v
  BY <1>1, <1>2, <1>3
<1>5. t % p = v
  BY <1>3, <1>4, OnlyQuotient
<1> QED BY <1>5 DEF v, r

\* A step that does not reach the next multiple stays with the same one.
LEMMA SameMultiple ==
  ASSUME NEW t \in Nat, NEW p \in Nat \ {0}, NEW s \in Nat \ {0},
         t % s = 0, p % s = 0, (t + s) % p # 0
  PROVE  (t + s) \div p = t \div p
<1>1. PICK a \in Nat : t = a * s
  BY ZeroRemainder
<1>2. PICK b \in Nat : p = b * s
  BY ZeroRemainder
<1> DEFINE q == t \div p
           r == t % p
<1>3. q \in Nat /\ r \in Nat /\ r < p /\ t = q * p + r
  BY QuotientRemainder
<1> HIDE DEF q, r
<1>4. PICK d \in Int : r = d * s
  <2>1. a - q * b \in Int /\ r = (a - q * b) * s
    BY <1>1, <1>2, <1>3
  <2> QED BY <2>1
<1>5. d < b
  <2> SUFFICES ASSUME b < d \/ b = d PROVE FALSE
    BY <1>4
  <2>1. CASE b = d
    BY <1>2, <1>3, <1>4, <2>1
  <2>2. CASE b < d
    <3>1. b * s + s <= d * s
      BY <1>4, <2>2, MultiplesApart
    <3> QED BY <1>2, <1>3, <1>4, <3>1
  <2> QED BY <2>1, <2>2
<1>6. r + s <= p
  <2>1. d * s + s <= b * s
    BY <1>4, <1>5, MultiplesApart
  <2> QED BY <1>2, <1>4, <2>1
<1>7. r + s # p
  <2> SUFFICES ASSUME r + s = p PROVE FALSE
    OBVIOUS
  <2>1. q + 1 \in Nat /\ t + s = (q + 1) * p
    BY <1>3
  <2>2. (t + s) % p = 0
    BY <2>1, ZeroRemainder
  <2> QED BY <2>2
<1>8. t + s = q * p + (r + s) /\ r + s \in Nat /\ r + s < p
  BY <1>3, <1>6, <1>7
<1>9. (t + s) \div p = q
  BY <1>3, <1>8, OnlyQuotient
<1> QED BY <1>9 DEF q
-----------------------------------------------------------------------------
(* The turns. *)

\* Every period is longer than a second or divides it.
Commensurable == \A m \in Modules : Period[m] > Second \/ Second % Period[m] = 0

\* The latest multiple of a module's period.
Latest(m) == (time \div Period[m]) * Period[m]

\* run() is in its loop over the runners.
InCycle == rpc \in {"turn", "continue", "wait"}

\* A module that has not finished has had its turn at the latest multiple of its
\* period, but for the one that is now, before run() has come to its runner.
HadTurn(m) ==
  /\ (rpc = "cycle" \/ (InCycle /\ k <= m)) /\ time % Period[m] # 0 =>
       lastRun[m] = Latest(m)
  /\ InCycle /\ m < k => lastRun[m] = Latest(m)

\* Inductive, with HandOverInv: the time goes in steps, a module is told to go on
\* at a multiple of its period, and no turn was missed.
TurnsInv ==
  /\ time % Step = 0
  /\ rpc \in {"continue", "wait"} => time % Period[k] = 0
  /\ \A m \in Modules : finished[m] \/ HadTurn(m)

\* What needsExecution makes of the time is whether it is a multiple.
LEMMA DueAtMultiples ==
  ASSUME Commensurable, HandOverInv, NEW m \in Modules
  PROVE  Due(m) <=> time % Period[m] = 0 /\ ~finished[m]
<1>1. /\ time \in Nat /\ Period[m] \in Nat \ {0} /\ Second \in Nat \ {0}
      /\ Period[m] > Second \/ Second % Period[m] = 0
  BY RuntimeAssumption DEF Commensurable, HandOverInv, TypeOK
<1>2. CASE Period[m] > Second
  BY <1>2 DEF Due
<1>3. CASE ~(Period[m] > Second)
  <2>1. (time % Second) % Period[m] = time % Period[m]
    BY <1>1, <1>3, WithinSecond
  <2> QED BY <1>3, <2>1 DEF Due
<1> QED BY <1>2, <1>3

\* At the start every module is due.
LEMMA InitTurns == Init => TurnsInv
<1> SUFFICES ASSUME Init PROVE TurnsInv
  OBVIOUS
<1>1. \A p \in Nat \ {0} : 0 % p = 0
  BY SMT
<1>2. time = 0 /\ rpc = "cycle" /\ \A m \in Modules : Period[m] \in Nat \ {0}
  BY RuntimeAssumption DEF Init
<1> QED BY <1>1, <1>2, StepType DEF TurnsInv, HadTurn, InCycle

\* The turn of the module at hand ends, or it has none.
LEMMA RunnerTurns ==
  ASSUME Commensurable, HandOverInv, TurnsInv,
         NotDue \/ Start \/ Resume \/ ContinueExecution \/ TurnEnds
  PROVE  TurnsInv'
<1>1. k \in 1..(N + 1) /\ N \in Nat /\ time \in Nat /\ lastRun \in [Modules -> Nat]
  BY RuntimeAssumption DEF HandOverInv, TypeOK
<1>2. k \in Modules => Period[k] \in Nat \ {0}
  BY RuntimeAssumption
<1>3. /\ time % Step = 0
      /\ rpc \in {"continue", "wait"} => time % Period[k] = 0
      /\ \A m \in Modules : finished[m] \/ HadTurn(m)
  BY DEF TurnsInv
<1>4. time' = time /\ finished' = finished
  BY DEF NotDue, Start, Resume, ContinueExecution, TurnEnds, breaks
<1>5. CASE NotDue
  <2>1. k \in Modules /\ rpc = "turn" /\ rpc' = "turn" /\ k' = k + 1 /\ lastRun' = lastRun
    BY <1>1, <1>5 DEF NotDue, Modules
  <2>2. finished[k] \/ time % Period[k] # 0
    BY <1>5, <2>1, DueAtMultiples DEF NotDue
  <2>3. ASSUME NEW m \in Modules, ~finished[m] PROVE HadTurn(m)'
    <3>1. m \in Int /\ HadTurn(m)
      BY <1>3, <2>3 DEF Modules
    <3>2. CASE m = k
      BY <1>1, <1>4, <2>1, <2>2, <2>3, <3>1, <3>2 DEF HadTurn, InCycle, Latest
    <3>3. CASE m # k
      BY <1>1, <1>4, <2>1, <3>1, <3>3 DEF HadTurn, InCycle, Latest
    <3> QED BY <3>2, <3>3
  <2> QED BY <1>3, <1>4, <2>1, <2>3 DEF TurnsInv
<1>6. CASE Start \/ Resume
  <2>1. /\ k \in Modules /\ rpc = "turn" /\ rpc' \in {"wait", "continue"} /\ k' = k
        /\ lastRun' = lastRun /\ Due(k)
    BY <1>1, <1>6 DEF Start, Resume, Modules
  <2>2. time % Period[k] = 0
    BY <2>1, DueAtMultiples
  <2>3. ASSUME NEW m \in Modules, ~finished[m] PROVE HadTurn(m)'
    BY <1>3, <1>4, <2>1, <2>3 DEF HadTurn, InCycle, Latest
  <2> QED BY <1>3, <1>4, <2>1, <2>2, <2>3 DEF TurnsInv
<1>7. CASE ContinueExecution
  <2>1. /\ k' = k /\ lastRun' = lastRun
        /\ \/ rpc = "continue" /\ rpc' = "wait"
           \/ rpc' = "join"
    BY <1>7 DEF ContinueExecution
  <2>2. ASSUME NEW m \in Modules, ~finished[m] PROVE HadTurn(m)'
    BY <1>3, <1>4, <2>1, <2>2 DEF HadTurn, InCycle, Latest
  <2> QED BY <1>3, <1>4, <2>1, <2>2 DEF TurnsInv
<1>8. CASE TurnEnds
  <2>1. /\ k \in Modules /\ rpc = "wait" /\ rpc' = "turn" /\ k' = k + 1
        /\ lastRun' = [lastRun EXCEPT ![k] = time]
    BY <1>8 DEF TurnEnds, HandOverInv, SchedulerKnows, AtRunner
  <2>2. time = Latest(k)
    <3>1. time % Period[k] = 0
      BY <1>3, <2>1
    <3>2. /\ time \div Period[k] \in Nat
          /\ time = (time \div Period[k]) * Period[k] + (time % Period[k])
      BY <1>1, <1>2, <2>1, QuotientRemainder
    <3>3. (time \div Period[k]) * Period[k] \in Nat
      BY <1>2, <2>1, <3>2
    <3> QED BY <3>1, <3>2, <3>3 DEF Latest
  <2>3. ASSUME NEW m \in Modules, ~finished[m] PROVE HadTurn(m)'
    <3>1. m \in Int /\ HadTurn(m)
      BY <1>3, <2>3 DEF Modules
    <3>2. CASE m = k
      BY <1>1, <1>4, <2>1, <2>2, <3>2 DEF HadTurn, InCycle, Latest
    <3>3. CASE m # k
      BY <1>1, <1>4, <2>1, <3>1, <3>3 DEF HadTurn, InCycle, Latest
    <3> QED BY <3>2, <3>3
  <2> QED BY <1>3, <1>4, <2>1, <2>3 DEF TurnsInv
<1> QED BY <1>5, <1>6, <1>7, <1>8

\* The time moves on: every runner has been asked, and the step does not reach
\* past the next multiple of any period.
LEMMA TimeTurns ==
  ASSUME HandOverInv, TurnsInv, Increment
  PROVE  /\ \A m \in Modules : finished[m] \/ lastRun[m] = Latest(m)
         /\ TurnsInv'
<1>1. /\ time \in Nat /\ Step \in Nat \ {0} /\ time % Step = 0
      /\ rpc = "turn" /\ k = N + 1 /\ time' = time + Step /\ rpc' = "cycle"
      /\ lastRun' = lastRun /\ finished' = finished
  BY StepType DEF HandOverInv, TypeOK, TurnsInv, Increment
<1>2. ASSUME NEW m \in Modules, ~finished[m] PROVE lastRun[m] = Latest(m)
  <2>1. m < k
    BY <1>1, RuntimeAssumption DEF Modules
  <2> QED BY <1>1, <1>2, <2>1 DEF TurnsInv, HadTurn, InCycle
<1>3. ASSUME NEW m \in Modules, ~finished[m] PROVE HadTurn(m)'
  <2>1. /\ Period[m] \in Nat \ {0} /\ Period[m] % Step = 0
    BY RuntimeAssumption, StepType
  <2>2. (time + Step) % Period[m] # 0 =>
          (time + Step) \div Period[m] = time \div Period[m]
    BY <1>1, <2>1, SameMultiple
  <2>3. time' % Period[m] # 0 => lastRun[m] = (time' \div Period[m]) * Period[m]
    BY <1>1, <1>2, <1>3, <2>2 DEF Latest
  <2> QED BY <1>1, <2>3 DEF HadTurn, InCycle, Latest
<1>4. (time + Step) % Step = 0
  <2>1. PICK q \in Nat : time = q * Step
    BY <1>1, ZeroRemainder
  <2>2. q + 1 \in Nat /\ time + Step = (q + 1) * Step /\ time + Step \in Nat
    BY <1>1, <2>1
  <2> QED BY <1>1, <2>2, ZeroRemainder
<1> QED BY <1>1, <1>2, <1>3, <1>4 DEF TurnsInv

\* Whatever else happens: the loop begins, or is left for good.
LEMMA OtherTurns ==
  ASSUME HandOverInv, TurnsInv,
         \/ Cycle \/ NotResponding \/ Stop \/ Joined \/ Unwind \/ Destroyed \/ Return
         \/ Signal
         \/ \E m \in Modules : Module(m)
         \/ \E m \in Threaded : Check(m) \/ Deliver(m)
         \/ UNCHANGED vars
  PROVE  TurnsInv' /\ time' = time
<1>1. /\ time % Step = 0
      /\ rpc \in {"continue", "wait"} => time % Period[k] = 0
      /\ \A m \in Modules : finished[m] \/ HadTurn(m)
  BY DEF TurnsInv
<1>2. CASE Cycle
  <2>1. /\ rpc = "cycle" /\ rpc' \in {"turn", "stop"} /\ k' = 1
        /\ UNCHANGED <<time, lastRun, finished>>
    BY <1>2 DEF Cycle
  <2>2. ASSUME NEW m \in Modules, ~finished[m] PROVE HadTurn(m)'
    <3>1. m \in Nat /\ ~(m < 1)
      BY RuntimeAssumption DEF Modules
    <3> QED BY <1>1, <2>1, <2>2, <3>1 DEF HadTurn, InCycle, Latest
  <2> QED BY <1>1, <2>1, <2>2 DEF TurnsInv
<1>3. CASE NotResponding \/ Stop \/ Joined \/ Unwind \/ Destroyed \/ Return
  <2>1. rpc' \in {"unwind", "stop", "release", "destroy", "done"} /\ time' = time
    BY <1>3 DEF NotResponding, Stop, Joined, Unwind, Destroyed, Return
  <2> QED BY <1>1, <2>1 DEF TurnsInv, HadTurn, InCycle
<1>4. CASE \/ Signal
           \/ \E m \in Modules : Module(m)
           \/ \E m \in Threaded : Check(m) \/ Deliver(m)
           \/ UNCHANGED vars
  <2>1. UNCHANGED <<time, rpc, k, lastRun>>
    BY <1>4 DEF Signal, Module, SetUp, GetModuleState, Disallow, Reach, Released,
           Consume, ReadState, Finish, End, Fail, ModuleOnly, Check, Deliver, vars, schedule
  <2>2. \A m \in Modules : finished[m] => finished'[m]
    <3>1. finished \in [Modules -> BOOLEAN]
      BY DEF HandOverInv, TypeOK
    <3>2. finished' = finished \/ \E m \in Modules : finished' = [finished EXCEPT ![m] = TRUE]
      BY <1>4 DEF Signal, Module, SetUp, GetModuleState, Disallow, Reach, Released,
             Consume, ReadState, Finish, End, Fail, ModuleOnly, Check, Deliver, vars
    <3> QED BY <3>1, <3>2
  <2>3. \A m \in Modules : HadTurn(m) => HadTurn(m)'
    BY <2>1 DEF HadTurn, InCycle, Latest
  <2> QED BY <1>1, <2>1, <2>2, <2>3 DEF TurnsInv
<1> QED BY <1>2, <1>3, <1>4

\* With such periods no turn is missed: needsExecution finds the multiples of the
\* period, the step of the time passes none of them by, and run() asks every runner
\* before it moves the time.
THEOREM TurnsKept == Commensurable => (Spec => NoTurnMissed)
<1> SUFFICES ASSUME Commensurable PROVE Spec => NoTurnMissed
  OBVIOUS
<1> DEFINE Inv == HandOverInv /\ TurnsInv
           HasHad == time' # time =>
                       \A m \in Modules :
                         finished[m] \/ lastRun[m] = (time \div Period[m]) * Period[m]
<1>1. Init => Inv
  BY InitHandOver, InitTurns
<1>2. Inv /\ [Next]_vars => TurnsInv' /\ HasHad
  <2> SUFFICES ASSUME Inv, [Next]_vars PROVE TurnsInv' /\ HasHad
    OBVIOUS
  <2>1. CASE NotDue \/ Start \/ Resume \/ ContinueExecution \/ TurnEnds
    <3>1. time' = time
      BY <2>1 DEF NotDue, Start, Resume, ContinueExecution, TurnEnds
    <3> QED BY <2>1, <3>1, RunnerTurns
  <2>2. CASE Increment
    BY <2>2, TimeTurns DEF Latest
  <2>3. CASE \/ Cycle \/ NotResponding \/ Stop \/ Joined \/ Unwind \/ Destroyed \/ Return
             \/ Signal
             \/ \E m \in Modules : Module(m)
             \/ \E m \in Threaded : Check(m) \/ Deliver(m)
             \/ UNCHANGED vars
    BY <2>3, OtherTurns
  <2> QED BY <2>1, <2>2, <2>3 DEF Next, Control
<1>3. Inv /\ [Next]_vars => Inv'
  BY <1>2, StepHandsOver
<1>4. Inv /\ [Next]_vars => [HasHad]_vars
  BY <1>2
<1> HIDE DEF Inv, HasHad
<1>5. Spec => [][HasHad]_vars
  BY <1>1, <1>3, <1>4, PTL DEF Spec
<1> QED BY <1>5 DEF HasHad, NoTurnMissed
=============================================================================
