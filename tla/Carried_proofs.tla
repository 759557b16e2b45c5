--------------------------- MODULE Carried_proofs ---------------------------
(***************************************************************************)
(* What pulses and acknowledgements carry: why the virtual time of a module *)
(* does not get ahead of supercomponent, why no batch of containers is      *)
(* collected twice or out of order, and why none is skipped of a module    *)
(* that keeps step, for every managed level and every number of modules    *)
(* and of rounds.                                                          *)
(***************************************************************************)
EXTENDS ManagedLevel_proofs

-----------------------------------------------------------------------------
(* What the steps do to pulses and registrations. *)

\* A module's pulse of this round is due from the beginning of the round until it
\* is sent.
LEMMA PulseDue ==
  ASSUME TypeOK, ServerStep, NEW m \in Modules
  PROVE  \/ round' = round + 1
         \/ round' = round /\ (NotSent(m)' => NotSent(m))
<1>1. cursor \in 1..(N + 1) /\ m \in 1..N /\ round \in Nat
  BY DEF TypeOK, ServerTypeOK, Modules
<1>2. CASE BeginRound
  BY <1>2 DEF BeginRound
<1>3. CASE SkipModule \/ EndTurn
  BY <1>1, <1>3, LinkAssumption DEF SkipModule, EndTurn, NotSent
<1>4. CASE EnterTurn \/ CheckLost \/ ClearAck \/ CheckAck \/ AckTimeout \/ EndRound
  BY <1>1, <1>4 DEF EnterTurn, CheckLost, ClearAck, CheckAck, AckTimeout, EndRound, NotSent
<1>5. CASE SendPulse
  BY <1>1, <1>5, LinkAssumption DEF SendPulse, NotSent
<1>6. CASE SendFails
  BY <1>1, <1>6 DEF SendFails, NotSent
<1>7. CASE Stop
  BY <1>1, <1>7 DEF Stop, NotSent
<1>8. ASSUME NEW n \in Modules, Join(n) \/ ReceiverStep(n)
      PROVE  round' = round /\ (NotSent(m)' => NotSent(m))
  <2>1. CASE ReceiveAck(n) \/ WakeOnLoss(n)
    BY <1>1, <2>1 DEF ReceiveAck, WakeOnLoss, WakeMain, NotSent
  <2>2. CASE UNCHANGED <<spc, round, cursor>>
    BY <2>2 DEF NotSent
  <2> QED
    BY <1>8, <2>1, <2>2 DEF Join, ReceiverStep, ReceiveState, ReceiveExit, PeerClosed,
       NotifyLost, serverVars
<1> QED
  BY <1>2, <1>3, <1>4, <1>5, <1>6, <1>7, <1>8 DEF ServerStep, MainStep

\* A registration that is deleted stays so; with the deletion a module that is
\* there is told the end of the connection, and hears no more.
LEMMA Unregistered ==
  ASSUME TypeOK, ServerStep, NEW m \in Modules
  PROVE  /\ open' = open
         /\ registered[m] = "deleted" => registered'[m] = "deleted"
         /\ registered'[m] = "deleted" =>
              \/ registered[m] = "deleted"
              \/ m \notin open
              \/ down'[m] = Append(down[m], Closed)
         /\ down'[m] = Append(down[m], Closed) => registered[m] # "deleted" \/ SendPulse
<1> USE DEF TypeOK, LinkTypeOK, ServerTypeOK
<1>1. ASSUME NEW gone, Disconnect(gone)
      PROVE  /\ open' = open
             /\ registered[m] = "deleted" => registered'[m] = "deleted"
             /\ registered'[m] = "deleted" =>
                  \/ registered[m] = "deleted"
                  \/ m \notin open
                  \/ down'[m] = Append(down[m], Closed)
             /\ registered[m] = "deleted" => down'[m] = down[m]
  BY <1>1 DEF Disconnect
<1>2. down[m] # Append(down[m], Closed)
  <2>1. Len(Append(down[m], Closed)) = Len(down[m]) + 1 /\ Len(down[m]) \in Nat
    BY MessageTypes, AppendEntries
  <2> QED
    BY <2>1
<1>3. CASE BeginRound \/ Stop
  BY <1>1, <1>2, <1>3 DEF BeginRound, Stop
<1>4. CASE SendPulse
  BY <1>4 DEF SendPulse
<1>5. ASSUME UNCHANGED <<down, open>>, \E n \in Modules : Join(n) \/ ReceiverStep(n)
      PROVE  /\ registered[m] = "deleted" => registered'[m] = "deleted"
             /\ registered'[m] = "deleted" => registered[m] = "deleted"
  BY <1>5 DEF Join, ReceiverStep, ReceiveAck, ReceiveState, ReceiveExit, PeerClosed,
     WakeOnLoss, NotifyLost, serverVars
<1>6. CASE \E n \in Modules : Join(n) \/ ReceiverStep(n)
  <2>1. UNCHANGED <<down, open>>
    BY <1>6 DEF Join, ReceiverStep, ReceiveAck, ReceiveState, ReceiveExit, PeerClosed,
       WakeOnLoss, NotifyLost, linkVars
  <2> QED
    BY <1>2, <1>5, <1>6, <2>1
<1>7. CASE UNCHANGED <<down, open, registered>>
  BY <1>2, <1>7
<1> QED
  BY <1>3, <1>4, <1>6, <1>7 DEF ServerStep, MainStep, SkipModule, EnterTurn, CheckLost,
     ClearAck, SendFails, CheckAck, AckTimeout, EndTurn, EndRound, linkVars

\* While a turn begins, its module stays registered: only the main thread deletes.
LEMMA TurnRegistered ==
  ASSUME TypeOK, ServerStep,
         spc \in {"lostcheck", "clear", "send"} => registered[cursor] # "deleted"
  PROVE  spc' \in {"lostcheck", "clear", "send"} => registered'[cursor'] # "deleted"
<1> USE DEF TypeOK, ServerTypeOK
<1>1. CASE MainStep \/ Stop
  BY <1>1 DEF MainStep, BeginRound, SkipModule, EnterTurn, CheckLost, ClearAck, SendPulse,
     SendFails, CheckAck, AckTimeout, EndTurn, EndRound, Stop
<1>2. ASSUME NEW n \in Modules, Join(n) \/ ReceiverStep(n)
      PROVE  spc' \in {"lostcheck", "clear", "send"} => registered'[cursor'] # "deleted"
  <2>1. cursor' = cursor /\ (spc' \in {"lostcheck", "clear", "send"} => spc' = spc)
    BY <1>2 DEF Join, ReceiverStep, ReceiveAck, ReceiveState, ReceiveExit, PeerClosed,
       WakeOnLoss, NotifyLost, WakeMain, serverVars
  <2>2. registered' = registered \/ registered' = [registered EXCEPT ![n] = "in"]
          \/ registered' = [registered EXCEPT ![n] = IF @ = "in" THEN "out" ELSE @]
    BY <1>2 DEF Join, ReceiverStep, ReceiveAck, ReceiveState, ReceiveExit, PeerClosed,
       WakeOnLoss, NotifyLost, serverVars
  <2>3. spc \in {"lostcheck", "clear", "send"} => cursor \in Modules
    BY LinkAssumption DEF Modules
  <2> QED
    BY <2>1, <2>2, <2>3
<1> QED
  BY <1>1, <1>2 DEF ServerStep

-----------------------------------------------------------------------------
(* The inductive invariant. *)

\* The slices a module has been awoken for by a signal, or is about to be.
Slices(m) ==
  clock[m] + (IF crpc[m] = "wake" THEN 1 ELSE 0) + (IF cpc[m] = "woken" THEN 1 ELSE 0)
    - spurious[m]

\* The slices that were sent to it: the last round's pulse is perhaps still due,
\* and the end of the connection counts as one.
Granted(m) ==
  round + (IF registered[m] = "deleted" THEN 1 ELSE 0) - (IF NotSent(m) THEN 1 ELSE 0)

\* Every pulse of a round awakes a module at most once, and so does the end of the
\* connection, which is the last thing under way to it.
ModuleTime(m) ==
  /\ Slices(m) + Len(down[m]) <= Granted(m)
  /\ m \notin open => crpc[m] = "ended"
  /\ registered[m] = "deleted" /\ crpc[m] \in {"recv", "wake"} =>
       down[m] # <<>> /\ down[m][Len(down[m])].type = "eof"

\* Inductive.  That a turn begins only for a registered module is what keeps the
\* grant from shrinking when its pulse is sent.
VirtualTimeInv ==
  /\ spc \in {"lostcheck", "clear", "send"} => registered[cursor] # "deleted"
  /\ \A m \in Modules : ModuleTime(m)

LEMMA Numbers ==
  ASSUME TypeOK, NEW m \in Modules
  PROVE  /\ clock[m] \in Nat /\ round \in Nat
         /\ down[m] \in Seq(DownMessages) /\ Len(down[m]) \in Nat
         /\ spurious[m] \in Nat
         /\ Slices(m) \in Int /\ Granted(m) \in Int
BY DEF TypeOK, LinkTypeOK, ServerTypeOK, ClientTypeOK, Slices, Granted

LEMMA NumbersNext ==
  ASSUME TypeOK', NEW m \in Modules
  PROVE  /\ clock'[m] \in Nat /\ round' \in Nat
         /\ down'[m] \in Seq(DownMessages) /\ Len(down'[m]) \in Nat
         /\ spurious'[m] \in Nat
         /\ Slices(m)' \in Int /\ Granted(m)' \in Int
<1>1. /\ clock'[m] \in Nat /\ round' \in Nat
      /\ down'[m] \in Seq(DownMessages) /\ Len(down'[m]) \in Nat
      /\ spurious'[m] \in Nat
  BY DEF TypeOK, LinkTypeOK, ServerTypeOK, ClientTypeOK
<1>2. Slices(m)' \in Int
  BY <1>1 DEF Slices
<1>3. Granted(m)' \in Int
  BY <1>1 DEF Granted
<1> QED BY <1>1, <1>2, <1>3

\* What is granted grows with the round, when a pulse that is due is sent, and
\* when the registration is deleted.
LEMMA GrantGrows ==
  ASSUME TypeOK, TypeOK', NEW m \in Modules,
         registered[m] = "deleted" => registered'[m] = "deleted",
         round' = round + 1 \/ (round' = round /\ (NotSent(m)' => NotSent(m)))
  PROVE  /\ Granted(m)' >= Granted(m)
         /\ registered[m] # "deleted" /\ registered'[m] = "deleted" =>
              Granted(m)' >= Granted(m) + 1
         /\ round' = round /\ NotSent(m) /\ ~NotSent(m)' =>
              Granted(m)' >= Granted(m) + 1
<1>1. round \in Nat /\ round' \in Nat
  BY Numbers, NumbersNext
<1>2. PICK due, deleted \in {0, 1} :
        /\ Granted(m) = round + deleted - due
        /\ due = 1 <=> NotSent(m)
        /\ deleted = 1 <=> registered[m] = "deleted"
  <2> WITNESS (IF NotSent(m) THEN 1 ELSE 0) \in {0, 1},
              (IF registered[m] = "deleted" THEN 1 ELSE 0) \in {0, 1}
  <2> QED BY <1>1 DEF Granted
<1>3. PICK dueNext, deletedNext \in {0, 1} :
        /\ Granted(m)' = round' + deletedNext - dueNext
        /\ dueNext = 1 <=> NotSent(m)'
        /\ deletedNext = 1 <=> registered'[m] = "deleted"
  <2> WITNESS (IF NotSent(m)' THEN 1 ELSE 0) \in {0, 1},
              (IF registered'[m] = "deleted" THEN 1 ELSE 0) \in {0, 1}
  <2> QED BY <1>1 DEF Granted
<1>0. due \in 0..1 /\ deleted \in 0..1 /\ dueNext \in 0..1 /\ deletedNext \in 0..1
  BY <1>2, <1>3
<1>4. deletedNext >= deleted /\ (registered[m] # "deleted" /\ registered'[m] = "deleted" =>
                                   deleted = 0 /\ deletedNext = 1)
  BY <1>2, <1>3
<1>5. round' = round + 1 \/ (round' = round /\ dueNext <= due)
  BY <1>2, <1>3
<1>6. NotSent(m) /\ ~NotSent(m)' => due = 1 /\ dueNext = 0
  BY <1>2, <1>3
<1>7. /\ deletedNext >= deleted =>
           round' + deletedNext - dueNext >= round + deleted - due
      /\ deletedNext > deleted =>
           round' + deletedNext - dueNext >= round + deleted - due + 1
  <2>1. CASE round' = round + 1
    BY <1>0, <1>1, <2>1
  <2>2. CASE round' = round /\ dueNext <= due
    BY <1>0, <1>1, <2>2
  <2> QED BY <1>5, <2>1, <2>2
<1>8. deletedNext >= deleted
  BY <1>4
<1>9. round' = round /\ due = 1 /\ dueNext = 0 =>
        round' + deletedNext - dueNext >= round + deleted - due + 1
  BY <1>0, <1>1, <1>4
<1> QED
  BY <1>2, <1>3, <1>4, <1>6, <1>7, <1>8, <1>9

LEMMA ServerModuleTime ==
  ASSUME TypeOK, TypeOK', VirtualTimeInv, ServerStep, UNCHANGED clientVars, NEW m \in Modules
  PROVE  ModuleTime(m)'
<1>1. ModuleTime(m)
  BY DEF VirtualTimeInv, ModuleTime
<1>0. /\ clock[m] \in Nat /\ clock'[m] \in Nat
      /\ Len(down[m]) \in Nat /\ Len(down'[m]) \in Nat
      /\ spurious[m] \in Nat /\ spurious'[m] \in Nat
      /\ Slices(m) \in Int /\ Slices(m)' \in Int
      /\ Granted(m) \in Int /\ Granted(m)' \in Int
  BY Numbers, NumbersNext
<1>2. crpc' = crpc /\ cpc' = cpc /\ clock' = clock /\ spurious' = spurious
  BY DEF clientVars
<1>3. Slices(m)' = Slices(m)
  BY <1>2 DEF Slices
<1>4. /\ open' = open
      /\ registered[m] = "deleted" => registered'[m] = "deleted"
      /\ registered'[m] = "deleted" =>
           \/ registered[m] = "deleted"
           \/ m \notin open
           \/ down'[m] = Append(down[m], Closed)
      /\ down'[m] = Append(down[m], Closed) => registered[m] # "deleted" \/ SendPulse
  BY Unregistered
<1>5. round' = round + 1 \/ (round' = round /\ (NotSent(m)' => NotSent(m)))
  BY PulseDue
<1>6. /\ Granted(m)' >= Granted(m)
      /\ registered[m] # "deleted" /\ registered'[m] = "deleted" =>
           Granted(m)' >= Granted(m) + 1
      /\ round' = round /\ NotSent(m) /\ ~NotSent(m)' =>
           Granted(m)' >= Granted(m) + 1
  BY <1>4, <1>5, GrantGrows
<1>7. m \notin open' => crpc'[m] = "ended"
  BY <1>1, <1>2, <1>4 DEF ModuleTime
<1>8. /\ down[m] \in Seq(DownMessages) /\ Closed \in DownMessages
      /\ Pulse(round) \in DownMessages
  BY Numbers, MessageTypes
<1>9. Slices(m) + Len(down[m]) <= Granted(m)
  BY <1>1 DEF ModuleTime
<1>10. CASE down'[m] = down[m]
  <2>1. Slices(m)' + Len(down'[m]) <= Granted(m)'
    BY <1>3, <1>6, <1>9, <1>10, <1>0
  <2>2. down[m] # Append(down[m], Closed)
    BY <1>8, DownAppend
  <2> QED
    BY <1>1, <1>2, <1>4, <1>7, <1>10, <2>1, <2>2 DEF ModuleTime
<1>11. CASE ~SendPulse /\ down'[m] = Append(down[m], Closed) /\ registered'[m] = "deleted"
  <2>1. Len(down'[m]) = Len(down[m]) + 1 /\ down'[m][Len(down'[m])] = Closed
    BY <1>8, <1>11, DownAppend
  <2>2. Granted(m)' >= Granted(m) + 1
    BY <1>4, <1>6, <1>11
  <2>3. Slices(m)' + Len(down'[m]) <= Granted(m)'
    BY <1>3, <1>9, <2>1, <2>2, <1>0
  <2>4. down'[m] # <<>>
    BY <2>1, <1>0
  <2> QED
    BY <1>7, <2>1, <2>3, <2>4 DEF ModuleTime, Closed
<1>12. CASE SendPulse /\ down'[m] # down[m]
  <2>1. cursor = m /\ down'[m] = Append(down[m], Pulse(round))
    BY <1>12 DEF SendPulse, TypeOK, LinkTypeOK
  <2>2. Len(down'[m]) = Len(down[m]) + 1
    BY <1>8, <2>1, DownAppend
  <2>3. NotSent(m) /\ ~NotSent(m)'
    BY <1>12, <2>1 DEF SendPulse, NotSent, Modules
  <2>4. registered[m] # "deleted" /\ registered' = registered /\ round' = round
    BY <1>12, <2>1 DEF VirtualTimeInv, SendPulse
  <2>5. Granted(m)' >= Granted(m) + 1
    BY <1>6, <2>3, <2>4
  <2>6. Slices(m)' + Len(down'[m]) <= Granted(m)'
    BY <1>3, <1>9, <2>2, <2>5, <1>0
  <2> QED
    BY <1>7, <2>4, <2>6 DEF ModuleTime
<1> QED
  BY <1>10, <1>11, <1>12, ServerSends

\* A step of the modules only moves slices on: from the link to the receiver, from
\* there to the main thread, and from there to the module's clock.
LEMMA ClientModuleTime ==
  ASSUME TypeOK, TypeOK', VirtualTimeInv, ClientStep, UNCHANGED serverVars, NEW m \in Modules
  PROVE  ModuleTime(m)'
<1>1. ModuleTime(m)
  BY DEF VirtualTimeInv, ModuleTime
<1>0. /\ clock[m] \in Nat /\ clock'[m] \in Nat
      /\ Len(down[m]) \in Nat /\ Len(down'[m]) \in Nat
      /\ spurious[m] \in Nat /\ spurious'[m] \in Nat
      /\ Slices(m) \in Int /\ Slices(m)' \in Int
      /\ Granted(m) \in Int /\ Granted(m)' \in Int
  BY Numbers, NumbersNext
<1>2. PICK n \in Modules :
        \/ ModuleStep(n) \/ ClientReceiverStep(n) \/ Spurious(n)
       \/ Abort(n) \/ Crash(n)
  BY DEF ClientStep
<1>3. Granted(m)' = Granted(m) /\ registered' = registered
  <2>1. NotSent(m)' <=> NotSent(m)
    BY DEF serverVars, NotSent
  <2> QED
    BY <2>1 DEF serverVars, Granted
<1>4. SUFFICES /\ Slices(m)' + Len(down'[m]) <= Slices(m) + Len(down[m])
               /\ m \notin open' => crpc'[m] = "ended"
               /\ registered[m] = "deleted" /\ crpc'[m] \in {"recv", "wake"} =>
                    down'[m] # <<>> /\ down'[m][Len(down'[m])].type = "eof"
  <2>1. Slices(m) + Len(down[m]) <= Granted(m)
    BY <1>1 DEF ModuleTime
  <2>2. Slices(m)' + Len(down'[m]) <= Granted(m)'
    BY <1>3, <1>4, <2>1, <1>0
  <2> QED
    BY <1>3, <1>4, <2>2 DEF ModuleTime
<1>5. CASE UNCHANGED <<down[m], crpc[m]>> /\ (m \notin open' => m \notin open)
             /\ Slices(m)' <= Slices(m)
  <2>1. down'[m] = down[m] /\ crpc'[m] = crpc[m]
    BY <1>5
  <2>2. Slices(m)' + Len(down'[m]) <= Slices(m) + Len(down[m])
    BY <1>5, <2>1, <1>0
  <2> QED
    BY <1>1, <1>5, <2>1, <2>2 DEF ModuleTime
<1>6. CASE m # n
  <2>1. down'[m] = down[m] /\ cpc'[m] = cpc[m] /\ crpc'[m] = crpc[m]
    BY <1>2, <1>6, OwnSteps
  <2>5. spurious'[m] = spurious[m]
    BY <1>2, <1>6, OwnSteps
  <2>2. clock'[m] = clock[m] /\ (m \notin open' => m \notin open)
    <3>1. DOMAIN clock = Modules
      BY DEF TypeOK, ClientTypeOK
    <3>2. CASE ModuleStep(n)
      BY <3>1, <3>2, <1>6 DEF ModuleStep, SetUp, Reached, StartWaiting, ReadPulse,
         Continue, Compute, Leave, Terminate, linkVars
    <3>3. CASE ClientReceiverStep(n)
      BY <3>1, <3>3, <1>6 DEF ClientReceiverStep, StorePulse, WakeOnPulse,
         SupercomponentLost, StopRunning, linkVars
    <3>4. CASE Spurious(n) \/ Abort(n) \/ Crash(n)
      BY <3>1, <3>4, <1>6 DEF Spurious, Abort, Crash, Terminate, linkVars
    <3> QED
      BY <1>2, <3>2, <3>3, <3>4
  <2>3. Slices(m)' = Slices(m)
    BY <1>0, <2>1, <2>2, <2>5 DEF Slices
  <2> QED
    BY <1>0, <1>5, <2>1, <2>2, <2>3
<1>7. ASSUME m = n, NEW messages, Terminate(n, messages)
      PROVE  /\ Slices(m)' + Len(down'[m]) <= Slices(m) + Len(down[m])
             /\ crpc'[m] = "ended"
  <2>1. /\ down'[m] = <<>> /\ cpc'[m] = "gone" /\ crpc'[m] = "ended" /\ clock'[m] = clock[m]
        /\ spurious' = spurious
    BY <1>7 DEF Terminate, TypeOK, LinkTypeOK, ClientTypeOK
  <2>2. Slices(m)' <= Slices(m)
    BY <1>0, <2>1 DEF Slices
  <2> QED
    BY <2>1, <2>2, <1>0
<1>8. CASE m = n /\ (SetUp(n) \/ Reached(n) \/ StartWaiting(n) \/ Continue(n) \/ Compute(n))
  <2>1. /\ UNCHANGED <<down, open, crpc, clock, spurious>>
        /\ cpc'[m] # "woken"
    BY <1>8 DEF SetUp, Reached, StartWaiting, Continue, Compute, linkVars, TypeOK, LinkTypeOK, ClientTypeOK
  <2>2. Slices(m)' <= Slices(m)
    BY <1>0, <2>1 DEF Slices
  <2> QED
    BY <1>5, <2>1, <2>2
<1>9. CASE m = n /\ ReadPulse(n)
  <2>1. UNCHANGED <<down, open, crpc, spurious>>
    BY <1>9 DEF ReadPulse, linkVars
  <2>2. cpc[m] = "woken" /\ cpc'[m] # "woken" /\ clock'[m] \in {clock[m], clock[m] + 1}
    BY <1>9 DEF ReadPulse, TypeOK, LinkTypeOK, ClientTypeOK
  <2>3. Slices(m)' <= Slices(m)
    <3>1. /\ clock[m] \in Nat /\ spurious[m] \in Nat
          /\ crpc'[m] = crpc[m] /\ spurious'[m] = spurious[m]
      BY <1>0, <2>1
    <3> QED
      BY <2>2, <3>1 DEF Slices
  <2> QED
    BY <1>5, <2>1, <2>3
<1>10. CASE m = n /\ StopRunning(n)
  <2>1. /\ UNCHANGED <<down, open, clock, cpc, spurious>>
        /\ crpc[m] = "notify" /\ crpc'[m] = "ended"
    BY <1>10 DEF StopRunning, linkVars, TypeOK, LinkTypeOK, ClientTypeOK
  <2>2. Slices(m)' = Slices(m)
    BY <1>0, <2>1 DEF Slices
  <2> QED
    BY <2>1, <2>2, <1>0
<1>11. CASE m = n /\ WakeOnPulse(n)
  <2>1. UNCHANGED <<down, open, clock, spurious>> /\ crpc[m] = "wake" /\ crpc'[m] = "recv"
    BY <1>11 DEF WakeOnPulse, linkVars, TypeOK, LinkTypeOK, ClientTypeOK
  <2>2. Slices(m)' <= Slices(m)
    <3>1. cpc[m] = "woken" => cpc'[m] = "woken"
      BY <1>11 DEF WakeOnPulse, WakeModule, TypeOK, LinkTypeOK, ClientTypeOK
    <3> QED
      BY <1>0, <2>1, <3>1 DEF Slices
  <2>3. Slices(m)' + Len(down'[m]) <= Slices(m) + Len(down[m])
    BY <2>1, <2>2, <1>0
  <2> QED
    BY <1>1, <2>1, <2>3 DEF ModuleTime
<1>12. CASE m = n /\ StorePulse(n)
  <2>1. /\ UNCHANGED <<open, clock, cpc, spurious>>
        /\ crpc[m] = "recv" /\ crpc'[m] = "wake"
        /\ down[m] # <<>> /\ Head(down[m]).type = "pulse" /\ down'[m] = Tail(down[m])
    BY <1>12 DEF StorePulse, TypeOK, LinkTypeOK, ClientTypeOK
  <2>2. /\ Len(down'[m]) + 1 = Len(down[m]) /\ Head(down[m]) = down[m][1]
        /\ \A i \in 1..Len(down'[m]) : down'[m][i] = down[m][i + 1]
        /\ Len(down[m]) \in Nat /\ Len(down'[m]) \in Nat
    BY <2>1, DownTail, Numbers, NumbersNext
  <2>3. Slices(m)' = Slices(m) + 1
    <3>1. /\ clock'[m] = clock[m] /\ spurious'[m] = spurious[m]
          /\ cpc'[m] = cpc[m]
      BY <2>1
    <3>2. crpc[m] = "recv" /\ crpc'[m] = "wake"
      BY <2>1
    <3>3. clock[m] \in Nat /\ spurious[m] \in Nat
      BY <1>0
    <3> QED
      BY <3>1, <3>2, <3>3 DEF Slices
  <2>4. Slices(m)' + Len(down'[m]) <= Slices(m) + Len(down[m])
    BY <2>2, <2>3, <1>0
  <2>5. ASSUME registered[m] = "deleted"
        PROVE  down'[m] # <<>> /\ down'[m][Len(down'[m])].type = "eof"
    <3>1. down[m][Len(down[m])].type = "eof"
      BY <1>1, <2>1, <2>5 DEF ModuleTime
    <3>2. Len(down'[m]) # 0
      BY <2>1, <2>2, <3>1
    <3>3. down'[m][Len(down'[m])] = down[m][Len(down'[m]) + 1]
      BY <2>2, <3>2
    <3> QED
      BY <2>2, <3>1, <3>2, <3>3
  <2>6. m \in open
    BY <1>1, <2>1 DEF ModuleTime
  <2> QED
    BY <2>1, <2>4, <2>5, <2>6
<1>13. CASE m = n /\ SupercomponentLost(n)
  <2>1. /\ UNCHANGED <<open, clock, spurious>>
        /\ crpc[m] = "recv" /\ crpc'[m] = "notify"
        /\ down[m] # <<>> /\ down'[m] = Tail(down[m])
    BY <1>13 DEF SupercomponentLost, TypeOK, LinkTypeOK, ClientTypeOK
  <2>2. Len(down'[m]) + 1 = Len(down[m])
    BY <2>1, DownTail, Numbers
  <2>3. Slices(m)' <= Slices(m) + 1
    BY <1>0, <2>1 DEF Slices
  <2>4. Slices(m)' + Len(down'[m]) <= Slices(m) + Len(down[m])
    BY <2>2, <2>3, <1>0
  <2>5. m \in open
    BY <1>1, <2>1 DEF ModuleTime
  <2> QED
    BY <2>1, <2>4, <2>5
<1>15. CASE m = n /\ Spurious(n)
  <2>1. /\ UNCHANGED <<down, open, crpc, clock>>
        /\ cpc[m] = "waiting" /\ cpc'[m] = "woken"
        /\ spurious'[m] = spurious[m] + 1
    BY <1>15 DEF Spurious, linkVars, TypeOK, LinkTypeOK, ClientTypeOK
  <2>2. Slices(m)' = Slices(m)
    BY <1>0, <2>1 DEF Slices
  <2> QED
    BY <1>0, <1>5, <2>1, <2>2
<1>14. CASE m = n /\ \E messages : Terminate(n, messages)
  BY <1>7, <1>14
<1> QED
  BY <1>2, <1>6, <1>8, <1>9, <1>10, <1>11, <1>12, <1>13, <1>14, <1>15
  DEF ModuleStep, ClientReceiverStep, Leave, Abort, Crash

-----------------------------------------------------------------------------
(* Theorems. *)

\* What may still awake a module has been sent to it: by every pulse it advances
\* its time once, and once more by the end of its connection.
THEOREM VirtualTimeKept == Spec => []VirtualTimeInv
<1>1. Init => VirtualTimeInv
  <2> SUFFICES ASSUME Init, NEW m \in Modules
               PROVE  ModuleTime(m) /\ spc = "idle"
    BY DEF VirtualTimeInv, Init, ServerInit
  <2>1. /\ clock[m] = 0 /\ down[m] = <<>> /\ crpc[m] = "recv" /\ cpc[m] = "setup"
        /\ registered[m] = "new" /\ round = 0 /\ m \in open /\ spc = "idle"
        /\ spurious[m] = 0
    BY DEF Init, LinkInit, ServerInit, ClientInit
  <2>2. ~NotSent(m)
    BY <2>1 DEF NotSent
  <2> QED
    BY <2>1, <2>2 DEF ModuleTime, Slices, Granted
<1>2. TypeOK /\ TypeOK' /\ VirtualTimeInv /\ [Next]_vars => VirtualTimeInv'
  <2> SUFFICES ASSUME TypeOK, TypeOK', VirtualTimeInv, [Next]_vars PROVE VirtualTimeInv'
    OBVIOUS
  <2>1. CASE ServerStep /\ UNCHANGED clientVars
    <3>1. \A m \in Modules : ModuleTime(m)'
      BY <2>1, ServerModuleTime
    <3>2. spc' \in {"lostcheck", "clear", "send"} => registered'[cursor'] # "deleted"
      BY <2>1, TurnRegistered DEF VirtualTimeInv
    <3> QED
      BY <3>1, <3>2 DEF VirtualTimeInv, ModuleTime
  <2>2. CASE ClientStep /\ UNCHANGED serverVars
    <3>1. \A m \in Modules : ModuleTime(m)'
      BY <2>2, ClientModuleTime
    <3> QED
      BY <2>2, <3>1 DEF VirtualTimeInv, ModuleTime, serverVars
  <2>3. CASE UNCHANGED vars
    BY <2>3 DEF vars, linkVars, serverVars, clientVars, VirtualTimeInv, ModuleTime,
       Slices, Granted, NotSent
  <2> QED
    BY <2>1, <2>2, <2>3 DEF Next
<1> QED
  BY <1>1, <1>2, TypeCorrect, PTL DEF Spec

\* No module's virtual time gets ahead of the pulses that were sent, but for the
\* slice with which the end of the connection awakes it.
THEOREM TimeNotAhead == Spec => []VirtualTimeNotAhead
<1>1. TypeOK /\ VirtualTimeInv => VirtualTimeNotAhead
  <2> SUFFICES ASSUME TypeOK, VirtualTimeInv, NEW m \in Modules
               PROVE  clock[m] <= round + spurious[m]
                        + (IF crpc[m] \in {"notify", "ended"} THEN 1 ELSE 0)
    BY DEF VirtualTimeNotAhead
  <2>1. ModuleTime(m)
    BY DEF VirtualTimeInv, ModuleTime
  <2>2. /\ clock[m] + Len(down[m]) <= round + spurious[m] + 1
        /\ registered[m] # "deleted" => clock[m] + Len(down[m]) <= round + spurious[m]
    <3>1. /\ clock[m] \in Nat /\ round \in Nat /\ Len(down[m]) \in Nat
          /\ spurious[m] \in Nat
      BY Numbers
    <3>2. Slices(m) \in Int /\ Slices(m) >= clock[m] - spurious[m]
      BY <3>1 DEF Slices
    <3>3. /\ Granted(m) \in Int /\ Granted(m) <= round + 1
          /\ registered[m] # "deleted" => Granted(m) <= round
      BY <3>1 DEF Granted
    <3>4. Slices(m) + Len(down[m]) <= Granted(m)
      BY <2>1 DEF ModuleTime
    <3> QED
      BY <3>1, <3>2, <3>3, <3>4
  <2>3. CASE crpc[m] \in {"notify", "ended"}
    BY <2>2, <2>3, Numbers
  <2>4. CASE registered[m] # "deleted"
    BY <2>2, <2>4, Numbers
  <2>5. CASE crpc[m] \notin {"notify", "ended"} /\ registered[m] = "deleted"
    <3>1. crpc[m] \in {"recv", "wake"}
      BY <2>5 DEF TypeOK, ClientTypeOK
    <3>2. Len(down[m]) > 0
      BY <2>1, <2>5, <3>1, Numbers, EmptySeq DEF ModuleTime
    <3> QED
      BY <2>2, <3>2, Numbers
  <2> QED
    BY <2>3, <2>4, <2>5
<1> QED
  BY <1>1, TypeCorrect, VirtualTimeKept, PTL

-----------------------------------------------------------------------------
(* The inductive invariant. *)

\* The main thread is in the turn of module m, which began with no containers.
Visiting(m) == cursor = m /\ spc \notin {"idle", "visit", "stopped"}

\* Every batch a module has sent is later than those sent before.  A batch that has
\* been produced and not sent yet is later than all of them.
BatchesInOrder(m) ==
  /\ \A i \in 1..Len(up[m]) :
       up[m][i].batch # 0 =>
         /\ lastBatch[m] < up[m][i].batch
         /\ batch[m] < up[m][i].batch
         /\ \A j \in 1..(i - 1) : up[m][j].batch < up[m][i].batch
  /\ Visiting(m) /\ batch[m] # 0 => lastBatch[m] < batch[m]

BatchesMade(m) ==
  /\ \A b \in {lastBatch[m], batch[m]} \cup {up[m][i].batch : i \in 1..Len(up[m])} :
       b <= made[m] /\ (cpc[m] = "reached" /\ made[m] # 0 => b < made[m])
  /\ Level # "SIMULATION" \/ cpc[m] = "setup" => made[m] = 0

BatchInv == \A m \in Modules : BatchesInOrder(m) /\ BatchesMade(m)

-----------------------------------------------------------------------------
(* Messages to supercomponent. *)

\* Taking the first of what is under way to supercomponent.
LEMMA UpTail ==
  \A s \in Seq(UpMessages) : s # <<>> =>
    /\ Len(Tail(s)) = Len(s) - 1
    /\ Len(s) \in Nat \ {0}
    /\ Head(s) = s[1]
    /\ \A i \in 1..Len(Tail(s)) : Tail(s)[i] = s[i + 1]
BY TailEntries

\* What is under way to supercomponent has numbered batches.
LEMMA UpBatches ==
  \A s \in Seq(UpMessages) : \A i \in 1..Len(s) : s[i].batch \in Nat
<1>1. \A s \in Seq(UpMessages) : \A i \in 1..Len(s) : s[i] \in UpMessages
  BY ElementOfSeq
<1> QED
  BY <1>1 DEF UpMessages

\* What is sent comes after what is under way.
LEMMA UpAppended ==
  ASSUME NEW s \in Seq(UpMessages), NEW t \in Seq(UpMessages)
  PROVE  /\ Len(s \o t) = Len(s) + Len(t) /\ Len(s) \in Nat /\ Len(t) \in Nat
         /\ \A i \in 1..Len(s) : (s \o t)[i] = s[i]
         /\ \A i \in 1..Len(t) : (s \o t)[Len(s) + i] = t[i]
<1>1. /\ Len(s \o t) = Len(s) + Len(t) /\ Len(s) \in Nat /\ Len(t) \in Nat
      /\ \A i \in 1..(Len(s) + Len(t)) :
           (s \o t)[i] = IF i <= Len(s) THEN s[i] ELSE t[i - Len(s)]
  BY ConcatProperties, LenProperties
<1>2. \A i \in 1..Len(s) : (s \o t)[i] = s[i]
  BY <1>1
<1>3. ASSUME NEW i \in 1..Len(t)
      PROVE  (s \o t)[Len(s) + i] = t[i]
  <2>1. Len(s) + i \in 1..(Len(s) + Len(t)) /\ ~(Len(s) + i <= Len(s)) /\ (Len(s) + i) - Len(s) = i
    BY <1>1
  <2> QED
    BY <1>1, <2>1
<1> QED
  BY <1>1, <1>2, <1>3

-----------------------------------------------------------------------------
(* Supercomponent. *)

\* It takes the first of what is under way, and the batch with it, or closes the
\* connection; a turn begins without containers, and ends with those it has got.
LEMMA ServerCollects ==
  ASSUME TypeOK, ServerStep, NEW m \in Modules
  PROVE  \/ /\ lastBatch'[m] = lastBatch[m]
            /\ batch'[m] = batch[m]
            /\ Visiting(m)' => Visiting(m)
            /\ \/ up'[m] \in {up[m], <<>>}
               \/ up[m] # <<>> /\ up'[m] = Tail(up[m])
         \/ /\ lastBatch'[m] = lastBatch[m]
            /\ batch'[m] = 0
            /\ up'[m] = up[m]
         \/ /\ lastBatch'[m] = lastBatch[m]
            /\ up[m] # <<>> /\ batch'[m] = Head(up[m]).batch
            /\ up'[m] = Tail(up[m])
         \/ /\ Visiting(m) /\ ~Visiting(m)'
            /\ batch[m] # 0 /\ lastBatch'[m] = batch[m]
            /\ batch'[m] = batch[m] /\ up'[m] = up[m]
<1>1. cursor \in 1..(N + 1) /\ m \in 1..N /\ N \in Nat /\ cursor + 1 # cursor
  BY LinkAssumption DEF TypeOK, ServerTypeOK, Modules
<1>2. CASE BeginRound \/ Stop
  BY <1>2 DEF BeginRound, Stop, Disconnect, Visiting
<1>3. CASE EnterTurn
  BY <1>3 DEF EnterTurn, Visiting, linkVars, TypeOK, ServerTypeOK
<1>4. CASE EndTurn
  BY <1>1, <1>4 DEF EndTurn, Visiting, linkVars, TypeOK, ServerTypeOK
<1>5. CASE SkipModule \/ CheckLost \/ ClearAck \/ SendPulse \/ SendFails \/ CheckAck
             \/ AckTimeout \/ EndRound
  BY <1>5 DEF SkipModule, CheckLost, ClearAck, SendPulse, SendFails, CheckAck,
     AckTimeout, EndRound, Visiting, linkVars
<1>6. ASSUME NEW n \in Modules, ReceiveAck(n)
      PROVE  \/ /\ lastBatch'[m] = lastBatch[m]
                /\ batch'[m] = batch[m] /\ up'[m] = up[m]
                /\ Visiting(m)' => Visiting(m)
             \/ /\ lastBatch'[m] = lastBatch[m]
                /\ up[m] # <<>> /\ batch'[m] = Head(up[m]).batch
                /\ up'[m] = Tail(up[m])
  <2>1. /\ lastBatch' = lastBatch
        /\ Visiting(m)' => Visiting(m)
    BY <1>6 DEF ReceiveAck, WakeMain, Visiting
  <2>2. CASE m # n
    BY <1>6, <2>1, <2>2 DEF ReceiveAck, Received, TypeOK, LinkTypeOK, ServerTypeOK
  <2>3. CASE m = n
    BY <1>6, <2>1, <2>3 DEF ReceiveAck, Received, TypeOK, LinkTypeOK, ServerTypeOK
  <2> QED
    BY <2>2, <2>3
<1>7. ASSUME NEW n \in Modules,
             Join(n) \/ ReceiveState(n) \/ ReceiveExit(n) \/ PeerClosed(n)
               \/ WakeOnLoss(n) \/ NotifyLost(n)
      PROVE  /\ lastBatch'[m] = lastBatch[m]
             /\ batch'[m] = batch[m]
             /\ Visiting(m)' => Visiting(m)
             /\ \/ up'[m] = up[m]
                \/ up[m] # <<>> /\ up'[m] = Tail(up[m])
  <2>1. /\ lastBatch' = lastBatch /\ batch' = batch
        /\ Visiting(m)' => Visiting(m)
    BY <1>7 DEF Join, ReceiveState, ReceiveExit, PeerClosed, WakeOnLoss, NotifyLost,
       WakeMain, Visiting, serverVars
  <2>2. up' = up \/ \E type : Received(n, type)
    BY <1>7 DEF Join, ReceiveState, ReceiveExit, PeerClosed, WakeOnLoss, NotifyLost, linkVars
  <2>3. up'[m] = up[m] \/ (up[m] # <<>> /\ up'[m] = Tail(up[m]))
    BY <2>2 DEF Received, TypeOK, LinkTypeOK
  <2> QED
    BY <2>1, <2>3
<1> QED
  BY <1>2, <1>3, <1>4, <1>5, <1>6, <1>7 DEF ServerStep, MainStep, ReceiverStep

\* A step of supercomponent keeps batches in order.
LEMMA ServerKeepsBatches ==
  ASSUME TypeOK, TypeOK', BatchInv, ServerStep, UNCHANGED clientVars, NEW m \in Modules
  PROVE  BatchesInOrder(m)' /\ BatchesMade(m)'
<1>1. BatchesInOrder(m) /\ BatchesMade(m)
  BY DEF BatchInv
<1>2. up[m] \in Seq(UpMessages)
  BY DEF TypeOK, LinkTypeOK
<1>3. lastBatch[m] \in Nat /\ batch[m] \in Nat
  BY DEF TypeOK, ServerTypeOK
<1>4. made' = made /\ cpc' = cpc /\ made[m] \in Nat
  BY DEF clientVars, TypeOK, ClientTypeOK
<1>5. \A i \in 1..Len(up[m]) : up[m][i].batch \in Nat
  BY <1>2, UpBatches
<1>6. /\ \A i \in 1..Len(up[m]) :
           up[m][i].batch # 0 =>
             /\ lastBatch[m] < up[m][i].batch
             /\ batch[m] < up[m][i].batch
             /\ \A j \in 1..(i - 1) : up[m][j].batch < up[m][i].batch
      /\ Visiting(m) /\ batch[m] # 0 => lastBatch[m] < batch[m]
  BY <1>1 DEF BatchesInOrder
<1>7. ASSUME batch'[m] \in {lastBatch[m], batch[m], 0} \cup {up[m][i].batch : i \in 1..Len(up[m])},
             lastBatch'[m] \in {lastBatch[m], batch[m]},
             \A i \in 1..Len(up'[m]) : \E j \in 1..Len(up[m]) : up'[m][i] = up[m][j]
      PROVE  BatchesMade(m)'
  BY <1>1, <1>4, <1>7 DEF BatchesMade
<1>8. \A i \in 1..Len(up'[m]) : \E j \in 1..Len(up[m]) : up'[m][i] = up[m][j]
  BY ServerTakes
<1>9. ASSUME up[m] # <<>>, up'[m] = Tail(up[m])
      PROVE  /\ Len(up[m]) \in Nat \ {0} /\ Len(up'[m]) = Len(up[m]) - 1
             /\ Head(up[m]) = up[m][1]
             /\ \A i \in 1..Len(up'[m]) : up'[m][i] = up[m][i + 1]
  BY <1>2, <1>9, UpTail
<1>10. CASE lastBatch'[m] = lastBatch[m] /\ batch'[m] = batch[m]
              /\ (Visiting(m)' => Visiting(m)) /\ up'[m] \in {up[m], <<>>}
  <2>1. BatchesInOrder(m)'
    <3>1. CASE up'[m] = up[m]
      BY <1>6, <1>10, <3>1 DEF BatchesInOrder
    <3>2. CASE up'[m] = <<>>
      BY <1>6, <1>10, <3>2 DEF BatchesInOrder
    <3> QED
      BY <1>10, <3>1, <3>2
  <2> QED
    BY <1>7, <1>8, <1>10, <2>1
<1>11. CASE lastBatch'[m] = lastBatch[m] /\ batch'[m] = batch[m]
              /\ (Visiting(m)' => Visiting(m)) /\ up[m] # <<>> /\ up'[m] = Tail(up[m])
  <2>1. BatchesInOrder(m)'
    BY <1>6, <1>9, <1>11 DEF BatchesInOrder
  <2> QED
    BY <1>7, <1>8, <1>11, <2>1
<1>12. CASE lastBatch'[m] = lastBatch[m] /\ batch'[m] = 0 /\ up'[m] = up[m]
  <2>1. BatchesInOrder(m)'
    BY <1>3, <1>5, <1>6, <1>12 DEF BatchesInOrder
  <2> QED
    BY <1>7, <1>8, <1>12, <2>1
<1>13. CASE lastBatch'[m] = lastBatch[m] /\ up[m] # <<>> /\ batch'[m] = Head(up[m]).batch
              /\ up'[m] = Tail(up[m])
  <2>1. batch'[m] = up[m][1].batch /\ 1 \in 1..Len(up[m])
    BY <1>9, <1>13
  <2>2. BatchesInOrder(m)'
    BY <1>6, <1>9, <1>13, <2>1 DEF BatchesInOrder
  <2> QED
    BY <1>7, <1>8, <1>13, <2>1, <2>2
<1>14. CASE Visiting(m) /\ ~Visiting(m)' /\ batch[m] # 0 /\ lastBatch'[m] = batch[m]
              /\ batch'[m] = batch[m] /\ up'[m] = up[m]
  <2>1. BatchesInOrder(m)'
    BY <1>6, <1>14 DEF BatchesInOrder
  <2> QED
    BY <1>7, <1>8, <1>14, <2>1
<1> QED
  BY <1>10, <1>11, <1>12, <1>13, <1>14, ServerCollects

-----------------------------------------------------------------------------
(* The modules. *)

\* A module that sends a batch sends the one it has made; otherwise it sends none,
\* and confirms no pulse.
LEMMA ModuleSends ==
  ASSUME TypeOK, ClientStep, NEW m \in Modules
  PROVE  \/ up'[m] = up[m]
         \/ \E t \in Seq(UpMessages) :
              /\ up'[m] = up[m] \o t
              /\ \A i \in 1..Len(t) : t[i].batch = 0 /\ t[i].no = 0
         \/ /\ cpc[m] = "reached" /\ cpc'[m] # "reached"
            /\ up'[m] = up[m] \o <<Ack(cur[m], made[m])>>
<1> PICK n \in Modules :
       \/ ModuleStep(n) \/ ClientReceiverStep(n) \/ Spurious(n)
       \/ Abort(n) \/ Crash(n)
  BY DEF ClientStep
<1>1. CASE up'[m] = up[m]
  BY <1>1
<1>2. ASSUME NEW t \in Seq(UpMessages), up' = [up EXCEPT ![n] = @ \o t],
             \A i \in 1..Len(t) : t[i].batch = 0 /\ t[i].no = 0
      PROVE  \/ up'[m] = up[m]
             \/ \E s \in Seq(UpMessages) :
                  /\ up'[m] = up[m] \o s
                  /\ \A i \in 1..Len(s) : s[i].batch = 0 /\ s[i].no = 0
  <2>1. up'[m] = up[m] \/ up'[m] = up[m] \o t
    BY <1>2 DEF TypeOK, LinkTypeOK
  <2> QED
    BY <1>2, <2>1
<1>3. /\ <<>> \in Seq(UpMessages) /\ \A i \in 1..Len(<<>>) : <<>>[i].batch = 0 /\ <<>>[i].no = 0
      /\ <<StateMessage>> \in Seq(UpMessages)
      /\ \A i \in 1..Len(<<StateMessage>>) :
           <<StateMessage>>[i].batch = 0 /\ <<StateMessage>>[i].no = 0
  BY MessageTypes DEF StateMessage, Note
<1>4. CASE SetUp(n)
  <2>1. up' = [up EXCEPT ![n] = @ \o <<StateMessage>>] \/ up' = [up EXCEPT ![n] = @ \o <<>>]
    BY <1>4 DEF SetUp, Send
  <2> QED
    BY <1>2, <1>3, <2>1
<1>5. CASE Reached(n)
  <2>1. \/ up' = [up EXCEPT ![n] = @ \o <<Ack(cur[n], made[n])>>]
        \/ up' = [up EXCEPT ![n] = @ \o <<>>]
        \/ up' = up
    BY <1>5 DEF Reached, Send
  <2>2. cpc[n] = "reached" /\ cpc'[n] # "reached"
    BY <1>5 DEF Reached, TypeOK, ClientTypeOK
  <2>3. CASE up' = [up EXCEPT ![n] = @ \o <<Ack(cur[n], made[n])>>]
    BY <2>2, <2>3 DEF TypeOK, LinkTypeOK
  <2> QED
    BY <1>1, <1>2, <1>3, <2>1, <2>3
<1>6. ASSUME NEW messages \in Seq(UpMessages), Terminate(n, messages),
             \A i \in 1..Len(messages) : messages[i].batch = 0 /\ messages[i].no = 0
      PROVE  \/ up'[m] = up[m]
             \/ \E s \in Seq(UpMessages) :
                  /\ up'[m] = up[m] \o s
                  /\ \A i \in 1..Len(s) : s[i].batch = 0 /\ s[i].no = 0
  <2>1. UpEof \in UpMessages /\ UpEof.batch = 0 /\ UpEof.no = 0
    BY MessageTypes DEF UpEof, Note
  <2>2. Append(messages, UpEof) \in Seq(UpMessages)
    BY <2>1
  <2>3. \A i \in 1..Len(Append(messages, UpEof)) :
          /\ Append(messages, UpEof)[i].batch = 0
          /\ Append(messages, UpEof)[i].no = 0
    BY <1>6, <2>1, AppendEntries
  <2>4. up' = [up EXCEPT ![n] = @ \o Append(messages, UpEof)]
    BY <1>6 DEF Terminate
  <2> QED
    BY <1>2, <2>2, <2>3, <2>4
<1>7. CASE Leave(n) \/ Abort(n) \/ Crash(n)
  <2>1. /\ <<StateMessage, ExitMessage>> \in Seq(UpMessages)
        /\ <<ExitMessage>> \in Seq(UpMessages)
    BY MessageTypes
  <2>2. /\ \A i \in 1..Len(<<StateMessage, ExitMessage>>) :
             /\ <<StateMessage, ExitMessage>>[i].batch = 0
             /\ <<StateMessage, ExitMessage>>[i].no = 0
        /\ \A i \in 1..Len(<<ExitMessage>>) :
             <<ExitMessage>>[i].batch = 0 /\ <<ExitMessage>>[i].no = 0
    BY DEF StateMessage, ExitMessage, Note
  <2>3. \/ Terminate(n, <<StateMessage, ExitMessage>>)
        \/ Terminate(n, <<ExitMessage>>)
        \/ Terminate(n, <<>>)
    BY <1>7 DEF Leave, Abort, Crash
  <2> QED
    BY <1>3, <1>6, <2>1, <2>2, <2>3
<1>8. CASE up' = up
  BY <1>8
<1> QED
  BY <1>4, <1>5, <1>7, <1>8
  DEF ModuleStep, ClientReceiverStep, StartWaiting, Spurious, ReadPulse, Continue,
      Compute, StorePulse, WakeOnPulse, SupercomponentLost, StopRunning, linkVars

\* It comes to its breakpoint from its set up, with nothing made, or with another
\* batch at level simulation.
LEMMA ModuleMakes ==
  ASSUME TypeOK, ClientStep, NEW m \in Modules
  PROVE  /\ cpc'[m] = "setup" => cpc[m] = "setup" /\ made'[m] = made[m]
         /\ \/ made'[m] = made[m]
            \/ Level = "SIMULATION" /\ made'[m] = made[m] + 1 /\ cpc[m] = "compute"
         /\ cpc'[m] = "reached" =>
              \/ cpc[m] = "reached" /\ made'[m] = made[m]
              \/ cpc[m] = "setup" /\ made'[m] = made[m]
              \/ Level # "SIMULATION"
              \/ made'[m] = made[m] + 1
<1> PICK n \in Modules :
       \/ ModuleStep(n) \/ ClientReceiverStep(n) \/ Spurious(n)
       \/ Abort(n) \/ Crash(n)
  BY DEF ClientStep
<1>1. DOMAIN cpc = Modules /\ DOMAIN made = Modules
  BY DEF TypeOK, ClientTypeOK
<1>2. CASE ModuleStep(n)
  BY <1>1, <1>2 DEF ModuleStep, SetUp, Reached, StartWaiting, ReadPulse, Continue, Compute,
     Leave, Terminate
<1>3. CASE ClientReceiverStep(n)
  BY <1>1, <1>3 DEF ClientReceiverStep, StorePulse, WakeOnPulse, SupercomponentLost,
     StopRunning, WakeModule
<1>4. CASE Spurious(n) \/ Abort(n) \/ Crash(n)
  BY <1>1, <1>4 DEF Spurious, Abort, Crash, Terminate
<1> QED
  BY <1>2, <1>3, <1>4

\* A step of the modules keeps batches in order.
LEMMA ClientKeepsBatches ==
  ASSUME TypeOK, TypeOK', BatchInv, ClientStep, UNCHANGED serverVars, NEW m \in Modules
  PROVE  BatchesInOrder(m)' /\ BatchesMade(m)'
<1>1. BatchesInOrder(m) /\ BatchesMade(m)
  BY DEF BatchInv
<1>2. up[m] \in Seq(UpMessages)
  BY DEF TypeOK, LinkTypeOK
<1>3. lastBatch[m] \in Nat /\ batch[m] \in Nat /\ made[m] \in Nat /\ made'[m] \in Nat
  BY DEF TypeOK, ServerTypeOK, ClientTypeOK
<1>4. lastBatch' = lastBatch /\ batch' = batch /\ (Visiting(m)' <=> Visiting(m))
  BY DEF serverVars, Visiting
<1>5. \A i \in 1..Len(up[m]) : up[m][i].batch \in Nat
  BY <1>2, UpBatches
<1>6. /\ \A i \in 1..Len(up[m]) :
           up[m][i].batch # 0 =>
             /\ lastBatch[m] < up[m][i].batch
             /\ batch[m] < up[m][i].batch
             /\ \A j \in 1..(i - 1) : up[m][j].batch < up[m][i].batch
      /\ Visiting(m) /\ batch[m] # 0 => lastBatch[m] < batch[m]
  BY <1>1 DEF BatchesInOrder
<1>7. /\ \A b \in {lastBatch[m], batch[m]} \cup {up[m][i].batch : i \in 1..Len(up[m])} :
           b <= made[m] /\ (cpc[m] = "reached" /\ made[m] # 0 => b < made[m])
      /\ Level # "SIMULATION" \/ cpc[m] = "setup" => made[m] = 0
  BY <1>1 DEF BatchesMade
\* What was sent before is still not later than what is made.
<1>8. ASSUME NEW b \in Nat,
             b <= made[m] /\ (cpc[m] = "reached" /\ made[m] # 0 => b < made[m])
      PROVE  b <= made'[m] /\ (cpc'[m] = "reached" /\ made'[m] # 0 => b < made'[m])
  BY <1>3, <1>7, <1>8, ModuleMakes
<1>9. Level # "SIMULATION" \/ cpc'[m] = "setup" => made'[m] = 0
  BY <1>7, ModuleMakes
<1>10. CASE up'[m] = up[m]
  <2>1. BatchesInOrder(m)'
    BY <1>4, <1>6, <1>10 DEF BatchesInOrder
  <2>2. \A b \in {lastBatch[m], batch[m]} \cup {up[m][i].batch : i \in 1..Len(up[m])} :
          b \in Nat
    BY <1>3, <1>5
  <2>3. BatchesMade(m)'
    BY <1>4, <1>7, <1>8, <1>9, <1>10, <2>2 DEF BatchesMade
  <2> QED
    BY <2>1, <2>3
<1>11. ASSUME NEW t \in Seq(UpMessages), up'[m] = up[m] \o t,
              \A i \in 1..Len(t) : t[i].batch = 0 \/ (Len(t) = 1 /\ t[1].batch = made[m]),
              (\E i \in 1..Len(t) : t[i].batch # 0) => cpc[m] = "reached" /\ cpc'[m] # "reached"
       PROVE  BatchesInOrder(m)' /\ BatchesMade(m)'
  <2>1. /\ Len(up'[m]) = Len(up[m]) + Len(t) /\ Len(up[m]) \in Nat /\ Len(t) \in Nat
        /\ \A i \in 1..Len(up[m]) : up'[m][i] = up[m][i]
        /\ \A i \in 1..Len(t) : up'[m][Len(up[m]) + i] = t[i]
    BY <1>2, <1>11, UpAppended
  <2>2. ASSUME NEW i \in 1..Len(up'[m]), i > Len(up[m])
        PROVE  /\ i - Len(up[m]) \in 1..Len(t)
               /\ up'[m][i] = t[i - Len(up[m])]
    <3>1. i - Len(up[m]) \in 1..Len(t) /\ Len(up[m]) + (i - Len(up[m])) = i
      BY <2>1, <2>2
    <3> QED
      BY <2>1, <3>1
  <2>3. ASSUME NEW i \in 1..Len(up'[m]), i > Len(up[m]), up'[m][i].batch # 0
        PROVE  /\ i = Len(up[m]) + 1 /\ up'[m][i].batch = made[m]
               /\ cpc[m] = "reached" /\ cpc'[m] # "reached"
    <3>1. /\ i - Len(up[m]) \in 1..Len(t) /\ t[i - Len(up[m])].batch # 0
      BY <2>2, <2>3
    <3>2. Len(t) = 1 /\ t[1].batch = made[m]
      BY <1>11, <3>1
    <3>3. i = Len(up[m]) + 1
      BY <2>1, <2>3, <3>1, <3>2
    <3> QED
      BY <1>11, <2>1, <2>2, <2>3, <3>1, <3>2, <3>3
  <2>4. BatchesInOrder(m)'
    <3>1. ASSUME NEW i \in 1..Len(up'[m]), up'[m][i].batch # 0
          PROVE  /\ lastBatch[m] < up'[m][i].batch
                 /\ batch[m] < up'[m][i].batch
                 /\ \A j \in 1..(i - 1) : up'[m][j].batch < up'[m][i].batch
      <4>1. CASE i <= Len(up[m])
        <5>1. i \in 1..Len(up[m]) /\ \A j \in 1..(i - 1) : j \in 1..Len(up[m])
          BY <2>1, <4>1
        <5> QED
          BY <1>6, <2>1, <3>1, <5>1
      <4>2. CASE i > Len(up[m])
        <5>1. /\ i = Len(up[m]) + 1 /\ up'[m][i].batch = made[m] /\ made[m] # 0
              /\ cpc[m] = "reached"
          BY <2>3, <3>1, <4>2
        <5>2. lastBatch[m] < made[m] /\ batch[m] < made[m]
          BY <1>7, <5>1
        <5>3. \A j \in 1..Len(up[m]) : up[m][j].batch < made[m]
          BY <1>7, <5>1
        <5>4. \A j \in 1..(i - 1) : j \in 1..Len(up[m])
          BY <2>1, <5>1
        <5> QED
          BY <2>1, <5>1, <5>2, <5>3, <5>4
      <4> QED
        BY <2>1, <4>1, <4>2
    <3> QED
      BY <1>4, <1>6, <3>1 DEF BatchesInOrder
  <2>5. BatchesMade(m)'
    <3>1. ASSUME NEW b \in {lastBatch[m], batch[m]}
                             \cup {up'[m][i].batch : i \in 1..Len(up'[m])}
          PROVE  b <= made'[m] /\ (cpc'[m] = "reached" /\ made'[m] # 0 => b < made'[m])
      <4>1. CASE b \in {lastBatch[m], batch[m]}
        BY <1>3, <1>7, <1>8, <4>1
      <4>2. ASSUME NEW i \in 1..Len(up'[m]), b = up'[m][i].batch
            PROVE  b <= made'[m] /\ (cpc'[m] = "reached" /\ made'[m] # 0 => b < made'[m])
        <5>1. CASE i <= Len(up[m])
          <6>1. i \in 1..Len(up[m]) /\ b = up[m][i].batch
            BY <2>1, <4>2, <5>1
          <6> QED
            BY <1>5, <1>7, <1>8, <6>1
        <5>2. CASE i > Len(up[m]) /\ b # 0
          <6>1. b = made[m] /\ cpc[m] = "reached" /\ cpc'[m] # "reached"
            BY <2>3, <4>2, <5>2
          <6>2. made'[m] >= made[m]
            BY <1>3, ModuleMakes
          <6> QED
            BY <6>1, <6>2
        <5>3. CASE b = 0
          BY <1>3, <5>3
        <5> QED
          BY <2>1, <5>1, <5>2, <5>3
      <4> QED
        BY <4>1, <4>2
    <3> QED
      BY <1>4, <1>9, <3>1 DEF BatchesMade
  <2> QED
    BY <2>4, <2>5
<1>12. CASE \E t \in Seq(UpMessages) :
              /\ up'[m] = up[m] \o t
              /\ \A i \in 1..Len(t) : t[i].batch = 0
  BY <1>11, <1>12
<1>13. CASE /\ cpc[m] = "reached" /\ cpc'[m] # "reached"
            /\ up'[m] = up[m] \o <<Ack(cur[m], made[m])>>
  <2>1. <<Ack(cur[m], made[m])>> \in Seq(UpMessages)
    BY MessageTypes DEF TypeOK, ClientTypeOK
  <2>2. Len(<<Ack(cur[m], made[m])>>) = 1 /\ <<Ack(cur[m], made[m])>>[1].batch = made[m]
    BY DEF Ack
  <2> QED
    BY <1>11, <1>13, <2>1, <2>2
<1> QED
  BY <1>10, <1>12, <1>13, ModuleSends

-----------------------------------------------------------------------------
(* Theorems. *)

\* The inductive invariant: batches are sent, received and collected in order.
THEOREM BatchesKept == Spec => []BatchInv
<1>1. Init => BatchInv
  <2> SUFFICES ASSUME Init, NEW m \in Modules
               PROVE  BatchesInOrder(m) /\ BatchesMade(m)
    BY DEF BatchInv
  <2>1. /\ up[m] = <<>> /\ lastBatch[m] = 0 /\ batch[m] = 0 /\ made[m] = 0
    BY DEF Init, LinkInit, ServerInit, ClientInit
  <2>2. \A i \in 1..Len(up[m]) : FALSE
    BY <2>1
  <2> QED
    BY <2>1, <2>2 DEF BatchesInOrder, BatchesMade
<1>2. TypeOK /\ TypeOK' /\ BatchInv /\ [Next]_vars => BatchInv'
  <2> SUFFICES ASSUME TypeOK, TypeOK', BatchInv, [Next]_vars, NEW m \in Modules
               PROVE  BatchesInOrder(m)' /\ BatchesMade(m)'
    BY DEF BatchInv
  <2>1. CASE ServerStep /\ UNCHANGED clientVars
    BY <2>1, ServerKeepsBatches
  <2>2. CASE ClientStep /\ UNCHANGED serverVars
    BY <2>2, ClientKeepsBatches
  <2>3. CASE UNCHANGED vars
    BY <2>3 DEF vars, linkVars, serverVars, clientVars, BatchInv, BatchesInOrder,
       BatchesMade, Visiting
  <2> QED
    BY <2>1, <2>2, <2>3 DEF Next
<1> QED
  BY <1>1, <1>2, TypeCorrect, PTL DEF Spec

\* Containers are collected when a turn ends.
LEMMA CollectedNow ==
  ASSUME TypeOK, Next, NEW c \in collected' \ collected
  PROVE  EndTurn /\ c = <<cursor, batch[cursor]>> /\ batch[cursor] # 0
<1>1. EndTurn \/ collected' = collected \/ collected' = {}
  BY DEF Next, ServerStep, MainStep, ReceiverStep, BeginRound, SkipModule, EnterTurn,
     CheckLost, ClearAck, SendPulse, SendFails, CheckAck, AckTimeout, EndTurn,
     EndRound, Stop, Join, ReceiveAck, ReceiveState, ReceiveExit, PeerClosed,
     WakeOnLoss, NotifyLost, linkVars, serverVars
<1> QED
  BY <1>1 DEF EndTurn

\* The containers a module returns are collected in order and at most once, at any
\* level and for any number of modules and rounds.
THEOREM CollectedOnce == Spec => BatchesOnce
<1>1. TypeOK /\ BatchInv /\ [Next]_vars =>
        [\A m \in Modules : \A c \in collected' \ collected : c[1] = m => c[2] > lastBatch[m]]_vars
  <2> SUFFICES ASSUME TypeOK, BatchInv, Next, NEW m \in Modules,
                      NEW c \in collected' \ collected, c[1] = m
               PROVE  c[2] > lastBatch[m]
    OBVIOUS
  <2>2. EndTurn /\ c = <<cursor, batch[cursor]>> /\ batch[cursor] # 0
    BY CollectedNow
  <2>3. cursor = m /\ c[2] = batch[m] /\ Visiting(m)
    BY <2>2 DEF EndTurn, Visiting
  <2>4. lastBatch[m] < batch[m]
    BY <2>2, <2>3 DEF BatchInv, BatchesInOrder
  <2>5. lastBatch[m] \in Nat /\ batch[m] \in Nat
    BY DEF TypeOK, ServerTypeOK
  <2> QED
    BY <2>3, <2>4, <2>5
<1> QED
  BY <1>1, TypeCorrect, BatchesKept, PTL DEF Spec, BatchesOnce

-----------------------------------------------------------------------------
(* None is skipped.  The pulse a module that keeps step is awoken by is that   *)
(* of this turn; it makes one batch of containers for it, and its turn ends    *)
(* with that batch received.                                                 *)

PulseOfTurn(m) ==
  Strict(m) =>
    /\ cpc[m] = "setup" => cur[m] = 0
    /\ \A i \in 1..Len(down[m]) : down[m][i].no = round
    /\ crpc[m] = "wake" \/ cpc[m] = "woken" => slot[m] = round
    /\ cpc[m] \in {"check", "compute"} => cur[m] = round

\* The module has worked for the pulse of this round and is back at its breakpoint.
Returned(m) == cpc[m] = "reached" /\ cur[m] = round

BatchOfTurn(m) ==
  Strict(m) /\ Level = "SIMULATION" =>
    /\ ~InTurn(m) \/ Coming(m) \/ Busy(m) => made[m] = lastBatch[m]
    /\ InTurn(m) /\ Returned(m) => ~OwnAck(m)
    /\ InTurn(m) /\ (Returned(m) \/ OwnAck(m)) => made[m] = lastBatch[m] + 1
    /\ InTurn(m) /\ ackOf[m] = round => batch[m] = made[m]
    /\ InTurn(m) =>
         \A i \in 1..Len(up[m]) : up[m][i].no = round => up[m][i].batch = made[m]

TurnBatchInv == \A m \in Modules : PulseOfTurn(m) /\ BatchOfTurn(m)

\* A pulse of this round that has not been sent has not been read or confirmed.
LEMMA BeforeTurn ==
  ASSUME TypeOK, LockStepInv, NEW m \in Modules, NotSent(m)
  PROVE  cur[m] < round /\ ~OwnAck(m)
<1>1. cur[m] \in Nat /\ slot[m] \in Nat /\ round \in Nat /\ ackOf[m] \in Nat
  BY DEF TypeOK, ClientTypeOK, ServerTypeOK
<1>2. cur[m] <= slot[m] /\ slot[m] < round
  BY DEF LockStepInv, PulsesOnTime, NotSentYet, PulseOrder, PulsesInOrder
<1>3. \A i \in 1..Len(up[m]) : up[m][i].no \in Nat
  BY UpEntries DEF TypeOK, LinkTypeOK
<1>4. ackOf[m] <= cur[m] /\ \A i \in 1..Len(up[m]) : up[m][i].no <= cur[m]
  BY DEF LockStepInv, PulseOrder, AckCausality
<1> QED
  BY <1>1, <1>2, <1>3, <1>4 DEF OwnAck

\* A turn begins where the pulse of this round has not been sent.
LEMMA TurnBegins ==
  ASSUME TypeOK, ServerStep, NEW m \in Modules, ~InTurn(m), InTurn(m)'
  PROVE  /\ NotSent(m) /\ round' = round
         /\ up' = up /\ lastBatch' = lastBatch
<1> USE DEF InTurn, NotSent
<1>1. CASE MainStep
  BY <1>1 DEF MainStep, BeginRound, SkipModule, EnterTurn, CheckLost, ClearAck,
      SendPulse, SendFails, CheckAck, AckTimeout, EndTurn, EndRound, linkVars
<1>2. CASE \E n \in Modules : ReceiverStep(n)
  BY <1>2 DEF ReceiverStep, ReceiveAck, ReceiveState, ReceiveExit, PeerClosed,
      WakeOnLoss, NotifyLost, WakeMain, serverVars
<1>3. CASE Stop \/ \E n \in Modules : Join(n)
  BY <1>3 DEF Stop, Join
<1> QED
  BY <1>1, <1>2, <1>3 DEF ServerStep

\* Within a turn supercomponent gets containers only with an acknowledgement.
LEMMA TurnReceives ==
  ASSUME TypeOK, ServerStep, NEW m \in Modules, InTurn(m)
  PROVE  \/ ackOf'[m] = ackOf[m] /\ batch'[m] = batch[m]
         \/ \E i \in 1..Len(up[m]) :
              ackOf'[m] = up[m][i].no /\ batch'[m] = up[m][i].batch
<1>1. CASE UNCHANGED <<ackOf, batch>>
  BY <1>1
<1>2. ASSUME NEW n \in Modules, ReceiveAck(n)
      PROVE  \/ ackOf'[m] = ackOf[m] /\ batch'[m] = batch[m]
             \/ \E i \in 1..Len(up[m]) :
                  ackOf'[m] = up[m][i].no /\ batch'[m] = up[m][i].batch
  <2>1. up[n] \in Seq(UpMessages) /\ up[n] # <<>>
    BY <1>2 DEF ReceiveAck, Received, TypeOK, LinkTypeOK
  <2>2. Head(up[n]) = up[n][1] /\ 1 \in 1..Len(up[n])
    BY <2>1, UpTail
  <2> QED
    BY <1>2, <2>2 DEF ReceiveAck, TypeOK, ServerTypeOK
<1>3. ~EnterTurn
  BY DEF EnterTurn, InTurn
<1> QED
  BY <1>1, <1>2, <1>3
  DEF ServerStep, MainStep, ReceiverStep, BeginRound, SkipModule,
      CheckLost, ClearAck, SendPulse, SendFails, CheckAck, AckTimeout, EndTurn,
      EndRound, Stop, Join, ReceiveState, ReceiveExit, PeerClosed,
      WakeOnLoss, NotifyLost, linkVars, serverVars

\* Containers are collected at the end of a turn only.
LEMMA CollectedAtEnd ==
  ASSUME TypeOK, ServerStep, NEW m \in Modules
  PROVE  lastBatch'[m] = lastBatch[m] \/ (EndTurn /\ cursor = m)
<1>1. CASE EndTurn
  BY <1>1 DEF EndTurn, TypeOK, ServerTypeOK
<1>2. CASE UNCHANGED lastBatch
  BY <1>2
<1> QED
  BY <1>1, <1>2
  DEF ServerStep, MainStep, ReceiverStep, BeginRound, SkipModule, EnterTurn,
      CheckLost, ClearAck, SendPulse, SendFails, CheckAck, AckTimeout,
      EndRound, Stop, Join, ReceiveAck, ReceiveState, ReceiveExit, PeerClosed,
      WakeOnLoss, NotifyLost, linkVars, serverVars

\* A step of supercomponent gives a module the pulse of this turn.
LEMMA ServerPulseOfTurn ==
  ASSUME Acked, TypeOK, LockStepInv, TurnBatchInv, ServerStep,
         UNCHANGED clientVars, NEW m \in Modules
  PROVE  PulseOfTurn(m)'
<1> SUFFICES ASSUME Strict(m)'
             PROVE  /\ cpc'[m] = "setup" => cur'[m] = 0
                    /\ \A i \in 1..Len(down'[m]) : down'[m][i].no = round'
                    /\ crpc'[m] = "wake" \/ cpc'[m] = "woken" => slot'[m] = round'
                    /\ cpc'[m] \in {"check", "compute"} => cur'[m] = round'
  BY DEF PulseOfTurn
<1>1. Strict(m)
  BY StrictBefore
<1>2. /\ cpc[m] = "setup" => cur[m] = 0
      /\ \A i \in 1..Len(down[m]) : down[m][i].no = round
      /\ crpc[m] = "wake" \/ cpc[m] = "woken" => slot[m] = round
      /\ cpc[m] \in {"check", "compute"} => cur[m] = round
  BY <1>1 DEF TurnBatchInv, PulseOfTurn
<1>3. cpc' = cpc /\ crpc' = crpc /\ cur' = cur /\ slot' = slot
  BY DEF clientVars
<1>4. Coming(m) \/ Busy(m) => round' = round
  <2>1. Coming(m) \/ Busy(m) => InTurn(m)
    BY <1>1 DEF LockStepInv, OnePulse
  <2>2. InTurn(m) => ~BeginRound
    BY DEF InTurn, BeginRound
  <2> QED
    BY <2>1, <2>2, RoundGrows
<1>5. down[m] \in Seq(DownMessages)
  BY DEF TypeOK, LinkTypeOK
<1>6. \A i \in 1..Len(down'[m]) : down'[m][i].no = round'
  <2>1. CASE down'[m] = down[m]
    <3>1. CASE down[m] = <<>>
      BY <2>1, <3>1
    <3>2. CASE down[m] # <<>>
      BY <1>2, <1>4, <2>1, <3>2 DEF Coming
    <3> QED
      BY <3>1, <3>2
  <2>2. CASE SendPulse /\ cursor = m /\ down'[m] = Append(down[m], Pulse(round))
    <3>1. ~InTurn(m) /\ round' = round
      BY <2>2 DEF SendPulse, InTurn
    <3>2. down[m] = <<>>
      BY <1>1, <3>1 DEF LockStepInv, OnePulse, Coming
    <3>3. down'[m] = <<Pulse(round)>>
      BY <2>2, <3>2
    <3> QED
      BY <3>1, <3>3 DEF Pulse
  <2>3. registered'[m] # "deleted"
    BY DEF Strict
  <2> QED
    BY <2>1, <2>2, <2>3, ServerSends
<1>7. /\ crpc[m] = "wake" => Coming(m)
      /\ cpc[m] \in {"woken", "check", "compute"} => Busy(m)
  BY DEF Coming, Busy
<1> QED
  BY <1>2, <1>3, <1>4, <1>6, <1>7

\* A step of supercomponent ends the turn of a module that keeps step with the
\* batch it has made in it.
LEMMA ServerBatchOfTurn ==
  ASSUME Acked, TypeOK, TypeOK', LockStepInv, TurnBatchInv, ServerStep,
         UNCHANGED clientVars, NEW m \in Modules
  PROVE  BatchOfTurn(m)'
<1> SUFFICES ASSUME Strict(m)', Level = "SIMULATION"
             PROVE  BatchOfTurn(m)'
  BY DEF BatchOfTurn
<1>1. Strict(m)
  BY StrictBefore
<1>2. /\ ~InTurn(m) \/ Coming(m) \/ Busy(m) => made[m] = lastBatch[m]
      /\ InTurn(m) /\ Returned(m) => ~OwnAck(m)
      /\ InTurn(m) /\ (Returned(m) \/ OwnAck(m)) => made[m] = lastBatch[m] + 1
      /\ InTurn(m) /\ ackOf[m] = round => batch[m] = made[m]
      /\ InTurn(m) =>
           \A i \in 1..Len(up[m]) : up[m][i].no = round => up[m][i].batch = made[m]
  BY <1>1 DEF TurnBatchInv, BatchOfTurn
<1>3. made' = made /\ cpc' = cpc /\ cur' = cur /\ crpc' = crpc
  BY DEF clientVars
<1>4. made[m] \in Nat /\ lastBatch[m] \in Nat
  BY DEF TypeOK, ServerTypeOK, ClientTypeOK
<1>5. CASE InTurn(m) /\ InTurn(m)' /\ round' = round
  <2>1. ~EndTurn /\ ~SendPulse
    BY <1>5 DEF EndTurn, SendPulse, InTurn
  <2>2. lastBatch'[m] = lastBatch[m]
    BY <2>1, CollectedAtEnd
  <2>3. down'[m] = down[m]
    BY <2>1, ServerSends DEF Strict
  <2>4. /\ Coming(m)' <=> Coming(m)
        /\ Busy(m)' <=> Busy(m)
        /\ Returned(m)' <=> Returned(m)
    BY <1>3, <1>5, <2>3 DEF Coming, Busy, Returned
  <2>5. OwnAck(m)' => OwnAck(m)
    BY <1>5, OwnAckBefore
  <2>6. ackOf'[m] = round => batch'[m] = made[m]
    BY <1>2, <1>5, TurnReceives
  <2>7. \A i \in 1..Len(up'[m]) : up'[m][i].no = round => up'[m][i].batch = made[m]
    BY <1>2, <1>5, ServerTakes
  <2> QED
    BY <1>2, <1>3, <1>5, <2>2, <2>4, <2>5, <2>6, <2>7 DEF BatchOfTurn
<1>6. CASE InTurn(m) /\ EndTurn /\ cursor = m
  <2>1. hasAck[m] /\ ackOf[m] = round
    BY <1>6 DEF EndTurn, Strict, TypeOK, ServerTypeOK
  <2>2. made[m] = lastBatch[m] + 1 /\ batch[m] = made[m]
    BY <1>2, <1>6, <2>1 DEF OwnAck
  <2>3. batch[m] # 0
    BY <1>4, <2>2
  <2>4. lastBatch'[m] = made[m]
    BY <1>6, <2>2, <2>3 DEF EndTurn, TypeOK, ServerTypeOK
  <2>5. ~InTurn(m)'
    BY <1>6 DEF EndTurn, InTurn
  <2> QED
    BY <1>3, <2>4, <2>5 DEF BatchOfTurn
<1>7. CASE ~InTurn(m) /\ ~InTurn(m)'
  <2>1. lastBatch'[m] = lastBatch[m]
    BY <1>7, CollectedAtEnd DEF EndTurn, InTurn
  <2> QED
    BY <1>2, <1>3, <1>7, <2>1 DEF BatchOfTurn
<1>8. CASE ~InTurn(m) /\ InTurn(m)'
  <2>1. NotSent(m) /\ round' = round /\ up' = up /\ lastBatch' = lastBatch
    BY <1>8, TurnBegins
  <2>2. cur[m] < round /\ ~OwnAck(m)
    BY <2>1, BeforeTurn
  <2>3. ~OwnAck(m)'
    BY <2>1, <2>2, OwnAckBefore
  <2>4. cur[m] \in Nat /\ round \in Nat
    BY DEF TypeOK, ClientTypeOK, ServerTypeOK
  <2>5. ~Returned(m)'
    BY <1>3, <2>1, <2>2, <2>4 DEF Returned
  <2> QED
    BY <1>2, <1>3, <1>8, <2>1, <2>3, <2>5 DEF BatchOfTurn, OwnAck
<1> QED
  BY <1>5, <1>6, <1>7, <1>8, TurnGoesOn

\* A module adds the confirmation of this round's pulse to its messages when it has
\* returned to its breakpoint, with the batch it has made.
LEMMA OwnAckSent ==
  ASSUME TypeOK, ClientStep, NEW m \in Modules, round > 0,
         NEW i \in 1..Len(up'[m]), up'[m][i].no = round
  PROVE  \/ \E j \in 1..Len(up[m]) : up'[m][i] = up[m][j]
         \/ Returned(m) /\ cpc'[m] # "reached" /\ up'[m][i].batch = made[m]
<1>1. up[m] \in Seq(UpMessages) /\ round \in Nat
  BY DEF TypeOK, LinkTypeOK, ServerTypeOK
<1>2. ASSUME NEW t \in Seq(UpMessages), up'[m] = up[m] \o t
      PROVE  \/ \E j \in 1..Len(up[m]) : up'[m][i] = up[m][j]
             \/ \E j \in 1..Len(t) : up'[m][i] = t[j]
  <2>1. i \in 1..Len(up[m] \o t)
    BY <1>2
  <2>2. \/ \E j \in 1..Len(up[m]) : (up[m] \o t)[i] = up[m][j]
        \/ \E j \in 1..Len(t) : (up[m] \o t)[i] = t[j]
    BY <1>1, <2>1, UpConcat, Zenon
  <2> QED
    BY <1>2, <2>2
<1>3. CASE up'[m] = up[m]
  BY <1>3
<1>4. ASSUME NEW t \in Seq(UpMessages), up'[m] = up[m] \o t,
             \A j \in 1..Len(t) : t[j].batch = 0 /\ t[j].no = 0
      PROVE  \E j \in 1..Len(up[m]) : up'[m][i] = up[m][j]
  <2>1. \A j \in 1..Len(t) : up'[m][i] # t[j]
    BY <1>1, <1>4
  <2> QED
    BY <1>2, <1>4, <2>1
<1>5. CASE /\ cpc[m] = "reached" /\ cpc'[m] # "reached"
           /\ up'[m] = up[m] \o <<Ack(cur[m], made[m])>>
  <2>1. <<Ack(cur[m], made[m])>> \in Seq(UpMessages)
    BY MessageTypes DEF TypeOK, ClientTypeOK
  <2>2. \A j \in 1..Len(<<Ack(cur[m], made[m])>>) :
          /\ <<Ack(cur[m], made[m])>>[j].no = cur[m]
          /\ <<Ack(cur[m], made[m])>>[j].batch = made[m]
    BY DEF Ack
  <2> QED
    BY <1>2, <1>5, <2>1, <2>2 DEF Returned
<1> QED
  BY <1>3, <1>4, <1>5, ModuleSends

\* Where a module comes from when it is at its breakpoint, and what it has made.
LEMMA ModuleReturns ==
  ASSUME TypeOK, ClientStep, NEW m \in Modules
  PROVE  /\ cpc'[m] = "setup" => cpc[m] = "setup" /\ cur'[m] = cur[m]
         /\ \/ made'[m] = made[m]
            \/ cpc[m] = "compute" /\ cpc'[m] = "reached"
         /\ cpc'[m] = "reached" =>
              /\ cpc[m] \in {"reached", "setup", "compute"} /\ cur'[m] = cur[m]
              /\ cpc[m] = "compute" /\ Level = "SIMULATION" => made'[m] = made[m] + 1
<1> PICK n \in Modules :
       \/ ModuleStep(n) \/ ClientReceiverStep(n) \/ Spurious(n)
       \/ Abort(n) \/ Crash(n)
  BY DEF ClientStep
<1>1. DOMAIN cpc = Modules /\ DOMAIN made = Modules /\ DOMAIN cur = Modules
  BY DEF TypeOK, ClientTypeOK
<1>2. CASE ModuleStep(n)
  BY <1>1, <1>2 DEF ModuleStep, SetUp, Reached, StartWaiting, ReadPulse, Continue, Compute,
     Leave, Terminate
<1>3. CASE ClientReceiverStep(n)
  BY <1>1, <1>3 DEF ClientReceiverStep, StorePulse, WakeOnPulse, SupercomponentLost,
     StopRunning, WakeModule
<1>4. CASE Spurious(n) \/ Abort(n) \/ Crash(n)
  BY <1>1, <1>4 DEF Spurious, Abort, Crash, Terminate
<1> QED
  BY <1>2, <1>3, <1>4

\* A step of the modules hands the pulse of this turn on.
LEMMA ClientPulseOfTurn ==
  ASSUME Acked, TypeOK, LockStepInv, TurnBatchInv, ClientStep,
         UNCHANGED serverVars, NEW m \in Modules
  PROVE  PulseOfTurn(m)'
<1> SUFFICES ASSUME Strict(m)'
             PROVE  /\ cpc'[m] = "setup" => cur'[m] = 0
                    /\ \A i \in 1..Len(down'[m]) : down'[m][i].no = round'
                    /\ crpc'[m] = "wake" \/ cpc'[m] = "woken" => slot'[m] = round'
                    /\ cpc'[m] \in {"check", "compute"} => cur'[m] = round'
  BY DEF PulseOfTurn
<1>0. PICK n \in Modules :
        \/ ModuleStep(n) \/ ClientReceiverStep(n) \/ Spurious(n)
        \/ Abort(n) \/ Crash(n)
  BY DEF ClientStep
<1>1. /\ Strict(m) /\ round' = round /\ registered[m] # "deleted"
      /\ ~(m = n /\ Spurious(n))
  <2>1. Strict(m) /\ ~(m = n /\ Spurious(n))
    BY <1>0, OutOfStep
  <2> QED
    BY <2>1 DEF serverVars, Strict
<1>2. /\ cpc[m] = "setup" => cur[m] = 0
      /\ \A i \in 1..Len(down[m]) : down[m][i].no = round
      /\ crpc[m] = "wake" \/ cpc[m] = "woken" => slot[m] = round
      /\ cpc[m] \in {"check", "compute"} => cur[m] = round
  BY <1>1 DEF TurnBatchInv, PulseOfTurn
<1>3. down[m] \in Seq(DownMessages)
  BY DEF TypeOK, LinkTypeOK
<1>4. cpc'[m] = "setup" => cur'[m] = 0
  BY <1>2, ModuleReturns
<1>5. \A i \in 1..Len(down'[m]) : down'[m][i].no = round'
  <2>1. CASE down'[m] = down[m]
    BY <1>1, <1>2, <2>1
  <2>2. CASE down'[m] = <<>>
    BY <2>2
  <2>3. CASE down[m] # <<>> /\ down'[m] = Tail(down[m])
    <3>1. /\ Len(down'[m]) = Len(down[m]) - 1 /\ Len(down[m]) \in Nat \ {0}
          /\ \A i \in 1..Len(down'[m]) : down'[m][i] = down[m][i + 1]
      BY <1>3, <2>3, DownTail
    <3> QED
      BY <1>1, <1>2, <3>1
  <2> QED
    BY <2>1, <2>2, <2>3, ClientTakes
<1>6. DOMAIN cpc = Modules /\ DOMAIN crpc = Modules /\ DOMAIN cur = Modules
      /\ DOMAIN slot = Modules
  BY DEF TypeOK, ClientTypeOK
<1>7. /\ crpc'[m] = "wake" \/ cpc'[m] = "woken" => slot'[m] = round
      /\ cpc'[m] \in {"check", "compute"} => cur'[m] = round
  <2>1. CASE m # n
    <3>1. slot'[m] = slot[m]
      BY <1>0, <1>6, <2>1 DEF ModuleStep, ClientReceiverStep, SetUp, Reached, Leave, Abort,
         Crash, Terminate, StartWaiting, Spurious, ReadPulse, Continue, Compute,
         StorePulse, WakeOnPulse, SupercomponentLost, StopRunning
    <3> QED
      BY <1>0, <1>2, <2>1, <3>1, OwnSteps
  <2>2. CASE m = n /\ ReadPulse(m)
    BY <1>2, <1>6, <2>2 DEF ReadPulse, Acked
  <2>3. CASE m = n /\ (SetUp(m) \/ StartWaiting(m) \/ Continue(m) \/ Compute(m))
    BY <1>2, <1>6, <2>3 DEF SetUp, StartWaiting, Continue, Compute
  <2>4. CASE m = n /\ Reached(m)
    <3>1. Waits(m)
      BY DEF Waits, Acked
    <3> QED
      BY <1>2, <1>6, <2>4, <3>1 DEF Reached
  <2>5. CASE m = n /\ (Leave(m) \/ Abort(m) \/ Crash(m))
    BY <1>2, <1>6, <2>5 DEF Leave, Abort, Crash, Terminate
  <2>6. CASE m = n /\ StorePulse(m)
    <3>1. Head(down[m]) = down[m][1] /\ 1 \in 1..Len(down[m])
      BY <1>3, <2>6, DownTail DEF StorePulse
    <3>2. slot'[m] = round
      BY <1>2, <1>6, <2>6, <3>1 DEF StorePulse
    <3> QED
      BY <1>2, <2>6, <3>2 DEF StorePulse
  <2>7. CASE m = n /\ WakeOnPulse(m)
    BY <1>2, <1>6, <2>7 DEF WakeOnPulse, WakeModule
  <2>8. CASE m = n /\ SupercomponentLost(m)
    <3>1. Head(down[m]) = down[m][1] /\ 1 \in 1..Len(down[m])
      BY <1>3, <2>8, DownTail DEF SupercomponentLost
    <3>2. Head(down[m]).type = "pulse"
      BY <1>1, <3>1 DEF LockStepInv, PulsesOnTime, OnlyPulses
    <3> QED
      BY <2>8, <3>2 DEF SupercomponentLost
  <2>9. CASE m = n /\ StopRunning(m)
    BY <1>2, <1>6, <2>9 DEF StopRunning
  <2> QED
    BY <1>0, <1>1, <2>1, <2>2, <2>3, <2>4, <2>5, <2>6, <2>7, <2>8, <2>9
    DEF ModuleStep, ClientReceiverStep
<1> QED
  BY <1>1, <1>4, <1>5, <1>7

\* A module that keeps step is given nothing to work for but by supercomponent.
LEMMA WorkBefore ==
  ASSUME Acked, TypeOK, LockStepInv, ClientStep, UNCHANGED serverVars, NEW m \in Modules,
         Strict(m)', Coming(m)' \/ Busy(m)'
  PROVE  Coming(m) \/ Busy(m)
<1>0. PICK n \in Modules :
        \/ ModuleStep(n) \/ ClientReceiverStep(n) \/ Spurious(n)
        \/ Abort(n) \/ Crash(n)
  BY DEF ClientStep
<1>1. /\ registered[m] # "deleted" /\ ~(m = n /\ Spurious(n))
  <2>1. Strict(m) /\ ~(m = n /\ Spurious(n))
    BY <1>0, OutOfStep
  <2> QED
    BY <2>1 DEF Strict
<1>2. DOMAIN cpc = Modules /\ DOMAIN crpc = Modules /\ DOMAIN down = Modules
  BY DEF TypeOK, ClientTypeOK, LinkTypeOK
<1>3. CASE down[m] # <<>>
  BY <1>3 DEF Coming
<1>4. CASE down[m] = <<>>
  <2>1. CASE m # n
    BY <1>0, <2>1, OwnSteps DEF Coming, Busy
  <2>2. CASE m = n /\ ModuleStep(m)
    BY <1>2, <1>4, <2>2 DEF ModuleStep, SetUp, Reached, Leave, Terminate, StartWaiting,
       ReadPulse, Continue, Compute, Coming, Busy, Waits, Acked, linkVars
  <2>3. CASE m = n /\ ClientReceiverStep(m)
    BY <1>2, <1>4, <2>3 DEF ClientReceiverStep, StorePulse, WakeOnPulse, WakeModule,
       SupercomponentLost, StopRunning, Coming, Busy, linkVars
  <2>4. CASE m = n /\ (Abort(m) \/ Crash(m))
    BY <1>2, <1>4, <2>4 DEF Abort, Crash, Terminate, Coming, Busy
  <2> QED
    BY <1>0, <1>1, <2>1, <2>2, <2>3, <2>4
<1> QED
  BY <1>3, <1>4

\* A step of the modules makes at most one batch for the pulse of this turn, and
\* sends it with the confirmation of that pulse.
LEMMA ClientBatchOfTurn ==
  ASSUME Acked, TypeOK, LockStepInv, LockStepInv', TurnBatchInv, ClientStep,
         UNCHANGED serverVars, NEW m \in Modules
  PROVE  BatchOfTurn(m)'
<1> SUFFICES ASSUME Strict(m)', Level = "SIMULATION"
             PROVE  BatchOfTurn(m)'
  BY DEF BatchOfTurn
<1>1. Strict(m)
  BY OutOfStep DEF ClientStep
<1>2. /\ ~InTurn(m) \/ Coming(m) \/ Busy(m) => made[m] = lastBatch[m]
      /\ InTurn(m) /\ Returned(m) => ~OwnAck(m)
      /\ InTurn(m) /\ (Returned(m) \/ OwnAck(m)) => made[m] = lastBatch[m] + 1
      /\ InTurn(m) /\ ackOf[m] = round => batch[m] = made[m]
      /\ InTurn(m) =>
           \A i \in 1..Len(up[m]) : up[m][i].no = round => up[m][i].batch = made[m]
  BY <1>1 DEF TurnBatchInv, BatchOfTurn
<1>3. /\ round' = round /\ lastBatch' = lastBatch /\ batch' = batch /\ ackOf' = ackOf
      /\ (InTurn(m)' <=> InTurn(m))
  BY DEF serverVars, InTurn
<1>4. /\ Coming(m) => ~Busy(m) /\ cur[m] < round
      /\ Coming(m) \/ Busy(m) => InTurn(m) /\ ~OwnAck(m)
  BY <1>1 DEF LockStepInv, OnePulse
<1>5. /\ Coming(m)' => ~Busy(m)' /\ cur'[m] < round
      /\ Coming(m)' \/ Busy(m)' => InTurn(m)
  BY <1>3 DEF LockStepInv, OnePulse
<1>6. /\ cpc[m] = "setup" => cur[m] = 0
      /\ cpc[m] \in {"check", "compute"} => cur[m] = round
  BY <1>1 DEF TurnBatchInv, PulseOfTurn
<1>7. InTurn(m) => round > 0
  BY DEF LockStepInv, PulsesOnTime, InTurn
<1>8. /\ round \in Nat /\ cur[m] \in Nat /\ made[m] \in Nat /\ lastBatch[m] \in Nat
  BY DEF TypeOK, ServerTypeOK, ClientTypeOK
\* Another batch is made only for a pulse of the turn.
<1>9. made'[m] = made[m] \/ (Busy(m) /\ cpc[m] = "compute" /\ cpc'[m] = "reached")
  BY ModuleReturns DEF Busy
<1>10. ~InTurn(m) \/ Coming(m)' \/ Busy(m)' => made'[m] = lastBatch[m]
  <2>1. CASE ~InTurn(m)
    BY <1>2, <1>4, <1>9, <2>1
  <2>2. CASE Coming(m)' \/ Busy(m)'
    <3>1. made[m] = lastBatch[m]
      BY <1>2, <2>2, WorkBefore
    <3>2. ~(cpc[m] = "compute" /\ cpc'[m] = "reached")
      <4>1. cpc[m] = "compute" /\ cpc'[m] = "reached" => cur'[m] = round
        BY <1>6, ModuleReturns
      <4>2. cpc'[m] = "reached" => ~Busy(m)'
        BY DEF Busy
      <4> QED
        BY <1>5, <1>8, <2>2, <4>1, <4>2
    <3> QED
      BY <1>9, <3>1, <3>2
  <2> QED
    BY <2>1, <2>2
\* What is confirmed now had been confirmed before or is confirmed by this step.
<1>11. InTurn(m) /\ OwnAck(m)' => OwnAck(m) \/ (Returned(m) /\ cpc'[m] # "reached")
  <2> SUFFICES ASSUME InTurn(m), OwnAck(m)'
               PROVE  OwnAck(m) \/ (Returned(m) /\ cpc'[m] # "reached")
    OBVIOUS
  <2>1. CASE ackOf'[m] = round'
    BY <1>3, <2>1 DEF OwnAck
  <2>2. ASSUME NEW i \in 1..Len(up'[m]), up'[m][i].no = round'
        PROVE  OwnAck(m) \/ (Returned(m) /\ cpc'[m] # "reached")
    BY <1>3, <1>7, <2>2, OwnAckSent DEF OwnAck
  <2> QED
    BY <2>1, <2>2 DEF OwnAck
\* A module that has returned had returned before or has made a batch.
<1>12. InTurn(m) /\ Returned(m)' =>
         \/ Returned(m) /\ made'[m] = made[m]
         \/ Busy(m) /\ made'[m] = made[m] + 1
  <2> SUFFICES ASSUME InTurn(m), Returned(m)'
               PROVE  \/ Returned(m) /\ made'[m] = made[m]
                      \/ Busy(m) /\ made'[m] = made[m] + 1
    OBVIOUS
  <2>1. cpc'[m] = "reached" /\ cur'[m] = round
    BY <1>3 DEF Returned
  <2>2. cpc[m] \in {"reached", "setup", "compute"} /\ cur[m] = round
    BY <2>1, ModuleReturns
  <2>3. cpc[m] # "setup"
    BY <1>6, <1>7, <1>8, <2>2
  <2> QED
    BY <1>9, <2>1, <2>2, <2>3, ModuleReturns DEF Returned, Busy
<1>13. InTurn(m) /\ OwnAck(m) => made'[m] = made[m]
  BY <1>4, <1>9
<1>14. Returned(m) => made'[m] = made[m]
  BY <1>9 DEF Returned
<1>15. InTurn(m) /\ Returned(m)' => ~OwnAck(m)'
  <2>1. Returned(m)' => cpc'[m] = "reached"
    BY DEF Returned
  <2> QED
    BY <1>2, <1>4, <1>11, <1>12, <2>1
<1>16. InTurn(m) /\ (Returned(m)' \/ OwnAck(m)') => made'[m] = lastBatch[m] + 1
  BY <1>2, <1>11, <1>12, <1>13, <1>14
<1>17. InTurn(m) /\ ackOf[m] = round => batch[m] = made'[m]
  BY <1>2, <1>13 DEF OwnAck
<1>18. ASSUME InTurn(m), NEW i \in 1..Len(up'[m]), up'[m][i].no = round
       PROVE  up'[m][i].batch = made'[m]
  <2>1. ASSUME NEW j \in 1..Len(up[m]), up'[m][i] = up[m][j]
        PROVE  up'[m][i].batch = made'[m]
    BY <1>2, <1>13, <1>18, <2>1 DEF OwnAck
  <2>2. CASE Returned(m) /\ up'[m][i].batch = made[m]
    BY <1>14, <2>2
  <2> QED
    BY <1>7, <1>18, <2>1, <2>2, OwnAckSent
<1> QED
  BY <1>3, <1>10, <1>15, <1>16, <1>17, <1>18 DEF BatchOfTurn

\* The inductive invariant: a module that keeps step makes one batch in a turn, for
\* the pulse of that turn, and it is collected at the end of the turn.
THEOREM TurnBatchesKept ==
  ASSUME Acked
  PROVE  Spec => []TurnBatchInv
<1>1. Init => TurnBatchInv
  <2> SUFFICES ASSUME Init, NEW m \in Modules
               PROVE  PulseOfTurn(m) /\ BatchOfTurn(m)
    BY DEF TurnBatchInv
  <2>1. /\ cpc[m] = "setup" /\ crpc[m] = "recv" /\ cur[m] = 0 /\ down[m] = <<>>
        /\ made[m] = 0 /\ lastBatch[m] = 0 /\ ~InTurn(m)
    BY DEF Init, LinkInit, ServerInit, ClientInit, InTurn
  <2>2. \A i \in 1..Len(down[m]) : FALSE
    BY <2>1
  <2> QED
    BY <2>1, <2>2 DEF PulseOfTurn, BatchOfTurn
<1>2. TypeOK /\ TypeOK' /\ LockStepInv /\ LockStepInv' /\ TurnBatchInv /\ [Next]_vars
        => TurnBatchInv'
  <2> SUFFICES ASSUME TypeOK, TypeOK', LockStepInv, LockStepInv', TurnBatchInv,
                      [Next]_vars, NEW m \in Modules
               PROVE  PulseOfTurn(m)' /\ BatchOfTurn(m)'
    BY DEF TurnBatchInv
  <2>1. CASE ServerStep /\ UNCHANGED clientVars
    BY <2>1, ServerPulseOfTurn, ServerBatchOfTurn
  <2>2. CASE ClientStep /\ UNCHANGED serverVars
    BY <2>2, ClientPulseOfTurn, ClientBatchOfTurn
  <2>3. CASE UNCHANGED vars
    BY <2>3 DEF vars, linkVars, serverVars, clientVars, TurnBatchInv, PulseOfTurn,
       BatchOfTurn, Strict, InTurn, Coming, Busy, Returned, OwnAck
  <2> QED
    BY <2>1, <2>2, <2>3 DEF Next
<1> QED
  BY <1>1, <1>2, TypeCorrect, PulsesInLockStep, PTL DEF Spec

\* Of a module that keeps step no batch of containers is skipped, at the levels that
\* confirm pulses.
THEOREM NoneSkipped ==
  ASSUME Acked
  PROVE  Spec => NoBatchSkipped
<1>1. TypeOK /\ BatchInv /\ TurnBatchInv /\ [Next]_vars =>
        [\A m \in Modules : \A c \in collected' \ collected :
           c[1] = m /\ Strict(m)' => c[2] = lastBatch[m] + 1]_vars
  <2> SUFFICES ASSUME TypeOK, BatchInv, TurnBatchInv, Next, NEW m \in Modules,
                      NEW c \in collected' \ collected, c[1] = m, Strict(m)'
               PROVE  c[2] = lastBatch[m] + 1
    OBVIOUS
  <2>1. EndTurn /\ c = <<cursor, batch[cursor]>> /\ batch[cursor] # 0
    BY CollectedNow
  <2>2. cursor = m /\ c[2] = batch[m] /\ batch[m] # 0 /\ InTurn(m)
    BY <2>1 DEF EndTurn, InTurn
  <2>3. ServerStep /\ UNCHANGED clientVars
    BY <2>1 DEF EndTurn, Next, ClientStep, serverVars
  <2>4. Strict(m)
    BY <2>3, StrictBefore
  <2>5. ackOf[m] = round
    BY <2>1, <2>2 DEF EndTurn, Strict, TypeOK, ServerTypeOK
  <2>6. CASE Level = "SIMULATION"
    BY <2>2, <2>4, <2>5, <2>6 DEF TurnBatchInv, BatchOfTurn, OwnAck
  <2>7. CASE Level # "SIMULATION"
    <3>1. made[m] = 0 /\ batch[m] <= made[m] /\ batch[m] \in Nat
      BY <2>7 DEF BatchInv, BatchesMade, TypeOK, ServerTypeOK
    <3> QED
      BY <2>2, <3>1
  <2> QED
    BY <2>6, <2>7
<1> QED
  BY <1>1, TypeCorrect, BatchesKept, TurnBatchesKept, PTL DEF Spec, NoBatchSkipped
==============================================================================
