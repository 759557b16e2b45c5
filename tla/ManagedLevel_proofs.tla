------------------------ MODULE ManagedLevel_proofs -------------------------
(***************************************************************************)
(* Theorems about ManagedLevel, for every number of modules, every number  *)
(* of rounds and every managed level: the types, and why the levels        *)
(* pulse_time_ack and simulation schedule the modules in lock step.        *)
(***************************************************************************)
EXTENDS ManagedLevel, SequenceTheorems, TLAPS

-----------------------------------------------------------------------------
(* Type correctness. *)

\* The messages of both directions have their types.
LEMMA MessageTypes ==
  /\ \A k \in Nat : Pulse(k) \in DownMessages
  /\ Closed \in DownMessages
  /\ \A k, b \in Nat : Ack(k, b) \in UpMessages
  /\ StateMessage \in UpMessages
  /\ ExitMessage \in UpMessages
  /\ UpEof \in UpMessages
BY DEF Pulse, Closed, Ack, Note, StateMessage, ExitMessage, UpEof,
       DownMessages, UpMessages

\* Receiving keeps the queue of the module a sequence of messages.
LEMMA ReceivedType ==
  ASSUME LinkTypeOK, NEW m \in Modules, NEW type, Received(m, type)
  PROVE  /\ up' \in [Modules -> Seq(UpMessages)]
         /\ Head(up[m]) \in UpMessages
BY HeadTailProperties DEF LinkTypeOK, Received

\* What Disconnect leaves behind has its type.
LEMMA DisconnectType ==
  ASSUME LinkTypeOK, ServerTypeOK, NEW gone, Disconnect(gone)
  PROVE  /\ LinkTypeOK'
         /\ registered' \in [Modules -> {"new", "in", "out", "deleted"}]
         /\ receiver' \in [Modules -> {"recv", "wake", "notify", "ended"}]
<1>1. Closed \in DownMessages
  BY MessageTypes
<1>2. \A m \in Modules : Append(down[m], Closed) \in Seq(DownMessages)
  BY <1>1 DEF LinkTypeOK
<1>3. <<>> \in Seq(UpMessages)
  OBVIOUS
<1>4. registered' \in [Modules -> {"new", "in", "out", "deleted"}]
  BY DEF Disconnect, ServerTypeOK
<1>5. receiver' \in [Modules -> {"recv", "wake", "notify", "ended"}]
  BY DEF Disconnect, ServerTypeOK
<1>6. up' \in [Modules -> Seq(UpMessages)]
  BY <1>3 DEF Disconnect, LinkTypeOK
<1>7. down' \in [Modules -> Seq(DownMessages)]
  BY <1>2 DEF Disconnect, LinkTypeOK
<1> QED
  BY <1>4, <1>5, <1>6, <1>7 DEF Disconnect, LinkTypeOK

\* A step of supercomponent preserves the types.
LEMMA ServerType ==
  ASSUME LinkTypeOK, ServerTypeOK, ServerStep
  PROVE  LinkTypeOK' /\ ServerTypeOK'
<1> USE DEF ServerTypeOK
<1>1. CASE BeginRound
  BY <1>1, DisconnectType, LinkAssumption DEF BeginRound
<1>2. CASE SkipModule
  BY <1>2, LinkAssumption DEF SkipModule, LinkTypeOK, linkVars
<1>3. CASE EnterTurn
  BY <1>3, LinkAssumption DEF EnterTurn, LinkTypeOK, linkVars
<1>4. CASE CheckLost
  BY <1>4 DEF CheckLost, LinkTypeOK, linkVars
<1>5. CASE ClearAck
  BY <1>5 DEF ClearAck, LinkTypeOK, linkVars
<1>6. CASE SendPulse
  <2>1. Pulse(round) \in DownMessages
    BY MessageTypes
  <2>2. cursor \in Modules
    BY <1>6, LinkAssumption DEF SendPulse, Modules
  <2>3. Append(down[cursor], Pulse(round)) \in Seq(DownMessages)
    BY <2>1, <2>2 DEF LinkTypeOK
  <2>4. LinkTypeOK'
    BY <1>6, <2>2, <2>3 DEF SendPulse, LinkTypeOK
  <2>5. cursor' \in 1..(N + 1)
    BY <1>6, <2>2, LinkAssumption DEF SendPulse, Modules
  <2>6. inStep' \in [Modules -> BOOLEAN]
    BY <1>6 DEF SendPulse
  <2> QED
    BY <1>6, <2>2, <2>4, <2>5, <2>6, LinkAssumption DEF SendPulse, Modules
<1>7. CASE SendFails
  BY <1>7 DEF SendFails, LinkTypeOK, linkVars
<1>8. CASE CheckAck
  BY <1>8 DEF CheckAck, LinkTypeOK, linkVars
<1>9. CASE AckTimeout
  BY <1>9 DEF AckTimeout, LinkTypeOK, linkVars
<1>10. CASE EndTurn
  <2>1. cursor \in Modules
    BY <1>10, LinkAssumption DEF EndTurn, Modules
  <2>2. collected' \subseteq Modules \X Nat
    BY <1>10, <2>1 DEF EndTurn
  <2>3. cursor' \in 1..(N + 1)
    BY <1>10, <2>1, LinkAssumption DEF EndTurn, Modules
  <2>4. (inStep[cursor] /\ hasAck[cursor] /\ ackOf[cursor] = round) \in BOOLEAN
    BY Zenon
  <2>5. inStep' \in [Modules -> BOOLEAN]
    BY <1>10, <2>1, <2>4 DEF EndTurn
  <2>6. lastBatch' \in [Modules -> Nat]
    BY <1>10, <2>1 DEF EndTurn
  <2> QED
    BY <1>10, <2>2, <2>3, <2>5, <2>6 DEF EndTurn, LinkTypeOK, linkVars
<1>11. CASE EndRound
  BY <1>11 DEF EndRound, LinkTypeOK, linkVars
<1>12. CASE Stop
  BY <1>12, DisconnectType DEF Stop
<1>13. ASSUME NEW m \in Modules, Join(m)
       PROVE  LinkTypeOK' /\ ServerTypeOK'
  BY <1>13 DEF Join, LinkTypeOK, linkVars
<1>14. ASSUME NEW m \in Modules, ReceiveAck(m)
       PROVE  LinkTypeOK' /\ ServerTypeOK'
  <2>1. /\ up' \in [Modules -> Seq(UpMessages)]
        /\ Head(up[m]) \in UpMessages
    BY <1>14, ReceivedType DEF ReceiveAck
  <2>2. Head(up[m]).no \in Nat /\ Head(up[m]).batch \in Nat
    BY <2>1 DEF UpMessages
  <2> QED
    BY <1>14, <2>1, <2>2 DEF ReceiveAck, LinkTypeOK, WakeMain
<1>15. ASSUME NEW m \in Modules, ReceiveState(m)
       PROVE  LinkTypeOK' /\ ServerTypeOK'
  BY <1>15, ReceivedType DEF ReceiveState, LinkTypeOK, serverVars
<1>16. ASSUME NEW m \in Modules, ReceiveExit(m)
       PROVE  LinkTypeOK' /\ ServerTypeOK'
  BY <1>16, ReceivedType DEF ReceiveExit, LinkTypeOK
<1>17. ASSUME NEW m \in Modules, PeerClosed(m)
       PROVE  LinkTypeOK' /\ ServerTypeOK'
  BY <1>17, ReceivedType DEF PeerClosed, LinkTypeOK
<1>18. ASSUME NEW m \in Modules, WakeOnLoss(m)
       PROVE  LinkTypeOK' /\ ServerTypeOK'
  BY <1>18 DEF WakeOnLoss, LinkTypeOK, linkVars, WakeMain
<1>19. ASSUME NEW m \in Modules, NotifyLost(m)
       PROVE  LinkTypeOK' /\ ServerTypeOK'
  BY <1>19 DEF NotifyLost, LinkTypeOK, linkVars
<1> QED
  BY <1>1, <1>2, <1>3, <1>4, <1>5, <1>6, <1>7, <1>8, <1>9, <1>10, <1>11, <1>12,
     <1>13, <1>14, <1>15, <1>16, <1>17, <1>18, <1>19
  DEF ServerStep, MainStep, ReceiverStep

\* Sending appends messages to the queue of the module.
LEMMA SendType ==
  ASSUME LinkTypeOK, ClientTypeOK, NEW m \in Modules,
         NEW messages \in Seq(UpMessages), NEW isRunning \in BOOLEAN,
         Send(m, messages, isRunning)
  PROVE  /\ up' \in [Modules -> Seq(UpMessages)]
         /\ running' \in [Modules -> BOOLEAN]
<1>1. up[m] \o messages \in Seq(UpMessages)
  BY ConcatProperties DEF LinkTypeOK
<1> QED
  BY <1>1 DEF Send, LinkTypeOK, ClientTypeOK

\* So does the end of the process.
LEMMA TerminateType ==
  ASSUME LinkTypeOK, ClientTypeOK, NEW m \in Modules,
         NEW messages \in Seq(UpMessages), Terminate(m, messages)
  PROVE  LinkTypeOK' /\ ClientTypeOK'
<1>1. Append(messages, UpEof) \in Seq(UpMessages)
  BY MessageTypes
<1>2. up[m] \o Append(messages, UpEof) \in Seq(UpMessages)
  BY <1>1, ConcatProperties DEF LinkTypeOK
<1>3. <<>> \in Seq(DownMessages)
  OBVIOUS
<1> QED
  BY <1>2, <1>3 DEF Terminate, LinkTypeOK, ClientTypeOK

\* A step of the client modules preserves the types.
LEMMA ClientType ==
  ASSUME LinkTypeOK, ClientTypeOK, ClientStep
  PROVE  LinkTypeOK' /\ ClientTypeOK'
<1> PICK m \in Modules :
       \/ ModuleStep(m) \/ ClientReceiverStep(m) \/ Spurious(m)
       \/ Abort(m) \/ Crash(m)
  BY DEF ClientStep
<1> USE DEF ClientTypeOK
<1>1. CASE SetUp(m)
  <2>1. <<StateMessage>> \in Seq(UpMessages) /\ <<>> \in Seq(UpMessages)
    BY MessageTypes
  <2>2. /\ up' \in [Modules -> Seq(UpMessages)]
        /\ running' \in [Modules -> BOOLEAN]
    BY <1>1, <2>1, SendType DEF SetUp
  <2> QED
    BY <1>1, <2>2 DEF SetUp, LinkTypeOK
<1>2. CASE Reached(m)
  <2>1. Ack(cur[m], made[m]) \in UpMessages
    BY MessageTypes
  <2>2. <<Ack(cur[m], made[m])>> \in Seq(UpMessages) /\ <<>> \in Seq(UpMessages)
    BY <2>1
  <2>3. running[m] \in BOOLEAN
    OBVIOUS
  <2>4. /\ up' \in [Modules -> Seq(UpMessages)]
        /\ running' \in [Modules -> BOOLEAN]
    <3>1. CASE Acked
      BY <1>2, <2>2, <2>3, <3>1, SendType DEF Reached
    <3>2. CASE ~Acked
      BY <1>2, <3>2 DEF Reached, LinkTypeOK
    <3> QED
      BY <3>1, <3>2
  <2>5. ClientTypeOK'
    BY <1>2, <2>4 DEF Reached, Waits
  <2> QED
    BY <1>2, <2>4, <2>5 DEF Reached, LinkTypeOK
<1>3. CASE StartWaiting(m)
  BY <1>3 DEF StartWaiting, LinkTypeOK, linkVars
<1>4. CASE ReadPulse(m)
  <2>1. LinkTypeOK'
    BY <1>4 DEF ReadPulse, LinkTypeOK, linkVars
  <2>2. CASE Level = "PULSE"
    <3>1. aligner[m] \in Nat \ {0}
      BY <1>4, <2>2 DEF ReadPulse
    <3> QED
      BY <1>4, <2>1, <2>2, <3>1 DEF ReadPulse
  <2>3. CASE Level # "PULSE"
    BY <1>4, <2>1, <2>3 DEF ReadPulse
  <2> QED
    BY <2>2, <2>3
<1>5. CASE Continue(m)
  BY <1>5 DEF Continue, LinkTypeOK, linkVars
<1>6. CASE Compute(m)
  BY <1>6 DEF Compute, LinkTypeOK, linkVars
<1>7. CASE Leave(m)
  <2>1. <<StateMessage, ExitMessage>> \in Seq(UpMessages)
    BY MessageTypes
  <2> QED
    BY <1>7, <2>1, TerminateType DEF Leave
<1>8. CASE Abort(m)
  <2>1. <<ExitMessage>> \in Seq(UpMessages)
    BY MessageTypes
  <2> QED
    BY <1>8, <2>1, TerminateType DEF Abort
<1>9. CASE Crash(m)
  <2>1. <<>> \in Seq(UpMessages)
    OBVIOUS
  <2> QED
    BY <1>9, <2>1, TerminateType DEF Crash
<1>10. CASE StorePulse(m)
  <2>1. Head(down[m]) \in DownMessages /\ Tail(down[m]) \in Seq(DownMessages)
    BY <1>10, HeadTailProperties DEF StorePulse, LinkTypeOK
  <2> QED
    BY <1>10, <2>1 DEF StorePulse, LinkTypeOK, DownMessages
<1>11. CASE WakeOnPulse(m)
  BY <1>11 DEF WakeOnPulse, WakeModule, LinkTypeOK, linkVars
<1>12. CASE SupercomponentLost(m)
  <2>1. Tail(down[m]) \in Seq(DownMessages)
    BY <1>12, HeadTailProperties DEF SupercomponentLost, LinkTypeOK
  <2> QED
    BY <1>12, <2>1 DEF SupercomponentLost, WakeModule, LinkTypeOK
<1>13. CASE StopRunning(m)
  BY <1>13 DEF StopRunning, LinkTypeOK, linkVars
<1>14. CASE Spurious(m)
  <2>1. spurious[m] + 1 \in Nat
    OBVIOUS
  <2>2. spurious' \in [Modules -> Nat]
    BY <1>14, <2>1 DEF Spurious
  <2> QED
    BY <1>14, <2>2 DEF Spurious, LinkTypeOK, linkVars
<1> QED
  BY <1>1, <1>2, <1>3, <1>4, <1>5, <1>6, <1>7, <1>8, <1>9, <1>10, <1>11, <1>12,
     <1>13, <1>14 DEF ModuleStep, ClientReceiverStep

\* Every variable keeps its type, and within the turn of a module the cursor
\* of the main thread points to a module.
THEOREM TypeCorrect == Spec => []TypeOK
<1>1. Init => TypeOK
  BY LinkAssumption, ClientAssumption
  DEF Init, LinkInit, ServerInit, ClientInit, TypeOK, LinkTypeOK, ServerTypeOK,
      ClientTypeOK, Modules
<1>2. TypeOK /\ [Next]_vars => TypeOK'
  <2> SUFFICES ASSUME TypeOK, [Next]_vars PROVE TypeOK'
    OBVIOUS
  <2>1. CASE ServerStep /\ UNCHANGED clientVars
    <3>1. LinkTypeOK' /\ ServerTypeOK'
      BY <2>1, ServerType DEF TypeOK
    <3>2. ClientTypeOK'
      BY <2>1 DEF TypeOK, ClientTypeOK, clientVars
    <3> QED
      BY <3>1, <3>2 DEF TypeOK
  <2>2. CASE ClientStep /\ UNCHANGED serverVars
    <3>1. LinkTypeOK' /\ ClientTypeOK'
      BY <2>2, ClientType DEF TypeOK
    <3>2. ServerTypeOK'
      BY <2>2 DEF TypeOK, ServerTypeOK, serverVars
    <3> QED
      BY <3>1, <3>2 DEF TypeOK
  <2>3. CASE UNCHANGED vars
    BY <2>3 DEF vars, linkVars, serverVars, clientVars, TypeOK, LinkTypeOK,
       ServerTypeOK, ClientTypeOK
  <2> QED
    BY <2>1, <2>2, <2>3 DEF Next
<1> QED
  BY <1>1, <1>2, PTL DEF Spec

-----------------------------------------------------------------------------
(* Queues. *)

\* What is appended is the last entry; the others stay where they are.
LEMMA AppendEntries ==
  ASSUME NEW S, NEW s \in Seq(S), NEW e \in S
  PROVE  /\ Len(Append(s, e)) = Len(s) + 1
         /\ Len(s) \in Nat
         /\ \A i \in 1..Len(s) : Append(s, e)[i] = s[i]
         /\ Append(s, e)[Len(s) + 1] = e
BY AppendProperties

\* Taking the head moves the others up by one place.
LEMMA TailEntries ==
  ASSUME NEW S, NEW s \in Seq(S), s # <<>>
  PROVE  /\ Len(Tail(s)) = Len(s) - 1
         /\ Len(s) \in Nat \ {0}
         /\ Head(s) = s[1]
         /\ \A i \in 1..Len(Tail(s)) : Tail(s)[i] = s[i + 1]
BY HeadTailProperties, EmptySeq, LenProperties

\* The entries of a concatenation are those of its parts.
LEMMA ConcatEntries ==
  ASSUME NEW S, NEW s \in Seq(S), NEW t \in Seq(S)
  PROVE  \A i \in 1..Len(s \o t) :
           \/ \E j \in 1..Len(s) : (s \o t)[i] = s[j]
           \/ \E j \in 1..Len(t) : (s \o t)[i] = t[j]
<1> SUFFICES ASSUME NEW i \in 1..Len(s \o t)
             PROVE  \/ \E j \in 1..Len(s) : (s \o t)[i] = s[j]
                    \/ \E j \in 1..Len(t) : (s \o t)[i] = t[j]
  OBVIOUS
<1>1. /\ Len(s \o t) = Len(s) + Len(t)
      /\ Len(s) \in Nat /\ Len(t) \in Nat
  BY ConcatProperties, LenProperties
<1>2. CASE i <= Len(s)
  BY <1>1, <1>2, ConcatProperties
<1>3. CASE i > Len(s)
  <2>1. (s \o t)[i] = t[i - Len(s)]
    BY <1>1, <1>3, ConcatProperties
  <2>2. i - Len(s) \in 1..Len(t)
    BY <1>1, <1>3
  <2> QED
    BY <2>1, <2>2
<1> QED
  BY <1>1, <1>2, <1>3

\* No step but sending adds to what is under way to supercomponent.
LEMMA ServerTakes ==
  ASSUME TypeOK, ServerStep,
         NEW m \in Modules, NEW i \in 1..Len(up'[m])
  PROVE  \E j \in 1..Len(up[m]) : up'[m][i] = up[m][j]
<1>1. CASE up' = up
  BY <1>1
<1>2. CASE \E gone : Disconnect(gone)
  BY <1>2 DEF Disconnect
<1>3. CASE \E n \in Modules : \E type : Received(n, type)
  <2> PICK n \in Modules : \E type : Received(n, type)
    BY <1>3
  <2>1. CASE m = n
    <3>1. up[m] \in Seq(UpMessages) /\ up[m] # <<>> /\ up'[m] = Tail(up[m])
      BY <2>1 DEF Received, TypeOK, LinkTypeOK
    <3> QED
      BY <3>1, TailEntries
  <2>2. CASE m # n
    BY <2>2 DEF Received, TypeOK, LinkTypeOK
  <2> QED
    BY <2>1, <2>2
<1> QED
  BY <1>1, <1>2, <1>3
  DEF ServerStep, MainStep, ReceiverStep, BeginRound, SkipModule, EnterTurn,
      CheckLost, ClearAck, SendPulse, SendFails, CheckAck, AckTimeout, EndTurn,
      EndRound, Stop, Join, ReceiveAck, ReceiveState, ReceiveExit, PeerClosed,
      WakeOnLoss, NotifyLost, linkVars, serverVars

\* A step of supercomponent leaves what is under way to a module alone, closes
\* the connection, or sends it the pulse of the round.
LEMMA ServerSends ==
  ASSUME TypeOK, ServerStep, NEW m \in Modules
  PROVE  \/ down'[m] = down[m]
         \/ down'[m] = Append(down[m], Closed) /\ registered'[m] = "deleted"
         \/ /\ SendPulse /\ cursor = m
            /\ down'[m] = Append(down[m], Pulse(round))
<1>1. CASE UNCHANGED down
  BY <1>1
<1>2. CASE \E gone : Disconnect(gone)
  BY <1>2 DEF Disconnect
<1>3. CASE SendPulse
  BY <1>3 DEF SendPulse, TypeOK, LinkTypeOK
<1> QED
  BY <1>1, <1>2, <1>3
  DEF ServerStep, MainStep, ReceiverStep, BeginRound, SkipModule, EnterTurn,
      CheckLost, ClearAck, SendPulse, SendFails, CheckAck, AckTimeout, EndTurn,
      EndRound, Stop, Join, ReceiveAck, ReceiveState, ReceiveExit, PeerClosed,
      WakeOnLoss, NotifyLost, linkVars, serverVars

\* The pulses are numbered upwards.
LEMMA RoundGrows ==
  ASSUME TypeOK, ServerStep
  PROVE  /\ round' \in {round, round + 1}
         /\ round' # round => BeginRound
BY DEF ServerStep, MainStep, ReceiverStep, BeginRound, SkipModule, EnterTurn,
      CheckLost, ClearAck, SendPulse, SendFails, CheckAck, AckTimeout, EndTurn,
      EndRound, Stop, Join, ReceiveAck, ReceiveState, ReceiveExit, PeerClosed,
      WakeOnLoss, NotifyLost, linkVars, serverVars

\* What supercomponent has received was under way.
LEMMA ServerReceives ==
  ASSUME TypeOK, ServerStep, NEW m \in Modules
  PROVE  \/ ackOf'[m] = ackOf[m]
         \/ \E i \in 1..Len(up[m]) : ackOf'[m] = up[m][i].no
<1>1. CASE UNCHANGED ackOf
  BY <1>1
<1>2. ASSUME NEW n \in Modules, ReceiveAck(n)
      PROVE  \/ ackOf'[m] = ackOf[m]
             \/ \E i \in 1..Len(up[m]) : ackOf'[m] = up[m][i].no
  <2>1. up[n] \in Seq(UpMessages) /\ up[n] # <<>>
    BY <1>2 DEF ReceiveAck, Received, TypeOK, LinkTypeOK
  <2>2. Head(up[n]) = up[n][1] /\ 1 \in 1..Len(up[n])
    BY <2>1, TailEntries
  <2> QED
    BY <1>2, <2>2 DEF ReceiveAck, TypeOK, ServerTypeOK
<1> QED
  BY <1>1, <1>2
  DEF ServerStep, MainStep, ReceiverStep, BeginRound, SkipModule, EnterTurn,
      CheckLost, ClearAck, SendPulse, SendFails, CheckAck, AckTimeout, EndTurn,
      EndRound, Stop, Join, ReceiveAck, ReceiveState, ReceiveExit, PeerClosed,
      WakeOnLoss, NotifyLost, linkVars, serverVars

-----------------------------------------------------------------------------
(* What a step of the client modules does to the links and to what they      *)
(* have stored and read.                                                     *)

\* ConcatEntries for messages to supercomponent.
LEMMA UpConcat ==
  \A s, t \in Seq(UpMessages) : \A i \in 1..Len(s \o t) :
    \/ \E j \in 1..Len(s) : (s \o t)[i] = s[j]
    \/ \E j \in 1..Len(t) : (s \o t)[i] = t[j]
BY ConcatEntries

\* What is under way to supercomponent is numbered messages.
LEMMA UpEntries ==
  \A s \in Seq(UpMessages) : \A i \in 1..Len(s) : s[i].no \in Nat
<1>1. \A s \in Seq(UpMessages) : \A i \in 1..Len(s) : s[i] \in UpMessages
  BY ElementOfSeq
<1> QED
  BY <1>1 DEF UpMessages

\* What a module adds to its messages carries no number, or acknowledges the
\* pulse it has read.
LEMMA ClientSends ==
  ASSUME TypeOK, ClientStep,
         NEW m \in Modules, NEW i \in 1..Len(up'[m])
  PROVE  \/ \E j \in 1..Len(up[m]) : up'[m][i] = up[m][j]
         \/ up'[m][i].no = 0
         \/ cpc[m] = "reached" /\ up'[m][i].no = cur[m]
<1> PICK n \in Modules :
       \/ ModuleStep(n) \/ ClientReceiverStep(n) \/ Spurious(n)
       \/ Abort(n) \/ Crash(n)
  BY DEF ClientStep
<1> DEFINE Sent(messages) ==
             up' = [up EXCEPT ![n] = (@ \o messages)]
<1>1. CASE up' = up
  BY <1>1
<1>2. ASSUME NEW messages \in Seq(UpMessages), Sent(messages),
             \/ \A k \in 1..Len(messages) : messages[k].no = 0
             \/ /\ cpc[n] = "reached"
                /\ \A k \in 1..Len(messages) : messages[k].no = cur[n]
      PROVE  \/ \E j \in 1..Len(up[m]) : up'[m][i] = up[m][j]
             \/ up'[m][i].no = 0
             \/ cpc[m] = "reached" /\ up'[m][i].no = cur[m]
  <2>1. up[m] \in Seq(UpMessages)
    BY DEF TypeOK, LinkTypeOK
  <2>2. CASE m # n
    <3>1. up'[m] = up[m]
      BY <1>2, <2>2 DEF TypeOK, LinkTypeOK
    <3> QED
      BY <3>1
  <2>3. CASE m = n
    <3>1. up'[m] = up[m] \o messages
      BY <1>2, <2>3 DEF TypeOK, LinkTypeOK
    <3>2. \/ \E j \in 1..Len(up[m]) : up'[m][i] = up[m][j]
          \/ \E j \in 1..Len(messages) : up'[m][i] = messages[j]
      <4>1. i \in 1..Len(up[m] \o messages) /\ messages \in Seq(UpMessages)
        BY <3>1
      <4>2. \/ \E j \in 1..Len(up[m]) : (up[m] \o messages)[i] = up[m][j]
            \/ \E j \in 1..Len(messages) : (up[m] \o messages)[i] = messages[j]
        BY <2>1, <4>1, UpConcat, Zenon
      <4> QED
        BY <3>1, <4>2
    <3> QED
      BY <1>2, <2>3, <3>2
  <2> QED
    BY <2>2, <2>3
<1>3. CASE SetUp(n)
  <2>1. <<StateMessage>> \in Seq(UpMessages) /\ <<>> \in Seq(UpMessages)
    BY MessageTypes
  <2>2. /\ \A k \in 1..Len(<<StateMessage>>) : <<StateMessage>>[k].no = 0
        /\ \A k \in 1..Len(<<>>) : <<>>[k].no = 0
    BY DEF StateMessage, Note
  <2>3. Sent(<<StateMessage>>) \/ Sent(<<>>)
    BY <1>3 DEF SetUp, Send
  <2> HIDE DEF Sent
  <2> QED
    BY <1>2, <2>1, <2>2, <2>3
<1>4. CASE Reached(n)
  <2> DEFINE ack == <<Ack(cur[n], made[n])>>
  <2>1. ack \in Seq(UpMessages) /\ <<>> \in Seq(UpMessages)
    BY MessageTypes DEF TypeOK, ClientTypeOK
  <2>2. /\ \A k \in 1..Len(ack) : ack[k].no = cur[n]
        /\ \A k \in 1..Len(<<>>) : <<>>[k].no = 0
        /\ cpc[n] = "reached"
    BY <1>4 DEF Ack, Reached
  <2>3. Sent(ack) \/ Sent(<<>>) \/ up' = up
    BY <1>4 DEF Reached, Send
  <2> HIDE DEF Sent, ack
  <2> QED
    BY <1>1, <1>2, <2>1, <2>2, <2>3
<1>5. ASSUME NEW messages \in Seq(UpMessages), Terminate(n, messages),
             \A k \in 1..Len(messages) : messages[k].no = 0
      PROVE  \/ \E j \in 1..Len(up[m]) : up'[m][i] = up[m][j]
             \/ up'[m][i].no = 0
             \/ cpc[m] = "reached" /\ up'[m][i].no = cur[m]
  <2>1. UpEof \in UpMessages /\ UpEof.no = 0
    BY MessageTypes DEF UpEof, Note
  <2>2. Append(messages, UpEof) \in Seq(UpMessages)
    BY <2>1
  <2>3. Sent(Append(messages, UpEof))
    BY <1>5 DEF Terminate
  <2>4. \A k \in 1..Len(Append(messages, UpEof)) :
          Append(messages, UpEof)[k].no = 0
    BY <1>5, <2>1, AppendEntries
  <2> HIDE DEF Sent
  <2> QED
    BY <1>2, <2>2, <2>3, <2>4
<1>6. CASE Leave(n)
  <2>1. <<StateMessage, ExitMessage>> \in Seq(UpMessages)
    BY MessageTypes
  <2>2. \A k \in 1..Len(<<StateMessage, ExitMessage>>) :
          <<StateMessage, ExitMessage>>[k].no = 0
    BY DEF StateMessage, ExitMessage, Note
  <2> QED
    BY <1>5, <1>6, <2>1, <2>2 DEF Leave
<1>7. CASE Abort(n)
  <2>1. <<ExitMessage>> \in Seq(UpMessages)
    BY MessageTypes
  <2>2. \A k \in 1..Len(<<ExitMessage>>) : <<ExitMessage>>[k].no = 0
    BY DEF ExitMessage, Note
  <2> QED
    BY <1>5, <1>7, <2>1, <2>2 DEF Abort
<1>8. CASE Crash(n)
  <2>1. <<>> \in Seq(UpMessages) /\ \A k \in 1..Len(<<>>) : <<>>[k].no = 0
    OBVIOUS
  <2> QED
    BY <1>5, <1>8, <2>1 DEF Crash
<1> QED
  BY <1>1, <1>3, <1>4, <1>6, <1>7, <1>8
  DEF ModuleStep, ClientReceiverStep, StartWaiting, Spurious, ReadPulse, Continue,
      Compute, StorePulse, WakeOnPulse, SupercomponentLost, StopRunning, linkVars

\* A module takes what is under way to it in order, or ends.
LEMMA ClientTakes ==
  ASSUME TypeOK, ClientStep, NEW m \in Modules
  PROVE  \/ down'[m] = down[m]
         \/ down'[m] = <<>>
         \/ down[m] # <<>> /\ down'[m] = Tail(down[m])
<1> USE DEF TypeOK, LinkTypeOK
<1> PICK n \in Modules :
       \/ ModuleStep(n) \/ ClientReceiverStep(n) \/ Spurious(n)
       \/ Abort(n) \/ Crash(n)
  BY DEF ClientStep
<1>1. CASE \E messages : Terminate(n, messages)
  BY <1>1 DEF Terminate
<1>2. CASE StorePulse(n)
  BY <1>2 DEF StorePulse
<1>3. CASE SupercomponentLost(n)
  BY <1>3 DEF SupercomponentLost
<1>4. CASE down' = down
  BY <1>4
<1> QED
  BY <1>1, <1>2, <1>3, <1>4
  DEF ModuleStep, ClientReceiverStep, SetUp, Reached, Leave, Abort, Crash,
      StartWaiting, Spurious, ReadPulse, Continue, Compute, WakeOnPulse,
      StopRunning, linkVars

\* It reads what it has stored, and stores the first pulse under way to it.
LEMMA ClientReads ==
  ASSUME TypeOK, ClientStep, NEW m \in Modules
  PROVE  \/ cur'[m] \in {cur[m], slot[m]} /\ slot'[m] = slot[m]
         \/ /\ StorePulse(m) /\ cur'[m] = cur[m]
            /\ slot'[m] = Head(down[m]).no
<1> USE DEF TypeOK, ClientTypeOK
<1> PICK n \in Modules :
       \/ ModuleStep(n) \/ ClientReceiverStep(n) \/ Spurious(n)
       \/ Abort(n) \/ Crash(n)
  BY DEF ClientStep
<1>1. CASE StorePulse(n)
  BY <1>1 DEF StorePulse
<1>2. CASE ReadPulse(n)
  BY <1>2 DEF ReadPulse
<1>3. CASE UNCHANGED <<cur, slot>>
  BY <1>3
<1> QED
  BY <1>1, <1>2, <1>3
  DEF ModuleStep, ClientReceiverStep, SetUp, Reached, Leave, Abort, Crash,
      Terminate, StartWaiting, Spurious, Continue, Compute, WakeOnPulse,
      SupercomponentLost, StopRunning, linkVars

-----------------------------------------------------------------------------
(* The order of pulses and acknowledgements. *)

\* Appending to what is under way to a module.
LEMMA DownAppend ==
  \A s \in Seq(DownMessages), e \in DownMessages :
    /\ Len(Append(s, e)) = Len(s) + 1
    /\ Len(s) \in Nat
    /\ \A i \in 1..Len(s) : Append(s, e)[i] = s[i]
    /\ Append(s, e)[Len(s) + 1] = e
BY AppendEntries

\* Taking the head of what is under way to a module.
LEMMA DownTail ==
  \A s \in Seq(DownMessages) : s # <<>> =>
    /\ Len(Tail(s)) = Len(s) - 1
    /\ Len(s) \in Nat \ {0}
    /\ Head(s) = s[1]
    /\ \A i \in 1..Len(Tail(s)) : Tail(s)[i] = s[i + 1]
BY TailEntries

\* Taking the last of what is under way to a module leaves nothing.
LEMMA DownLast ==
  \A s \in Seq(DownMessages) : s # <<>> /\ Len(s) <= 1 => Tail(s) = <<>>
<1>1. \A s \in Seq(DownMessages) : s # <<>> => Tail(s) \in Seq(DownMessages)
  BY HeadTailProperties
<1>2. \A s \in Seq(DownMessages) : s # <<>> => Len(s) > 0
  BY EmptySeq
<1> QED
  BY <1>1, <1>2, DownTail

\* What is under way to a module is numbered messages.
LEMMA DownEntries ==
  \A s \in Seq(DownMessages) : \A i \in 1..Len(s) :
    s[i].no \in Nat /\ s[i].type \in {"pulse", "eof"}
<1>1. \A s \in Seq(DownMessages) : \A i \in 1..Len(s) : s[i] \in DownMessages
  BY ElementOfSeq
<1> QED
  BY <1>1 DEF DownMessages

\* What is under way to a module stays in order when supercomponent closes the
\* connection, ...
LEMMA CloseInOrder ==
  ASSUME TypeOK, NEW m \in Modules, PulsesInOrder(m),
         down'[m] = Append(down[m], Closed),
         slot'[m] = slot[m], cur'[m] = cur[m], round' \in Nat, round' >= round
  PROVE  PulsesInOrder(m)'
<1>1. /\ down[m] \in Seq(DownMessages) /\ Closed \in DownMessages
      /\ round \in Nat
  BY MessageTypes DEF TypeOK, LinkTypeOK, ServerTypeOK
<1>2. /\ Len(down'[m]) = Len(down[m]) + 1
      /\ Len(down[m]) \in Nat
      /\ \A i \in 1..Len(down[m]) :
           down'[m][i] = down[m][i] /\ down[m][i].no \in Nat
      /\ down'[m][Len(down[m]) + 1] = Closed
  BY <1>1, DownAppend, DownEntries
<1>3. slot[m] \in Nat /\ cur[m] \in Nat
  BY DEF TypeOK, ClientTypeOK
<1>4. ASSUME NEW i \in 1..Len(down'[m])
      PROVE  /\ down'[m][i].no <= round'
             /\ down'[m][i].type = "pulse" =>
                  /\ slot[m] <= down'[m][i].no
                  /\ \A j \in 1..(i - 1) : down'[m][j].no <= down'[m][i].no
  <2>1. CASE i \in 1..Len(down[m])
    BY <1>1, <1>2, <1>3, <2>1 DEF PulsesInOrder
  <2>2. CASE i = Len(down[m]) + 1
    BY <1>1, <1>2, <2>2 DEF Closed
  <2> QED
    BY <1>2, <2>1, <2>2
<1> QED
  BY <1>1, <1>3, <1>4 DEF PulsesInOrder

\* ... when it sends the pulse of the round ...
LEMMA SendInOrder ==
  ASSUME TypeOK, NEW m \in Modules, PulsesInOrder(m),
         down'[m] = Append(down[m], Pulse(round)),
         slot'[m] = slot[m], cur'[m] = cur[m], round' = round
  PROVE  PulsesInOrder(m)'
<1>1. /\ down[m] \in Seq(DownMessages) /\ Pulse(round) \in DownMessages
      /\ round \in Nat
  BY MessageTypes DEF TypeOK, LinkTypeOK, ServerTypeOK
<1>2. /\ Len(down'[m]) = Len(down[m]) + 1
      /\ Len(down[m]) \in Nat
      /\ \A i \in 1..Len(down[m]) :
           /\ down'[m][i] = down[m][i]
           /\ down[m][i].no \in Nat
           /\ down[m][i].type \in {"pulse", "eof"}
      /\ down'[m][Len(down[m]) + 1] = Pulse(round)
  BY <1>1, DownAppend, DownEntries
<1>3. slot[m] \in Nat /\ cur[m] \in Nat
  BY DEF TypeOK, ClientTypeOK
<1> QED
  BY <1>1, <1>2, <1>3 DEF PulsesInOrder, Pulse

\* ... and when the module takes the first of it.
LEMMA TakeInOrder ==
  ASSUME TypeOK, NEW m \in Modules, PulsesInOrder(m),
         down[m] # <<>>, down'[m] = Tail(down[m]), round' = round,
         \/ cur'[m] = cur[m] /\ slot'[m] = slot[m]
         \/ /\ cur'[m] = cur[m] /\ slot'[m] = Head(down[m]).no
            /\ Head(down[m]).type = "pulse"
  PROVE  PulsesInOrder(m)'
<1>1. down[m] \in Seq(DownMessages) /\ round \in Nat
  BY DEF TypeOK, LinkTypeOK, ServerTypeOK
<1>2. /\ Len(down'[m]) = Len(down[m]) - 1
      /\ Len(down[m]) \in Nat \ {0}
      /\ Head(down[m]) = down[m][1]
      /\ \A i \in 1..Len(down[m]) : down[m][i].no \in Nat
      /\ \A i \in 1..Len(down'[m]) : down'[m][i] = down[m][i + 1]
  BY <1>1, DownTail, DownEntries
<1>3. slot[m] \in Nat /\ cur[m] \in Nat
  BY DEF TypeOK, ClientTypeOK
<1> QED
  BY <1>1, <1>2, <1>3 DEF PulsesInOrder

\* A step of supercomponent keeps the order: it sends the pulse of the round
\* last, and receives only what a module has sent.
LEMMA ServerInOrder ==
  ASSUME TypeOK, PulseOrder, ServerStep, UNCHANGED clientVars
  PROVE  PulseOrder'
<1> SUFFICES ASSUME NEW m \in Modules
             PROVE  /\ cur'[m] <= round'
                    /\ ackOf'[m] <= cur'[m]
                    /\ \A i \in 1..Len(up'[m]) : up'[m][i].no <= cur'[m]
                    /\ PulsesInOrder(m)'
  BY DEF PulseOrder, AckCausality
<1>1. cur'[m] = cur[m] /\ slot'[m] = slot[m]
  BY DEF clientVars
<1>2. /\ round \in Nat /\ round' \in Nat /\ round' >= round
      /\ SendPulse => round' = round
      /\ cur[m] \in Nat
  <2>1. round \in Nat /\ cur[m] \in Nat
    BY DEF TypeOK, ServerTypeOK, ClientTypeOK
  <2>2. round' \in {round, round + 1}
    BY RoundGrows
  <2> QED
    BY <2>1, <2>2 DEF SendPulse
<1>3. /\ cur[m] <= round
      /\ ackOf[m] <= cur[m]
      /\ \A i \in 1..Len(up[m]) : up[m][i].no <= cur[m]
      /\ PulsesInOrder(m)
  BY DEF PulseOrder, AckCausality
<1>4. cur'[m] <= round'
  BY <1>1, <1>2, <1>3
<1>5. ackOf'[m] <= cur'[m]
  BY <1>1, <1>3, ServerReceives
<1>6. \A i \in 1..Len(up'[m]) : up'[m][i].no <= cur'[m]
  BY <1>1, <1>3, ServerTakes
<1>7. PulsesInOrder(m)'
  <2>1. CASE down'[m] = down[m]
    <3>1. \A i \in 1..Len(down[m]) : down[m][i].no \in Nat
      BY DownEntries DEF TypeOK, LinkTypeOK
    <3>2. slot[m] \in Nat
      BY DEF TypeOK, ClientTypeOK
    <3> QED
      BY <1>1, <1>2, <1>3, <2>1, <3>1, <3>2 DEF PulsesInOrder
  <2>2. CASE down'[m] = Append(down[m], Closed)
    BY <1>1, <1>2, <1>3, <2>2, CloseInOrder
  <2>3. CASE SendPulse /\ down'[m] = Append(down[m], Pulse(round))
    BY <1>1, <1>2, <1>3, <2>3, SendInOrder
  <2> QED
    BY <2>1, <2>2, <2>3, ServerSends
<1> QED
  BY <1>4, <1>5, <1>6, <1>7

\* A step of the modules keeps the order: a module reads what it has stored,
\* and acknowledges what it has read.
LEMMA ClientInOrder ==
  ASSUME TypeOK, PulseOrder, ClientStep, UNCHANGED serverVars
  PROVE  PulseOrder'
<1> SUFFICES ASSUME NEW m \in Modules
             PROVE  /\ cur'[m] <= round'
                    /\ ackOf'[m] <= cur'[m]
                    /\ \A i \in 1..Len(up'[m]) : up'[m][i].no <= cur'[m]
                    /\ PulsesInOrder(m)'
  BY DEF PulseOrder, AckCausality
<1>1. round' = round /\ ackOf'[m] = ackOf[m]
  BY DEF serverVars
<1>2. /\ round \in Nat /\ ackOf[m] \in Nat
      /\ cur[m] \in Nat /\ slot[m] \in Nat
      /\ \A i \in 1..Len(up[m]) : up[m][i].no \in Nat
  BY UpEntries DEF TypeOK, LinkTypeOK, ServerTypeOK, ClientTypeOK
<1>3. /\ cur[m] <= round
      /\ ackOf[m] <= cur[m]
      /\ \A i \in 1..Len(up[m]) : up[m][i].no <= cur[m]
      /\ PulsesInOrder(m)
      /\ cur[m] <= slot[m] /\ slot[m] <= round
  BY DEF PulseOrder, AckCausality, PulsesInOrder
<1>4. cur'[m] \in {cur[m], slot[m]}
  BY ClientReads
<1>5. ASSUME NEW i \in 1..Len(up'[m])
      PROVE  up'[m][i].no <= cur'[m]
  <2>1. \/ \E j \in 1..Len(up[m]) : up'[m][i] = up[m][j]
        \/ up'[m][i].no \in {0, cur[m]}
    BY ClientSends
  <2>2. cur[m] <= cur'[m] /\ cur'[m] \in Nat
    BY <1>2, <1>3, <1>4
  <2>3. up'[m][i].no \in Nat /\ up'[m][i].no <= cur[m]
    BY <1>2, <1>3, <2>1
  <2> QED
    BY <1>2, <2>2, <2>3
<1>6. PulsesInOrder(m)'
  <2>1. \/ cur'[m] \in {cur[m], slot[m]} /\ slot'[m] = slot[m]
        \/ /\ StorePulse(m) /\ cur'[m] = cur[m]
           /\ slot'[m] = Head(down[m]).no
    BY ClientReads
  <2>2. CASE StorePulse(m)
    <3>1. /\ down[m] # <<>> /\ Head(down[m]).type = "pulse"
          /\ down'[m] = Tail(down[m])
          /\ cur'[m] = cur[m] /\ slot'[m] = Head(down[m]).no
      BY <2>2 DEF StorePulse, TypeOK, LinkTypeOK, ClientTypeOK
    <3> QED
      BY <1>1, <1>3, <3>1, TakeInOrder
  <2>3. CASE ~StorePulse(m)
    <3>1. cur'[m] \in {cur[m], slot[m]} /\ slot'[m] = slot[m]
      BY <2>1, <2>3
    <3>2. CASE down'[m] = down[m]
      BY <1>1, <1>2, <1>3, <3>1, <3>2 DEF PulsesInOrder
    <3>3. CASE down'[m] = <<>>
      BY <1>1, <1>2, <1>3, <3>1, <3>3 DEF PulsesInOrder
    <3>4. CASE down[m] # <<>> /\ down'[m] = Tail(down[m])
      BY <1>1, <1>3, <3>1, <3>4, TakeInOrder, <1>2 DEF PulsesInOrder
    <3> QED
      BY <3>2, <3>3, <3>4, ClientTakes
  <2> QED
    BY <2>2, <2>3
<1> QED
  BY <1>1, <1>2, <1>3, <1>4, <1>5, <1>6

\* PulseOrder is inductive.
THEOREM PulsesOrdered == Spec => []PulseOrder
<1>1. Init => PulseOrder
  BY DEF Init, LinkInit, ServerInit, ClientInit, PulseOrder, AckCausality,
         PulsesInOrder
<1>2. TypeOK /\ PulseOrder /\ [Next]_vars => PulseOrder'
  <2> SUFFICES ASSUME TypeOK, PulseOrder, [Next]_vars PROVE PulseOrder'
    OBVIOUS
  <2>1. CASE UNCHANGED vars
    BY <2>1 DEF vars, linkVars, serverVars, clientVars, PulseOrder,
                AckCausality, PulsesInOrder
  <2> QED
    BY <2>1, ServerInOrder, ClientInOrder DEF Next
<1> QED
  BY <1>1, <1>2, TypeCorrect, PTL DEF Spec

\* A module never goes back to an older pulse (ClientReads: it reads what it
\* has stored, which is not older than what it has read).
THEOREM NoOlderPulse == Spec => PulsesMoveForward
<1>1. TypeOK /\ PulseOrder /\ [Next]_vars
        => [\A m \in Modules : cur'[m] >= cur[m]]_vars
  <2> SUFFICES ASSUME TypeOK, PulseOrder, [Next]_vars, NEW m \in Modules
               PROVE  cur'[m] >= cur[m]
    OBVIOUS
  <2>1. cur[m] \in Nat /\ slot[m] \in Nat /\ cur[m] <= slot[m]
    BY DEF TypeOK, ClientTypeOK, PulseOrder, PulsesInOrder
  <2>2. CASE UNCHANGED cur
    BY <2>1, <2>2
  <2>3. CASE ClientStep
    BY <2>1, <2>3, ClientReads
  <2> QED
    BY <2>2, <2>3 DEF Next, vars, clientVars
<1> QED
  BY <1>1, TypeCorrect, PulsesOrdered, PTL DEF Spec, PulsesMoveForward

-----------------------------------------------------------------------------
(* Lock step. *)

\* What supercomponent sends in a round comes after all the modules still wait
\* for their turn: while they do, nothing is sent to them.
LEMMA StillNotSent ==
  ASSUME TypeOK, ServerStep, NEW m \in Modules, NotSent(m)'
  PROVE  \/ NotSent(m) /\ round' = round /\ down'[m] = down[m]
         \/ BeginRound /\ round' = round + 1
<1> USE DEF NotSent
<1>0. m \in Int /\ cursor \in Int
  BY LinkAssumption DEF Modules, TypeOK, ServerTypeOK
<1>1. CASE BeginRound
  BY <1>1 DEF BeginRound
<1>2. CASE Stop
  BY <1>2 DEF Stop
<1>3. CASE SendPulse
  <2>1. NotSent(m) /\ round' = round /\ cursor # m
    BY <1>0, <1>3 DEF SendPulse
  <2> QED
    BY <1>3, <2>1 DEF SendPulse, TypeOK, LinkTypeOK
<1> QED
  BY <1>0, <1>1, <1>2, <1>3
  DEF ServerStep, MainStep, ReceiverStep, SkipModule, EnterTurn, CheckLost,
      ClearAck, SendFails, CheckAck, AckTimeout, EndTurn, EndRound, Join,
      ReceiveAck, ReceiveState, ReceiveExit, PeerClosed, WakeOnLoss,
      NotifyLost, WakeMain, linkVars, serverVars

\* A module's registration is never taken back: once deleted, always deleted.
LEMMA DeletedForever ==
  ASSUME TypeOK, ServerStep, NEW m \in Modules
  PROVE  registered[m] = "deleted" => registered'[m] = "deleted"
BY DEF TypeOK, ServerTypeOK, ServerStep, MainStep, ReceiverStep, BeginRound,
      SkipModule, EnterTurn, CheckLost, ClearAck, SendPulse, SendFails, CheckAck,
      AckTimeout, EndTurn, EndRound, Stop, Disconnect, Join, ReceiveAck,
      ReceiveState, ReceiveExit, PeerClosed, WakeOnLoss, NotifyLost, serverVars

\* A step of supercomponent preserves the timing of pulses, ...
LEMMA ServerOnTime ==
  ASSUME TypeOK, PulseOrder, PulsesOnTime, ServerStep, UNCHANGED clientVars
  PROVE  PulsesOnTime'
<1>1. (spc \notin {"idle", "stopped"} => round > 0)'
  <2>1. round \in Nat /\ round' \in {round, round + 1}
    BY RoundGrows DEF TypeOK, ServerTypeOK
  <2>2. \/ BeginRound
        \/ spc' \in {"idle", "stopped"}
        \/ spc \notin {"idle", "stopped"}
        \/ spc' = spc
    BY DEF ServerStep, MainStep, ReceiverStep, SkipModule, EnterTurn, CheckLost,
      ClearAck, SendPulse, SendFails, CheckAck, AckTimeout, EndTurn, EndRound,
      Stop, Join, ReceiveAck, ReceiveState, ReceiveExit, PeerClosed, WakeOnLoss,
      NotifyLost, WakeMain, serverVars
  <2> QED
    BY <2>1, <2>2 DEF PulsesOnTime, BeginRound
<1>2. ASSUME NEW m \in Modules PROVE NotSentYet(m)'
  <2> SUFFICES ASSUME NotSent(m)'
               PROVE  /\ slot'[m] < round'
                      /\ \A i \in 1..Len(down'[m]) : down'[m][i].no < round'
    BY DEF NotSentYet
  <2>1. slot'[m] = slot[m] /\ slot[m] \in Nat /\ round \in Nat
    BY DEF clientVars, TypeOK, ClientTypeOK, ServerTypeOK
  <2>2. CASE NotSent(m) /\ round' = round /\ down'[m] = down[m]
    BY <2>1, <2>2 DEF PulsesOnTime, NotSentYet
  <2>3. CASE BeginRound /\ round' = round + 1
    <3>1. slot[m] <= round /\ \A i \in 1..Len(down[m]) : down[m][i].no <= round
      BY DEF PulseOrder, PulsesInOrder
    <3>2. down[m] \in Seq(DownMessages) /\ Closed \in DownMessages
      BY MessageTypes DEF TypeOK, LinkTypeOK
    <3>3. \A i \in 1..Len(down[m]) : down[m][i].no \in Nat
      BY <3>2, DownEntries
    <3>4. CASE down'[m] = down[m]
      <4>1. ASSUME NEW i \in 1..Len(down[m])
            PROVE  down[m][i].no < round'
        <5>1. down[m][i].no <= round /\ down[m][i].no \in Nat
          BY <3>1, <3>3
        <5> QED
          BY <2>1, <2>3, <5>1
      <4> QED
        BY <2>1, <2>3, <3>1, <3>4, <4>1
    <3>5. CASE down'[m] = Append(down[m], Closed)
      <4>1. /\ Len(down'[m]) = Len(down[m]) + 1
            /\ Len(down[m]) \in Nat
            /\ \A i \in 1..Len(down[m]) : down'[m][i] = down[m][i]
            /\ down'[m][Len(down[m]) + 1] = Closed
        BY <3>2, <3>5, DownAppend
      <4>2. slot'[m] < round' /\ Closed.no < round'
        BY <2>1, <2>3, <3>1 DEF Closed
      <4>3. ASSUME NEW i \in 1..Len(down[m])
            PROVE  down'[m][i].no < round'
        <5>1. down[m][i].no <= round /\ down[m][i].no \in Nat
          BY <3>1, <3>3
        <5> QED
          BY <2>1, <2>3, <4>1, <5>1
      <4>4. ASSUME NEW i \in 1..Len(down'[m])
            PROVE  i \in 1..Len(down[m]) \/ i = Len(down[m]) + 1
        BY <4>1
      <4> QED
        BY <4>1, <4>2, <4>3, <4>4
    <3> QED
      BY <2>3, <3>4, <3>5, ServerSends DEF BeginRound, SendPulse
  <2> QED
    BY <2>2, <2>3, StillNotSent
<1>3. ASSUME NEW m \in Modules PROVE OnlyPulses(m)'
  <2> SUFFICES ASSUME registered'[m] # "deleted"
               PROVE  \A i \in 1..Len(down'[m]) : down'[m][i].type = "pulse"
    BY DEF OnlyPulses
  <2>1. \A i \in 1..Len(down[m]) : down[m][i].type = "pulse"
    BY DeletedForever DEF PulsesOnTime, OnlyPulses
  <2>2. CASE down'[m] = Append(down[m], Pulse(round))
    <3>1. down[m] \in Seq(DownMessages) /\ Pulse(round) \in DownMessages
      BY MessageTypes DEF TypeOK, LinkTypeOK, ServerTypeOK
    <3>2. /\ Len(down'[m]) = Len(down[m]) + 1
          /\ Len(down[m]) \in Nat
          /\ \A i \in 1..Len(down[m]) : down'[m][i] = down[m][i]
          /\ down'[m][Len(down[m]) + 1] = Pulse(round)
      BY <2>2, <3>1, DownAppend
    <3> QED
      BY <2>1, <3>2 DEF Pulse
  <2> QED
    BY <2>1, <2>2, ServerSends
<1> QED
  BY <1>1, <1>2, <1>3 DEF PulsesOnTime

\* ... and so does a step of the modules.
LEMMA ClientOnTime ==
  ASSUME TypeOK, PulsesOnTime, ClientStep, UNCHANGED serverVars
  PROVE  PulsesOnTime'
<1>1. UNCHANGED <<spc, round, cursor, registered>>
  BY DEF serverVars
<1>2. ASSUME NEW m \in Modules
      PROVE  /\ \A i \in 1..Len(down'[m]) :
                  \E j \in 1..Len(down[m]) : down'[m][i] = down[m][j]
             /\ slot'[m] = slot[m]
                  \/ \E j \in 1..Len(down[m]) : slot'[m] = down[m][j].no
  <2>1. down[m] \in Seq(DownMessages)
    BY DEF TypeOK, LinkTypeOK
  <2>2. down[m] # <<>> =>
          /\ Len(Tail(down[m])) = Len(down[m]) - 1
          /\ Len(down[m]) \in Nat \ {0}
          /\ Head(down[m]) = down[m][1]
          /\ \A i \in 1..Len(Tail(down[m])) : Tail(down[m])[i] = down[m][i + 1]
    BY <2>1, DownTail
  <2>3. \A i \in 1..Len(down'[m]) :
          \E j \in 1..Len(down[m]) : down'[m][i] = down[m][j]
    <3>1. CASE down'[m] = <<>>
      BY <3>1
    <3>2. CASE down[m] # <<>> /\ down'[m] = Tail(down[m])
      <4>1. \A i \in 1..Len(down'[m]) : i + 1 \in 1..Len(down[m])
        BY <2>2, <3>2
      <4> QED
        BY <2>2, <3>2, <4>1
    <3> QED
      BY <3>1, <3>2, ClientTakes
  <2>4. slot'[m] = slot[m] \/ \E j \in 1..Len(down[m]) : slot'[m] = down[m][j].no
    <3>1. CASE slot'[m] = slot[m]
      BY <3>1
    <3>2. CASE StorePulse(m) /\ slot'[m] = Head(down[m]).no
      BY <2>2, <3>2 DEF StorePulse
    <3> QED
      BY <3>1, <3>2, ClientReads
  <2> QED
    BY <2>3, <2>4
<1>3. ASSUME NEW m \in Modules PROVE NotSentYet(m)'
  <2>1. NotSent(m)' <=> NotSent(m)
    BY <1>1 DEF NotSent
  <2>2. NotSentYet(m)
    BY DEF PulsesOnTime
  <2> QED
    BY <1>1, <1>2, <2>1, <2>2 DEF NotSentYet
<1>4. ASSUME NEW m \in Modules PROVE OnlyPulses(m)'
  BY <1>1, <1>2 DEF PulsesOnTime, OnlyPulses
<1> QED
  BY <1>1, <1>3, <1>4 DEF PulsesOnTime

\* A module that keeps step has kept step before.
LEMMA StrictBefore ==
  ASSUME TypeOK, ServerStep, UNCHANGED clientVars, NEW m \in Modules, Strict(m)'
  PROVE  Strict(m)
<1> USE DEF Strict, TypeOK, ServerTypeOK, clientVars
<1>1. CASE SendPulse
  BY <1>1 DEF SendPulse
<1>2. CASE EndTurn
  BY <1>2 DEF EndTurn
<1>3. CASE UNCHANGED inStep
  <2>1. registered'[m] \in {"new", "in"} => registered[m] \in {"new", "in"}
    <3>1. CASE \E gone : Disconnect(gone)
      BY <3>1 DEF Disconnect
    <3>2. CASE \E n \in Modules : Join(n)
      BY <3>2 DEF Join
    <3>3. CASE \E n \in Modules : ReceiveExit(n) \/ NotifyLost(n)
      BY <3>3 DEF ReceiveExit, NotifyLost
    <3>4. CASE registered' = registered
      BY <3>4
    <3> QED
      BY <3>1, <3>2, <3>3, <3>4
      DEF ServerStep, MainStep, ReceiverStep, BeginRound, SkipModule, EnterTurn,
          CheckLost, ClearAck, SendPulse, SendFails, CheckAck, AckTimeout,
          EndTurn, EndRound, Stop, ReceiveAck, ReceiveState, PeerClosed,
          WakeOnLoss, serverVars
  <2> QED
    BY <1>3, <2>1
<1> QED
  BY <1>1, <1>2, <1>3 DEF ServerStep, MainStep, ReceiverStep, BeginRound,
      SkipModule, EnterTurn, CheckLost, ClearAck, SendFails, CheckAck,
      AckTimeout, EndRound, Stop, Join, ReceiveAck, ReceiveState, ReceiveExit,
      PeerClosed, WakeOnLoss, NotifyLost, serverVars

\* A turn goes on until EndTurn.
LEMMA TurnGoesOn ==
  ASSUME TypeOK, ServerStep, NEW m \in Modules, InTurn(m)
  PROVE  \/ InTurn(m)' /\ round' = round
         \/ EndTurn /\ cursor = m
<1> USE DEF InTurn
<1>1. CASE MainStep
  BY <1>1 DEF MainStep, BeginRound, SkipModule, EnterTurn, CheckLost, ClearAck,
      SendPulse, SendFails, CheckAck, AckTimeout, EndTurn, EndRound
<1>2. CASE \E n \in Modules : ReceiverStep(n)
  BY <1>2 DEF ReceiverStep, ReceiveAck, ReceiveState, ReceiveExit, PeerClosed,
      WakeOnLoss, NotifyLost, WakeMain, serverVars
<1>3. CASE Stop \/ \E n \in Modules : Join(n)
  BY <1>3 DEF Stop, Join
<1> QED
  BY <1>1, <1>2, <1>3 DEF ServerStep

\* In its turn, a module has confirmed its pulse only if it had before or
\* confirms it now.
LEMMA OwnAckBefore ==
  ASSUME TypeOK, ServerStep, NEW m \in Modules, round' = round, OwnAck(m)'
  PROVE  OwnAck(m)
<1>1. CASE ackOf'[m] = round
  BY <1>1, ServerReceives DEF OwnAck
<1>2. CASE \E i \in 1..Len(up'[m]) : up'[m][i].no = round
  BY <1>2, ServerTakes DEF OwnAck
<1> QED
  BY <1>1, <1>2 DEF OwnAck

\* A step of supercomponent gives a module that keeps step a pulse only in the
\* turn of the module, and ends the turn only when it has been confirmed.
LEMMA ServerOnePulse ==
  ASSUME Acked, TypeOK, LockStepInv, ServerStep, UNCHANGED clientVars,
         NEW m \in Modules
  PROVE  OnePulse(m)'
<1> SUFFICES ASSUME Strict(m)'
             PROVE  /\ Len(down'[m]) <= 1
                    /\ down'[m] # <<>> => crpc'[m] # "wake"
                    /\ Coming(m)' => ~Busy(m)' /\ cur'[m] < round'
                    /\ Coming(m)' \/ Busy(m)' => InTurn(m)' /\ ~OwnAck(m)'
  BY DEF OnePulse
<1>1. Strict(m)
  BY StrictBefore
<1>2. /\ Len(down[m]) <= 1
      /\ down[m] # <<>> => crpc[m] # "wake"
      /\ Coming(m) => ~Busy(m) /\ cur[m] < round
      /\ Coming(m) \/ Busy(m) => InTurn(m) /\ ~OwnAck(m)
  BY <1>1 DEF LockStepInv, OnePulse
<1>3. /\ crpc'[m] = crpc[m] /\ cur'[m] = cur[m] /\ (Busy(m)' <=> Busy(m))
  BY DEF clientVars, Busy
<1>4. CASE down'[m] = down[m]
  <2>1. Coming(m)' <=> Coming(m)
    BY <1>3, <1>4 DEF Coming
  <2>2. CASE ~(Coming(m) \/ Busy(m))
    BY <1>2, <1>3, <1>4, <2>1, <2>2
  <2>3. CASE Coming(m) \/ Busy(m)
    <3>1. InTurn(m) /\ ~OwnAck(m)
      BY <1>2, <2>3
    <3>2. CASE EndTurn /\ cursor = m
      <4>1. ackOf[m] = round
        BY <3>2 DEF EndTurn, Strict, TypeOK, ServerTypeOK
      <4> QED
        BY <3>1, <4>1 DEF OwnAck
    <3>3. CASE InTurn(m)' /\ round' = round
      BY <1>2, <1>3, <1>4, <2>1, <3>1, <3>3, OwnAckBefore
    <3> QED
      BY <3>1, <3>2, <3>3, TurnGoesOn
  <2> QED
    BY <2>2, <2>3
<1>5. CASE SendPulse /\ cursor = m /\ down'[m] = Append(down[m], Pulse(round))
  <2>1. ~InTurn(m) /\ NotSent(m) /\ InTurn(m)' /\ round' = round
    BY <1>5 DEF SendPulse, InTurn, NotSent
  <2>2. down[m] = <<>> /\ ~Coming(m) /\ ~Busy(m)
    BY <1>2, <2>1 DEF Coming
  <2>3. Len(down'[m]) = 1
    BY <1>5, <2>2
  <2>4. cur[m] < round
    BY <2>1 DEF LockStepInv, PulsesOnTime, NotSentYet, PulseOrder, PulsesInOrder,
                TypeOK, ClientTypeOK, ServerTypeOK
  <2>5. ~OwnAck(m)
    <3>1. ackOf[m] \in Nat /\ cur[m] \in Nat /\ round \in Nat
      BY DEF TypeOK, ClientTypeOK, ServerTypeOK
    <3>2. \A i \in 1..Len(up[m]) : up[m][i].no \in Nat
      BY UpEntries DEF TypeOK, LinkTypeOK
    <3>3. /\ ackOf[m] <= cur[m]
          /\ \A i \in 1..Len(up[m]) : up[m][i].no <= cur[m]
      BY DEF LockStepInv, PulseOrder, AckCausality
    <3> QED
      BY <2>4, <3>1, <3>2, <3>3 DEF OwnAck
  <2>6. ~OwnAck(m)'
    BY <2>1, <2>5, OwnAckBefore
  <2> QED
    BY <1>3, <2>1, <2>2, <2>3, <2>4, <2>6 DEF Coming
<1>6. CASE registered'[m] = "deleted"
  BY <1>6 DEF Strict
<1> QED
  BY <1>4, <1>5, <1>6, ServerSends

\* A step of a module touches nothing of the other modules.
LEMMA OwnSteps ==
  ASSUME TypeOK, NEW n \in Modules,
         \/ ModuleStep(n) \/ ClientReceiverStep(n) \/ Spurious(n)
         \/ Abort(n) \/ Crash(n),
         NEW m \in Modules, m # n
  PROVE  /\ up'[m] = up[m] /\ down'[m] = down[m]
         /\ cpc'[m] = cpc[m] /\ crpc'[m] = crpc[m] /\ cur'[m] = cur[m]
         /\ spurious'[m] = spurious[m]
<1> USE DEF TypeOK, LinkTypeOK, ClientTypeOK
<1>1. CASE ModuleStep(n)
  BY <1>1 DEF ModuleStep, SetUp, Send, Reached, StartWaiting, ReadPulse,
              Continue, Compute, Leave, Terminate, linkVars
<1>2. CASE ClientReceiverStep(n)
  BY <1>2 DEF ClientReceiverStep, StorePulse, WakeOnPulse, WakeModule,
              SupercomponentLost, StopRunning, linkVars
<1> QED
  BY <1>1, <1>2 DEF Spurious, Abort, Crash, Terminate, linkVars

\* Only a wait that ends without a signal is counted as one.
LEMMA SpuriousCounted ==
  ASSUME TypeOK, NEW n \in Modules,
         \/ ModuleStep(n) \/ ClientReceiverStep(n) \/ Spurious(n)
         \/ Abort(n) \/ Crash(n),
         NEW m \in Modules
  PROVE  spurious'[m] = spurious[m] \/ (m = n /\ Spurious(n))
<1>1. CASE m # n
  BY <1>1, OwnSteps
<1>2. CASE ~Spurious(n)
  BY <1>2 DEF ModuleStep, ClientReceiverStep, SetUp, Reached, StartWaiting,
     ReadPulse, Continue, Compute, Leave, Abort, Crash, Terminate, StorePulse,
     WakeOnPulse, SupercomponentLost, StopRunning
<1> QED
  BY <1>1, <1>2

\* Whoever wakes without a signal is not in step any more; nobody else is put out
\* of step by a step of the modules.
LEMMA OutOfStep ==
  ASSUME TypeOK, NEW n \in Modules,
         \/ ModuleStep(n) \/ ClientReceiverStep(n) \/ Spurious(n)
         \/ Abort(n) \/ Crash(n),
         UNCHANGED serverVars, NEW m \in Modules
  PROVE  \/ (Strict(m)' <=> Strict(m)) /\ ~(Spurious(m) /\ m = n)
         \/ Spurious(m) /\ m = n /\ ~Strict(m)'
<1>1. CASE Spurious(n) /\ m = n
  <2>1. spurious[m] \in Nat /\ spurious'[m] = spurious[m] + 1
    BY <1>1 DEF Spurious, TypeOK, ClientTypeOK
  <2>2. spurious'[m] # 0
    BY <2>1
  <2> QED
    BY <1>1, <2>2 DEF Strict
<1>2. CASE ~(Spurious(n) /\ m = n)
  <2>1. spurious'[m] = spurious[m]
    BY <1>2, SpuriousCounted
  <2> QED
    BY <1>2, <2>1 DEF Strict, serverVars
<1> QED
  BY <1>1, <1>2

\* A step of a module does not produce the confirmation of the round's pulse
\* as long as the module has not read that pulse, or does not confirm.
LEMMA NoOwnAckYet ==
  ASSUME TypeOK, ClientStep, UNCHANGED serverVars, NEW m \in Modules,
         ~OwnAck(m), round > 0, cpc[m] # "reached" \/ cur[m] < round
  PROVE  ~OwnAck(m)'
<1>1. round' = round /\ ackOf' = ackOf
  BY DEF serverVars
<1>2. round \in Nat /\ cur[m] \in Nat
  BY DEF TypeOK, ServerTypeOK, ClientTypeOK
<1>3. ASSUME NEW i \in 1..Len(up'[m]) PROVE up'[m][i].no # round
  BY <1>2, ClientSends DEF OwnAck
<1> QED
  BY <1>1, <1>3 DEF OwnAck

\* A step of the modules hands the one pulse of a module that keeps step on,
\* from the link to the receiver thread and from that to the main thread.
LEMMA ClientOnePulse ==
  ASSUME Acked, TypeOK, LockStepInv, ClientStep, UNCHANGED serverVars,
         NEW m \in Modules
  PROVE  OnePulse(m)'
<1> SUFFICES ASSUME Strict(m)'
             PROVE  /\ Len(down'[m]) <= 1
                    /\ down'[m] # <<>> => crpc'[m] # "wake"
                    /\ Coming(m)' => ~Busy(m)' /\ cur'[m] < round'
                    /\ Coming(m)' \/ Busy(m)' => InTurn(m)' /\ ~OwnAck(m)'
  BY DEF OnePulse
<1>0. PICK n \in Modules :
        \/ ModuleStep(n) \/ ClientReceiverStep(n) \/ Spurious(n)
        \/ Abort(n) \/ Crash(n)
  BY DEF ClientStep
<1>1. /\ Strict(m) /\ round' = round /\ (InTurn(m)' <=> InTurn(m))
      /\ registered[m] # "deleted" /\ ~(m = n /\ Spurious(n))
  <2>1. Strict(m) /\ ~(m = n /\ Spurious(n))
    BY <1>0, OutOfStep
  <2> QED
    BY <2>1 DEF serverVars, Strict, InTurn
<1>2. /\ Len(down[m]) <= 1
      /\ down[m] # <<>> => crpc[m] # "wake"
      /\ Coming(m) => ~Busy(m) /\ cur[m] < round
      /\ Coming(m) \/ Busy(m) => InTurn(m) /\ ~OwnAck(m)
  BY <1>1 DEF LockStepInv, OnePulse
<1>3. Coming(m) \/ Busy(m) => InTurn(m)' /\ ~OwnAck(m)'
  <2> SUFFICES ASSUME Coming(m) \/ Busy(m) PROVE InTurn(m)' /\ ~OwnAck(m)'
    OBVIOUS
  <2>1. InTurn(m) /\ ~OwnAck(m)
    BY <1>2
  <2>2. round > 0
    BY <2>1 DEF InTurn, LockStepInv, PulsesOnTime
  <2>3. cpc[m] # "reached" \/ cur[m] < round
    BY <1>2 DEF Busy
  <2> QED
    BY <1>1, <2>1, <2>2, <2>3, NoOwnAckYet
<1>5. CASE m # n
  <2>1. /\ down'[m] = down[m] /\ crpc'[m] = crpc[m] /\ cur'[m] = cur[m]
        /\ (Coming(m)' <=> Coming(m)) /\ (Busy(m)' <=> Busy(m))
    BY <1>0, <1>5, OwnSteps DEF Coming, Busy
  <2> QED
    BY <1>1, <1>2, <1>3, <2>1
<1>6. CASE m = n
  <2> USE DEF TypeOK, LinkTypeOK, ClientTypeOK
  <2>1. CASE UNCHANGED <<down, crpc>> /\ cur'[m] = cur[m] /\ (Busy(m)' => Busy(m))
    <3>1. Coming(m)' <=> Coming(m)
      BY <2>1 DEF Coming
    <3> QED
      BY <1>1, <1>2, <1>3, <2>1, <3>1
  <2>2. CASE Reached(m)
    <3>1. Waits(m)
      BY DEF Waits, Acked
    <3>2. UNCHANGED <<down, crpc, cur>> /\ cpc'[m] = "prewait"
      BY <2>2, <3>1 DEF Reached
    <3> QED
      BY <2>1, <3>2 DEF Busy
  <2>3. CASE ReadPulse(m)
    <3>1. UNCHANGED <<down, crpc>> /\ Busy(m) /\ ~Coming(m)
      BY <1>2, <2>3 DEF ReadPulse, linkVars, Busy
    <3>2. ~Coming(m)'
      BY <3>1 DEF Coming
    <3> QED
      BY <1>2, <1>3, <3>1, <3>2
  <2>4. ASSUME NEW messages, Terminate(m, messages) PROVE ~Coming(m)' /\ ~Busy(m)'
    BY <2>4 DEF Terminate, Coming, Busy
  <2>5. CASE Leave(m) \/ Abort(m) \/ Crash(m)
    <3>1. ~Coming(m)' /\ ~Busy(m)'
      BY <2>4, <2>5 DEF Leave, Abort, Crash
    <3> QED
      BY <3>1 DEF Coming
  <2>6. CASE StorePulse(m)
    <3>1. down[m] # <<>> /\ down'[m] = Tail(down[m]) /\ UNCHANGED <<cpc, cur>>
      BY <2>6 DEF StorePulse
    <3>2. down'[m] = <<>>
      BY <1>2, <3>1, DownLast
    <3>3. Coming(m) /\ ~Busy(m)'
      BY <1>2, <3>1 DEF Coming, Busy
    <3> QED
      BY <1>1, <1>2, <1>3, <3>1, <3>2, <3>3
  <2>7. CASE WakeOnPulse(m)
    <3>1. Coming(m) /\ down[m] = <<>>
      BY <1>2, <2>7 DEF WakeOnPulse, Coming
    <3>2. down'[m] = <<>> /\ ~Coming(m)'
      BY <2>7, <3>1 DEF WakeOnPulse, Coming, linkVars
    <3> QED
      BY <1>3, <3>1, <3>2
  <2>8. CASE SupercomponentLost(m)
    <3>1. Head(down[m]) = down[m][1] /\ 1 \in 1..Len(down[m])
      BY <2>8, DownTail DEF SupercomponentLost
    <3>2. Head(down[m]).type = "pulse"
      BY <1>1, <3>1 DEF LockStepInv, PulsesOnTime, OnlyPulses
    <3> QED
      BY <2>8, <3>2 DEF SupercomponentLost
  <2>9. CASE StopRunning(m)
    <3>1. UNCHANGED <<down, cpc, cur>> /\ crpc[m] # "wake" /\ crpc'[m] # "wake"
      BY <2>9 DEF StopRunning, linkVars
    <3>2. (Coming(m)' <=> Coming(m)) /\ (Busy(m)' <=> Busy(m))
      BY <3>1 DEF Coming, Busy
    <3> QED
      BY <1>1, <1>2, <1>3, <3>1, <3>2
  <2>10. CASE SetUp(m) \/ StartWaiting(m) \/ Continue(m) \/ Compute(m)
    <3>1. UNCHANGED <<down, crpc, cur>> /\ (Busy(m)' => Busy(m))
      BY <2>10 DEF SetUp, StartWaiting, Continue, Compute, linkVars, Busy
    <3> QED
      BY <2>1, <3>1
  <2> QED
    BY <1>1, <1>0, <1>6, <2>2, <2>3, <2>5, <2>6, <2>7, <2>8, <2>9, <2>10
    DEF ModuleStep, ClientReceiverStep
<1> QED
  BY <1>5, <1>6

\* LockStepInv is inductive at the levels that confirm pulses.
THEOREM PulsesInLockStep ==
  ASSUME Acked
  PROVE  Spec => []LockStepInv
<1>1. Init => LockStepInv
  <2> SUFFICES ASSUME Init PROVE LockStepInv
    OBVIOUS
  <2>1. PulseOrder /\ PulsesOnTime
    BY DEF Init, LinkInit, ServerInit, ClientInit, PulseOrder, AckCausality,
           PulsesInOrder, PulsesOnTime, NotSentYet, NotSent, OnlyPulses
  <2>2. ASSUME NEW m \in Modules PROVE OnePulse(m)
    BY DEF Init, LinkInit, ClientInit, OnePulse, Coming, Busy
  <2> QED
    BY <2>1, <2>2 DEF LockStepInv
<1>2. TypeOK /\ LockStepInv /\ [Next]_vars => LockStepInv'
  <2> SUFFICES ASSUME TypeOK, LockStepInv, [Next]_vars PROVE LockStepInv'
    OBVIOUS
  <2>1. PulseOrder /\ PulsesOnTime
    BY DEF LockStepInv
  <2>2. CASE ServerStep /\ UNCHANGED clientVars
    BY <2>1, <2>2, ServerInOrder, ServerOnTime, ServerOnePulse DEF LockStepInv
  <2>3. CASE ClientStep /\ UNCHANGED serverVars
    BY <2>1, <2>3, ClientInOrder, ClientOnTime, ClientOnePulse DEF LockStepInv
  <2>4. CASE UNCHANGED vars
    <3>1. PulseOrder' /\ PulsesOnTime'
      BY <2>1, <2>4 DEF vars, linkVars, serverVars, clientVars, PulseOrder,
         AckCausality, PulsesInOrder, PulsesOnTime, NotSentYet, NotSent, OnlyPulses
    <3>2. ASSUME NEW m \in Modules PROVE OnePulse(m)'
      BY <2>4 DEF LockStepInv, vars, linkVars, serverVars, clientVars, OnePulse,
         Strict, Coming, Busy, InTurn, OwnAck
    <3> QED
      BY <3>1, <3>2 DEF LockStepInv
  <2> QED
    BY <2>2, <2>3, <2>4 DEF Next
<1> QED
  BY <1>1, <1>2, TypeCorrect, PTL DEF Spec

\* A module that has kept step works only in its own turn.
THEOREM WorkInTurn ==
  ASSUME Acked
  PROVE  Spec => []StrictWorkInTurn
<1>1. LockStepInv => StrictWorkInTurn
  BY DEF LockStepInv, OnePulse, StrictWorkInTurn
<1> QED
  BY <1>1, PulsesInLockStep, PTL

-----------------------------------------------------------------------------
(* Refinement of LockStep. *)

Turn       == IF \E m \in Modules : InTurn(m) THEN cursor ELSE 0
WorkingSet == {m \in Modules : Busy(m)}
StrictSet  == {m \in Modules : Strict(m)}

\* A step of supercomponent gives or ends a turn, or writes modules off.
LEMMA ServerRefines ==
  ASSUME Acked, TypeOK, LockStepInv, LockStepInv', ServerStep,
         UNCHANGED clientVars
  PROVE  [LS!Next]_(LS!lockStepVars)
<1>1. WorkingSet' = WorkingSet
  BY DEF WorkingSet, clientVars, Busy
<1>2. StrictSet' \subseteq StrictSet
  BY StrictBefore DEF StrictSet
<1>3. Turn = IF spc \in {"check", "waiting", "return"} THEN cursor ELSE 0
  BY LinkAssumption DEF Turn, InTurn, TypeOK, ServerTypeOK, Modules
<1>4. CASE Turn' = Turn
  BY <1>1, <1>2, <1>4 DEF LS!Next, LS!WriteOff, Turn, WorkingSet, StrictSet
<1>5. CASE Turn = 0 /\ Turn' \in Modules /\ StrictSet' = StrictSet
  BY <1>1, <1>5 DEF LS!Next, LS!GiveTurn, LS!Modules, Modules, Turn, WorkingSet,
                    StrictSet
<1>6. CASE EndTurn
  <2>1. cursor \in Modules
    BY <1>6, LinkAssumption DEF EndTurn, TypeOK, ServerTypeOK, Modules
  <2> PICK c \in Modules : c = cursor
    BY <2>1
  <2>2. Turn = c /\ Turn' = 0
    BY <1>6 DEF EndTurn, Turn, InTurn
  <2>3. ASSUME NEW m \in StrictSet, m # c PROVE m \in StrictSet'
    BY <1>6, <2>3
    DEF EndTurn, StrictSet, Strict, TypeOK, ServerTypeOK, clientVars
  <2>4. CASE c \in StrictSet'
    <3>1. ~InTurn(c)'
      BY <1>6 DEF EndTurn, InTurn
    <3>2. c \notin WorkingSet'
      BY <2>4, <3>1 DEF LockStepInv, OnePulse, WorkingSet, StrictSet
    <3>3. StrictSet' = StrictSet
      BY <1>2, <2>3, <2>4
    <3> QED
      BY <1>1, <2>2, <3>2, <3>3, LinkAssumption
      DEF LS!Next, LS!EndTurn, Turn, WorkingSet, StrictSet, Modules
  <2>5. CASE c \notin StrictSet'
    <3>1. StrictSet' = StrictSet \ {c}
      BY <1>2, <2>3, <2>5
    <3>2. Turn # 0
      BY <2>2, LinkAssumption DEF Modules
    <3> QED
      BY <1>1, <2>2, <3>1, <3>2
      DEF LS!Next, LS!EndTurn, Turn, WorkingSet, StrictSet
  <2> QED
    BY <2>4, <2>5
<1>7. CASE SendPulse \/ CheckLost
  <2>1. cursor \in Modules /\ UNCHANGED <<cursor, inStep, registered>>
    BY <1>7, LinkAssumption
    DEF SendPulse, CheckLost, TypeOK, ServerTypeOK, Modules
  <2>2. StrictSet' = StrictSet
    BY <2>1 DEF StrictSet, Strict, clientVars
  <2>3. Turn = 0
    BY <1>3, <1>7 DEF SendPulse, CheckLost
  <2>4. Turn' \in {0, cursor}
    BY <2>1 DEF Turn, InTurn
  <2> QED
    BY <1>4, <1>5, <2>1, <2>2, <2>3, <2>4
<1>8. CASE /\ spc \notin {"check", "waiting", "return"}
           /\ spc' \notin {"check", "waiting", "return"}
  BY <1>4, <1>8 DEF Turn, InTurn
<1>9. CASE /\ cursor' = cursor
           /\ \/ spc' = spc
              \/ /\ spc \in {"check", "waiting", "return"}
                 /\ spc' \in {"check", "waiting", "return"}
  BY <1>4, <1>9 DEF Turn, InTurn
<1> QED
  BY <1>6, <1>7, <1>8, <1>9
  DEF ServerStep, MainStep, ReceiverStep, BeginRound, SkipModule, EnterTurn,
      ClearAck, SendFails, CheckAck, AckTimeout, EndRound, Stop, Join,
      ReceiveAck, ReceiveState, ReceiveExit, PeerClosed, WakeOnLoss,
      NotifyLost, WakeMain, serverVars

\* A step of a module starts or finishes its work, if it changes that at all.
LEMMA ClientRefines ==
  ASSUME TypeOK, LockStepInv', ClientStep, UNCHANGED serverVars
  PROVE  [LS!Next]_(LS!lockStepVars)
<1>1. PICK n \in Modules :
        \/ ModuleStep(n) \/ ClientReceiverStep(n) \/ Spurious(n)
        \/ Abort(n) \/ Crash(n)
  BY DEF ClientStep
<1>2. Turn' = Turn
  BY DEF Turn, serverVars, InTurn
<1>3. ASSUME NEW m \in Modules, m # n PROVE Busy(m)' <=> Busy(m)
  BY <1>1, <1>3, OwnSteps DEF Busy
<1>4. ~Spurious(n) => StrictSet' = StrictSet
  <2> SUFFICES ASSUME ~Spurious(n), NEW m \in Modules
               PROVE  Strict(m)' <=> Strict(m)
    BY DEF StrictSet
  <2> QED
    BY <1>1, OutOfStep
<1>5. CASE Spurious(n)
  <2>1. ~Strict(n)' /\ Busy(n)'
    BY <1>1, <1>5, OutOfStep DEF Spurious, Busy, TypeOK, ClientTypeOK, Strict
  <2>2. ASSUME NEW m \in Modules, m # n
        PROVE  (Strict(m)' <=> Strict(m)) /\ (Busy(m)' <=> Busy(m))
    BY <1>1, <2>2, OutOfStep, OwnSteps DEF Busy
  <2>3. WorkingSet' = WorkingSet \cup {n} /\ StrictSet' = StrictSet \ {n}
    BY <2>1, <2>2 DEF WorkingSet, StrictSet
  <2> QED
    BY <1>2, <2>3 DEF LS!Next, LS!Start, LS!Modules, Modules, Turn, WorkingSet,
                      StrictSet
<1>6. CASE ~Spurious(n) /\ (Busy(n)' <=> Busy(n))
  <2>1. WorkingSet' = WorkingSet
    BY <1>3, <1>6 DEF WorkingSet
  <2> QED
    BY <1>2, <1>4, <1>6, <2>1 DEF LS!lockStepVars, Turn, WorkingSet, StrictSet
<1>7. CASE ~Spurious(n) /\ Busy(n) /\ ~Busy(n)'
  <2>1. WorkingSet' = WorkingSet \ {n}
    BY <1>3, <1>7 DEF WorkingSet
  <2> QED
    BY <1>2, <1>4, <1>7, <2>1 DEF LS!Next, LS!Finish, LS!Modules, Modules, Turn, WorkingSet,
                      StrictSet
<1>8. CASE ~Spurious(n) /\ ~Busy(n) /\ Busy(n)'
  <2>1. WorkingSet' = WorkingSet \cup {n}
    BY <1>3, <1>8 DEF WorkingSet
  <2>2. n \in StrictSet' => InTurn(n)'
    BY <1>8 DEF LockStepInv, OnePulse, StrictSet
  <2>3. n \in StrictSet => Turn = n
    BY <1>2, <1>4, <1>8, <2>2 DEF Turn, InTurn
  <2> QED
    BY <1>2, <1>4, <1>8, <2>1, <2>3 DEF LS!Next, LS!Start, LS!Modules, Modules, Turn,
                            WorkingSet, StrictSet
<1> QED
  BY <1>5, <1>6, <1>7, <1>8

\* ManagedLevel implements LockStep at the levels that confirm pulses.
THEOREM Refinement ==
  ASSUME Acked
  PROVE  Spec => RefinesLockStep
<1>1. Init => LS!Init
  <2> SUFFICES ASSUME Init PROVE LS!Init
    OBVIOUS
  <2>1. ASSUME NEW m \in Modules PROVE ~InTurn(m) /\ ~Busy(m) /\ Strict(m)
    BY DEF Init, ServerInit, ClientInit, InTurn, Busy, Strict
  <2> QED
    BY <2>1 DEF LS!Init, LS!Modules, Modules
<1>2. TypeOK /\ LockStepInv /\ LockStepInv' /\ [Next]_vars
        => [LS!Next]_(LS!lockStepVars)
  <2> SUFFICES ASSUME TypeOK, LockStepInv, LockStepInv', [Next]_vars
               PROVE  [LS!Next]_(LS!lockStepVars)
    OBVIOUS
  <2>1. CASE UNCHANGED vars
    BY <2>1 DEF vars, linkVars, serverVars, clientVars, LS!lockStepVars, InTurn,
                Busy, Strict
  <2> QED
    BY <2>1, ServerRefines, ClientRefines DEF Next
<1> QED
  BY <1>1, <1>2, TypeCorrect, PulsesInLockStep, PTL
  DEF Spec, RefinesLockStep, LS!Spec
==============================================================================
