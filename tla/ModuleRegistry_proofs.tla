------------------------- MODULE ModuleRegistry_proofs -------------------------
(***************************************************************************)
(* What ModuleRegistry keeps for any number of clients: the types of its   *)
(* variables and, if no two clients have the same name, that every module  *)
(* has one owner, that no dead module is used, and that a module is not    *)
(* deleted while its client is there.                                      *)
(***************************************************************************)
EXTENDS ModuleRegistry, TLAPS

-----------------------------------------------------------------------------
(* Sequences of messages. *)

Messages == {"request", "state", "exit", "eof"}

LEMMA AppendedMessages ==
  ASSUME NEW s \in Seq(Messages), NEW t \in Seq(Messages)
  PROVE  /\ s \o t \in Seq(Messages)
         /\ \A i \in 1..Len(s \o t) :
              \/ i \in 1..Len(s) /\ (s \o t)[i] = s[i]
              \/ \E j \in 1..Len(t) : (s \o t)[i] = t[j]
OBVIOUS

LEMMA FirstMessage ==
  ASSUME NEW s \in Seq(Messages), s # <<>>
  PROVE  /\ Head(s) = s[1] /\ 1 \in 1..Len(s)
         /\ Tail(s) \in Seq(Messages)
         /\ \A i \in 1..Len(Tail(s)) : i + 1 \in 1..Len(s) /\ Tail(s)[i] = s[i + 1]
OBVIOUS

-----------------------------------------------------------------------------
(* Types. *)

LEMMA InitType == Init => TypeOK
BY DEF Init, TypeOK

LEMMA ClientType ==
  ASSUME TypeOK, NEW c \in Clients, ClientStep(c)
  PROVE  TypeOK'
<1>1. ASSUME NEW messages \in Seq(Messages),
             NEW next \in {"connected", "waiting", "running", "gone"},
             ClientSends(c, messages, next)
      PROVE  TypeOK'
  <2>1. inbox[c] \o messages \in Seq(Messages)
    BY AppendedMessages DEF TypeOK, Messages
  <2>2. inbox' \in [Clients -> Seq(Messages)]
    BY <1>1, <2>1 DEF ClientSends, TypeOK, Messages
  <2>3. client' \in [Clients -> {"new", "connected", "waiting", "configured",
                                 "running", "gone"}]
    BY <1>1 DEF ClientSends, TypeOK
  <2> QED BY <1>1, <2>2, <2>3 DEF ClientSends, TypeOK, Messages, receiverVars,
             acceptorVars, mainVars, mapVars, Handlers, Descriptors, Desc
<1>2. /\ <<>> \in Seq(Messages) /\ <<"request">> \in Seq(Messages)
      /\ <<"state">> \in Seq(Messages) /\ <<"eof">> \in Seq(Messages)
      /\ <<"exit", "eof">> \in Seq(Messages)
      /\ <<"state", "exit", "eof">> \in Seq(Messages)
  BY DEF Messages
<1> QED BY <1>1, <1>2 DEF ClientStep, Connect, Describe, Run, Leave, Abort, Crash

LEMMA Named == \A c \in Clients : Name(c) \in Descriptors
BY DEF Name, Descriptors

LEMMA AcceptorType ==
  ASSUME TypeOK, AcceptorStep \/ Spurious
  PROVE  TypeOK'
<1> USE DEF TypeOK, clientVars, receiverVars, acceptorVars, mainVars, mapVars
<1>1. ASSUME NEW c \in Clients, Refuse(c) PROVE TypeOK'
  BY <1>1 DEF Refuse
<1>2. ASSUME NEW c \in Clients, Accept(c) PROVE TypeOK'
  BY <1>2 DEF Accept
<1>3. CASE DescriptionArrived
  BY <1>3 DEF DescriptionArrived
<1>4. CASE SetListener
  BY <1>4 DEF SetListener
<1>5. CASE CheckName
  BY <1>5 DEF CheckName
<1>6. CASE AddModule
  BY <1>6, Named DEF AddModule
<1>7. CASE Spurious
  BY <1>7 DEF Spurious
<1> QED BY <1>1, <1>2, <1>3, <1>4, <1>5, <1>6, <1>7 DEF AcceptorStep

LEMMA ReceiverType ==
  ASSUME TypeOK, NEW c \in Clients, ReceiverStep(c)
  PROVE  TypeOK'
<1> USE DEF TypeOK, clientVars, receiverVars, acceptorVars, mainVars, mapVars
<1>0. Name(c) \in Descriptors
  BY Named
<1>1. ASSUME NEW m, Reads(c, m) PROVE inbox' \in [Clients -> Seq(Messages)]
  BY <1>1, FirstMessage DEF Reads, Messages
<1>2. ASSUME NEW h \in {"state", "exit", "lost"}, Handle(c, h)
      PROVE  /\ rpc' \in [Clients -> {"off", "idle", "configure", "ended"} \cup Handlers]
             /\ op' \in [Clients -> {"state", "exit", "lost"}]
  BY <1>2 DEF Handle, Handlers
<1>3. ASSUME Return(c)
      PROVE  /\ rpc' \in [Clients -> {"off", "idle", "configure", "ended"} \cup Handlers]
             /\ held' \in [Clients -> Clients \cup {Null}]
  BY <1>3 DEF Return
<1>4. ASSUME NEW map \in [Descriptors -> Clients \cup {Null, Absent}]
      PROVE  Lookup(map, Name(c)) \in Clients \cup {Null}
  BY <1>0 DEF Lookup
<1>5. CASE ReceiveRequest(c)
  BY <1>5, <1>1 DEF ReceiveRequest, Messages
<1>6. CASE SendConfiguration(c)
  BY <1>6 DEF SendConfiguration
<1>7. CASE SendConfigurationFails(c)
  BY <1>7, <1>2 DEF SendConfigurationFails
<1>8. CASE Receive(c)
  <2> PICK m \in {"state", "exit", "eof"} :
             Reads(c, m) /\ Handle(c, IF m = "eof" THEN "lost" ELSE m)
    BY <1>8 DEF Receive
  <2>1. inbox' \in [Clients -> Seq(Messages)]
    BY <1>1
  <2>2. (IF m = "eof" THEN "lost" ELSE m) \in {"state", "exit", "lost"}
    OBVIOUS
  <2>3. /\ rpc' \in [Clients -> {"off", "idle", "configure", "ended"} \cup Handlers]
        /\ op' \in [Clients -> {"state", "exit", "lost"}]
    BY <1>2, <2>2
  <2> QED BY <1>8, <2>1, <2>3 DEF Receive, Messages
<1>9. CASE HasModule(c)
  <2>1. /\ rpc' \in [Clients -> {"off", "idle", "configure", "ended"} \cup Handlers]
        /\ held' \in [Clients -> Clients \cup {Null}]
    <3>1. CASE Return(c)
      BY <1>3, <3>1
    <3>2. CASE ~Return(c)
      BY <1>9, <3>2 DEF HasModule, Handlers
    <3> QED BY <3>1, <3>2
  <2> QED BY <1>9, <2>1 DEF HasModule
<1>10. CASE GetModule(c)
  <2>1. Lookup(modules, Name(c)) \in Clients \cup {Null}
    BY <1>4
  <2>2. held' \in [Clients -> Clients \cup {Null}]
    BY <1>10, <2>1 DEF GetModule
  <2>3. modules' \in [Descriptors -> Clients \cup {Null, Absent}]
    BY <1>10, <2>1 DEF GetModule
  <2>4. rpc' \in [Clients -> {"off", "idle", "configure", "ended"} \cup Handlers]
    BY <1>10 DEF GetModule, Handlers
  <2> QED BY <1>10, <2>2, <2>3, <2>4 DEF GetModule
<1>11. CASE UseModule(c)
  BY <1>11, <1>3 DEF UseModule
<1>12. CASE RemoveModule(c)
  BY <1>12, <1>0 DEF RemoveModule, Handlers
<1>13. CASE AddShutdown(c)
  BY <1>13, <1>0, <1>3 DEF AddShutdown
<1>14. CASE HasShutdown(c)
  <2>1. /\ rpc' \in [Clients -> {"off", "idle", "configure", "ended"} \cup Handlers]
        /\ held' \in [Clients -> Clients \cup {Null}]
    <3>1. CASE Return(c)
      BY <1>3, <3>1
    <3>2. CASE ~Return(c)
      BY <1>14, <3>2 DEF HasShutdown, Handlers
    <3> QED BY <3>1, <3>2
  <2> QED BY <1>14, <2>1 DEF HasShutdown
<1>15. CASE GetShutdown(c)
  <2>1. Lookup(shutdown, Name(c)) \in Clients \cup {Null}
    BY <1>4
  <2>2. held' \in [Clients -> Clients \cup {Null}]
    BY <1>15, <2>1 DEF GetShutdown
  <2>3. shutdown' \in [Descriptors -> Clients \cup {Null, Absent}]
    BY <1>15, <2>1 DEF GetShutdown
  <2>4. rpc' \in [Clients -> {"off", "idle", "configure", "ended"} \cup Handlers]
    BY <1>15 DEF GetShutdown, Handlers
  <2> QED BY <1>15, <2>2, <2>3, <2>4 DEF GetShutdown
<1> QED BY <1>5, <1>6, <1>7, <1>8, <1>9, <1>10, <1>11, <1>12, <1>13, <1>14, <1>15
        DEF ReceiverStep

LEMMA MainType ==
  ASSUME TypeOK, MainStep \/ Stop
  PROVE  TypeOK'
<1> USE DEF TypeOK, clientVars, receiverVars, acceptorVars, mainVars, mapVars
<1>1. CASE SetHandler
  BY <1>1 DEF SetHandler
<1>2. CASE StartSweep
  BY <1>2 DEF StartSweep, Entries
<1>3. ASSUME NEW d \in Descriptors, ClearListener(d) PROVE TypeOK'
  BY <1>3 DEF ClearListener
<1>4. CASE DeleteModule
  <2>1. inbox' \in [Clients -> Seq(Messages)]
    BY <1>4 DEF DeleteModule, Messages
  <2> QED BY <1>4, <2>1 DEF DeleteModule, Messages
<1>5. CASE EndSweep
  BY <1>5 DEF EndSweep
<1>6. CASE EndRound
  BY <1>6 DEF EndRound
<1>7. CASE Stop
  BY <1>7 DEF Stop
<1>8. CASE JoinAcceptor
  BY <1>8 DEF JoinAcceptor, Entries
<1> QED BY <1>1, <1>2, <1>3, <1>4, <1>5, <1>6, <1>7, <1>8 DEF MainStep

\* Every variable keeps its type, for any number of clients, twins or not.
THEOREM RegistryTypes == Spec => []TypeOK
<1>1. TypeOK /\ [Next]_vars => TypeOK'
  <2> SUFFICES ASSUME TypeOK, [Next]_vars PROVE TypeOK'
    OBVIOUS
  <2>1. CASE UNCHANGED vars
    BY <2>1 DEF vars, TypeOK, clientVars, receiverVars, acceptorVars, mainVars,
                mapVars
  <2> QED BY <2>1, ClientType, ReceiverType, AcceptorType, MainType DEF Next
<1> QED BY <1>1, InitType, PTL DEF Spec

-----------------------------------------------------------------------------
(* The inductive invariant, for modules with different names.                *)

LEMMA OwnNames ==
  ASSUME Distinct
  PROVE  /\ Descriptors = Clients \cup {Blank} /\ Blank \notin Clients
         /\ \A c \in Clients :
              /\ Desc(c) = c /\ c # Null /\ c # Absent
              /\ Name(c) \in {c, Blank} /\ (c \in described => Name(c) = c)
<1>1. \A c \in Clients : Desc(c) = c
  BY DEF Distinct, Desc
<1>2. Descriptors = Clients \cup {Blank}
  BY <1>1 DEF Descriptors
<1>3. Blank \notin Clients /\ \A c \in Clients : c # Null /\ c # Absent
  BY ClientsAssumption DEF Null, Absent, Blank
<1> QED BY <1>1, <1>2, <1>3 DEF Name

\* Everything RegistryInv says of a module but GoneInv.
PlaceInv(c) ==
  HandlerInv(c) /\ EntryInv(c) /\ FreshInv(c) /\ DeletedInv(c) /\ SweepInv(c)

\* What the steps of the proof start from: the invariant of one module.
Kept(c) ==
  /\ c \notin unnamed
  /\ Sweeps("modules") => apc = "ended"
  /\ PlaceInv(c) /\ GoneInv(c)

LEMMA InitRegistry ==
  ASSUME Distinct, Init
  PROVE  RegistryInv
<1> USE OwnNames DEF Init
<1>1. ASSUME NEW c \in Clients PROVE HandlerInv(c) /\ EntryInv(c) /\ GoneInv(c)
  BY DEF HandlerInv, EntryInv, GoneInv, In, InHandler, Handlers, Registering, Dying, Absent
<1>2. ASSUME NEW c \in Clients PROVE FreshInv(c) /\ DeletedInv(c) /\ SweepInv(c)
  BY DEF FreshInv, DeletedInv, SweepInv, In, Registering, Accepting, Dying, Swept
<1> QED BY <1>1, <1>2 DEF RegistryInv, Steady, Sweeps

LEMMA AcceptorPlaces ==
  ASSUME Distinct, TypeOK, AcceptorStep \/ Spurious, NEW x \in Clients, Kept(x),
         x \notin unnamed'
  PROVE  PlaceInv(x)'
<1> USE DEF Kept, PlaceInv, HandlerInv, EntryInv, FreshInv, DeletedInv, SweepInv,
        In, InHandler, Handlers, Registering, Accepting, Dying, Sweeps, Swept,
        clientVars, receiverVars, acceptorVars, mainVars, mapVars
<1> USE OwnNames DEF TypeOK
<1>1. ASSUME NEW c \in Clients, Refuse(c) PROVE PlaceInv(x)'
  BY <1>1 DEF Refuse
<1>2. ASSUME NEW c \in Clients, Accept(c) PROVE PlaceInv(x)'
  BY <1>2 DEF Accept
<1>3. CASE DescriptionArrived
  BY <1>3 DEF DescriptionArrived
<1>4. CASE SetListener
  BY <1>4 DEF SetListener
<1>5. CASE CheckName
  BY <1>5 DEF CheckName, ModulesFree
<1>6. CASE AddModule
  BY <1>6 DEF AddModule, ModulesFree
<1>7. CASE Spurious /\ x \notin unnamed'
  BY <1>7 DEF Spurious
<1> QED BY <1>1, <1>2, <1>3, <1>4, <1>5, <1>6, <1>7 DEF AcceptorStep

LEMMA ReceiverPlaces ==
  ASSUME Distinct, TypeOK, NEW c \in Clients, ReceiverStep(c),
         NEW x \in Clients, Kept(x)
  PROVE  PlaceInv(x)'
<1> USE DEF Kept, PlaceInv, HandlerInv, EntryInv, FreshInv, DeletedInv, SweepInv,
        In, InHandler, Handlers, Registering, Accepting, Dying, Sweeps, Swept,
        clientVars, receiverVars, acceptorVars, mainVars, mapVars
<1> USE OwnNames DEF TypeOK
<1>1. CASE ReceiveRequest(c)
  BY <1>1 DEF ReceiveRequest, Reads
<1>2. CASE SendConfiguration(c)
  BY <1>2 DEF SendConfiguration
<1>3. CASE SendConfigurationFails(c)
  BY <1>3 DEF SendConfigurationFails, Handle
<1>4. CASE Receive(c)
  BY <1>4 DEF Receive, Reads, Handle
<1>5. CASE HasModule(c)
  BY <1>5 DEF HasModule, Return
<1>6. CASE GetModule(c)
  BY <1>6 DEF GetModule, Lookup
<1>7. CASE UseModule(c)
  BY <1>7 DEF UseModule, Return
<1>8. CASE RemoveModule(c)
  BY <1>8 DEF RemoveModule, ModulesFree
<1>9. CASE AddShutdown(c)
  BY <1>9 DEF AddShutdown, Return, ShutdownFree
<1>10. CASE HasShutdown(c)
  BY <1>10 DEF HasShutdown, Return
<1>11. CASE GetShutdown(c)
  BY <1>11 DEF GetShutdown, Lookup
<1> QED BY <1>1, <1>2, <1>3, <1>4, <1>5, <1>6, <1>7, <1>8, <1>9, <1>10, <1>11
        DEF ReceiverStep

LEMMA MainPlaces ==
  ASSUME Distinct, TypeOK, MainStep \/ Stop, NEW x \in Clients, Kept(x)
  PROVE  PlaceInv(x)'
<1> USE DEF Kept, PlaceInv, HandlerInv, EntryInv, FreshInv, DeletedInv, SweepInv,
        In, InHandler, Handlers, Registering, Accepting, Dying, Sweeps, Swept,
        clientVars, receiverVars, acceptorVars, mainVars, mapVars
<1> USE OwnNames DEF TypeOK
<1>1. CASE SetHandler
  BY <1>1 DEF SetHandler
<1>2. CASE StartSweep
  BY <1>2 DEF StartSweep, Entries
<1>3. ASSUME NEW d \in Descriptors, ClearListener(d) PROVE PlaceInv(x)'
  BY <1>3 DEF ClearListener
<1>4. CASE DeleteModule
  BY <1>4 DEF DeleteModule
<1>5. CASE EndSweep
  BY <1>5 DEF EndSweep
<1>6. CASE EndRound
  BY <1>6 DEF EndRound
<1>7. CASE Stop
  BY <1>7 DEF Stop
<1>8. CASE JoinAcceptor
  BY <1>8 DEF JoinAcceptor, Entries
<1> QED BY <1>1, <1>2, <1>3, <1>4, <1>5, <1>6, <1>7, <1>8 DEF MainStep

LEMMA ClientPlaces ==
  ASSUME TypeOK, NEW c \in Clients, ClientStep(c), NEW x \in Clients, Kept(x)
  PROVE  PlaceInv(x)'
<1>1. UNCHANGED <<receiverVars, listening, acceptorVars, mainVars, mapVars>>
  BY DEF ClientStep, Connect, Describe, Run, Leave, Abort, Crash, ClientSends
<1> QED BY <1>1 DEF Kept, PlaceInv, HandlerInv, EntryInv, FreshInv,
        DeletedInv, SweepInv, In, InHandler, Handlers, Registering, Accepting,
        Dying, Sweeps, Swept, receiverVars, acceptorVars, mainVars, mapVars

-----------------------------------------------------------------------------
(* What tells that a client has gone. *)

\* The exit code and the end of the stream are sent last.
EndInv(c) ==
  \A i \in 1..Len(inbox[c]) : inbox[c][i] \in {"exit", "eof"} => client[c] = "gone"

LEMMA ClientGone ==
  ASSUME TypeOK, NEW c \in Clients, ClientStep(c), NEW x \in Clients, Kept(x)
  PROVE  GoneInv(x)'
<1>1. UNCHANGED <<receiverVars, listening, acceptorVars, mainVars, mapVars>>
  BY DEF ClientStep, Connect, Describe, Run, Leave, Abort, Crash, ClientSends
<1>2. client[x] = "gone" => client'[x] = "gone"
  BY DEF ClientStep, Connect, Describe, Run, Leave, Abort, Crash, ClientSends, TypeOK
<1>3. EndInv(x)'
  <2>1. ASSUME NEW messages \in Seq(Messages), NEW next,
               ClientSends(c, messages, next), client[c] # "gone",
               (\A j \in 1..Len(messages) : messages[j] \notin {"exit", "eof"})
                 \/ next = "gone"
        PROVE  EndInv(x)'
    <3>1. CASE x # c
      BY <1>2, <2>1, <3>1 DEF ClientSends, EndInv, TypeOK, Kept, GoneInv
    <3>2. CASE x = c /\ next = "gone"
      BY <2>1, <3>2 DEF ClientSends, EndInv, TypeOK
    <3>3. CASE x = c /\ next # "gone"
      <4>1. \A i \in 1..Len(inbox[c]) : inbox[c][i] \notin {"exit", "eof"}
        BY <2>1, <3>3 DEF Kept, GoneInv
      <4>2. \A i \in 1..Len(inbox[c] \o messages) :
              (inbox[c] \o messages)[i] \notin {"exit", "eof"}
        <5>1. inbox[c] \in Seq(Messages)
          BY DEF TypeOK, Messages
        <5>2. \A i \in 1..Len(inbox[c] \o messages) :
                \/ i \in 1..Len(inbox[c]) /\ (inbox[c] \o messages)[i] = inbox[c][i]
                \/ \E j \in 1..Len(messages) :
                     (inbox[c] \o messages)[i] = messages[j]
          BY <2>1, <5>1, AppendedMessages
        <5>3. \A j \in 1..Len(messages) : messages[j] \notin {"exit", "eof"}
          BY <2>1, <3>3
        <5> QED BY <4>1, <5>2, <5>3
      <4>3. inbox'[c] \in {inbox[c], inbox[c] \o messages}
        BY <2>1 DEF ClientSends, TypeOK
      <4> QED BY <3>3, <4>1, <4>2, <4>3 DEF EndInv
    <3> QED BY <3>1, <3>2, <3>3
  <2>2. ASSUME NEW m \in {"request", "state"}
        PROVE  <<m>> \in Seq(Messages) /\ \A j \in 1..Len(<<m>>) : <<m>>[j] \notin {"exit", "eof"}
    BY DEF Messages
  <2>3. /\ <<>> \in Seq(Messages) /\ <<"eof">> \in Seq(Messages)
        /\ <<"exit", "eof">> \in Seq(Messages)
        /\ <<"state", "exit", "eof">> \in Seq(Messages)
    BY DEF Messages
  <2>4. \A j \in 1..Len(<<>>) : <<>>[j] \notin {"exit", "eof"}
    OBVIOUS
  <2> QED BY <2>1, <2>2, <2>3, <2>4 DEF ClientStep, Connect, Describe, Run, Leave, Abort, Crash
<1> QED BY <1>1, <1>2, <1>3 DEF Kept, PlaceInv, GoneInv, EndInv, In, InHandler,
        receiverVars, acceptorVars, mainVars, mapVars

LEMMA AcceptorGone ==
  ASSUME Distinct, TypeOK, AcceptorStep \/ Spurious, NEW x \in Clients, Kept(x)
  PROVE  GoneInv(x)'
<1> USE DEF Kept, PlaceInv, GoneInv, In, InHandler, Handlers, clientVars, receiverVars,
            acceptorVars, mainVars, mapVars, TypeOK
<1>1. ASSUME NEW c \in Clients, Refuse(c) PROVE GoneInv(x)'
  BY <1>1 DEF Refuse
<1>2. ASSUME NEW c \in Clients, Accept(c) PROVE GoneInv(x)'
  BY <1>2 DEF Accept
<1>3. CASE DescriptionArrived \/ SetListener \/ CheckName \/ AddModule \/ Spurious
  BY <1>3 DEF DescriptionArrived, SetListener, CheckName, AddModule, Spurious
<1> QED BY <1>1, <1>2, <1>3 DEF AcceptorStep

LEMMA ReceiverGone ==
  ASSUME Distinct, TypeOK, NEW c \in Clients, ReceiverStep(c),
         NEW x \in Clients, Kept(x)
  PROVE  GoneInv(x)'
<1>1. client[x] = "gone" => client'[x] = "gone"
  BY DEF ReceiverStep, ReceiveRequest, SendConfiguration, SendConfigurationFails,
     Receive, HasModule, GetModule, UseModule, RemoveModule, AddShutdown, HasShutdown,
     GetShutdown, clientVars, TypeOK
<1>2. ASSUME NEW m, Reads(c, m)
      PROVE  /\ EndInv(x) /\ UNCHANGED client => EndInv(x)'
             /\ c = x /\ m \in {"exit", "eof"} => client[c] = "gone"
  <2>1. inbox[c] \in Seq(Messages) /\ inbox[c] # <<>> /\ m = inbox[c][1]
        /\ 1 \in 1..Len(inbox[c]) /\ inbox' = [inbox EXCEPT ![c] = Tail(inbox[c])]
    BY <1>2, FirstMessage DEF Reads, TypeOK, Messages
  <2>2. \A i \in 1..Len(Tail(inbox[c])) :
          i + 1 \in 1..Len(inbox[c]) /\ Tail(inbox[c])[i] = inbox[c][i + 1]
    BY <2>1, FirstMessage
  <2>3. EndInv(x) /\ UNCHANGED client => EndInv(x)'
    BY <2>1, <2>2 DEF EndInv, TypeOK
  <2> QED BY <2>1, <2>3 DEF Kept, PlaceInv, GoneInv
<1>3. EndInv(x)
  BY DEF EndInv, Kept, PlaceInv, GoneInv
<1>4. EndInv(x)'
  <2>1. CASE UNCHANGED inbox
    BY <1>1, <1>3, <2>1 DEF EndInv
  <2>2. CASE ReceiveRequest(c)
    BY <1>2, <1>3, <2>2 DEF ReceiveRequest
  <2>3. CASE Receive(c)
    BY <1>2, <1>3, <2>3 DEF Receive
  <2> QED BY <2>1, <2>2, <2>3 DEF ReceiverStep, SendConfiguration,
          SendConfigurationFails, HasModule, GetModule, UseModule, RemoveModule,
          AddShutdown, HasShutdown, GetShutdown, clientVars
<1>5. /\ InHandler(x)' /\ op'[x] # "state" => client'[x] = "gone"
      /\ In(shutdown, x)' => client'[x] = "gone"
  <2> USE OwnNames DEF Kept, PlaceInv, HandlerInv, EntryInv, GoneInv, In, InHandler,
          Handlers, clientVars, receiverVars, acceptorVars, mainVars, mapVars, TypeOK
  <2>1. CASE ReceiveRequest(c) \/ SendConfiguration(c)
    BY <1>1, <2>1 DEF ReceiveRequest, SendConfiguration
  <2>2. CASE SendConfigurationFails(c)
    <3>1. CASE x = c
      BY <2>2, <3>1 DEF SendConfigurationFails
    <3>2. CASE x # c
      <4>1. rpc'[x] = rpc[x] /\ op'[x] = op[x]
        BY <2>2, <3>2 DEF SendConfigurationFails, Handle
      <4> QED BY <2>2, <4>1 DEF SendConfigurationFails
    <3> QED BY <3>1, <3>2
  <2>3. CASE Receive(c)
    <3> PICK m \in {"state", "exit", "eof"} :
               Reads(c, m) /\ Handle(c, IF m = "eof" THEN "lost" ELSE m)
      BY <2>3 DEF Receive
    <3> QED BY <1>2, <2>3 DEF Receive, Handle
  <2>4. CASE HasModule(c) \/ UseModule(c) \/ HasShutdown(c)
    BY <2>4 DEF HasModule, UseModule, HasShutdown, Return
  <2>5. CASE GetModule(c) \/ RemoveModule(c)
    BY <2>5 DEF GetModule, RemoveModule
  <2>6. CASE AddShutdown(c)
    BY <2>6 DEF AddShutdown, Return
  <2>7. CASE GetShutdown(c)
    BY <2>7 DEF GetShutdown, Lookup
  <2> QED BY <2>1, <2>2, <2>3, <2>4, <2>5, <2>6, <2>7 DEF ReceiverStep
<1> QED BY <1>4, <1>5 DEF EndInv, GoneInv

LEMMA MainGone ==
  ASSUME Distinct, TypeOK, MainStep \/ Stop, NEW x \in Clients, Kept(x)
  PROVE  GoneInv(x)'
<1> USE OwnNames DEF Kept, PlaceInv, GoneInv, In, InHandler, Handlers, clientVars,
        receiverVars, acceptorVars, mainVars, mapVars, TypeOK
<1>1. CASE DeleteModule
  BY <1>1 DEF DeleteModule
<1>2. CASE EndSweep
  BY <1>2 DEF EndSweep
<1>3. CASE SetHandler \/ StartSweep \/ EndRound \/ Stop \/ JoinAcceptor
  BY <1>3 DEF SetHandler, StartSweep, EndRound, Stop, JoinAcceptor
<1>4. ASSUME NEW d \in Descriptors, ClearListener(d) PROVE GoneInv(x)'
  BY <1>4 DEF ClearListener
<1> QED BY <1>1, <1>2, <1>3, <1>4 DEF MainStep

-----------------------------------------------------------------------------
(* The theorems. *)

\* Modules are swept at the end only: the sweep of m_modules follows the join.
LEMMA SweepsAtEnd ==
  ASSUME TypeOK, RegistryInv, [Next]_vars
  PROVE  (Sweeps("modules") => apc = "ended")'
<1> USE DEF RegistryInv, Sweeps, TypeOK, clientVars, receiverVars, acceptorVars,
            mainVars, mapVars
<1>1. CASE UNCHANGED vars
  BY <1>1 DEF vars
<1>2. ASSUME NEW c \in Clients, ClientStep(c) PROVE (Sweeps("modules") => apc = "ended")'
  BY <1>2 DEF ClientStep, Connect, Describe, Run, Leave, Abort, Crash, ClientSends
<1>3. ASSUME NEW c \in Clients, ReceiverStep(c) PROVE (Sweeps("modules") => apc = "ended")'
  BY <1>3 DEF ReceiverStep, ReceiveRequest, SendConfiguration, SendConfigurationFails,
     Receive, HasModule, GetModule, UseModule, RemoveModule, AddShutdown, HasShutdown,
     GetShutdown
<1>4. CASE AcceptorStep \/ Spurious
  BY <1>4 DEF AcceptorStep, Refuse, Accept, DescriptionArrived, SetListener, CheckName,
     AddModule, Spurious
<1>5. CASE MainStep \/ Stop
  BY <1>5 DEF MainStep, Stop, SetHandler, StartSweep, ClearListener, DeleteModule,
     EndSweep, EndRound, JoinAcceptor
<1> QED BY <1>1, <1>2, <1>3, <1>4, <1>5 DEF Next

LEMMA UnnamedStay ==
  ASSUME [Next]_vars
  PROVE  unnamed \subseteq unnamed'
<1> USE DEF acceptorVars
<1>1. ASSUME NEW c \in Clients, ClientStep(c) \/ ReceiverStep(c)
      PROVE  unnamed \subseteq unnamed'
  BY <1>1 DEF ClientStep, Connect, Describe, Run, Leave, Abort, Crash, ClientSends,
     ReceiverStep, ReceiveRequest, SendConfiguration, SendConfigurationFails, Receive,
     HasModule, GetModule, UseModule, RemoveModule, AddShutdown, HasShutdown, GetShutdown
<1>2. CASE AcceptorStep \/ Spurious
  BY <1>2 DEF AcceptorStep, Refuse, Accept, DescriptionArrived, SetListener, CheckName,
     AddModule, Spurious
<1>3. CASE MainStep \/ Stop
  BY <1>3 DEF MainStep, Stop, SetHandler, StartSweep, ClearListener, DeleteModule,
     EndSweep, EndRound, JoinAcceptor
<1>4. CASE UNCHANGED vars
  BY <1>4 DEF vars
<1> QED BY <1>1, <1>2, <1>3, <1>4 DEF Next

\* The inductive invariant, for any number of clients with different names.
THEOREM RegistryKept ==
  ASSUME Distinct
  PROVE  Spec => []RegistryInv
<1>1. TypeOK /\ RegistryInv /\ [Next]_vars => RegistryInv'
  <2> SUFFICES ASSUME TypeOK, RegistryInv, [Next]_vars PROVE RegistryInv'
    OBVIOUS
  <2>1. ASSUME NEW x \in Clients, x \notin unnamed' PROVE (PlaceInv(x) /\ GoneInv(x))'
    <3>0. x \notin unnamed
      BY <2>1, UnnamedStay
    <3>6. Kept(x)
      BY <3>0 DEF RegistryInv, PlaceInv, Kept, Steady
    <3>1. CASE UNCHANGED vars
      BY <3>1, <3>6 DEF vars, Kept, PlaceInv, HandlerInv, EntryInv, FreshInv,
         DeletedInv, SweepInv, GoneInv, In, InHandler, Registering, Accepting, Dying,
         Sweeps, Swept, clientVars, receiverVars, acceptorVars, mainVars, mapVars
    <3>2. CASE \E c \in Clients : ClientStep(c)
      BY <3>2, <3>6, ClientPlaces, ClientGone
    <3>3. CASE \E c \in Clients : ReceiverStep(c)
      BY <3>3, <3>6, ReceiverPlaces, ReceiverGone
    <3>4. CASE AcceptorStep \/ Spurious
      BY <2>1, <3>4, <3>6, AcceptorPlaces, AcceptorGone
    <3>5. CASE MainStep \/ Stop
      BY <3>5, <3>6, MainPlaces, MainGone
    <3> QED BY <3>1, <3>2, <3>3, <3>4, <3>5 DEF Next
  <2> QED BY <2>1, SweepsAtEnd DEF RegistryInv, PlaceInv, Steady
<1> QED BY <1>1, InitRegistry, RegistryTypes, PTL DEF Spec

\* A module is in one place, from when it is entered to when it is deleted.
THEOREM OneOwnerKept ==
  ASSUME Distinct
  PROVE  Spec => []OneOwner
<1>1. TypeOK /\ RegistryInv => OneOwner
  <2> SUFFICES ASSUME TypeOK, NEW c \in Clients, Kept(c)
               PROVE  /\ Owners(c) # {} <=> Created(c)
                      /\ \A p, q \in Owners(c) : p = q
    BY DEF OneOwner, RegistryInv, Kept, PlaceInv, Steady
  <2> USE OwnNames DEF Kept, PlaceInv, HandlerInv, EntryInv, FreshInv, DeletedInv,
          SweepInv, In, InHandler, Handlers, Registering, Accepting, Dying, Sweeps,
          Swept, Owners, TypeOK
  <2>1. Owners(c) # {} => Created(c)
    BY DEF Created
  <2>2. Created(c) => Owners(c) # {}
    BY DEF Created
  <2>3. \A p, q \in Owners(c) : p = q
    OBVIOUS
  <2> QED BY <2>1, <2>2, <2>3
<1> QED BY <1>1, RegistryKept, RegistryTypes, PTL

\* No handler and no loop over the maps meets a deleted module or a null pointer.
THEOREM DeadModulesUnused ==
  ASSUME Distinct
  PROVE  Spec => []NoDeadModuleUsed
<1>1. TypeOK /\ RegistryInv => NoDeadModuleUsed
  <2> SUFFICES ASSUME TypeOK, NEW c \in Clients, Kept(c)
               PROVE  /\ rpc[c] \in {"use", "remove", "add"} => held[c] \in Clients \ deleted
                      /\ modules[c] # Null /\ shutdown[c] # Null
                      /\ modules[c] \in deleted => Sweeps("modules")
                      /\ shutdown[c] \in deleted => Sweeps("shutdown")
    BY OwnNames DEF NoDeadModuleUsed, RegistryInv, Kept, PlaceInv, Steady
  <2> QED BY OwnNames DEF Kept, PlaceInv, HandlerInv, EntryInv, DeletedInv, In, InHandler,
          Handlers, TypeOK, Null, Absent
<1> QED BY <1>1, RegistryKept, RegistryTypes, PTL

\* While supercomponent runs, the module of a client that is there is not deleted.
THEOREM LiveModulesKept ==
  ASSUME Distinct
  PROVE  Spec => LiveModulesStay
<1>1. TypeOK /\ RegistryInv /\ [Next]_vars =>
        [\A c \in Steady \cap (deleted' \ deleted) :
           client[c] = "gone" \/ apc = "ended"]_vars
  <2> SUFFICES ASSUME TypeOK, Next, NEW c \in deleted' \ deleted, c \in Clients, Kept(c)
               PROVE  client[c] = "gone" \/ apc = "ended"
    BY DEF RegistryInv, Kept, PlaceInv, Steady
  <2>1. DeleteModule /\ c = dying
    <3>1. ASSUME NEW k \in Clients, ClientStep(k) PROVE UNCHANGED deleted
      BY <3>1 DEF ClientStep, Connect, Describe, Run, Leave, Abort, Crash, ClientSends,
         mainVars
    <3>2. ASSUME NEW k \in Clients, ReceiverStep(k) PROVE UNCHANGED deleted
      BY <3>2 DEF ReceiverStep, ReceiveRequest, SendConfiguration,
         SendConfigurationFails, Receive, HasModule, GetModule, UseModule, RemoveModule,
         AddShutdown, HasShutdown, GetShutdown, mainVars
    <3>3. AcceptorStep \/ Spurious => UNCHANGED deleted
      BY DEF Spurious, AcceptorStep, Refuse, Accept, DescriptionArrived, SetListener, CheckName,
         AddModule, mainVars
    <3>4. MainStep \/ Stop => UNCHANGED deleted \/ DeleteModule
      BY DEF MainStep, Stop, SetHandler, StartSweep, ClearListener, EndSweep, EndRound,
         JoinAcceptor
    <3>5. DeleteModule
      BY <3>1, <3>2, <3>3, <3>4 DEF Next
    <3> QED BY <3>5 DEF DeleteModule
  <2>2. Dying(c)
    BY <2>1 DEF DeleteModule, Dying, TypeOK
  <2>3. CASE table = "modules"
    BY <2>2, <2>3 DEF Kept, Sweeps, Dying
  <2>4. CASE table = "shutdown"
    BY <2>2, <2>4 DEF Kept, PlaceInv, SweepInv, GoneInv, Swept
  <2> QED BY <2>3, <2>4 DEF TypeOK
<1> QED BY <1>1, RegistryKept, RegistryTypes, PTL DEF Spec, LiveModulesStay
================================================================================
