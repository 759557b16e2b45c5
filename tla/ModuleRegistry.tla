---------------------------- MODULE ModuleRegistry ----------------------------
(***************************************************************************)
(* How supercomponent keeps account of its client modules.  Three kinds of *)
(* threads share two maps of modules, m_modules and m_shutdownModules:     *)
(*   - the acceptor enters a module once it has described itself;          *)
(*   - the receiver of its connection moves it to m_shutdownModules;       *)
(*   - the main thread deletes what it finds there in every cycle, and     *)
(*     everything when it stops.                                           *)
(* Each map has a mutex, locked for a single look up or change, but by the *)
(* main thread for a whole round or a whole sweep.  Each connection has a  *)
(* mutex for its state listener, which its receiver holds while a handler  *)
(* runs.  A step is what a thread does from one of these locks to the next.*)
(*                                                                         *)
(* What is inside a round (the sending of pulses, and what happens when it *)
(* fails) is the subject of PulseServer.                                   *)
(***************************************************************************)
EXTENDS Integers, Sequences

CONSTANTS
  Clients,  \* the client processes that may connect, each of them once
  Twins,    \* those that describe themselves alike (same name, same --id)
  Silent,   \* those that may leave, or hang, before they have described themselves
  Unsteady  \* those for whose description the wait may end without a signal

ASSUME ClientsAssumption ==
  /\ Clients \subseteq Nat \ {0}
  /\ Twins \subseteq Clients
  /\ Silent \subseteq Clients
  /\ Unsteady \subseteq Clients

VARIABLES
  client,    \* per client: how far its process has got
  inbox,     \* per client: messages supercomponent has not read from its socket
  rpc,       \* per connection: where the receiver thread is
  op,        \* per connection: the handler that runs
  held,      \* per connection: the ConnectedModule* the handler has looked up
  described, \* connections with m_hasDescriptor set
  listening, \* connections whose m_stateListener is set
  apc, cur,  \* where the acceptor thread is, and the connection it works on
  mpc,       \* where the main thread is
  table,     \* the map the main thread sweeps
  left,      \* the entries it has not deleted yet in this sweep
  dying,     \* the connection it is deleting
  modules,   \* m_modules
  shutdown,  \* m_shutdownModules
  deleted,   \* the ConnectedModule objects that have been deleted
  unnamed    \* history: connections whose wait has ended without a signal

clientVars   == <<client, inbox>>
receiverVars == <<rpc, op, held, described>>
acceptorVars == <<apc, cur, unnamed>>
mainVars     == <<mpc, table, left, dying, deleted>>
mapVars      == <<modules, shutdown>>
vars == <<clientVars, receiverVars, listening, acceptorVars, mainVars, mapVars>>

\* A ConnectedModule is named after the client it was created for.
Null   == 0    \* a null pointer
Absent == -1   \* the map has no such entry
Blank  == -2   \* the name of a module that has not described itself

\* Mutant of Desc: the map's comparator does not look at the identifier.
NameOnly(c) == 0

\* ModuleDescriptor: twins share one.
Desc(c) == IF c \in Twins THEN 0 ELSE c
Descriptors == {Desc(c) : c \in Clients} \cup {Blank}

\* m_descriptor of its connection, at the time it is read.
Name(c) == IF c \in described THEN Desc(c) ELSE Blank

Handlers == {"has", "get", "use", "remove", "add", "shuthas", "shutget"}

TypeOK ==
  /\ client \in [Clients -> {"new", "connected", "waiting", "configured",
                             "running", "gone"}]
  /\ inbox \in [Clients -> Seq({"request", "state", "exit", "eof"})]
  /\ rpc \in [Clients -> {"off", "idle", "configure", "ended"} \cup Handlers]
  /\ op \in [Clients -> {"state", "exit", "lost"}]
  /\ held \in [Clients -> Clients \cup {Null}]
  /\ described \subseteq Clients
  /\ listening \subseteq Clients
  /\ apc \in {"idle", "wait", "listen", "has", "add", "ended"}
  /\ cur \in Clients \cup {Null}
  /\ mpc \in {"start", "cycle", "sweep", "delete", "round", "join",
              "destroy", "done"}
  /\ table \in {"modules", "shutdown"}
  /\ left \subseteq Descriptors
  /\ dying \in Clients \cup {Null}
  /\ modules \in [Descriptors -> Clients \cup {Null, Absent}]
  /\ shutdown \in [Descriptors -> Clients \cup {Null, Absent}]
  /\ deleted \subseteq Clients
  /\ unnamed \subseteq Unsteady
  /\ apc \in {"wait", "listen", "has", "add"} => cur \in Clients
  /\ mpc = "delete" => dying \in Clients

Init ==
  /\ client = [c \in Clients |-> "new"]
  /\ inbox = [c \in Clients |-> <<>>]
  /\ rpc = [c \in Clients |-> "off"]
  /\ op = [c \in Clients |-> "state"]
  /\ held = [c \in Clients |-> Null]
  /\ described = {}
  /\ listening = {}
  /\ apc = "idle"
  /\ cur = Null
  /\ mpc = "start"
  /\ table = "shutdown"
  /\ left = {}
  /\ dying = Null
  /\ modules = [d \in Descriptors |-> Absent]
  /\ shutdown = [d \in Descriptors |-> Absent]
  /\ deleted = {}
  /\ unnamed = {}

-----------------------------------------------------------------------------
(* Locks. *)

Sweeps(t) == mpc \in {"sweep", "delete"} /\ table = t

\* Mutant of ModulesFree: the methods of ConnectedModules do not lock.
Unlocked == TRUE

\* m_modulesMutex of m_modules, and of m_shutdownModules, is not held.
ModulesFree  == mpc # "round" /\ ~Sweeps("modules")
ShutdownFree == ~Sweeps("shutdown")

\* The receiver is in a handler, and so holds m_stateListenerMutex.
InHandler(c) == rpc[c] \in Handlers

-----------------------------------------------------------------------------
(* The clients, as far as supercomponent can tell. *)

ClientSends(c, messages, next) ==
  /\ client' = [client EXCEPT ![c] = next]
  /\ inbox' = [inbox EXCEPT ![c] = IF rpc[c] = "ended" THEN @ ELSE @ \o messages]
  /\ UNCHANGED <<receiverVars, listening, acceptorVars, mainVars, mapVars>>

Connect(c) ==
  /\ client[c] = "new"
  /\ apc # "ended"
  /\ ClientSends(c, <<>>, "connected")

\* Client::initialize.
Describe(c) ==
  /\ client[c] = "connected"
  /\ ClientSends(c, <<"request">>, "waiting")

Run(c) ==
  /\ client[c] = "configured"
  /\ ClientSends(c, <<"state">>, "running")

\* The module comes to its end: its state, its exit code, and the socket closes.
Leave(c) ==
  /\ client[c] = "running"
  /\ ClientSends(c, <<"state", "exit", "eof">>, "gone")

\* The module fails in setUp() or body(): no state is sent.
Abort(c) ==
  /\ client[c] \in {"configured", "running"}
  /\ ClientSends(c, <<"exit", "eof">>, "gone")

\* The process ends without a word, also after it has waited in vain for its
\* configuration.
Crash(c) ==
  /\ client[c] \notin {"new", "gone"}
  /\ client[c] = "connected" => c \in Silent
  /\ ClientSends(c, <<"eof">>, "gone")

ClientStep(c) ==
  Connect(c) \/ Describe(c) \/ Run(c) \/ Leave(c) \/ Abort(c) \/ Crash(c)

-----------------------------------------------------------------------------
(* The acceptor thread. *)

\* A connection that comes before the handler is set is closed again.
Refuse(c) ==
  /\ apc = "idle"
  /\ mpc = "start"
  /\ client[c] # "new"
  /\ rpc[c] = "off"
  /\ rpc' = [rpc EXCEPT ![c] = "ended"]
  /\ inbox' = [inbox EXCEPT ![c] = <<>>]
  /\ UNCHANGED <<client, op, held, described, listening, acceptorVars, mainVars,
                 mapVars>>

\* Mutant of Accept: the acceptor does not take over the new connection.
AcceptWithoutConnection(c) ==
  /\ apc = "idle"
  /\ mpc \notin {"start", "join"}
  /\ client[c] # "new"
  /\ rpc[c] = "off"
  /\ rpc' = [rpc EXCEPT ![c] = "idle"]
  /\ apc' = "wait"
  /\ UNCHANGED <<clientVars, op, held, described, listening, cur, unnamed, mainVars,
                 mapVars>>

\* accept() and ModuleConnection's constructor, which starts the receiver.
Accept(c) ==
  /\ apc = "idle"
  /\ mpc \notin {"start", "join"}
  /\ client[c] # "new"
  /\ rpc[c] = "off"
  /\ rpc' = [rpc EXCEPT ![c] = "idle"]
  /\ apc' = "wait"
  /\ cur' = c
  /\ UNCHANGED <<clientVars, op, held, described, listening, unnamed, mainVars,
                 mapVars>>

\* Mutant of DescriptionArrived: wait without looking at m_hasDescriptor first,
\* so that only a description that comes during the wait ends it.
WaitForSignal ==
  /\ apc = "wait"
  /\ rpc[cur] = "configure"
  /\ apc' = "listen"
  /\ UNCHANGED <<clientVars, receiverVars, listening, cur, unnamed, mainVars, mapVars>>

\* waitForModuleDescription waits only if there is no description yet.
DescriptionArrived ==
  /\ apc = "wait"
  /\ cur \in described
  /\ apc' = "listen"
  /\ UNCHANGED <<clientVars, receiverVars, listening, cur, unnamed, mainVars, mapVars>>

\* Its waitOnSignal() is one pthread_cond_wait(), which may return without a
\* signal: the acceptor goes on with a module that has no name.
Spurious ==
  /\ apc = "wait"
  /\ cur \in Unsteady \ described
  /\ apc' = "listen"
  /\ unnamed' = unnamed \cup {cur}
  /\ UNCHANGED <<clientVars, receiverVars, listening, cur, mainVars, mapVars>>

SetListener ==
  /\ apc = "listen"
  /\ ~InHandler(cur)
  /\ listening' = listening \cup {cur}
  /\ apc' = "has"
  /\ UNCHANGED <<clientVars, receiverVars, cur, unnamed, mainVars, mapVars>>

\* A second module of the same name only gives a warning.
CheckName ==
  /\ apc = "has"
  /\ ModulesFree
  /\ apc' = IF modules[Name(cur)] = Absent THEN "add" ELSE "idle"
  /\ UNCHANGED <<clientVars, receiverVars, listening, cur, unnamed, mainVars, mapVars>>

AddModule ==
  /\ apc = "add"
  /\ ModulesFree
  /\ modules' = [modules EXCEPT ![Name(cur)] = cur]
  /\ apc' = "idle"
  /\ UNCHANGED <<clientVars, receiverVars, listening, cur, unnamed, mainVars, shutdown>>

AcceptorStep ==
  \/ \E c \in Clients : Refuse(c) \/ Accept(c)
  \/ DescriptionArrived
  \/ SetListener
  \/ CheckName
  \/ AddModule

-----------------------------------------------------------------------------
(* The receiver thread of a connection. *)

\* A message has been read and this handler is next, if a listener is set.
Handle(c, handler) ==
  IF c \in listening
  THEN /\ rpc' = [rpc EXCEPT ![c] = "has"]
       /\ op' = [op EXCEPT ![c] = handler]
  ELSE /\ rpc' = [rpc EXCEPT ![c] = IF handler = "lost" /\ inbox'[c] = <<>>
                                    THEN "ended" ELSE "idle"]
       /\ UNCHANGED op

\* The handler returns; after the end of the stream the thread ends as well.
Return(c) ==
  /\ rpc' = [rpc EXCEPT ![c] = IF op[c] = "lost" /\ inbox[c] = <<>>
                               THEN "ended" ELSE "idle"]
  /\ held' = [held EXCEPT ![c] = Null]

Reads(c, message) ==
  /\ rpc[c] = "idle"
  /\ inbox[c] # <<>>
  /\ Head(inbox[c]) = message
  /\ inbox' = [inbox EXCEPT ![c] = Tail(@)]

ReceiveRequest(c) ==
  /\ Reads(c, "request")
  /\ described' = described \cup {c}
  /\ rpc' = [rpc EXCEPT ![c] = "configure"]
  /\ UNCHANGED <<client, op, held, listening, acceptorVars, mainVars, mapVars>>

\* The configuration is sent while the acceptor goes on.
SendConfiguration(c) ==
  /\ rpc[c] = "configure"
  /\ rpc' = [rpc EXCEPT ![c] = "idle"]
  /\ client' = [client EXCEPT ![c] = IF @ = "waiting" THEN "configured" ELSE @]
  /\ UNCHANGED <<inbox, op, held, described, listening, acceptorVars, mainVars,
                 mapVars>>

\* The client is gone and ::send fails: the receiver runs the error listener
\* now, and again when it reads the end of the stream.
SendConfigurationFails(c) ==
  /\ rpc[c] = "configure"
  /\ client[c] = "gone"
  /\ UNCHANGED inbox
  /\ Handle(c, "lost")
  /\ UNCHANGED <<client, held, described, listening, acceptorVars, mainVars,
                 mapVars>>

\* A state, an exit code, the end of the stream.
Receive(c) ==
  /\ \E message \in {"state", "exit", "eof"} :
       /\ Reads(c, message)
       /\ Handle(c, IF message = "eof" THEN "lost" ELSE message)
  /\ UNCHANGED <<client, held, described, listening, acceptorVars, mainVars,
                 mapVars>>

\* hasModule() of m_modules.
HasModule(c) ==
  /\ rpc[c] = "has"
  /\ ModulesFree
  /\ IF modules[Name(c)] # Absent
     THEN rpc' = [rpc EXCEPT ![c] = "get"] /\ UNCHANGED held
     ELSE IF op[c] = "lost"
     THEN rpc' = [rpc EXCEPT ![c] = "shuthas"] /\ UNCHANGED held
     ELSE Return(c)
  /\ UNCHANGED <<clientVars, op, described, listening, acceptorVars, mainVars,
                 mapVars>>

\* operator[] of the map: a key that is not there is entered with a null pointer.
Lookup(map, d) == IF map[d] = Absent THEN Null ELSE map[d]

\* getModule() of m_modules.
GetModule(c) ==
  /\ rpc[c] = "get"
  /\ ModulesFree
  /\ held' = [held EXCEPT ![c] = Lookup(modules, Name(c))]
  /\ modules' = [modules EXCEPT ![Name(c)] = Lookup(modules, Name(c))]
  /\ rpc' = [rpc EXCEPT ![c] = IF op[c] = "state" THEN "use" ELSE "remove"]
  /\ UNCHANGED <<clientVars, op, described, listening, acceptorVars, mainVars,
                 shutdown>>

\* setState() or hasExitCode() of the module looked up.
UseModule(c) ==
  /\ rpc[c] = "use"
  /\ Return(c)
  /\ UNCHANGED <<clientVars, op, described, listening, acceptorVars, mainVars,
                 mapVars>>

\* Mutant of RemoveModule: the module is not removed from m_modules.
KeepModule(c) ==
  /\ rpc[c] = "remove"
  /\ ModulesFree
  /\ rpc' = [rpc EXCEPT ![c] = "add"]
  /\ UNCHANGED <<clientVars, op, held, described, listening, acceptorVars,
                 mainVars, mapVars>>

\* removeModule() of m_modules, and setExitCode() after an exit code.
RemoveModule(c) ==
  /\ rpc[c] = "remove"
  /\ ModulesFree
  /\ modules' = [modules EXCEPT ![Name(c)] = Absent]
  /\ rpc' = [rpc EXCEPT ![c] = "add"]
  /\ UNCHANGED <<clientVars, op, held, described, listening, acceptorVars,
                 mainVars, shutdown>>

\* addModule() of m_shutdownModules.
AddShutdown(c) ==
  /\ rpc[c] = "add"
  /\ ShutdownFree
  /\ shutdown' = [shutdown EXCEPT ![Name(c)] = held[c]]
  /\ Return(c)
  /\ UNCHANGED <<clientVars, op, described, listening, acceptorVars, mainVars,
                 modules>>

\* hasModule() of m_shutdownModules.
HasShutdown(c) ==
  /\ rpc[c] = "shuthas"
  /\ ShutdownFree
  /\ IF shutdown[Name(c)] # Absent
     THEN rpc' = [rpc EXCEPT ![c] = "shutget"] /\ UNCHANGED held
     ELSE Return(c)
  /\ UNCHANGED <<clientVars, op, described, listening, acceptorVars, mainVars,
                 mapVars>>

\* getModule() of m_shutdownModules.
GetShutdown(c) ==
  /\ rpc[c] = "shutget"
  /\ ShutdownFree
  /\ held' = [held EXCEPT ![c] = Lookup(shutdown, Name(c))]
  /\ shutdown' = [shutdown EXCEPT ![Name(c)] = Lookup(shutdown, Name(c))]
  /\ rpc' = [rpc EXCEPT ![c] = "use"]
  /\ UNCHANGED <<clientVars, op, described, listening, acceptorVars, mainVars,
                 modules>>

ReceiverStep(c) ==
  \/ ReceiveRequest(c)
  \/ SendConfiguration(c) \/ SendConfigurationFails(c)
  \/ Receive(c)
  \/ HasModule(c) \/ GetModule(c) \/ UseModule(c) \/ RemoveModule(c)
  \/ AddShutdown(c) \/ HasShutdown(c) \/ GetShutdown(c)

-----------------------------------------------------------------------------
(* The main thread: SuperComponent::body(). *)

Entries(map) == {d \in Descriptors : map[d] # Absent}

SetHandler ==
  /\ mpc = "start"
  /\ mpc' = "cycle"
  /\ UNCHANGED <<clientVars, receiverVars, listening, acceptorVars, table, left,
                 dying, deleted, mapVars>>

\* deleteAllModules() locks the map for as long as it takes: that of
\* m_shutdownModules in every cycle, and in ConnectedModules' destructor.
StartSweep ==
  /\ mpc \in {"cycle", "destroy"}
  /\ mpc' = "sweep"
  /\ table' = "shutdown"
  /\ left' = Entries(shutdown)
  /\ UNCHANGED <<clientVars, receiverVars, listening, acceptorVars, dying,
                 deleted, mapVars>>

Swept == IF table = "modules" THEN modules ELSE shutdown

\* setModuleStateListener(NULL) waits until no handler runs.
ClearListener(d) ==
  /\ mpc = "sweep"
  /\ d \in left
  /\ Swept[d] \in Clients
  /\ ~InHandler(Swept[d])
  /\ mpc' = "delete"
  /\ dying' = Swept[d]
  /\ left' = left \ {d}
  /\ listening' = listening \ {Swept[d]}
  /\ UNCHANGED <<clientVars, receiverVars, acceptorVars, table, deleted, mapVars>>

\* The destructors: no callback runs any more, the receiver is joined, the
\* socket closed.
DeleteModule ==
  /\ mpc = "delete"
  /\ rpc[dying] \in {"idle", "ended"}
  /\ mpc' = "sweep"
  /\ deleted' = deleted \cup {dying}
  /\ rpc' = [rpc EXCEPT ![dying] = "ended"]
  /\ inbox' = [inbox EXCEPT ![dying] = <<>>]
  /\ UNCHANGED <<client, op, held, described, listening, acceptorVars, table,
                 left, dying, mapVars>>

\* Mutant of EndSweep: the map is unlocked without having been cleared.
EndSweepWithoutClear ==
  /\ mpc = "sweep"
  /\ left = {}
  /\ mpc' = IF table = "modules" THEN "destroy"
            ELSE IF apc = "ended" THEN "done" ELSE "round"
  /\ UNCHANGED <<clientVars, receiverVars, listening, acceptorVars, table, left,
                 dying, deleted, mapVars>>

\* The map is cleared and unlocked.
EndSweep ==
  /\ mpc = "sweep"
  /\ left = {}
  /\ IF table = "modules"
     THEN /\ modules' = [d \in Descriptors |-> Absent]
          /\ mpc' = "destroy"
          /\ UNCHANGED shutdown
     ELSE /\ shutdown' = [d \in Descriptors |-> Absent]
          /\ mpc' = IF apc = "ended" THEN "done" ELSE "round"
          /\ UNCHANGED modules
  /\ UNCHANGED <<clientVars, receiverVars, listening, acceptorVars, table, left,
                 dying, deleted>>

\* pulse(), pulse_ack() or pulse_ack_containers() returns.
EndRound ==
  /\ mpc = "round"
  /\ mpc' = "cycle"
  /\ UNCHANGED <<clientVars, receiverVars, listening, acceptorVars, table, left,
                 dying, deleted, mapVars>>

\* getModuleState() is not RUNNING any more: body() closes down and tells the
\* acceptor to stop.  A connection the acceptor takes in the turn of its loop that
\* this meets is as if taken before: the main thread holds no lock in either case.
Stop ==
  /\ mpc = "cycle"
  /\ mpc' = "join"
  /\ UNCHANGED <<clientVars, receiverVars, listening, acceptorVars, table, left,
                 dying, deleted, mapVars>>

\* The connection server is deleted: the acceptor thread is joined.
JoinAcceptor ==
  /\ mpc = "join"
  /\ apc = "idle"
  /\ apc' = "ended"
  /\ mpc' = "sweep"
  /\ table' = "modules"
  /\ left' = Entries(modules)
  /\ UNCHANGED <<clientVars, receiverVars, listening, cur, unnamed, dying,
                 deleted, mapVars>>

MainStep ==
  \/ SetHandler
  \/ StartSweep
  \/ \E d \in Descriptors : ClearListener(d)
  \/ DeleteModule
  \/ EndSweep
  \/ EndRound
  \/ JoinAcceptor

Next ==
  \/ \E c \in Clients : ClientStep(c) \/ ReceiverStep(c)
  \/ AcceptorStep
  \/ Spurious
  \/ MainStep
  \/ Stop

Spec == Init /\ [][Next]_vars

-----------------------------------------------------------------------------
(* Ownership of the ConnectedModule objects, when no two modules of the same *)
(* name connect: of those the acceptor has waited for until they had a name, *)
(* whatever becomes of the others.                                           *)

Steady == Clients \ unnamed

\* The acceptor has created the ConnectedModule of c and is done with it.
Created(c) ==
  /\ c \in listening \cup deleted \/ (mpc = "delete" /\ c = dying)
  /\ ~(apc \in {"has", "add"} /\ c = cur)

\* Who has a pointer to it by which it will be deleted; or that it has been.
Owners(c) ==
  {p \in {"m_modules", "m_shutdownModules", "receiver", "deleted"} :
     \/ p = "m_modules" /\ modules[Desc(c)] = c /\ c \notin deleted
     \/ p = "m_shutdownModules" /\ shutdown[Desc(c)] = c /\ c \notin deleted
     \/ p = "receiver" /\ rpc[c] = "add"
     \/ p = "deleted" /\ c \in deleted}

\* A module that was created is in m_modules, or in m_shutdownModules, or on its
\* way from one to the other, or deleted, and never in two of these places:
\* whatever the threads do, it is neither lost nor deleted twice.
OneOwner ==
  \A c \in Steady :
    /\ Owners(c) # {} <=> Created(c)
    /\ \A p, q \in Owners(c) : p = q

\* A handler works on a module that exists, and so do the loops over the two
\* maps: a deleted module or a null pointer is never looked up, and a deleted one
\* stays in a map only until the sweep that deleted it clears the map.
NoDeadModuleUsed ==
  /\ \A c \in Steady :
       rpc[c] \in {"use", "remove", "add"} => held[c] \in Clients \ deleted
  /\ \A d \in {Desc(c) : c \in Steady} :
       /\ modules[d] # Null /\ shutdown[d] # Null
       /\ modules[d] \in deleted => Sweeps("modules")
       /\ shutdown[d] \in deleted => Sweeps("shutdown")

\* While supercomponent runs, the module of a client is deleted only after that
\* client has gone: neither the messages of other clients nor its own do it.
LiveModulesStay ==
  [][\A c \in Steady \cap (deleted' \ deleted) : client[c] = "gone" \/ apc = "ended"]_vars

-----------------------------------------------------------------------------
(* Why: an inductive strengthening of the three.                             *)

Distinct == Twins = {}

In(map, c) == map[Desc(c)] = c
Registering(c) == apc \in {"has", "add"} /\ c = cur
Accepting(c) == Registering(c) \/ (apc \in {"wait", "listen"} /\ c = cur)
Dying(c) == mpc = "delete" /\ c = dying

\* The steps of a handler: what it has found holds until it is done.
HandlerInv(c) ==
  /\ InHandler(c) => c \in listening
  /\ rpc[c] \in {"get", "remove"} => In(modules, c)
  /\ rpc[c] = "shutget" => In(shutdown, c)
  /\ rpc[c] = "use" => In(modules, c) \/ In(shutdown, c)
  /\ rpc[c] = "add" => ~In(modules, c)
  /\ rpc[c] \in {"use", "remove", "add"} => held[c] = c
  /\ rpc[c] \in {"remove", "add"} => op[c] # "state"

\* The entries of a module: its own, under its name, and in one place at a time.
EntryInv(c) ==
  /\ modules[Desc(c)] \in {Absent, c}
  /\ shutdown[Desc(c)] \in {Absent, c}
  /\ \A d \in Descriptors : c \in {modules[d], shutdown[d]} => d = Desc(c)
  /\ \A k \in Clients : held[k] = c => k = c
  /\ In(modules, c) => ~In(shutdown, c)
  /\ rpc[c] = "add" => ~In(shutdown, c)
  /\ In(modules, c) \/ In(shutdown, c) => c \in listening \cup deleted \/ Dying(c)
  /\ c \in listening =>
       Registering(c) \/ In(modules, c) \/ In(shutdown, c) \/ rpc[c] = "add"

\* A module that has not been entered yet is nowhere.
FreshInv(c) ==
  /\ rpc[c] = "off" \/ Accepting(c) =>
       c \notin deleted /\ ~In(modules, c) /\ ~In(shutdown, c) /\ rpc[c] # "add"
  /\ rpc[c] = "off" => c \notin listening /\ ~Accepting(c)
  /\ Accepting(c) => (c \in listening <=> Registering(c))
  /\ c \in listening \/ (apc = "listen" /\ c = cur) => c \in described

\* Once deleted a module has no thread, and its entry goes with this sweep.
DeletedInv(c) ==
  c \in deleted =>
    /\ rpc[c] = "ended"
    /\ c \notin listening
    /\ In(modules, c) => Sweeps("modules") /\ Desc(c) \notin left
    /\ In(shutdown, c) => Sweeps("shutdown") /\ Desc(c) \notin left

\* A sweep deletes every entry of its map, which does not change meanwhile.
SweepInv(c) ==
  /\ mpc \in {"sweep", "delete"} =>
       /\ Desc(c) \in left => In(Swept, c)
       /\ In(Swept, c) => Desc(c) \in left \/ c \in deleted \/ Dying(c)
  /\ Dying(c) => /\ c \notin deleted \cup listening
                 /\ Desc(c) \notin left
                 /\ In(Swept, c)

\* What a client sends at its end, and what becomes of that, tells it has gone.
GoneInv(c) ==
  /\ \A i \in 1..Len(inbox[c]) : inbox[c][i] \in {"exit", "eof"} => client[c] = "gone"
  /\ InHandler(c) /\ op[c] # "state" => client[c] = "gone"
  /\ In(shutdown, c) => client[c] = "gone"

RegistryInv ==
  /\ Sweeps("modules") => apc = "ended"
  /\ \A c \in Steady :
       /\ HandlerInv(c) /\ EntryInv(c) /\ FreshInv(c)
       /\ DeletedInv(c) /\ SweepInv(c) /\ GoneInv(c)

-----------------------------------------------------------------------------
(* Liveness.  Every thread is scheduled.  A thread that waits for a mutex    *)
(* which the main thread takes again and again gets it: the main thread      *)
(* sleeps between two rounds without any lock.  A client that has connected  *)
(* sends its description, unless it is silent.  No client has to connect or  *)
(* to leave, and supercomponent need not be stopped.                         *)

Fairness ==
  /\ WF_vars(MainStep)
  /\ SF_vars(AcceptorStep)
  /\ \A c \in Clients : SF_vars(ReceiverStep(c))
  /\ \A c \in Clients \ Silent : WF_vars(Describe(c))

FairSpec == Spec /\ Fairness

\* A client that sends its description is registered, whatever the other
\* clients do and whether or not it stays, if supercomponent accepts it: it may
\* come before the handler is set, or when the acceptor has ended.
DescribedAreRegistered ==
  \A c \in Clients :
    client[c] = "waiting" ~>
      \/ Created(c)
      \/ rpc[c] = "ended" /\ c \notin described
      \/ rpc[c] = "off" /\ apc = "ended"

\* When supercomponent closes down, the acceptor thread comes to its end, whatever
\* connections it is still busy with: unless one of them stays silent.
AcceptorIsJoined == mpc = "join" ~> mpc # "join"

-----------------------------------------------------------------------------
(* What comments of the program say, and the code does not do. *)

\* SuperComponent::body: disconnected modules are removed, and the cycle goes on.
SweepsEnd == mpc = "sweep" /\ apc # "ended" ~> mpc = "round"

\* SuperComponent::handleConnectionLost: it is called when a module terminates,
\* and takes it out of m_modules.
NoGhosts ==
  \A c \in Steady : modules[Desc(c)] = c /\ rpc[c] = "ended" => Sweeps("modules")
==============================================================================
