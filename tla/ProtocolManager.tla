--------------------------- MODULE ProtocolManager ---------------------------
(***************************************************************************)
(* The protocol manager (protocol_manager.cpp): for every connection it    *)
(* makes an instance, that is a ProtocolThread with its memory, its        *)
(* modules and the ProtocolNetworkConnection, registers it with the global *)
(* queue, and takes it apart again when it is stopped.                     *)
(*                                                                         *)
(* One thread, here `the caller', uses the manager; main does.  Meanwhile  *)
(* the global queue's thread passes messages on and the thread of every    *)
(* instance handles them.  Instances are numbered as they are made; the ID *)
(* of an instance is counted in an unsigned integer of 8 bits, so IDs come *)
(* back.  The locks of the global queue are GlobalQueue's subject; here    *)
(* there is only whether they are free.                                    *)
(***************************************************************************)
EXTENDS Naturals, Sequences, SequencesExt

CONSTANTS IDCount,       \* number of values of protocol_thread_id_t: 256
          ModuleIDs,     \* IDs of the modules instantiators make
          OwnModule,     \* ID of the module ProtocolThread registers itself
          Relocks,       \* does UnregisterQueue lock _LockLinks twice: TRUE
          Throws,        \* may a handler throw?
          MaxInstances,  \* bound: instances made
          MaxReads,      \* bound: reads requested
          MaxChanges,    \* bound: instantiators registered and unregistered
          None

ASSUME IDAssumption ==
    /\ IDCount \in Nat \ {0}
    /\ None \notin ModuleIDs \cup Nat \cup {"start", "read"}
ASSUME BoundAssumption == {MaxInstances, MaxReads, MaxChanges} \subseteq Nat
ASSUME FlagAssumption == Relocks \in BOOLEAN /\ Throws \in BOOLEAN

Instances == 1..MaxInstances
ThreadIDs == 0..IDCount - 1

\* IDs are handed out from 1 on and wrap around.
IDOf(i) == i % IDCount

VARIABLES made,          \* instances made so far: _NextFreeID is IDOf(made + 1)
          instantiators, \* _ModuleInstantiators, by the IDs of their modules
          connections,   \* _Connections, by instance
          threads,       \* _Threads: the instance of an ID, or None
          registered,    \* queues registered with the global queue, by instance
          modules,       \* modules of the queue of each instance
          inbox,         \* messages in the queue of each instance
          accepts,       \* _AcceptMessages of it
          state,         \* its thread: none, RUNNING, PAUSED, gone, or dead of
                         \* an exception
          handling,      \* the message it is handling
          memory,        \* does its ProtocolThreadMemory exist
          started,       \* has the request to start been handled
          locked,        \* are the locks of the global queue left locked
          posted,        \* messages in the global queue
          pc,            \* what the caller is doing
          subject,       \* the instance it does it to
          todo,          \* the instantiators CreateNewInstance has yet to run
          plan,          \* the modules each instance was to get
          returned,      \* the connection StopInstance returned last
          clash,         \* has an ID been given to two instances at a time
          reads,         \* reads requested so far
          changes        \* changes of the instantiators so far

manager == <<made, instantiators, connections, threads, changes>>
queues  == <<registered, modules, inbox, accepts, state, handling, memory, started>>
global  == <<locked, posted>>
caller  == <<pc, subject, todo, plan, returned, clash, reads>>
vars    == <<manager, queues, global, caller>>

Init == /\ made = 0 /\ changes = 0
        /\ instantiators = <<>>
        /\ connections = <<>>
        /\ threads = [id \in ThreadIDs |-> None]
        /\ registered = {}
        /\ modules = [i \in Instances |-> {}]
        /\ inbox = [i \in Instances |-> <<>>]
        /\ accepts = [i \in Instances |-> FALSE]
        /\ state = [i \in Instances |-> "none"]
        /\ handling = [i \in Instances |-> None]
        /\ memory = [i \in Instances |-> FALSE]
        /\ started = [i \in Instances |-> FALSE]
        /\ locked = FALSE /\ posted = <<>>
        /\ pc = "idle" /\ subject = None /\ todo = <<>>
        /\ plan = [i \in Instances |-> {}]
        /\ returned = None /\ clash = FALSE /\ reads = 0
-------------------------------------------------------------------------------
(* CreateNewInstance. *)

Message(type, id) == [type |-> type, id |-> id]

Goes(p) == pc' = p /\ UNCHANGED <<todo, plan, returned, clash, reads>>

\* The connection is stored in front and the thread made, with the module that
\* receives.  emplace keeps a thread that has the ID already.
Create ==
    /\ pc = "idle"
    /\ made < MaxInstances
    /\ LET i  == made + 1
           id == IDOf(i)
       IN  /\ made' = i
           /\ connections' = <<i>> \o connections
           /\ threads' = IF threads[id] = None THEN [threads EXCEPT ![id] = i] ELSE threads
           /\ clash' = (clash \/ \E n \in ToSet(connections) : IDOf(n) = id)
           /\ modules' = [modules EXCEPT ![i] = {OwnModule}]
           /\ accepts' = [accepts EXCEPT ![i] = TRUE]
           /\ state' = [state EXCEPT ![i] = "RUNNING"]
           /\ memory' = [memory EXCEPT ![i] = TRUE]
           /\ plan' = [plan EXCEPT ![i] = {OwnModule} \cup ToSet(instantiators)]
           /\ subject' = i
    /\ todo' = instantiators
    /\ pc' = "register"
    /\ UNCHANGED <<instantiators, changes, registered, inbox, handling, started, global,
                   returned, reads>>

\* RegisterQueue throws when the ID is taken; the new thread, in no map, is
\* destroyed, its connection stays.
RegisterQueue ==
    /\ pc = "register" /\ ~locked
    /\ LET taken == \E n \in registered : IDOf(n) = IDOf(subject)
       IN  /\ registered' = IF taken THEN registered ELSE registered \cup {subject}
           /\ state' = [state EXCEPT ![subject] = IF taken THEN "gone" ELSE @]
           /\ memory' = [memory EXCEPT ![subject] = ~taken]
           /\ accepts' = [accepts EXCEPT ![subject] = ~taken]
           /\ Goes(IF taken THEN "idle" ELSE "modules")
    /\ UNCHANGED <<manager, modules, inbox, handling, started, global, subject>>

\* ExecuteModuleInstantiators, one module: RegisterModule throws with the locks
\* of the global queue when the queue has a module of that ID.
RegisterModule ==
    /\ pc = "modules" /\ todo # <<>> /\ ~locked
    /\ LET taken == Head(todo) \in modules[subject]
       IN  /\ modules' = [modules EXCEPT ![subject] = @ \cup {Head(todo)}]
           /\ locked' = taken
           /\ pc' = IF taken THEN "idle" ELSE "modules"
    /\ todo' = Tail(todo)
    /\ UNCHANGED <<manager, registered, inbox, accepts, state, handling, memory, started,
                   posted, subject, plan, returned, clash, reads>>

\* Mutant: the request is pushed before all modules are made
RequestStartEarly ==
    /\ pc = "modules"
    /\ posted' = Append(posted, Message("start", IDOf(subject)))
    /\ Goes("idle")
    /\ UNCHANGED <<manager, queues, locked, subject>>

\* Mutant: the ID is returned and nothing sent
RequestStartNot ==
    /\ pc = "modules" /\ todo = <<>>
    /\ Goes("idle")
    /\ UNCHANGED <<manager, queues, global, subject>>

\* The request to start is pushed, and the ID returned.
RequestStart ==
    /\ pc = "modules" /\ todo = <<>>
    /\ posted' = Append(posted, Message("start", IDOf(subject)))
    /\ Goes("idle")
    /\ UNCHANGED <<manager, queues, locked, subject>>
-------------------------------------------------------------------------------
(* StopInstance. *)

\* the first connection with the ID, or None
ConnectionOf(id) ==
    LET at == SelectInSeq(connections, LAMBDA n : IDOf(n) = id)
    IN  IF at = 0 THEN None ELSE connections[at]

\* Connection and thread are looked up.  Without a thread only the connection
\* is given back.
Stop ==
    /\ pc = "idle"
    /\ \E id \in ThreadIDs :
          /\ threads[id] # None \/ ConnectionOf(id) # None
          /\ subject' = threads[id]
          /\ returned' = ConnectionOf(id)
          /\ pc' = IF threads[id] = None THEN "release" ELSE "unregister"
    /\ UNCHANGED <<manager, queues, global, todo, plan, clash, reads>>

\* Mutant: the queue stays registered
UnregisterQueueNot ==
    /\ pc = "unregister" /\ ~locked
    /\ locked' = Relocks
    /\ UNCHANGED registered
    /\ Goes(IF Relocks THEN "blocked" ELSE "refuse")
    /\ UNCHANGED <<manager, modules, inbox, accepts, state, handling, memory, started,
                   posted, subject>>

\* UnregisterQueue, which blocks on a lock it holds
UnregisterQueue ==
    /\ pc = "unregister" /\ ~locked
    /\ locked' = Relocks
    /\ registered' = IF Relocks THEN registered ELSE registered \ {subject}
    /\ Goes(IF Relocks THEN "blocked" ELSE "refuse")
    /\ UNCHANGED <<manager, modules, inbox, accepts, state, handling, memory, started,
                   posted, subject>>

\* SetMessageAcceptance(0)
Refuse ==
    /\ pc = "refuse"
    /\ accepts' = [accepts EXCEPT ![subject] = FALSE]
    /\ Goes("drain")
    /\ UNCHANGED <<manager, registered, modules, inbox, state, handling, memory, started,
                   global, subject>>

\* Mutant: the thread is paused whatever is in the queue
PauseAtOnce ==
    /\ pc = "drain"
    /\ state' = [state EXCEPT ![subject] = "PAUSED"]
    /\ Goes("destroy")
    /\ UNCHANGED <<manager, registered, modules, inbox, accepts, handling, memory, started,
                   global, subject>>

\* The caller spins until the queue is empty and pauses the thread.
Pause ==
    /\ pc = "drain"
    /\ inbox[subject] = <<>>
    /\ state' = [state EXCEPT ![subject] = IF @ = "dead" THEN @ ELSE "PAUSED"]
    /\ Goes("destroy")
    /\ UNCHANGED <<manager, registered, modules, inbox, accepts, handling, memory, started,
                   global, subject>>

\* The thread is erased from the map, the last pointer to it: ~ProtocolThread
\* begins with the member of ProtocolThread itself.
DestroyMemory ==
    /\ pc = "destroy"
    /\ threads' = [threads EXCEPT ![IDOf(subject)] = None]
    /\ memory' = [memory EXCEPT ![subject] = FALSE]
    /\ Goes("join")
    /\ UNCHANGED <<made, instantiators, connections, changes, registered, modules, inbox,
                   accepts, state, handling, started, global, subject>>

\* ~ThreadModuleManager stops the thread, waits for it and lets go of the
\* modules.
Join ==
    /\ pc = "join"
    /\ handling[subject] = None
    /\ state' = [state EXCEPT ![subject] = "gone"]
    /\ modules' = [modules EXCEPT ![subject] = {}]
    /\ Goes("release")
    /\ UNCHANGED <<manager, registered, inbox, accepts, handling, memory, started, global,
                   subject>>

\* Mutant: the connection is returned and its place in the list kept
ReleaseKeeps ==
    /\ pc = "release"
    /\ pc' = "idle"
    /\ UNCHANGED <<manager, queues, global, subject, todo, plan, returned, clash, reads>>

\* The connection is erased and returned.
Release ==
    /\ pc = "release"
    /\ connections' = RemoveFirst(connections, returned)
    /\ pc' = "idle"
    /\ UNCHANGED <<made, instantiators, threads, changes, queues, global, subject, todo, plan,
                   returned, clash, reads>>
-------------------------------------------------------------------------------
(* The other operations of the caller. *)

\* RegisterModuleInstantiator, which throws for an ID it has
RegisterModuleInstantiator ==
    /\ pc = "idle"
    /\ changes < MaxChanges
    /\ \E x \in ModuleIDs \ ToSet(instantiators) : instantiators' = Append(instantiators, x)
    /\ changes' = changes + 1
    /\ UNCHANGED <<made, connections, threads, queues, global, caller>>

\* UnregisterModule, which throws for an ID it does not have
UnregisterModule ==
    /\ pc = "idle"
    /\ changes < MaxChanges
    /\ \E x \in ToSet(instantiators) : instantiators' = RemoveFirst(instantiators, x)
    /\ changes' = changes + 1
    /\ UNCHANGED <<made, connections, threads, queues, global, caller>>

\* RequestRead, of any instance
RequestRead ==
    /\ pc = "idle"
    /\ reads < MaxReads
    /\ \E id \in ThreadIDs : posted' = Append(posted, Message("read", id))
    /\ reads' = reads + 1
    /\ UNCHANGED <<manager, queues, locked, pc, subject, todo, plan, returned, clash>>

Returning == \/ RegisterQueue \/ RegisterModule \/ RequestStart \/ UnregisterQueue
             \/ Refuse \/ Pause \/ DestroyMemory \/ Join \/ Release

Calling == Create \/ Stop \/ RegisterModuleInstantiator \/ UnregisterModule \/ RequestRead
-------------------------------------------------------------------------------
(* The other threads. *)

\* The global queue passes a message on, or drops it when nobody has the ID.
Deliver ==
    /\ posted # <<>> /\ ~locked
    /\ posted' = Tail(posted)
    /\ inbox' = [i \in Instances |->
                    IF i \in registered /\ IDOf(i) = Head(posted).id
                    THEN Append(inbox[i], Head(posted).type) ELSE inbox[i]]
    /\ UNCHANGED <<manager, registered, modules, accepts, state, handling, memory, started,
                   locked, caller>>

\* The thread of an instance takes a message ...
Take(i) ==
    /\ state[i] = "RUNNING"
    /\ handling[i] = None
    /\ inbox[i] # <<>>
    /\ handling' = [handling EXCEPT ![i] = Head(inbox[i])]
    /\ inbox' = [inbox EXCEPT ![i] = Tail(@)]
    /\ UNCHANGED <<manager, registered, modules, accepts, state, memory, started, global,
                   caller>>

\* ... and is through with it, also when it has been paused or stopped, or ends
\* with an exception.
Handle(i) ==
    /\ handling[i] # None
    /\ handling' = [handling EXCEPT ![i] = None]
    /\ \/ /\ started' = [started EXCEPT ![i] = @ \/ handling[i] = "start"]
          /\ UNCHANGED state
       \/ /\ Throws
          /\ state' = [state EXCEPT ![i] = "dead"]
          /\ UNCHANGED started
    /\ UNCHANGED <<manager, registered, modules, inbox, accepts, memory, global, caller>>

Next == Calling \/ Returning \/ Deliver \/ \E i \in Instances : Take(i) \/ Handle(i)

Spec == Init /\ [][Next]_vars

\* Calls go on to their end, and threads run; nobody is made to call.
FairSpec == /\ Spec
            /\ WF_vars(Returning)
            /\ WF_vars(Deliver)
            /\ \A i \in Instances : WF_vars(Take(i)) /\ WF_vars(Handle(i))
-------------------------------------------------------------------------------
(* Properties. *)

Types == {"start", "read"}
Messages == [type : Types, id : ThreadIDs]

\* The type invariant.
TypeOK ==
    /\ made \in 0..MaxInstances
    /\ instantiators \in Seq(ModuleIDs)
    /\ connections \in Seq(Instances)
    /\ threads \in [ThreadIDs -> Instances \cup {None}]
    /\ registered \subseteq Instances
    /\ modules \in [Instances -> SUBSET (ModuleIDs \cup {OwnModule})]
    /\ inbox \in [Instances -> Seq(Types)]
    /\ {accepts, memory, started} \subseteq [Instances -> BOOLEAN]
    /\ state \in [Instances -> {"none", "RUNNING", "PAUSED", "dead", "gone"}]
    /\ handling \in [Instances -> Types \cup {None}]
    /\ {locked, clash} \subseteq BOOLEAN
    /\ posted \in Seq(Messages)
    /\ pc \in {"idle", "register", "modules", "unregister", "blocked", "refuse", "drain",
               "destroy", "join", "release"}
    /\ {subject, returned} \subseteq Instances \cup {None}
    /\ todo \in Seq(ModuleIDs)
    /\ plan \in [Instances -> SUBSET (ModuleIDs \cup {OwnModule})]
    /\ reads \in 0..MaxReads /\ changes \in 0..MaxChanges

Live(i) == threads[IDOf(i)] = i

\* The global queue reaches only queues that exist, accept and have an ID of
\* their own: no message is pushed onto a queue that is refusing (the assertion
\* of PushMessage) or destroyed, at whatever moment of a stop it is passed on.
ReachesLiveQueues ==
    \A i \in registered :
        /\ Live(i) /\ accepts[i] /\ memory[i]
        /\ state[i] \in {"RUNNING", "dead"}
        /\ \A j \in registered : IDOf(i) = IDOf(j) => i = j

\* As long as no ID is given to two instances at a time, a thread has its own
\* connection, every connection has its thread, and StopInstance returns the
\* connection of the thread it has stopped.
OwnConnection ==
    ~clash => /\ \A i \in ToSet(connections) :
                    Live(i) \/ (pc \in {"join", "release"} /\ returned = i)
              /\ \A id \in ThreadIDs : threads[id] # None => ConnectionOf(id) = threads[id]
              /\ pc \in {"unregister", "refuse", "drain", "destroy", "join"} =>
                    returned = subject

\* An instance whose ID is new handles its request to start when it has all the
\* modules there were instantiators for, and not after a registration that
\* threw.  Where an ID comes back, the request may be the one of an instance
\* that was stopped before it was passed on, and come too early.
StartsComplete ==
    \A i \in 1..IDCount \cap Instances :
        handling[i] = "start" /\ state[i] = "RUNNING" => modules[i] = plan[i]

\* A stopped instance has handled all that reached it, unless its thread died.
\* The message in hand is not among them: it may outlive the memory its handler
\* uses.
StopsDrained ==
    \A i \in Instances :
        state[i] \in {"PAUSED", "gone"} => inbox[i] = <<>>

\* Every instance is told to start, whatever else is asked for meanwhile, unless
\* it is stopped, its thread dies, or the locks are never given back.
InstancesStart ==
    \A i \in Instances :
        made >= i ~> started[i] \/ state[i] \in {"gone", "dead"} \/ locked

\* "Stops an Instance and returns pointer to network connection"
\* (protocol_manager.h:81): a stop ends, unless a thread has died of an
\* exception and its queue never empties.
StopReturns ==
    pc = "unregister" /\ ~locked ~> pc = "idle" \/ \E i \in Instances : state[i] = "dead"
===============================================================================
