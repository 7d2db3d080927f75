------------------------------ MODULE GlobalQueue ------------------------------
(***************************************************************************)
(* The global message queue (global_message_queue_thread.cpp) with the     *)
(* queues registered with it and their modules                             *)
(* (thread_module_manager.h, thread_module_manager_multi_message.h,        *)
(* silkstring_message.cpp).                                                *)
(*                                                                         *)
(* Everything in the program talks through it: a message is pushed onto    *)
(* the global queue, its thread copies it to the queues the message is     *)
(* addressed to or linked with, and the thread of each queue calls the     *)
(* modules.  Other threads, here clients, register and unregister queues   *)
(* and modules meanwhile.                                                  *)
(*                                                                         *)
(* The global queue and every queue have two mutexes, _LockLinks and       *)
(* _ModuleListLock.  Taking one is a step; what is done while all locks    *)
(* that guard it are held is one step, and so is releasing them.  That     *)
(* messages are taken one by one and in order is what ThreadQueued shows.  *)
(***************************************************************************)
EXTENDS Naturals, Sequences, FiniteSets, SequencesExt, Lists

CONSTANTS Queues,   \* queues, each with a thread of its own
          Modules,  \* modules
          IDs,      \* identifiers messages are sent from and to
          QueueOf,  \* the queue an identifier belongs to (queue and thread ID)
          Wants,    \* the links a module asks for when it is registered
          Msgs,     \* messages; each is pushed once
          From,     \* sender ID of each message
          To,       \* receiver ID of each message
          Clients,  \* threads that register and unregister
          Calls,    \* the operations clients use
          Extra,    \* the links AddReceiverLink and AddSendLink may add
          Careful,  \* do clients register only what is not registered?
          Throws,   \* may a handler throw?
          MaxCalls, \* bound: calls a client makes
          AtStart,  \* the modules start-up has registered, with their queues
          Global,   \* the global queue
          None

Sides   == {"recv", "send"}
Keys    == Sides \X IDs      \* _ReceiverIDLinks and _SenderIDLinks by ID
Hubs    == {Global} \cup Queues
Threads == Hubs \cup Clients

ASSUME IDAssumption == /\ Modules \subseteq IDs
                       /\ QueueOf \in [IDs -> Queues \cup {None}]
                       /\ \A x \in Modules : QueueOf[x] \in Queues
                       /\ Wants \in [Modules -> SUBSET Keys]
                       /\ Extra \subseteq Keys \X Modules
                       /\ AtStart \subseteq Modules /\ IsFiniteSet(AtStart)
ASSUME MsgAssumption == /\ From \in [Msgs -> IDs]
                        /\ To \in [Msgs -> IDs]
                        /\ None \notin Msgs
ASSUME ThreadAssumption == /\ Global \notin Queues \cup Clients
                           /\ Queues \cap Clients = {}
                           /\ None \notin Threads
ASSUME BoundAssumption == MaxCalls \in Nat /\ Careful \in BOOLEAN /\ Throws \in BOOLEAN

VARIABLES queues,    \* _Modules of the global queue: the registered queues
          mods,      \* _Modules of each queue: its registered modules
          links,     \* the link tables of the global queue and of each queue
          linkLock,  \* who holds _LockLinks of each
          listLock,  \* who holds _ModuleListLock of each
          inbox,     \* _Messages of each
          pc,        \* where each thread is
          msg,       \* the message a hub's thread is propagating
          todo,      \* who is still to get it
          call,      \* what a client is registering or unregistering
          calls,     \* how many calls a client has made
          posted,    \* history: messages in the order they were pushed
          copies,    \* history: copies of each message each queue received
          got        \* history: messages each module's handler has finished

tables   == <<queues, mods, links>>
locks    == <<linkLock, listLock>>
traffic  == <<inbox, msg, todo>>
client   == <<call, calls>>
history  == <<posted, copies, got>>
vars == <<queues, mods, links, linkLock, listLock, inbox, pc, msg, todo,
          call, calls, posted, copies, got>>

NoCall == [op |-> "none", arg |-> None]

\* LinkIDsNoLock: a module is put into a list of links once
Link(table, x, keys) ==
    [k \in Keys |-> IF k \in keys /\ x \notin ToSet(table[k])
                    THEN Append(table[k], x) ELSE table[k]]

\* UnlinkModuleNoLock
Unlink(table, xs) ==
    [k \in Keys |-> Without(table[k], xs)]

\* AddLinkedQueues: a queue is added once, if it is registered
AddLinkedQueues(receivers, key) ==
    LET list == links[Global][key]
        added[n \in 0..Len(list)] ==
          IF n = 0 THEN receivers
          ELSE LET before == added[n - 1]
                   q == QueueOf[list[n]]
               IN  IF q \in queues \ ToSet(before) THEN Append(before, q) ELSE before
    IN  added[Len(list)]

\* the queues PropagateMessageToQueues finds for a message
ReceiverQueues(m) ==
    LET direct == IF QueueOf[To[m]] \in queues THEN <<QueueOf[To[m]]>> ELSE <<>>
    IN  AddLinkedQueues(AddLinkedQueues(direct, <<"recv", To[m]>>), <<"send", From[m]>>)

\* the IDs MessageCallback of a queue calls, in order; it does not look for
\* repetitions
Targets(q, m) ==
    <<To[m]>> \o links[q][<<"recv", To[m]>>] \o links[q][<<"send", From[m]>>]

\* the tables after start-up has registered AtStart
StartLinks(h) ==
    [k \in Keys |-> SetToSeq({x \in AtStart : k \in Wants[x] /\ h \in {Global, QueueOf[x]}})]

Init == /\ queues = {QueueOf[x] : x \in AtStart}
        /\ mods = [q \in Queues |-> {x \in AtStart : QueueOf[x] = q}]
        /\ links = [h \in Hubs |-> StartLinks(h)]
        /\ linkLock = [h \in Hubs |-> None]
        /\ listLock = [h \in Hubs |-> None]
        /\ inbox = [h \in Hubs |-> <<>>]
        /\ pc = [t \in Threads |-> "idle"]
        /\ msg = [h \in Hubs |-> None]
        /\ todo = [h \in Hubs |-> <<>>]
        /\ call = [c \in Clients |-> NoCall]
        /\ calls = [c \in Clients |-> 0]
        /\ posted = <<>>
        /\ copies = [k \in Msgs \X Queues |-> 0]
        /\ got = [x \in Modules |-> <<>>]
-------------------------------------------------------------------------------
(* Pushing a message: any thread, handlers included, which take no lock    *)
(* here but the queue's own.                                               *)
Post(m) ==
    /\ m \notin ToSet(posted)
    /\ posted' = Append(posted, m)
    /\ inbox' = [inbox EXCEPT ![Global] = Append(@, m)]
    /\ UNCHANGED <<tables, locks, pc, msg, todo, client, copies, got>>
-------------------------------------------------------------------------------
(* The threads of the global queue and of the queues. *)

\* Mutant: the newest message is taken first
TakeNewest(h) ==
    /\ pc[h] = "idle"
    /\ inbox[h] # <<>>
    /\ msg' = [msg EXCEPT ![h] = Last(inbox[h])]
    /\ inbox' = [inbox EXCEPT ![h] = Front(@)]
    /\ pc' = [pc EXCEPT ![h] = "links"]
    /\ UNCHANGED <<tables, locks, todo, client, history>>

\* ThreadMessageFunction pops a message and calls the propagation function
Take(h) ==
    /\ pc[h] = "idle"
    /\ inbox[h] # <<>>
    /\ msg' = [msg EXCEPT ![h] = Head(inbox[h])]
    /\ inbox' = [inbox EXCEPT ![h] = Tail(@)]
    /\ pc' = [pc EXCEPT ![h] = "links"]
    /\ UNCHANGED <<tables, locks, todo, client, history>>

\* PropagateMessageToQueues: _LockLinks.lock()
GlobalLinks ==
    /\ pc[Global] = "links"
    /\ linkLock[Global] = None
    /\ linkLock' = [linkLock EXCEPT ![Global] = Global]
    /\ pc' = [pc EXCEPT ![Global] = "list"]
    /\ UNCHANGED <<tables, listLock, traffic, client, history>>

\* _ModuleListLock.lock(), and the receivers are gathered
GlobalList ==
    /\ pc[Global] = "list"
    /\ listLock[Global] = None
    /\ listLock' = [listLock EXCEPT ![Global] = Global]
    /\ todo' = [todo EXCEPT ![Global] = ReceiverQueues(msg[Global])]
    /\ pc' = [pc EXCEPT ![Global] = "deliver"]
    /\ UNCHANGED <<tables, linkLock, inbox, msg, client, history>>

\* HandleMessage of the next receiver: it pushes the message onto its queue
GlobalDeliver ==
    /\ pc[Global] = "deliver"
    /\ todo[Global] # <<>>
    /\ LET q == Head(todo[Global])
       IN  /\ inbox' = [inbox EXCEPT ![q] = Append(@, msg[Global])]
           /\ copies' = [copies EXCEPT ![<<msg[Global], q>>] = @ + 1]
    /\ todo' = [todo EXCEPT ![Global] = Tail(@)]
    /\ UNCHANGED <<tables, locks, pc, msg, client, posted, got>>

\* Mutant: _LockLinks.lock() for _LockLinks.unlock()
GlobalDoneKeepsLock ==
    /\ pc[Global] = "deliver"
    /\ todo[Global] = <<>>
    /\ listLock' = [listLock EXCEPT ![Global] = None]
    /\ pc' = [pc EXCEPT ![Global] = "idle"]
    /\ UNCHANGED <<tables, linkLock, traffic, client, history>>

GlobalDone ==
    /\ pc[Global] = "deliver"
    /\ todo[Global] = <<>>
    /\ linkLock' = [linkLock EXCEPT ![Global] = None]
    /\ listLock' = [listLock EXCEPT ![Global] = None]
    /\ pc' = [pc EXCEPT ![Global] = "idle"]
    /\ UNCHANGED <<tables, traffic, client, history>>

\* MessageCallback of a queue: _LockLinks.lock(), held to the end
QueueLinks(q) ==
    /\ pc[q] = "links"
    /\ linkLock[q] = None
    /\ linkLock' = [linkLock EXCEPT ![q] = q]
    /\ todo' = [todo EXCEPT ![q] = Targets(q, msg[q])]
    /\ pc' = [pc EXCEPT ![q] = "deliver"]
    /\ UNCHANGED <<tables, listLock, inbox, msg, client, history>>

\* Mutant: nothing is locked while the handler runs
QueueFindUnlocks(q) ==
    /\ pc[q] = "deliver"
    /\ todo[q] # <<>>
    /\ listLock[q] = None
    /\ IF Head(todo[q]) \in mods[q]
       THEN /\ pc' = [pc EXCEPT ![q] = "handle"]
            /\ linkLock' = [linkLock EXCEPT ![q] = None]
            /\ UNCHANGED todo
       ELSE /\ todo' = [todo EXCEPT ![q] = Tail(@)]
            /\ UNCHANGED <<pc, linkLock>>
    /\ UNCHANGED <<tables, listLock, inbox, msg, client, history>>

\* PropagateMessageToModule: _ModuleListLock.lock(), find the module, and
\* call it with the lock held; without such a module unlock at once
QueueFind(q) ==
    /\ pc[q] = "deliver"
    /\ todo[q] # <<>>
    /\ listLock[q] = None
    /\ IF Head(todo[q]) \in mods[q]
       THEN /\ listLock' = [listLock EXCEPT ![q] = q]
            /\ pc' = [pc EXCEPT ![q] = "handle"]
            /\ UNCHANGED todo
       ELSE /\ todo' = [todo EXCEPT ![q] = Tail(@)]
            /\ UNCHANGED <<pc, listLock>>
    /\ UNCHANGED <<tables, linkLock, inbox, msg, client, history>>

\* Mutant: the list is not unlocked after the handler
HandlerReturnsLocked(q) ==
    /\ pc[q] = "handle"
    /\ got' = [got EXCEPT ![Head(todo[q])] = Append(@, msg[q])]
    /\ todo' = [todo EXCEPT ![q] = Tail(@)]
    /\ pc' = [pc EXCEPT ![q] = "deliver"]
    /\ UNCHANGED <<tables, locks, inbox, msg, client, posted, copies>>

HandlerReturns(q) ==
    /\ pc[q] = "handle"
    /\ got' = [got EXCEPT ![Head(todo[q])] = Append(@, msg[q])]
    /\ todo' = [todo EXCEPT ![q] = Tail(@)]
    /\ listLock' = [listLock EXCEPT ![q] = None]
    /\ pc' = [pc EXCEPT ![q] = "deliver"]
    /\ UNCHANGED <<tables, linkLock, inbox, msg, client, posted, copies>>

\* The exception leaves the thread's function; nothing unlocks the mutexes.
HandlerThrows(q) ==
    /\ Throws
    /\ pc[q] = "handle"
    /\ pc' = [pc EXCEPT ![q] = "dead"]
    /\ UNCHANGED <<tables, locks, traffic, client, history>>

QueueDone(q) ==
    /\ pc[q] = "deliver"
    /\ todo[q] = <<>>
    /\ linkLock' = [linkLock EXCEPT ![q] = None]
    /\ pc' = [pc EXCEPT ![q] = "idle"]
    /\ UNCHANGED <<tables, listLock, traffic, client, history>>

GlobalThread == \/ Take(Global)
                \/ GlobalLinks
                \/ GlobalList
                \/ GlobalDeliver
                \/ GlobalDone

QueueThread(q) == \/ Take(q)
                  \/ QueueLinks(q)
                  \/ QueueFind(q)
                  \/ HandlerReturns(q)
                  \/ HandlerThrows(q)
                  \/ QueueDone(q)
-------------------------------------------------------------------------------
(* Clients. *)

CanCall(c, op) == /\ pc[c] = "idle"
                  /\ op \in Calls
                  /\ calls[c] < MaxCalls

Counted(c) == calls' = [calls EXCEPT ![c] = @ + 1]

\* RegisterQueue: Register under _ModuleListLock; a queue that is registered
\* already unlocks it and throws
RegisterQueue(c, q) ==
    /\ CanCall(c, "RegisterQueue")
    /\ Careful => q \notin queues
    /\ listLock[Global] = None
    /\ queues' = queues \cup {q}
    /\ Counted(c)
    /\ UNCHANGED <<mods, links, locks, traffic, pc, call, history>>

\* AddReceiverLink and AddSendLink on the global queue, under _LockLinks
AddLink(c, k, x) ==
    /\ <<k, x>> \in Extra
    /\ CanCall(c, "AddLink")
    /\ linkLock[Global] = None
    /\ links' = [links EXCEPT ![Global] = Link(@, x, {k})]
    /\ Counted(c)
    /\ UNCHANGED <<queues, mods, locks, traffic, pc, call, history>>

Begin(c, op, arg) ==
    /\ CanCall(c, op)
    /\ call' = [call EXCEPT ![c] = [op |-> op, arg |-> arg]]
    /\ pc' = [pc EXCEPT ![c] = "links"]
    /\ Counted(c)
    /\ UNCHANGED <<tables, locks, traffic, history>>

RegisterModule(c, x) ==
    /\ Careful => x \notin mods[QueueOf[x]] /\ \A d \in Clients : call[d].arg # x
    /\ Begin(c, "RegisterModule", x)

UnregisterModule(c, x) == Begin(c, "UnregisterModule", x)

UnregisterQueue(c, q) == Begin(c, "UnregisterQueue", q)

\* all three: _LockLinks.lock() of the global queue
ClientLinks(c) ==
    /\ pc[c] = "links"
    /\ linkLock[Global] = None
    /\ linkLock' = [linkLock EXCEPT ![Global] = c]
    /\ pc' = [pc EXCEPT ![c] = "list"]
    /\ UNCHANGED <<tables, listLock, traffic, client, history>>

\* the call returns and has unlocked what it held
Return(c) ==
    /\ pc' = [pc EXCEPT ![c] = "idle"]
    /\ call' = [call EXCEPT ![c] = NoCall]
    /\ linkLock' = [h \in Hubs |-> IF linkLock[h] = c THEN None ELSE linkLock[h]]
    /\ listLock' = [h \in Hubs |-> IF listLock[h] = c THEN None ELSE listLock[h]]

Doing(c, op) == pc[c] = "list" /\ call[c].op = op /\ listLock[Global] = None

\* ... go on to the queue of the module, if it is registered, with both locks
ToQueue(c) ==
    /\ listLock' = [listLock EXCEPT ![Global] = c]
    /\ pc' = [pc EXCEPT ![c] = "queueLinks"]
    /\ UNCHANGED <<linkLock, call>>

\* RegisterModule saves the links and looks for the queue
RegisterInGlobal(c) ==
    /\ Doing(c, "RegisterModule")
    /\ LET x == call[c].arg
       IN  /\ links' = [links EXCEPT ![Global] = Link(@, x, Wants[x])]
           /\ IF QueueOf[x] \in queues THEN ToQueue(c) ELSE Return(c)
    /\ UNCHANGED <<queues, mods, traffic, calls, history>>

\* UnregisterModule looks for the queue
UnregisterInGlobal(c) ==
    /\ Doing(c, "UnregisterModule")
    /\ LET x == call[c].arg
       IN  IF QueueOf[x] \in queues
           THEN ToQueue(c) /\ UNCHANGED links
           ELSE /\ Return(c)
                /\ links' = [links EXCEPT ![Global] = Unlink(@, {x})]
    /\ UNCHANGED <<queues, mods, traffic, calls, history>>

\* UnregisterQueue unlinks the modules in the tables of the queue, whose
\* _LockLinks it does not hold, and calls _LockLinks.lock() of the global
\* queue, which it holds already: it does not get any further.  If the thread of
\* the queue goes through the tables at that moment, it may miss links it has
\* not come to yet.
UnregisterQueueInGlobal(c) ==
    /\ Doing(c, "UnregisterQueue")
    /\ LET q == call[c].arg
           left == Unlink(links[q], mods[q])
           torn == {s \in {SubSeq(todo[q], 1, n) : n \in 0..Len(todo[q])} :
                      pc[q] = "handle" => s # <<>> /\ Head(s) = Head(todo[q])}
       IN  /\ links' = [links EXCEPT ![q] = left]
           /\ todo' \in {[todo EXCEPT ![q] = s] :
                          s \in IF left = links[q] THEN {todo[q]} ELSE torn}
    /\ listLock' = [listLock EXCEPT ![Global] = c]
    /\ pc' = [pc EXCEPT ![c] = "relock"]
    /\ UNCHANGED <<queues, mods, linkLock, inbox, msg, client, history>>

\* Mutant: the queue's tables are changed without its _LockLinks
ClientQueueLinksNot(c) ==
    /\ pc[c] = "queueLinks"
    /\ pc' = [pc EXCEPT ![c] = "queueList"]
    /\ UNCHANGED <<tables, locks, traffic, client, history>>

\* Register and Unregister of the queue: _LockLinks.lock()
ClientQueueLinks(c) ==
    /\ pc[c] = "queueLinks"
    /\ LET q == QueueOf[call[c].arg]
       IN  /\ linkLock[q] = None
           /\ linkLock' = [linkLock EXCEPT ![q] = c]
    /\ pc' = [pc EXCEPT ![c] = "queueList"]
    /\ UNCHANGED <<tables, listLock, traffic, client, history>>

\* _ModuleListLock.lock() of the queue; a module that is registered already
\* unlocks it and throws through RegisterModule, the three other locks held
RegisterInQueue(c) ==
    /\ pc[c] = "queueList"
    /\ call[c].op = "RegisterModule"
    /\ LET x == call[c].arg
           q == QueueOf[x]
       IN  /\ listLock[q] = None
           /\ IF x \in mods[q]
              THEN /\ pc' = [pc EXCEPT ![c] = "threw"]
                   /\ UNCHANGED <<mods, links, locks, call>>
              ELSE /\ mods' = [mods EXCEPT ![q] = @ \cup {x}]
                   /\ links' = [links EXCEPT ![q] = Link(@, x, Wants[x])]
                   /\ Return(c)
    /\ UNCHANGED <<queues, traffic, calls, history>>

\* Mutant: Unregister of the queue leaves the links of the queue alone
UnregisterInQueueKeepsLinks(c) ==
    /\ pc[c] = "queueList"
    /\ call[c].op = "UnregisterModule"
    /\ LET x == call[c].arg
           q == QueueOf[x]
       IN  /\ listLock[q] = None
           /\ mods' = [mods EXCEPT ![q] = @ \ {x}]
           /\ links' = [links EXCEPT ![Global] = Unlink(@, {x})]
    /\ Return(c)
    /\ UNCHANGED <<queues, traffic, calls, history>>

UnregisterInQueue(c) ==
    /\ pc[c] = "queueList"
    /\ call[c].op = "UnregisterModule"
    /\ LET x == call[c].arg
           q == QueueOf[x]
       IN  /\ listLock[q] = None
           /\ mods' = [mods EXCEPT ![q] = @ \ {x}]
           /\ links' = [links EXCEPT ![q] = Unlink(@, {x}),
                                     ![Global] = Unlink(@, {x})]
    /\ Return(c)
    /\ UNCHANGED <<queues, traffic, calls, history>>

ClientContinues(c) == \/ ClientLinks(c)
                      \/ RegisterInGlobal(c)
                      \/ UnregisterInGlobal(c)
                      \/ UnregisterQueueInGlobal(c)
                      \/ ClientQueueLinks(c)
                      \/ RegisterInQueue(c)
                      \/ UnregisterInQueue(c)

ClientBegins(c) ==
    \/ \E q \in Queues : RegisterQueue(c, q) \/ UnregisterQueue(c, q)
    \/ \E x \in Modules : RegisterModule(c, x) \/ UnregisterModule(c, x)
    \/ \E k \in Keys, x \in Modules : AddLink(c, k, x)

Client(c) == ClientBegins(c) \/ ClientContinues(c)
-------------------------------------------------------------------------------
Next == \/ \E m \in Msgs : Post(m)
        \/ GlobalThread
        \/ \E q \in Queues : QueueThread(q)
        \/ \E c \in Clients : Client(c)

Spec == Init /\ [][Next]_vars

\* Threads run, and a mutex that stays free is taken.  A client makes at most
\* MaxCalls calls, so that nobody keeps a lock from the others for ever.
Fairness == /\ WF_vars(GlobalThread)
            /\ \A q \in Queues : WF_vars(QueueThread(q))
            /\ \A c \in Clients : WF_vars(ClientContinues(c))

FairSpec == Spec /\ Fairness
-------------------------------------------------------------------------------
(* Properties. *)

HubPCs    == {"idle", "links", "list", "deliver", "handle", "dead"}
ClientPCs == {"idle", "links", "list", "queueLinks", "queueList", "relock", "threw"}
CallsMade == [op : {"none", "RegisterModule", "UnregisterModule", "UnregisterQueue"},
              arg : Modules \cup Queues \cup {None}]

TypeOK ==
    /\ queues \subseteq Queues
    /\ mods \in [Queues -> SUBSET Modules]
    /\ links \in [Hubs -> [Keys -> Seq(Modules)]]
    /\ linkLock \in [Hubs -> Threads \cup {None}]
    /\ listLock \in [Hubs -> Threads \cup {None}]
    /\ inbox \in [Hubs -> Seq(Msgs)]
    /\ pc \in [Threads -> HubPCs \cup ClientPCs]
    /\ msg \in [Hubs -> Msgs \cup {None}]
    /\ todo[Global] \in Seq(Queues)
    /\ \A q \in Queues : todo[q] \in Seq(IDs)
    /\ call \in [Clients -> CallsMade]
    /\ calls \in [Clients -> 0..MaxCalls]
    /\ posted \in Seq(Msgs)
    /\ copies \in [Msgs \X Queues -> Nat]
    /\ got \in [Modules -> Seq(Msgs)]

\* A module's handler runs only while the module is registered: when
\* UnregisterModule has given the module back to its caller, its handler is
\* over and is not called again (thread_module_manager.h:218-243, 329-348).
HandlerIsRegistered ==
    \A q \in Queues : pc[q] = "handle" => Head(todo[q]) \in mods[q]

\* However the receiver and its links overlap, a queue gets one copy of a
\* message (global_message_queue_thread.cpp:197-213, 252).
OneCopyPerQueue == \A m \in Msgs, q \in Queues : copies[<<m, q>>] <= 1

\* Messages go through both hops once and in order: a queue gets one copy of a
\* message, and a module sees messages in the order they were pushed, whoever
\* pushed them.
Position(m) == CHOOSE i \in DOMAIN posted : posted[i] = m
InOrder ==
    /\ OneCopyPerQueue
    /\ \A x \in Modules : \A i, j \in DOMAIN got[x] :
           i < j => Position(got[x][i]) <= Position(got[x][j])

\* The tables of a queue name only modules registered with it: no link survives
\* the module it leads to.
QueueLinksSound ==
    \A q \in Queues : linkLock[q] = None =>
        \A k \in Keys : ToSet(links[q][k]) \subseteq mods[q]

\* The tables of the two levels agree: what a registered module asked for is in
\* the tables of the global queue and in those of its own queue, whenever the
\* global tables are unlocked.  A link in one table only leads nowhere.
\* UnregisterQueue never comes to unlock them.
LevelsAgree ==
    linkLock[Global] = None =>
        \A q \in Queues : \A x \in mods[q] : \A k \in Wants[x] :
            x \in ToSet(links[Global][k]) /\ x \in ToSet(links[q][k])

\* The links are neither too many nor too few: none of a queue outlives its
\* module, and none a module asked for is missing at either level, whatever
\* registrations, unregistrations and failures come in between.
LinksSound == QueueLinksSound /\ LevelsAgree

\* Locks are taken in one order, global links, global list, queue links, queue
\* list, and of one queue at a time: whoever waits for a lock holds only earlier
\* ones, so threads never wait for each other in a circle.
Held(t) == {r \in 1..4 : \/ r = 1 /\ linkLock[Global] = t
                         \/ r = 2 /\ listLock[Global] = t
                         \/ r = 3 /\ \E q \in Queues : linkLock[q] = t
                         \/ r = 4 /\ \E q \in Queues : listLock[q] = t}
WaitsFor(t) ==
    IF t \in Queues
    THEN CASE pc[t] = "links" -> 3 [] pc[t] = "deliver" -> 4 [] OTHER -> 5
    ELSE CASE pc[t] \in {"links", "relock"} -> 1
           [] pc[t] = "list" -> 2
           [] pc[t] = "queueLinks" -> 3
           [] pc[t] = "queueList" -> 4
           [] OTHER -> 5
OrderedLocking == \A t \in Threads : \A r \in Held(t) : r < WaitsFor(t)

\* While a queue's thread goes through the queue's link tables nobody changes
\* them.  _LockLinks is there to "Lock the links vector"
\* (thread_module_manager_multi_message.h:288); UnregisterQueue changes the
\* vectors of the queue under the lock of the global queue.
LinksStable ==
    [][\A q \in Queues : pc[q] \in {"deliver", "handle"} => links'[q] = links[q]]_vars

\* A message to a module that is registered reaches its handler, unless the
\* module is unregistered: registration, unregistration and the traffic of
\* other queues do not lose it.
Reachable(x) == x \in mods[QueueOf[x]] /\ QueueOf[x] \in queues
EventuallyHandled ==
    \A m \in {n \in Msgs : To[n] \in Modules} :
        m \in ToSet(inbox[Global]) /\ Reachable(To[m])
        ~> m \in ToSet(got[To[m]]) \/ ~Reachable(To[m])

\* RegisterModule and UnregisterModule return.
CallsReturn ==
    \A c \in Clients : call[c].op \in {"RegisterModule", "UnregisterModule"} ~> pc[c] = "idle"
===============================================================================
