-------------------------- MODULE GlobalQueue_proofs --------------------------
(***************************************************************************)
(* Proofs about GlobalQueue: who holds which mutex when and what follows   *)
(* from it, what the link tables of the two levels hold, and the order in  *)
(* which messages go through both hops, with one copy for each queue.      *)
(***************************************************************************)
EXTENDS GlobalQueue, Lemmas, TLAPS

\* where each kind of thread can be
ThreadPCs ==
    /\ pc \in [Threads -> HubPCs \cup ClientPCs]
    /\ pc[Global] \in {"idle", "links", "list", "deliver"}
    /\ \A q \in Queues : pc[q] \in {"idle", "links", "deliver", "handle", "dead"}
    /\ \A c \in Clients : pc[c] \in ClientPCs

Functions ==
    /\ linkLock \in [Hubs -> Threads \cup {None}]
    /\ listLock \in [Hubs -> Threads \cup {None}]
    /\ DOMAIN links = Hubs
    /\ DOMAIN todo = Hubs
    /\ DOMAIN mods = Queues
    /\ DOMAIN call = Clients

\* what a client is doing where
CallFits(c) ==
    /\ pc[c] # "idle" => call[c].op \in {"RegisterModule", "UnregisterModule", "UnregisterQueue"}
    /\ pc[c] \in {"queueLinks", "queueList", "threw"} =>
           call[c].op \in {"RegisterModule", "UnregisterModule"}
    /\ pc[c] = "relock" => call[c].op = "UnregisterQueue"
    /\ call[c].op \in {"RegisterModule", "UnregisterModule"} => call[c].arg \in Modules
    /\ call[c].op = "UnregisterQueue" =>
           call[c].arg \in Queues /\ "UnregisterQueue" \in Calls
CallsFit == \A c \in Clients : CallFits(c)

\* who holds the two mutexes of the global queue
GlobalOwners ==
    /\ linkLock[Global] = Global <=> pc[Global] \in {"list", "deliver"}
    /\ listLock[Global] = Global <=> pc[Global] = "deliver"
    /\ \A q \in Queues : linkLock[Global] # q /\ listLock[Global] # q
    /\ \A c \in Clients :
          /\ linkLock[Global] = c <=>
                 pc[c] \in {"list", "queueLinks", "queueList", "threw", "relock"}
          /\ listLock[Global] = c <=>
                 pc[c] \in {"queueLinks", "queueList", "threw", "relock"}

\* who holds the two mutexes of a queue
QueueOwners ==
    \A q \in Queues :
        /\ linkLock[q] = q <=> pc[q] \in {"deliver", "handle", "dead"}
        /\ listLock[q] = q <=> pc[q] \in {"handle", "dead"}
        /\ listLock[q] \in {q, None}
        /\ linkLock[q] \in {q, None} \cup Clients
        /\ \A c \in Clients :
              linkLock[q] = c <=> /\ pc[c] \in {"queueList", "threw"}
                                  /\ QueueOf[call[c].arg] = q

\* the action of LinksStable
LinksFixed == \A q \in Queues : pc[q] \in {"deliver", "handle"} => links'[q] = links[q]

LockInv == ThreadPCs /\ Functions /\ CallsFit /\ GlobalOwners /\ QueueOwners

\* Every step keeps the threads where they can be.
LEMMA ThreadPCsStep == LockInv /\ [Next]_vars => ThreadPCs'
<1> SUFFICES ASSUME LockInv, [Next]_vars
             PROVE  ThreadPCs'
  OBVIOUS
<1> USE IDAssumption, ThreadAssumption DEF LockInv, ThreadPCs, Functions, CallsFit, CallFits,
        Hubs, Threads, ClientPCs, HubPCs
<1>1. ASSUME NEW m \in Msgs, Post(m) PROVE ThreadPCs'
  BY <1>1
     DEF Post, tables, locks, client
<1>2. ASSUME NEW h \in Hubs, Take(h) PROVE ThreadPCs'
  BY <1>2
     DEF Take, tables, locks, traffic, client, history
<1>3. CASE GlobalLinks
  BY <1>3
     DEF GlobalLinks, tables, locks, traffic, client, history
<1>4. CASE GlobalList
  BY <1>4
     DEF GlobalList, tables, locks, traffic, client, history
<1>5. CASE GlobalDeliver
  BY <1>5
     DEF GlobalDeliver, tables, locks, traffic, client, history
<1>6. CASE GlobalDone
  BY <1>6
     DEF GlobalDone, tables, locks, traffic, client, history
<1>7. ASSUME NEW q \in Queues, QueueLinks(q) PROVE ThreadPCs'
  BY <1>7
     DEF QueueLinks, tables, locks, traffic, client, history
<1>8. ASSUME NEW q \in Queues, QueueFind(q) PROVE ThreadPCs'
  BY <1>8
     DEF QueueFind, tables, locks, traffic, client, history
<1>9. ASSUME NEW q \in Queues, HandlerReturns(q) PROVE ThreadPCs'
  BY <1>9
     DEF HandlerReturns, tables, locks, traffic, client, history
<1>10. ASSUME NEW q \in Queues, HandlerThrows(q) PROVE ThreadPCs'
  BY <1>10
     DEF HandlerThrows, tables, locks, traffic, client, history
<1>11. ASSUME NEW q \in Queues, QueueDone(q) PROVE ThreadPCs'
  BY <1>11
     DEF QueueDone, tables, locks, traffic, client, history
<1>12. ASSUME NEW c \in Clients, NEW q \in Queues, RegisterQueue(c, q)
      PROVE ThreadPCs'
  BY <1>12
     DEF RegisterQueue, CanCall, Counted, locks, traffic, history
<1>13. ASSUME NEW c \in Clients, NEW k \in Keys, NEW x \in Modules, AddLink(c, k, x)
      PROVE ThreadPCs'
  BY <1>13
     DEF AddLink, CanCall, Counted, locks, traffic, history
<1>14. ASSUME NEW c \in Clients, NEW x \in Modules, RegisterModule(c, x)
      PROVE ThreadPCs'
  BY <1>14
     DEF RegisterModule, Begin, CanCall, Counted, tables, locks, traffic, history
<1>15. ASSUME NEW c \in Clients, NEW x \in Modules, UnregisterModule(c, x)
      PROVE ThreadPCs'
  BY <1>15
     DEF UnregisterModule, Begin, CanCall, Counted, tables, locks, traffic, history
<1>16. ASSUME NEW c \in Clients, NEW q \in Queues, UnregisterQueue(c, q)
      PROVE ThreadPCs'
  BY <1>16
     DEF UnregisterQueue, Begin, CanCall, Counted, tables, locks, traffic, history
<1>17. ASSUME NEW c \in Clients, ClientLinks(c) PROVE ThreadPCs'
  BY <1>17
     DEF ClientLinks, tables, traffic, client, history
<1>18. ASSUME NEW c \in Clients, RegisterInGlobal(c) PROVE ThreadPCs'
  BY <1>18
     DEF RegisterInGlobal, Doing, ToQueue, Return, traffic, history
<1>19. ASSUME NEW c \in Clients, UnregisterInGlobal(c) PROVE ThreadPCs'
  BY <1>19
     DEF UnregisterInGlobal, Doing, ToQueue, Return, traffic, history
<1>20. ASSUME NEW c \in Clients, UnregisterQueueInGlobal(c) PROVE ThreadPCs'
  BY <1>20
     DEF UnregisterQueueInGlobal, Doing, client, history
<1>21. ASSUME NEW c \in Clients, ClientQueueLinks(c) PROVE ThreadPCs'
  BY <1>21
     DEF ClientQueueLinks, tables, traffic, client, history
<1>22. ASSUME NEW c \in Clients, RegisterInQueue(c) PROVE ThreadPCs'
  BY <1>22
     DEF RegisterInQueue, Return, locks, traffic, history
<1>23. ASSUME NEW c \in Clients, UnregisterInQueue(c) PROVE ThreadPCs'
  BY <1>23
     DEF UnregisterInQueue, Return, traffic, history
<1>24. CASE UNCHANGED vars
  BY <1>24 DEF vars
<1> QED
  BY <1>1, <1>2, <1>3, <1>4, <1>5, <1>6, <1>7, <1>8, <1>9, <1>10, <1>11, <1>12,
     <1>13, <1>14, <1>15, <1>16, <1>17, <1>18, <1>19, <1>20, <1>21, <1>22,
     <1>23, <1>24
     DEF Next, GlobalThread, QueueThread, Client, ClientBegins, ClientContinues, Hubs

\* Every step keeps the variables functions of hubs, queues and clients.
LEMMA FunctionsStep == LockInv /\ [Next]_vars => Functions'
<1> SUFFICES ASSUME LockInv, [Next]_vars
             PROVE  Functions'
  OBVIOUS
<1> USE IDAssumption, ThreadAssumption DEF LockInv, ThreadPCs, Functions, CallsFit, CallFits,
        Hubs, Threads, ClientPCs, HubPCs
<1>1. ASSUME NEW m \in Msgs, Post(m) PROVE Functions'
  BY <1>1
     DEF Post, tables, locks, client
<1>2. ASSUME NEW h \in Hubs, Take(h) PROVE Functions'
  BY <1>2
     DEF Take, tables, locks, traffic, client, history
<1>3. CASE GlobalLinks
  BY <1>3
     DEF GlobalLinks, tables, locks, traffic, client, history
<1>4. CASE GlobalList
  BY <1>4
     DEF GlobalList, tables, locks, traffic, client, history
<1>5. CASE GlobalDeliver
  BY <1>5
     DEF GlobalDeliver, tables, locks, traffic, client, history
<1>6. CASE GlobalDone
  BY <1>6
     DEF GlobalDone, tables, locks, traffic, client, history
<1>7. ASSUME NEW q \in Queues, QueueLinks(q) PROVE Functions'
  BY <1>7
     DEF QueueLinks, tables, locks, traffic, client, history
<1>8. ASSUME NEW q \in Queues, QueueFind(q) PROVE Functions'
  BY <1>8
     DEF QueueFind, tables, locks, traffic, client, history
<1>9. ASSUME NEW q \in Queues, HandlerReturns(q) PROVE Functions'
  BY <1>9
     DEF HandlerReturns, tables, locks, traffic, client, history
<1>10. ASSUME NEW q \in Queues, HandlerThrows(q) PROVE Functions'
  BY <1>10
     DEF HandlerThrows, tables, locks, traffic, client, history
<1>11. ASSUME NEW q \in Queues, QueueDone(q) PROVE Functions'
  BY <1>11
     DEF QueueDone, tables, locks, traffic, client, history
<1>12. ASSUME NEW c \in Clients, NEW q \in Queues, RegisterQueue(c, q)
      PROVE Functions'
  BY <1>12
     DEF RegisterQueue, CanCall, Counted, locks, traffic, history
<1>13. ASSUME NEW c \in Clients, NEW k \in Keys, NEW x \in Modules, AddLink(c, k, x)
      PROVE Functions'
  BY <1>13
     DEF AddLink, CanCall, Counted, locks, traffic, history
<1>14. ASSUME NEW c \in Clients, NEW x \in Modules, RegisterModule(c, x)
      PROVE Functions'
  BY <1>14
     DEF RegisterModule, Begin, CanCall, Counted, tables, locks, traffic, history
<1>15. ASSUME NEW c \in Clients, NEW x \in Modules, UnregisterModule(c, x)
      PROVE Functions'
  BY <1>15
     DEF UnregisterModule, Begin, CanCall, Counted, tables, locks, traffic, history
<1>16. ASSUME NEW c \in Clients, NEW q \in Queues, UnregisterQueue(c, q)
      PROVE Functions'
  BY <1>16
     DEF UnregisterQueue, Begin, CanCall, Counted, tables, locks, traffic, history
<1>17. ASSUME NEW c \in Clients, ClientLinks(c) PROVE Functions'
  BY <1>17
     DEF ClientLinks, tables, traffic, client, history
<1>18. ASSUME NEW c \in Clients, RegisterInGlobal(c) PROVE Functions'
  BY <1>18
     DEF RegisterInGlobal, Doing, ToQueue, Return, traffic, history
<1>19. ASSUME NEW c \in Clients, UnregisterInGlobal(c) PROVE Functions'
  BY <1>19
     DEF UnregisterInGlobal, Doing, ToQueue, Return, traffic, history
<1>20. ASSUME NEW c \in Clients, UnregisterQueueInGlobal(c) PROVE Functions'
  BY <1>20
     DEF UnregisterQueueInGlobal, Doing, client, history
<1>21. ASSUME NEW c \in Clients, ClientQueueLinks(c) PROVE Functions'
  BY <1>21
     DEF ClientQueueLinks, tables, traffic, client, history
<1>22. ASSUME NEW c \in Clients, RegisterInQueue(c) PROVE Functions'
  BY <1>22
     DEF RegisterInQueue, Return, locks, traffic, history
<1>23. ASSUME NEW c \in Clients, UnregisterInQueue(c) PROVE Functions'
  BY <1>23
     DEF UnregisterInQueue, Return, traffic, history
<1>24. CASE UNCHANGED vars
  BY <1>24 DEF vars
<1> QED
  BY <1>1, <1>2, <1>3, <1>4, <1>5, <1>6, <1>7, <1>8, <1>9, <1>10, <1>11, <1>12,
     <1>13, <1>14, <1>15, <1>16, <1>17, <1>18, <1>19, <1>20, <1>21, <1>22,
     <1>23, <1>24
     DEF Next, GlobalThread, QueueThread, Client, ClientBegins, ClientContinues, Hubs

\* Every step keeps each client's place in line with its call.
LEMMA CallsFitStep == LockInv /\ [Next]_vars => CallsFit'
<1> SUFFICES ASSUME LockInv, [Next]_vars
             PROVE  CallsFit'
  OBVIOUS
<1> USE IDAssumption, ThreadAssumption DEF LockInv, ThreadPCs, Functions, CallsFit, CallFits,
        Hubs, Threads, ClientPCs, HubPCs, NoCall
<1>1. ASSUME NEW m \in Msgs, Post(m) PROVE CallsFit'
  BY <1>1
     DEF Post, tables, locks, client
<1>2. ASSUME NEW h \in Hubs, Take(h) PROVE CallsFit'
  BY <1>2
     DEF Take, tables, locks, traffic, client, history
<1>3. CASE GlobalLinks
  BY <1>3
     DEF GlobalLinks, tables, locks, traffic, client, history
<1>4. CASE GlobalList
  BY <1>4
     DEF GlobalList, tables, locks, traffic, client, history
<1>5. CASE GlobalDeliver
  BY <1>5
     DEF GlobalDeliver, tables, locks, traffic, client, history
<1>6. CASE GlobalDone
  BY <1>6
     DEF GlobalDone, tables, locks, traffic, client, history
<1>7. ASSUME NEW q \in Queues, QueueLinks(q) PROVE CallsFit'
  BY <1>7
     DEF QueueLinks, tables, locks, traffic, client, history
<1>8. ASSUME NEW q \in Queues, QueueFind(q) PROVE CallsFit'
  BY <1>8
     DEF QueueFind, tables, locks, traffic, client, history
<1>9. ASSUME NEW q \in Queues, HandlerReturns(q) PROVE CallsFit'
  BY <1>9
     DEF HandlerReturns, tables, locks, traffic, client, history
<1>10. ASSUME NEW q \in Queues, HandlerThrows(q) PROVE CallsFit'
  BY <1>10
     DEF HandlerThrows, tables, locks, traffic, client, history
<1>11. ASSUME NEW q \in Queues, QueueDone(q) PROVE CallsFit'
  BY <1>11
     DEF QueueDone, tables, locks, traffic, client, history
<1>12. ASSUME NEW c \in Clients, NEW q \in Queues, RegisterQueue(c, q)
      PROVE CallsFit'
  BY <1>12
     DEF RegisterQueue, CanCall, Counted, locks, traffic, history
<1>13. ASSUME NEW c \in Clients, NEW k \in Keys, NEW x \in Modules, AddLink(c, k, x)
      PROVE CallsFit'
  BY <1>13
     DEF AddLink, CanCall, Counted, locks, traffic, history
<1>14. ASSUME NEW c \in Clients, NEW x \in Modules, RegisterModule(c, x)
      PROVE CallsFit'
  BY <1>14
     DEF RegisterModule, Begin, CanCall, Counted, tables, locks, traffic, history
<1>15. ASSUME NEW c \in Clients, NEW x \in Modules, UnregisterModule(c, x)
      PROVE CallsFit'
  BY <1>15
     DEF UnregisterModule, Begin, CanCall, Counted, tables, locks, traffic, history
<1>16. ASSUME NEW c \in Clients, NEW q \in Queues, UnregisterQueue(c, q)
      PROVE CallsFit'
  BY <1>16
     DEF UnregisterQueue, Begin, CanCall, Counted, tables, locks, traffic, history
<1>17. ASSUME NEW c \in Clients, ClientLinks(c) PROVE CallsFit'
  BY <1>17
     DEF ClientLinks, tables, traffic, client, history
<1>18. ASSUME NEW c \in Clients, RegisterInGlobal(c) PROVE CallsFit'
  BY <1>18
     DEF RegisterInGlobal, Doing, ToQueue, Return, traffic, history
<1>19. ASSUME NEW c \in Clients, UnregisterInGlobal(c) PROVE CallsFit'
  BY <1>19
     DEF UnregisterInGlobal, Doing, ToQueue, Return, traffic, history
<1>20. ASSUME NEW c \in Clients, UnregisterQueueInGlobal(c) PROVE CallsFit'
  BY <1>20
     DEF UnregisterQueueInGlobal, Doing, client, history
<1>21. ASSUME NEW c \in Clients, ClientQueueLinks(c) PROVE CallsFit'
  BY <1>21
     DEF ClientQueueLinks, tables, traffic, client, history
<1>22. ASSUME NEW c \in Clients, RegisterInQueue(c) PROVE CallsFit'
  BY <1>22
     DEF RegisterInQueue, Return, locks, traffic, history
<1>23. ASSUME NEW c \in Clients, UnregisterInQueue(c) PROVE CallsFit'
  BY <1>23
     DEF UnregisterInQueue, Return, traffic, history
<1>24. CASE UNCHANGED vars
  BY <1>24 DEF vars
<1> QED
  BY <1>1, <1>2, <1>3, <1>4, <1>5, <1>6, <1>7, <1>8, <1>9, <1>10, <1>11, <1>12,
     <1>13, <1>14, <1>15, <1>16, <1>17, <1>18, <1>19, <1>20, <1>21, <1>22,
     <1>23, <1>24
     DEF Next, GlobalThread, QueueThread, Client, ClientBegins, ClientContinues, Hubs

\* Every step keeps the owners of the global queue's mutexes.
LEMMA GlobalOwnersStep == LockInv /\ [Next]_vars => GlobalOwners'
<1> SUFFICES ASSUME LockInv, [Next]_vars
             PROVE  GlobalOwners'
  OBVIOUS
<1> USE IDAssumption, ThreadAssumption DEF LockInv, ThreadPCs, Functions, CallsFit, CallFits,
        Hubs, Threads, ClientPCs, HubPCs, GlobalOwners, QueueOwners
<1>1. ASSUME NEW m \in Msgs, Post(m) PROVE GlobalOwners'
  BY <1>1
     DEF Post, tables, locks, client
<1>2. ASSUME NEW h \in Hubs, Take(h) PROVE GlobalOwners'
  BY <1>2
     DEF Take, tables, locks, traffic, client, history
<1>3. CASE GlobalLinks
  BY <1>3
     DEF GlobalLinks, tables, locks, traffic, client, history
<1>4. CASE GlobalList
  BY <1>4
     DEF GlobalList, tables, locks, traffic, client, history
<1>5. CASE GlobalDeliver
  BY <1>5
     DEF GlobalDeliver, tables, locks, traffic, client, history
<1>6. CASE GlobalDone
  BY <1>6
     DEF GlobalDone, tables, locks, traffic, client, history
<1>7. ASSUME NEW q \in Queues, QueueLinks(q) PROVE GlobalOwners'
  BY <1>7
     DEF QueueLinks, tables, locks, traffic, client, history
<1>8. ASSUME NEW q \in Queues, QueueFind(q) PROVE GlobalOwners'
  BY <1>8
     DEF QueueFind, tables, locks, traffic, client, history
<1>9. ASSUME NEW q \in Queues, HandlerReturns(q) PROVE GlobalOwners'
  BY <1>9
     DEF HandlerReturns, tables, locks, traffic, client, history
<1>10. ASSUME NEW q \in Queues, HandlerThrows(q) PROVE GlobalOwners'
  BY <1>10
     DEF HandlerThrows, tables, locks, traffic, client, history
<1>11. ASSUME NEW q \in Queues, QueueDone(q) PROVE GlobalOwners'
  BY <1>11
     DEF QueueDone, tables, locks, traffic, client, history
<1>12. ASSUME NEW c \in Clients, NEW q \in Queues, RegisterQueue(c, q)
      PROVE GlobalOwners'
  BY <1>12
     DEF RegisterQueue, CanCall, Counted, locks, traffic, history
<1>13. ASSUME NEW c \in Clients, NEW k \in Keys, NEW x \in Modules, AddLink(c, k, x)
      PROVE GlobalOwners'
  BY <1>13
     DEF AddLink, CanCall, Counted, locks, traffic, history
<1>14. ASSUME NEW c \in Clients, NEW x \in Modules, RegisterModule(c, x)
      PROVE GlobalOwners'
  BY <1>14
     DEF RegisterModule, Begin, CanCall, Counted, tables, locks, traffic, history
<1>15. ASSUME NEW c \in Clients, NEW x \in Modules, UnregisterModule(c, x)
      PROVE GlobalOwners'
  BY <1>15
     DEF UnregisterModule, Begin, CanCall, Counted, tables, locks, traffic, history
<1>16. ASSUME NEW c \in Clients, NEW q \in Queues, UnregisterQueue(c, q)
      PROVE GlobalOwners'
  BY <1>16
     DEF UnregisterQueue, Begin, CanCall, Counted, tables, locks, traffic, history
<1>17. ASSUME NEW c \in Clients, ClientLinks(c) PROVE GlobalOwners'
  BY <1>17
     DEF ClientLinks, tables, traffic, client, history
<1>18. ASSUME NEW c \in Clients, RegisterInGlobal(c) PROVE GlobalOwners'
  BY <1>18
     DEF RegisterInGlobal, Doing, ToQueue, Return, traffic, history
<1>19. ASSUME NEW c \in Clients, UnregisterInGlobal(c) PROVE GlobalOwners'
  BY <1>19
     DEF UnregisterInGlobal, Doing, ToQueue, Return, traffic, history
<1>20. ASSUME NEW c \in Clients, UnregisterQueueInGlobal(c) PROVE GlobalOwners'
  BY <1>20
     DEF UnregisterQueueInGlobal, Doing, client, history
<1>21. ASSUME NEW c \in Clients, ClientQueueLinks(c) PROVE GlobalOwners'
  BY <1>21
     DEF ClientQueueLinks, tables, traffic, client, history
<1>22. ASSUME NEW c \in Clients, RegisterInQueue(c) PROVE GlobalOwners'
  BY <1>22
     DEF RegisterInQueue, Return, locks, traffic, history
<1>23. ASSUME NEW c \in Clients, UnregisterInQueue(c) PROVE GlobalOwners'
  BY <1>23
     DEF UnregisterInQueue, Return, traffic, history
<1>24. CASE UNCHANGED vars
  BY <1>24 DEF vars
<1> QED
  BY <1>1, <1>2, <1>3, <1>4, <1>5, <1>6, <1>7, <1>8, <1>9, <1>10, <1>11, <1>12,
     <1>13, <1>14, <1>15, <1>16, <1>17, <1>18, <1>19, <1>20, <1>21, <1>22,
     <1>23, <1>24
     DEF Next, GlobalThread, QueueThread, Client, ClientBegins, ClientContinues, Hubs

\* Every step keeps the owners of the queues' mutexes.
LEMMA QueueOwnersStep == LockInv /\ [Next]_vars => QueueOwners'
<1> SUFFICES ASSUME LockInv, [Next]_vars
             PROVE  QueueOwners'
  OBVIOUS
<1> USE IDAssumption, ThreadAssumption DEF LockInv, ThreadPCs, Functions, CallsFit, CallFits,
        Hubs, Threads, ClientPCs, HubPCs, GlobalOwners, QueueOwners, NoCall
<1>1. ASSUME NEW m \in Msgs, Post(m) PROVE QueueOwners'
  BY <1>1
     DEF Post, tables, locks, client
<1>2. ASSUME NEW h \in Hubs, Take(h) PROVE QueueOwners'
  BY <1>2
     DEF Take, tables, locks, traffic, client, history
<1>3. CASE GlobalLinks
  BY <1>3
     DEF GlobalLinks, tables, locks, traffic, client, history
<1>4. CASE GlobalList
  BY <1>4
     DEF GlobalList, tables, locks, traffic, client, history
<1>5. CASE GlobalDeliver
  BY <1>5
     DEF GlobalDeliver, tables, locks, traffic, client, history
<1>6. CASE GlobalDone
  BY <1>6
     DEF GlobalDone, tables, locks, traffic, client, history
<1>7. ASSUME NEW q \in Queues, QueueLinks(q) PROVE QueueOwners'
  BY <1>7
     DEF QueueLinks, tables, locks, traffic, client, history
<1>8. ASSUME NEW q \in Queues, QueueFind(q) PROVE QueueOwners'
  BY <1>8
     DEF QueueFind, tables, locks, traffic, client, history
<1>9. ASSUME NEW q \in Queues, HandlerReturns(q) PROVE QueueOwners'
  BY <1>9
     DEF HandlerReturns, tables, locks, traffic, client, history
<1>10. ASSUME NEW q \in Queues, HandlerThrows(q) PROVE QueueOwners'
  BY <1>10
     DEF HandlerThrows, tables, locks, traffic, client, history
<1>11. ASSUME NEW q \in Queues, QueueDone(q) PROVE QueueOwners'
  BY <1>11
     DEF QueueDone, tables, locks, traffic, client, history
<1>12. ASSUME NEW c \in Clients, NEW q \in Queues, RegisterQueue(c, q)
      PROVE QueueOwners'
  BY <1>12
     DEF RegisterQueue, CanCall, Counted, locks, traffic, history
<1>13. ASSUME NEW c \in Clients, NEW k \in Keys, NEW x \in Modules, AddLink(c, k, x)
      PROVE QueueOwners'
  BY <1>13
     DEF AddLink, CanCall, Counted, locks, traffic, history
<1>14. ASSUME NEW c \in Clients, NEW x \in Modules, RegisterModule(c, x)
      PROVE QueueOwners'
  BY <1>14
     DEF RegisterModule, Begin, CanCall, Counted, tables, locks, traffic, history
<1>15. ASSUME NEW c \in Clients, NEW x \in Modules, UnregisterModule(c, x)
      PROVE QueueOwners'
  BY <1>15
     DEF UnregisterModule, Begin, CanCall, Counted, tables, locks, traffic, history
<1>16. ASSUME NEW c \in Clients, NEW q \in Queues, UnregisterQueue(c, q)
      PROVE QueueOwners'
  BY <1>16
     DEF UnregisterQueue, Begin, CanCall, Counted, tables, locks, traffic, history
<1>17. ASSUME NEW c \in Clients, ClientLinks(c) PROVE QueueOwners'
  BY <1>17
     DEF ClientLinks, tables, traffic, client, history
<1>18. ASSUME NEW c \in Clients, RegisterInGlobal(c) PROVE QueueOwners'
  BY <1>18
     DEF RegisterInGlobal, Doing, ToQueue, Return, traffic, history
<1>19. ASSUME NEW c \in Clients, UnregisterInGlobal(c) PROVE QueueOwners'
  BY <1>19
     DEF UnregisterInGlobal, Doing, ToQueue, Return, traffic, history
<1>20. ASSUME NEW c \in Clients, UnregisterQueueInGlobal(c) PROVE QueueOwners'
  BY <1>20
     DEF UnregisterQueueInGlobal, Doing, client, history
<1>21. ASSUME NEW c \in Clients, ClientQueueLinks(c) PROVE QueueOwners'
  BY <1>21
     DEF ClientQueueLinks, tables, traffic, client, history
<1>22. ASSUME NEW c \in Clients, RegisterInQueue(c) PROVE QueueOwners'
  BY <1>22
     DEF RegisterInQueue, Return, locks, traffic, history
<1>23. ASSUME NEW c \in Clients, UnregisterInQueue(c) PROVE QueueOwners'
  BY <1>23
     DEF UnregisterInQueue, Return, traffic, history
<1>24. CASE UNCHANGED vars
  BY <1>24 DEF vars
<1> QED
  BY <1>1, <1>2, <1>3, <1>4, <1>5, <1>6, <1>7, <1>8, <1>9, <1>10, <1>11, <1>12,
     <1>13, <1>14, <1>15, <1>16, <1>17, <1>18, <1>19, <1>20, <1>21, <1>22,
     <1>23, <1>24
     DEF Next, GlobalThread, QueueThread, Client, ClientBegins, ClientContinues, Hubs

\* Initially nobody holds a mutex.
LEMMA InitLockInv == Init => LockInv
<1> SUFFICES ASSUME Init
             PROVE  LockInv
  OBVIOUS
<1> USE IDAssumption, ThreadAssumption DEF Init, Hubs, Threads
<1>1. ThreadPCs
  BY DEF ThreadPCs, ClientPCs, HubPCs
<1>2. Functions
  BY DEF Functions
<1>3. CallsFit
  BY DEF CallsFit, CallFits, NoCall
<1>4. GlobalOwners
  BY DEF GlobalOwners
<1>5. QueueOwners
  BY DEF QueueOwners
<1> QED
  BY <1>1, <1>2, <1>3, <1>4, <1>5 DEF LockInv

\* A mutex is held by exactly the threads whose place in the code says so.
THEOREM Locking == Spec => []LockInv
<1>1. Init => LockInv
  BY InitLockInv
<1>2. LockInv /\ [Next]_vars => LockInv'
  BY ThreadPCsStep, FunctionsStep, CallsFitStep, GlobalOwnersStep, QueueOwnersStep
     DEF LockInv
<1> QED
  BY <1>1, <1>2, PTL DEF Spec

\* Every step keeps the module of a running handler registered: a module leaves
\* its queue only under the list's mutex, which the handler holds.
LEMMA HandlerStep == LockInv /\ HandlerIsRegistered /\ [Next]_vars => HandlerIsRegistered'
<1> SUFFICES ASSUME LockInv, HandlerIsRegistered, [Next]_vars
             PROVE  HandlerIsRegistered'
  OBVIOUS
<1> USE IDAssumption, ThreadAssumption DEF LockInv, ThreadPCs, Functions, CallsFit, CallFits,
        Hubs, Threads, ClientPCs, HubPCs,
        QueueOwners, HandlerIsRegistered
<1>1. ASSUME NEW m \in Msgs, Post(m) PROVE HandlerIsRegistered'
  BY <1>1
     DEF Post, tables, locks, client
<1>2. ASSUME NEW h \in Hubs, Take(h) PROVE HandlerIsRegistered'
  BY <1>2
     DEF Take, tables, locks, traffic, client, history
<1>3. CASE GlobalLinks
  BY <1>3
     DEF GlobalLinks, tables, locks, traffic, client, history
<1>4. CASE GlobalList
  BY <1>4
     DEF GlobalList, tables, locks, traffic, client, history
<1>5. CASE GlobalDeliver
  BY <1>5
     DEF GlobalDeliver, tables, locks, traffic, client, history
<1>6. CASE GlobalDone
  BY <1>6
     DEF GlobalDone, tables, locks, traffic, client, history
<1>7. ASSUME NEW q \in Queues, QueueLinks(q) PROVE HandlerIsRegistered'
  BY <1>7
     DEF QueueLinks, tables, locks, traffic, client, history
<1>8. ASSUME NEW q \in Queues, QueueFind(q) PROVE HandlerIsRegistered'
  BY <1>8
     DEF QueueFind, tables, locks, traffic, client, history
<1>9. ASSUME NEW q \in Queues, HandlerReturns(q) PROVE HandlerIsRegistered'
  BY <1>9
     DEF HandlerReturns, tables, locks, traffic, client, history
<1>10. ASSUME NEW q \in Queues, HandlerThrows(q) PROVE HandlerIsRegistered'
  BY <1>10
     DEF HandlerThrows, tables, locks, traffic, client, history
<1>11. ASSUME NEW q \in Queues, QueueDone(q) PROVE HandlerIsRegistered'
  BY <1>11
     DEF QueueDone, tables, locks, traffic, client, history
<1>12. ASSUME NEW c \in Clients, NEW q \in Queues, RegisterQueue(c, q)
      PROVE HandlerIsRegistered'
  BY <1>12
     DEF RegisterQueue, CanCall, Counted, locks, traffic, history
<1>13. ASSUME NEW c \in Clients, NEW k \in Keys, NEW x \in Modules, AddLink(c, k, x)
      PROVE HandlerIsRegistered'
  BY <1>13
     DEF AddLink, CanCall, Counted, locks, traffic, history
<1>14. ASSUME NEW c \in Clients, NEW x \in Modules, RegisterModule(c, x)
      PROVE HandlerIsRegistered'
  BY <1>14
     DEF RegisterModule, Begin, CanCall, Counted, tables, locks, traffic, history
<1>15. ASSUME NEW c \in Clients, NEW x \in Modules, UnregisterModule(c, x)
      PROVE HandlerIsRegistered'
  BY <1>15
     DEF UnregisterModule, Begin, CanCall, Counted, tables, locks, traffic, history
<1>16. ASSUME NEW c \in Clients, NEW q \in Queues, UnregisterQueue(c, q)
      PROVE HandlerIsRegistered'
  BY <1>16
     DEF UnregisterQueue, Begin, CanCall, Counted, tables, locks, traffic, history
<1>17. ASSUME NEW c \in Clients, ClientLinks(c) PROVE HandlerIsRegistered'
  BY <1>17
     DEF ClientLinks, tables, traffic, client, history
<1>18. ASSUME NEW c \in Clients, RegisterInGlobal(c) PROVE HandlerIsRegistered'
  BY <1>18
     DEF RegisterInGlobal, Doing, ToQueue, Return, traffic, history
<1>19. ASSUME NEW c \in Clients, UnregisterInGlobal(c) PROVE HandlerIsRegistered'
  BY <1>19
     DEF UnregisterInGlobal, Doing, ToQueue, Return, traffic, history
<1>20. ASSUME NEW c \in Clients, UnregisterQueueInGlobal(c) PROVE HandlerIsRegistered'
  BY <1>20
     DEF UnregisterQueueInGlobal, Doing, client, history
<1>21. ASSUME NEW c \in Clients, ClientQueueLinks(c) PROVE HandlerIsRegistered'
  BY <1>21
     DEF ClientQueueLinks, tables, traffic, client, history
<1>22. ASSUME NEW c \in Clients, RegisterInQueue(c) PROVE HandlerIsRegistered'
  BY <1>22
     DEF RegisterInQueue, Return, locks, traffic, history
<1>23. ASSUME NEW c \in Clients, UnregisterInQueue(c) PROVE HandlerIsRegistered'
  BY <1>23
     DEF UnregisterInQueue, Return, traffic, history
<1>24. CASE UNCHANGED vars
  BY <1>24 DEF vars
<1> QED
  BY <1>1, <1>2, <1>3, <1>4, <1>5, <1>6, <1>7, <1>8, <1>9, <1>10, <1>11, <1>12,
     <1>13, <1>14, <1>15, <1>16, <1>17, <1>18, <1>19, <1>20, <1>21, <1>22,
     <1>23, <1>24
     DEF Next, GlobalThread, QueueThread, Client, ClientBegins, ClientContinues, Hubs

\* While a module's handler runs the module is registered, for every number of
\* queues, modules and clients, whatever is called and thrown.
THEOREM HandlersRegistered == Spec => []HandlerIsRegistered
<1>1. Init => HandlerIsRegistered
  BY DEF Init, HandlerIsRegistered, Threads, Hubs
<1>2. LockInv /\ HandlerIsRegistered /\ [Next]_vars => HandlerIsRegistered'
  BY HandlerStep
<1> QED
  BY <1>1, <1>2, Locking, PTL DEF Spec

\* Where no queue is unregistered, whoever waits for a mutex holds only mutexes
\* that come before it in the order.
THEOREM OrderedLocks ==
    ASSUME "UnregisterQueue" \notin Calls
    PROVE  Spec => []OrderedLocking
<1>1. LockInv => OrderedLocking
  <2> SUFFICES ASSUME LockInv, NEW t \in Threads, NEW r \in Held(t)
               PROVE  r < WaitsFor(t)
    BY DEF OrderedLocking
  <2> USE ThreadAssumption DEF LockInv, Hubs, Threads
  <2>1. CASE t = Global
    BY <2>1 DEF ThreadPCs, GlobalOwners, QueueOwners, Held, WaitsFor
  <2>2. CASE t \in Queues
    BY <2>2 DEF ThreadPCs, GlobalOwners, QueueOwners, Held, WaitsFor
  <2>3. CASE t \in Clients
    <3>1. pc[t] # "relock"
      BY <2>3 DEF CallsFit, CallFits
    <3> QED
      BY <2>3, <3>1 DEF ThreadPCs, ClientPCs, GlobalOwners, QueueOwners, Held, WaitsFor
  <2> QED
    BY <2>1, <2>2, <2>3
<1> QED
  BY <1>1, Locking, PTL

\* Where no queue is unregistered, no step changes the link tables of a queue
\* whose thread goes through them.
LEMMA LinksStep == "UnregisterQueue" \notin Calls /\ LockInv /\ [Next]_vars => LinksFixed
<1> SUFFICES ASSUME "UnregisterQueue" \notin Calls, LockInv, [Next]_vars
             PROVE  LinksFixed
  OBVIOUS
<1> USE IDAssumption, ThreadAssumption DEF LockInv, ThreadPCs, Functions, CallsFit, CallFits,
        Hubs, Threads, ClientPCs, HubPCs,
        QueueOwners, LinksFixed
<1>1. ASSUME NEW m \in Msgs, Post(m) PROVE LinksFixed
  BY <1>1
     DEF Post, tables, locks, client
<1>2. ASSUME NEW h \in Hubs, Take(h) PROVE LinksFixed
  BY <1>2
     DEF Take, tables, locks, traffic, client, history
<1>3. CASE GlobalLinks
  BY <1>3
     DEF GlobalLinks, tables, locks, traffic, client, history
<1>4. CASE GlobalList
  BY <1>4
     DEF GlobalList, tables, locks, traffic, client, history
<1>5. CASE GlobalDeliver
  BY <1>5
     DEF GlobalDeliver, tables, locks, traffic, client, history
<1>6. CASE GlobalDone
  BY <1>6
     DEF GlobalDone, tables, locks, traffic, client, history
<1>7. ASSUME NEW q \in Queues, QueueLinks(q) PROVE LinksFixed
  BY <1>7
     DEF QueueLinks, tables, locks, traffic, client, history
<1>8. ASSUME NEW q \in Queues, QueueFind(q) PROVE LinksFixed
  BY <1>8
     DEF QueueFind, tables, locks, traffic, client, history
<1>9. ASSUME NEW q \in Queues, HandlerReturns(q) PROVE LinksFixed
  BY <1>9
     DEF HandlerReturns, tables, locks, traffic, client, history
<1>10. ASSUME NEW q \in Queues, HandlerThrows(q) PROVE LinksFixed
  BY <1>10
     DEF HandlerThrows, tables, locks, traffic, client, history
<1>11. ASSUME NEW q \in Queues, QueueDone(q) PROVE LinksFixed
  BY <1>11
     DEF QueueDone, tables, locks, traffic, client, history
<1>12. ASSUME NEW c \in Clients, NEW q \in Queues, RegisterQueue(c, q)
      PROVE LinksFixed
  BY <1>12
     DEF RegisterQueue, CanCall, Counted, locks, traffic, history
<1>13. ASSUME NEW c \in Clients, NEW k \in Keys, NEW x \in Modules, AddLink(c, k, x)
      PROVE LinksFixed
  BY <1>13
     DEF AddLink, CanCall, Counted, locks, traffic, history
<1>14. ASSUME NEW c \in Clients, NEW x \in Modules, RegisterModule(c, x)
      PROVE LinksFixed
  BY <1>14
     DEF RegisterModule, Begin, CanCall, Counted, tables, locks, traffic, history
<1>15. ASSUME NEW c \in Clients, NEW x \in Modules, UnregisterModule(c, x)
      PROVE LinksFixed
  BY <1>15
     DEF UnregisterModule, Begin, CanCall, Counted, tables, locks, traffic, history
<1>16. ASSUME NEW c \in Clients, NEW q \in Queues, UnregisterQueue(c, q)
      PROVE LinksFixed
  BY <1>16
     DEF UnregisterQueue, Begin, CanCall, Counted, tables, locks, traffic, history
<1>17. ASSUME NEW c \in Clients, ClientLinks(c) PROVE LinksFixed
  BY <1>17
     DEF ClientLinks, tables, traffic, client, history
<1>18. ASSUME NEW c \in Clients, RegisterInGlobal(c) PROVE LinksFixed
  BY <1>18
     DEF RegisterInGlobal, Doing, ToQueue, Return, traffic, history
<1>19. ASSUME NEW c \in Clients, UnregisterInGlobal(c) PROVE LinksFixed
  BY <1>19
     DEF UnregisterInGlobal, Doing, ToQueue, Return, traffic, history
<1>20. ASSUME NEW c \in Clients, UnregisterQueueInGlobal(c) PROVE LinksFixed
  BY <1>20
     DEF UnregisterQueueInGlobal, Doing, client, history
<1>21. ASSUME NEW c \in Clients, ClientQueueLinks(c) PROVE LinksFixed
  BY <1>21
     DEF ClientQueueLinks, tables, traffic, client, history
<1>22. ASSUME NEW c \in Clients, RegisterInQueue(c) PROVE LinksFixed
  BY <1>22
     DEF RegisterInQueue, Return, locks, traffic, history
<1>23. ASSUME NEW c \in Clients, UnregisterInQueue(c) PROVE LinksFixed
  BY <1>23
     DEF UnregisterInQueue, Return, traffic, history
<1>24. CASE UNCHANGED vars
  BY <1>24 DEF vars
<1> QED
  BY <1>1, <1>2, <1>3, <1>4, <1>5, <1>6, <1>7, <1>8, <1>9, <1>10, <1>11, <1>12,
     <1>13, <1>14, <1>15, <1>16, <1>17, <1>18, <1>19, <1>20, <1>21, <1>22,
     <1>23, <1>24
     DEF Next, GlobalThread, QueueThread, Client, ClientBegins, ClientContinues, Hubs

\* A queue's thread goes through tables that do not change under it, if no queue
\* is unregistered.
THEOREM StableLinks ==
    ASSUME "UnregisterQueue" \notin Calls
    PROVE  Spec => LinksStable
<1>1. LockInv /\ [Next]_vars => [LinksFixed]_vars
  BY LinksStep
<1> QED
  BY <1>1, Locking, PTL DEF Spec, LinksStable, LinksFixed
-------------------------------------------------------------------------------
(* The link tables. *)

\* all that module x asked for is in the tables of h
Linked(x, h) == \A k \in Wants[x] : x \in ToSet(links[h][k])

LinkTypes ==
    /\ queues \subseteq Queues
    /\ mods \in [Queues -> SUBSET Modules]
    /\ links \in [Hubs -> [Keys -> Seq(Modules)]]
    /\ \A q \in Queues : \A x \in mods[q] : QueueOf[x] = q /\ q \in queues

\* The tables of a queue, locked or not, name modules of the queue.
QueueLinksOwn == \A q \in Queues, k \in Keys : ToSet(links[q][k]) \subseteq mods[q]

\* The tables have what the modules asked for, until UnregisterQueue has taken
\* links away: from then on it keeps the global tables locked.
LinksComplete ==
    \/ \E c \in Clients : pc[c] = "relock"
    \/ \A q \in Queues : \A x \in mods[q] : Linked(x, Global) /\ Linked(x, q)

\* A call that has gone on to a queue has the links in the global tables.
CallsLinked ==
    \A c \in Clients : pc[c] \in {"queueLinks", "queueList"} =>
        /\ QueueOf[call[c].arg] \in queues
        /\ call[c].op = "RegisterModule" => Linked(call[c].arg, Global)

LinksInv == LinkTypes /\ QueueLinksOwn /\ LinksComplete /\ CallsLinked

\* what Link and Unlink make of a table
Grown(new, old, x, keys) ==
    \A k \in Keys : /\ ToSet(old[k]) \subseteq ToSet(new[k])
                    /\ ToSet(new[k]) \subseteq ToSet(old[k]) \cup {x}
                    /\ k \in keys => x \in ToSet(new[k])
Cleared(new, old, xs) == \A k \in Keys : ToSet(new[k]) = ToSet(old[k]) \ xs

\* A module is put into the lists it asked for ...
LEMMA LinkProperties ==
  ASSUME NEW table \in [Keys -> Seq(Modules)], NEW x \in Modules, NEW keys
  PROVE  /\ Link(table, x, keys) \in [Keys -> Seq(Modules)]
         /\ Grown(Link(table, x, keys), table, x, keys)
<1>. DEFINE new == Link(table, x, keys)
<1>1. ASSUME NEW k \in Keys
      PROVE  /\ new[k] \in Seq(Modules)
             /\ ToSet(table[k]) \subseteq ToSet(new[k])
             /\ ToSet(new[k]) \subseteq ToSet(table[k]) \cup {x}
             /\ k \in keys => x \in ToSet(new[k])
  <2>1. /\ Append(table[k], x) \in Seq(Modules)
        /\ ToSet(Append(table[k], x)) = ToSet(table[k]) \cup {x}
    BY AppendSet
  <2>2. new[k] = IF k \in keys /\ x \notin ToSet(table[k]) THEN Append(table[k], x) ELSE table[k]
    BY DEF Link
  <2>3. CASE k \in keys /\ x \notin ToSet(table[k])
    BY <2>1, <2>2, <2>3
  <2>4. CASE ~(k \in keys /\ x \notin ToSet(table[k]))
    BY <2>2, <2>4
  <2>. QED
    BY <2>3, <2>4
<1>2. new = [k \in Keys |-> new[k]]
  BY DEF Link
<1>. HIDE DEF new
<1>3. new \in [Keys -> Seq(Modules)]
  BY <1>1, <1>2
<1>4. Grown(new, table, x, keys)
  BY <1>1 DEF Grown
<1>. QED
  BY <1>3, <1>4 DEF new

\* ... and taken out of all.
LEMMA UnlinkProperties ==
  ASSUME NEW table \in [Keys -> Seq(Modules)], NEW xs
  PROVE  /\ Unlink(table, xs) \in [Keys -> Seq(Modules)]
         /\ Cleared(Unlink(table, xs), table, xs)
<1>1. \A k \in Keys : /\ Without(table[k], xs) \in Seq(Modules)
                      /\ ToSet(Without(table[k], xs)) = ToSet(table[k]) \ xs
  BY WithoutProperties
<1>. QED
  BY <1>1 DEF Unlink, Cleared

\* Start-up links what it registers.
LEMMA InitLinks == Init => LinksInv
<1>. SUFFICES ASSUME Init PROVE LinksInv
  OBVIOUS
<1>1. ASSUME NEW h \in Hubs, NEW k \in Keys
      PROVE  /\ links[h][k] \in Seq(Modules)
             /\ ToSet(links[h][k]) = {x \in AtStart : k \in Wants[x] /\ h \in {Global, QueueOf[x]}}
  <2>. DEFINE S == {x \in AtStart : k \in Wants[x] /\ h \in {Global, QueueOf[x]}}
  <2>1. IsFiniteSet(S) /\ S \subseteq Modules
    BY IDAssumption, FS_Subset
  <2>2. links[h][k] = SetToSeq(S)
    BY DEF Init, StartLinks
  <2>. HIDE DEF S
  <2>3. SetToSeq(S) \in Seq(S) /\ ToSet(SetToSeq(S)) = S
    BY <2>1, SetToSeqProperties
  <2>. QED
    BY <2>1, <2>2, <2>3 DEF S
<1>2. links \in [Hubs -> [Keys -> Seq(Modules)]]
  BY <1>1 DEF Init, StartLinks
<1>3. \A q \in Queues : q \in Hubs
  BY DEF Hubs
<1>4. Global \in Hubs
  BY DEF Hubs
<1>5. LinkTypes
  BY <1>2, IDAssumption DEF LinkTypes, Init
<1>6. QueueLinksOwn
  BY <1>1, <1>3, ThreadAssumption, IDAssumption DEF QueueLinksOwn, Init
<1>7. ASSUME NEW q \in Queues, NEW x \in mods[q] PROVE Linked(x, Global) /\ Linked(x, q)
  <2>1. x \in AtStart /\ QueueOf[x] = q /\ Wants[x] \subseteq Keys
    BY <1>7, IDAssumption DEF Init
  <2>. QED
    BY <1>1, <1>3, <1>4, <2>1 DEF Linked
<1>. QED
  BY <1>5, <1>6, <1>7 DEF LinksInv, LinksComplete, CallsLinked, Init, Threads

\* Steps that leave the tables alone; a client goes on to a queue only by
\* RegisterInGlobal and UnregisterInGlobal.
LEMMA LinksStay ==
  ASSUME LinksInv, UNCHANGED <<mods, links>>, queues \subseteq queues', queues' \subseteq Queues,
         \A c \in Clients :
            /\ pc[c] = "relock" => pc'[c] = "relock"
            /\ pc'[c] \in {"queueLinks", "queueList"} =>
                  pc[c] \in {"queueLinks", "queueList"} /\ call'[c] = call[c]
  PROVE  LinksInv'
<1>1. \A x, h : Linked(x, h)' <=> Linked(x, h)
  BY DEF Linked
<1>2. LinkTypes' /\ QueueLinksOwn'
  BY DEF LinksInv, LinkTypes, QueueLinksOwn
<1>3. LinksComplete'
  BY <1>1 DEF LinksInv, LinksComplete
<1>4. CallsLinked'
  BY <1>1 DEF LinksInv, CallsLinked
<1>. QED
  BY <1>2, <1>3, <1>4 DEF LinksInv

\* The client that holds the links of the global queue is the only one there.
LEMMA OneClient ==
  ASSUME LockInv, NEW c \in Clients, pc[c] \in {"list", "queueLinks", "queueList"}
  PROVE  /\ \A d \in Clients :
              d # c => pc[d] \notin {"list", "queueLinks", "queueList", "relock"}
         /\ linkLock[Global] = c
BY DEF LockInv, GlobalOwners

\* A client's step in the global tables: it adds x, or takes away x, which is in
\* no queue.
LEMMA GlobalTablesChange ==
  ASSUME LockInv, LinksInv, NEW x \in Modules, UNCHANGED <<queues, mods>>,
         NEW table \in [Keys -> Seq(Modules)], links' = [links EXCEPT ![Global] = table],
         \/ \E keys : Grown(table, links[Global], x, keys)
         \/ Cleared(table, links[Global], {x}) /\ \A q \in Queues : x \notin mods[q]
         \/ table = links[Global]
  PROVE  /\ LinkTypes' /\ QueueLinksOwn'
         /\ \A y, q : q \in Queues /\ Linked(y, q) => Linked(y, q)'
         /\ \A q \in Queues : \A y \in mods[q] : Linked(y, Global) => Linked(y, Global)'
<1>1. links \in [Hubs -> [Keys -> Seq(Modules)]] /\ Global \in Hubs
  BY DEF LinksInv, LinkTypes, Hubs
<1>2. \A q \in Queues : q \in Hubs /\ q # Global /\ links'[q] = links[q]
  BY <1>1, ThreadAssumption DEF Hubs
<1>3. links'[Global] = table
  BY <1>1
<1>4. LinkTypes'
  BY <1>1 DEF LinksInv, LinkTypes
<1>5. QueueLinksOwn'
  BY <1>2 DEF LinksInv, QueueLinksOwn
<1>6. \A y, q : q \in Queues /\ Linked(y, q) => Linked(y, q)'
  BY <1>2 DEF Linked
<1>7. ASSUME NEW q \in Queues, NEW y \in mods[q], Linked(y, Global) PROVE Linked(y, Global)'
  <2>1. y \in Modules /\ Wants[y] \subseteq Keys
    BY <1>7, IDAssumption DEF LinksInv, LinkTypes
  <2>2. ASSUME NEW k \in Wants[y] PROVE y \in ToSet(table[k])
    <3>1. y \in ToSet(links[Global][k]) /\ k \in Keys
      BY <1>7, <2>1 DEF Linked
    <3>. QED
      BY <1>7, <3>1 DEF Grown, Cleared
  <2>. QED
    BY <1>3, <2>2 DEF Linked
<1>. QED
  BY <1>4, <1>5, <1>6, <1>7

LEMMA AddLinkLinks ==
  ASSUME LockInv, LinksInv, NEW c \in Clients, NEW k \in Keys, NEW x \in Modules, AddLink(c, k, x)
  PROVE  LinksInv'
<1>1. links[Global] \in [Keys -> Seq(Modules)]
  BY DEF LinksInv, LinkTypes, Hubs
<1>2. PICK table \in [Keys -> Seq(Modules)] :
         table = Link(links[Global], x, {k}) /\ Grown(table, links[Global], x, {k})
  BY <1>1, LinkProperties
<1>3. /\ links' = [links EXCEPT ![Global] = table] /\ UNCHANGED <<queues, mods, pc, call>>
      /\ linkLock[Global] = None
  BY <1>2 DEF AddLink
<1>4. /\ LinkTypes' /\ QueueLinksOwn'
      /\ \A y, q : q \in Queues /\ Linked(y, q) => Linked(y, q)'
      /\ \A q \in Queues : \A y \in mods[q] : Linked(y, Global) => Linked(y, Global)'
  BY <1>2, <1>3, GlobalTablesChange
<1>5. LinksComplete'
  BY <1>3, <1>4 DEF LinksInv, LinksComplete
<1>6. CallsLinked'
  BY <1>3, ThreadAssumption DEF CallsLinked, LockInv, GlobalOwners, Threads
<1>. QED
  BY <1>4, <1>5, <1>6 DEF LinksInv

LEMMA RegisterInGlobalLinks ==
  ASSUME LockInv, LinksInv, NEW c \in Clients, RegisterInGlobal(c)
  PROVE  LinksInv'
<1>x. PICK x \in Modules : x = call[c].arg
  BY DEF RegisterInGlobal, Doing, LockInv, CallsFit, CallFits
<1>0. pc[c] = "list" /\ call[c].op = "RegisterModule"
  BY DEF RegisterInGlobal, Doing
<1>1. links[Global] \in [Keys -> Seq(Modules)] /\ Global \in Hubs
  BY DEF LinksInv, LinkTypes, Hubs
<1>2. PICK table \in [Keys -> Seq(Modules)] :
         table = Link(links[Global], x, Wants[x]) /\ Grown(table, links[Global], x, Wants[x])
  BY <1>1, LinkProperties
<1>3. /\ links' = [links EXCEPT ![Global] = table] /\ UNCHANGED <<queues, mods>>
      /\ \/ QueueOf[x] \in queues /\ ToQueue(c)
         \/ Return(c)
  BY <1>x, <1>2 DEF RegisterInGlobal
<1>4. /\ LinkTypes' /\ QueueLinksOwn'
      /\ \A y, q : q \in Queues /\ Linked(y, q) => Linked(y, q)'
      /\ \A q \in Queues : \A y \in mods[q] : Linked(y, Global) => Linked(y, Global)'
  BY <1>0, <1>2, <1>3, GlobalTablesChange
<1>5. Linked(x, Global)'
  <2>1. links'[Global] = table
    BY <1>1, <1>3 DEF LinksInv, LinkTypes
  <2>2. \A k \in Wants[x] : x \in ToSet(table[k])
    BY <1>2, IDAssumption DEF Grown
  <2>. QED
    BY <2>1, <2>2 DEF Linked
<1>6. \A d \in Clients : d # c => pc[d] \notin {"queueLinks", "queueList", "relock"}
  BY <1>0, OneClient
<1>7. LinksComplete'
  <2>1. \A q \in Queues : \A y \in mods[q] : Linked(y, Global) /\ Linked(y, q)
    BY <1>0, <1>6 DEF LinksInv, LinksComplete
  <2>. QED
    BY <1>3, <1>4, <2>1 DEF LinksComplete
<1>8. /\ \A d \in Clients : d # c => pc'[d] = pc[d]
      /\ pc'[c] \in {"queueLinks", "queueList"} =>
            /\ QueueOf[x] \in queues' /\ call'[c].arg = x
  BY <1>x, <1>3 DEF ToQueue, Return, LockInv, ThreadPCs, Threads
<1>9. CallsLinked'
  BY <1>5, <1>6, <1>8 DEF CallsLinked
<1>. QED
  BY <1>4, <1>7, <1>9 DEF LinksInv

LEMMA UnregisterInGlobalLinks ==
  ASSUME LockInv, LinksInv, NEW c \in Clients, UnregisterInGlobal(c)
  PROVE  LinksInv'
<1>x. PICK x \in Modules : x = call[c].arg
  BY DEF UnregisterInGlobal, Doing, LockInv, CallsFit, CallFits
<1>0. pc[c] = "list" /\ call[c].op = "UnregisterModule"
  BY DEF UnregisterInGlobal, Doing
<1>1. links[Global] \in [Keys -> Seq(Modules)] /\ Global \in Hubs
  BY DEF LinksInv, LinkTypes, Hubs
<1>2. PICK table \in [Keys -> Seq(Modules)] :
         table = Unlink(links[Global], {x}) /\ Cleared(table, links[Global], {x})
  BY <1>1, UnlinkProperties
<1>3. PICK new \in [Keys -> Seq(Modules)] :
         /\ links' = [links EXCEPT ![Global] = new]
         /\ \/ new = links[Global] /\ QueueOf[x] \in queues /\ ToQueue(c)
            \/ new = table /\ QueueOf[x] \notin queues /\ Return(c)
  BY <1>x, <1>1, <1>2 DEF UnregisterInGlobal, LinksInv, LinkTypes
<1>4. UNCHANGED <<queues, mods>>
  BY DEF UnregisterInGlobal
<1>5. QueueOf[x] \notin queues => \A q \in Queues : x \notin mods[q]
  BY DEF LinksInv, LinkTypes
<1>6. /\ LinkTypes' /\ QueueLinksOwn'
      /\ \A y, q : q \in Queues /\ Linked(y, q) => Linked(y, q)'
      /\ \A q \in Queues : \A y \in mods[q] : Linked(y, Global) => Linked(y, Global)'
  BY <1>2, <1>3, <1>4, <1>5, GlobalTablesChange
<1>7. \A d \in Clients : d # c => pc[d] \notin {"queueLinks", "queueList", "relock"}
  BY <1>0, OneClient
<1>8. LinksComplete'
  <2>1. \A q \in Queues : \A y \in mods[q] : Linked(y, Global) /\ Linked(y, q)
    BY <1>0, <1>7 DEF LinksInv, LinksComplete
  <2>. QED
    BY <1>4, <1>6, <2>1 DEF LinksComplete
<1>9. /\ \A d \in Clients : d # c => pc'[d] = pc[d]
      /\ pc'[c] \in {"queueLinks", "queueList"} =>
            QueueOf[x] \in queues' /\ call'[c] = call[c]
  BY <1>3, <1>4 DEF ToQueue, Return, LockInv, ThreadPCs, Threads
<1>10. CallsLinked'
  BY <1>x, <1>0, <1>7, <1>9 DEF CallsLinked
<1>. QED
  BY <1>6, <1>8, <1>10 DEF LinksInv

\* What UnregisterQueue takes away it takes from the tables of the queue, and
\* keeps the global ones locked from then on.
LEMMA UnregisterQueueLinks ==
  ASSUME LockInv, LinksInv, NEW c \in Clients, UnregisterQueueInGlobal(c)
  PROVE  LinksInv'
<1>x. PICK u \in Queues : u = call[c].arg
  BY DEF UnregisterQueueInGlobal, Doing, LockInv, CallsFit, CallFits
<1>0. pc[c] = "list"
  BY DEF UnregisterQueueInGlobal, Doing
<1>1. links[u] \in [Keys -> Seq(Modules)] /\ u \in Hubs
  BY DEF LinksInv, LinkTypes, Hubs
<1>2. PICK table \in [Keys -> Seq(Modules)] :
         table = Unlink(links[u], mods[u]) /\ Cleared(table, links[u], mods[u])
  BY <1>1, UnlinkProperties
<1>3. /\ links' = [links EXCEPT ![u] = table] /\ UNCHANGED <<queues, mods>>
      /\ pc' = [pc EXCEPT ![c] = "relock"]
  BY <1>x, <1>2 DEF UnregisterQueueInGlobal
<1>4. links \in [Hubs -> [Keys -> Seq(Modules)]] /\ \A q \in Queues : q \in Hubs
  BY DEF LinksInv, LinkTypes, Hubs
<1>5. LinkTypes'
  BY <1>3, <1>4 DEF LinksInv, LinkTypes
<1>6. QueueLinksOwn'
  BY <1>2, <1>3, <1>4 DEF LinksInv, QueueLinksOwn, Cleared
<1>7. pc'[c] = "relock" /\ \A d \in Clients : d # c => pc'[d] \notin {"queueLinks", "queueList"}
  BY <1>0, <1>3, OneClient DEF LockInv, ThreadPCs, Threads
<1>8. LinksComplete' /\ CallsLinked'
  BY <1>7 DEF LinksComplete, CallsLinked
<1>. QED
  BY <1>5, <1>6, <1>8 DEF LinksInv

\* A module comes into its queue with its links there; those in the global
\* tables are there before.
LEMMA RegisterInQueueLinks ==
  ASSUME LockInv, LinksInv, NEW c \in Clients, RegisterInQueue(c)
  PROVE  LinksInv'
<1>x. PICK x \in Modules : x = call[c].arg
  BY DEF RegisterInQueue, LockInv, CallsFit, CallFits
<1>q. PICK q \in Queues : q = QueueOf[x]
  BY IDAssumption
<1>0. pc[c] = "queueList" /\ call[c].op = "RegisterModule" /\ queues' = queues
  BY DEF RegisterInQueue
<1>1. links \in [Hubs -> [Keys -> Seq(Modules)]] /\ q \in Hubs /\ q # Global /\ Global \in Hubs
  BY ThreadAssumption DEF LinksInv, LinkTypes, Hubs
<1>2. PICK table \in [Keys -> Seq(Modules)] :
         table = Link(links[q], x, Wants[x]) /\ Grown(table, links[q], x, Wants[x])
  BY <1>1, LinkProperties
<1>3. CASE pc' = [pc EXCEPT ![c] = "threw"] /\ UNCHANGED <<mods, links, call>>
  <2>1. \A d \in Clients : pc'[d] = IF d = c THEN "threw" ELSE pc[d]
    BY <1>3 DEF LockInv, ThreadPCs, Threads
  <2>2. UNCHANGED <<mods, links>> /\ queues \subseteq queues' /\ queues' \subseteq Queues
    BY <1>0, <1>3 DEF LinksInv, LinkTypes
  <2>3. \A d \in Clients :
           /\ pc[d] = "relock" => pc'[d] = "relock"
           /\ pc'[d] \in {"queueLinks", "queueList"} =>
                 pc[d] \in {"queueLinks", "queueList"} /\ call'[d] = call[d]
    BY <1>0, <1>3, <2>1
  <2>. QED
    BY <2>2, <2>3, LinksStay
<1>4. CASE /\ mods' = [mods EXCEPT ![q] = @ \cup {x}]
           /\ links' = [links EXCEPT ![q] = table]
           /\ Return(c)
  <2>1. /\ links' \in [Hubs -> [Keys -> Seq(Modules)]] /\ links'[q] = table
        /\ \A h \in Hubs : h # q => links'[h] = links[h]
    BY <1>1, <1>4
  <2>2. /\ mods' \in [Queues -> SUBSET Modules] /\ mods'[q] = mods[q] \cup {x}
        /\ \A p \in Queues : p # q => mods'[p] = mods[p]
    BY <1>4 DEF LinksInv, LinkTypes
  <2>3. q \in queues /\ Linked(x, Global)
    BY <1>x, <1>q, <1>0 DEF LinksInv, CallsLinked
  <2>4. LinkTypes'
    BY <1>q, <1>0, <2>1, <2>2, <2>3 DEF LinksInv, LinkTypes
  <2>5. QueueLinksOwn'
    <3>1. SUFFICES ASSUME NEW p \in Queues, NEW k \in Keys
                   PROVE  ToSet(links'[p][k]) \subseteq mods'[p]
      BY DEF QueueLinksOwn
    <3>2. ToSet(links[p][k]) \subseteq mods[p] /\ p \in Hubs
      BY DEF LinksInv, QueueLinksOwn, Hubs
    <3>. QED
      BY <1>2, <2>1, <2>2, <3>2 DEF Grown
  <2>6. \A d \in Clients : d # c => pc[d] \notin {"list", "queueLinks", "queueList", "relock"}
    BY <1>0, OneClient
  <2>7. \A p \in Queues : \A y \in mods[p] : Linked(y, Global) /\ Linked(y, p)
    BY <1>0, <2>6 DEF LinksInv, LinksComplete
  <2>8. Linked(x, q)'
    BY <1>2, <2>1, IDAssumption DEF Linked, Grown
  <2>9. ASSUME NEW p \in Queues, NEW y \in mods[p] PROVE Linked(y, Global)' /\ Linked(y, p)'
    <3>1. Linked(y, Global) /\ Linked(y, p) /\ p \in Hubs
      BY <2>7 DEF Hubs
    <3>2. y \in Modules /\ Wants[y] \subseteq Keys
      BY IDAssumption DEF LinksInv, LinkTypes
    <3>. QED
      BY <1>1, <1>2, <2>1, <3>1, <3>2 DEF Linked, Grown
  <2>10. Linked(x, Global)'
    BY <1>1, <2>1, <2>3 DEF Linked
  <2>11. LinksComplete'
    BY <2>2, <2>8, <2>9, <2>10 DEF LinksComplete
  <2>12. \A d \in Clients : pc'[d] \notin {"queueLinks", "queueList"}
    BY <1>0, <1>4, <2>6 DEF Return, LockInv, ThreadPCs, Threads
  <2>13. CallsLinked'
    BY <2>12 DEF CallsLinked
  <2>. QED
    BY <2>4, <2>5, <2>11, <2>13 DEF LinksInv
<1>5. \/ pc' = [pc EXCEPT ![c] = "threw"] /\ UNCHANGED <<mods, links, call>>
      \/ /\ mods' = [mods EXCEPT ![q] = @ \cup {x}]
         /\ links' = [links EXCEPT ![q] = table]
         /\ Return(c)
  BY <1>x, <1>q, <1>1, <1>2 DEF RegisterInQueue
<1>. QED
  BY <1>3, <1>4, <1>5

\* A module leaves with its links at both levels.
LEMMA UnregisterInQueueLinks ==
  ASSUME LockInv, LinksInv, NEW c \in Clients, UnregisterInQueue(c)
  PROVE  LinksInv'
<1>x. PICK x \in Modules : x = call[c].arg
  BY DEF UnregisterInQueue, LockInv, CallsFit, CallFits
<1>q. PICK q \in Queues : q = QueueOf[x]
  BY IDAssumption
<1>0. pc[c] = "queueList" /\ queues' = queues /\ Return(c)
  BY DEF UnregisterInQueue
<1>1. links \in [Hubs -> [Keys -> Seq(Modules)]] /\ q \in Hubs /\ q # Global /\ Global \in Hubs
  BY ThreadAssumption DEF LinksInv, LinkTypes, Hubs
<1>2. PICK table \in [Keys -> Seq(Modules)] :
         table = Unlink(links[q], {x}) /\ Cleared(table, links[q], {x})
  BY <1>1, UnlinkProperties
<1>3. PICK above \in [Keys -> Seq(Modules)] :
         above = Unlink(links[Global], {x}) /\ Cleared(above, links[Global], {x})
  BY <1>1, UnlinkProperties
<1>4. /\ links' \in [Hubs -> [Keys -> Seq(Modules)]]
      /\ links'[q] = table /\ links'[Global] = above
      /\ \A h \in Hubs : h # q /\ h # Global => links'[h] = links[h]
  BY <1>x, <1>q, <1>1, <1>2, <1>3 DEF UnregisterInQueue
<1>5. /\ mods' \in [Queues -> SUBSET Modules] /\ mods'[q] = mods[q] \ {x}
      /\ \A p \in Queues : p # q => mods'[p] = mods[p] /\ x \notin mods[p]
  BY <1>x, <1>q DEF UnregisterInQueue, LinksInv, LinkTypes
<1>6. LinkTypes'
  BY <1>0, <1>4, <1>5 DEF LinksInv, LinkTypes
<1>7. QueueLinksOwn'
  <2>1. SUFFICES ASSUME NEW p \in Queues, NEW k \in Keys
                 PROVE  ToSet(links'[p][k]) \subseteq mods'[p]
    BY DEF QueueLinksOwn
  <2>2. ToSet(links[p][k]) \subseteq mods[p] /\ p \in Hubs /\ p # Global
    BY ThreadAssumption DEF LinksInv, QueueLinksOwn, Hubs
  <2>. QED
    BY <1>2, <1>4, <1>5, <2>2 DEF Cleared
<1>8. \A d \in Clients : d # c => pc[d] \notin {"list", "queueLinks", "queueList", "relock"}
  BY <1>0, OneClient
<1>9. \A p \in Queues : \A y \in mods[p] : Linked(y, Global) /\ Linked(y, p)
  BY <1>0, <1>8 DEF LinksInv, LinksComplete
<1>10. ASSUME NEW p \in Queues, NEW y \in mods[p], y # x PROVE Linked(y, Global)' /\ Linked(y, p)'
  <2>1. Linked(y, Global) /\ Linked(y, p) /\ p \in Hubs /\ p # Global
    BY <1>9, ThreadAssumption DEF Hubs
  <2>2. y \in Modules /\ Wants[y] \subseteq Keys
    BY IDAssumption DEF LinksInv, LinkTypes
  <2>. QED
    BY <1>2, <1>3, <1>4, <1>10, <2>1, <2>2 DEF Linked, Cleared
<1>11. LinksComplete'
  BY <1>5, <1>10 DEF LinksComplete
<1>12. \A d \in Clients : pc'[d] \notin {"queueLinks", "queueList"}
  BY <1>0, <1>8 DEF Return, LockInv, ThreadPCs, Threads
<1>13. CallsLinked'
  BY <1>12 DEF CallsLinked
<1>. QED
  BY <1>6, <1>7, <1>11, <1>13 DEF LinksInv

LEMMA NextLinks == ASSUME LockInv, LinksInv, [Next]_vars PROVE LinksInv'
<1>0. /\ pc \in [Threads -> HubPCs \cup ClientPCs]
      /\ \A h \in Hubs : h \notin Clients
      /\ queues \subseteq Queues
  BY ThreadAssumption DEF LockInv, ThreadPCs, Hubs, LinksInv, LinkTypes
<1>1. ASSUME UNCHANGED <<tables, call>>, \A c \in Clients : pc'[c] = pc[c] PROVE LinksInv'
  BY <1>0, <1>1, LinksStay DEF tables
<1>2. ASSUME NEW c \in Clients, UNCHANGED <<mods, links>>, queues \subseteq queues', queues' \subseteq Queues,
             \A d \in Clients : d # c => pc'[d] = pc[d] /\ call'[d] = call[d],
             pc[c] # "relock", pc'[c] \notin {"queueLinks", "queueList"}
      PROVE  LinksInv'
  BY <1>2, LinksStay
<1>3. ASSUME NEW m \in Msgs, Post(m) PROVE LinksInv'
  BY <1>1, <1>3 DEF Post, client
<1>4. ASSUME NEW h \in Hubs, Take(h) PROVE LinksInv'
  BY <1>0, <1>1, <1>4 DEF Take, client
<1>5. CASE GlobalLinks \/ GlobalList \/ GlobalDeliver \/ GlobalDone
  <2>1. UNCHANGED <<tables, call>> /\ ((\E p : pc' = [pc EXCEPT ![Global] = p]) \/ pc' = pc)
    BY <1>5 DEF GlobalLinks, GlobalList, GlobalDeliver, GlobalDone, client
  <2>2. \A c \in Clients : pc'[c] = pc[c]
    BY <1>0, <2>1 DEF Threads, Hubs
  <2>. QED
    BY <1>1, <2>1, <2>2
<1>6. ASSUME NEW q \in Queues,
             QueueLinks(q) \/ QueueFind(q) \/ HandlerReturns(q) \/ HandlerThrows(q) \/ QueueDone(q)
      PROVE LinksInv'
  <2>1. UNCHANGED <<tables, call>> /\ ((\E p : pc' = [pc EXCEPT ![q] = p]) \/ pc' = pc)
    BY <1>6 DEF QueueLinks, QueueFind, HandlerReturns, HandlerThrows, QueueDone, client
  <2>2. \A c \in Clients : c # q /\ c \in Threads
    BY <1>0 DEF Threads, Hubs
  <2>3. \A c \in Clients : pc'[c] = pc[c]
    BY <1>0, <2>1, <2>2
  <2>. QED
    BY <1>1, <2>1, <2>3
<1>7. ASSUME NEW c \in Clients, NEW q \in Queues, RegisterQueue(c, q) PROVE LinksInv'
  BY <1>0, <1>2, <1>7 DEF RegisterQueue, CanCall
<1>8. ASSUME NEW c \in Clients, NEW k \in Keys, NEW x \in Modules, AddLink(c, k, x) PROVE LinksInv'
  BY <1>8, AddLinkLinks
<1>9. ASSUME NEW c \in Clients, NEW op, NEW arg, Begin(c, op, arg) PROVE LinksInv'
  <2>1. \A d \in Clients : d # c => pc'[d] = pc[d] /\ call'[d] = call[d]
    BY <1>0, <1>9 DEF Begin, LockInv, Functions
  <2>2. pc[c] # "relock" /\ pc'[c] \notin {"queueLinks", "queueList"}
    BY <1>0, <1>9 DEF Begin, CanCall, Threads
  <2>. QED
    BY <1>0, <1>2, <1>9, <2>1, <2>2 DEF Begin, tables
<1>10. ASSUME NEW c \in Clients, ClientLinks(c) PROVE LinksInv'
  <2>1. \A d \in Clients : d # c => pc'[d] = pc[d] /\ call'[d] = call[d]
    BY <1>0, <1>10 DEF ClientLinks, client
  <2>2. pc[c] # "relock" /\ pc'[c] \notin {"queueLinks", "queueList"}
    BY <1>0, <1>10 DEF ClientLinks, Threads
  <2>. QED
    BY <1>0, <1>2, <1>10, <2>1, <2>2 DEF ClientLinks, tables
<1>11. ASSUME NEW c \in Clients, ClientQueueLinks(c) PROVE LinksInv'
  <2>1. \A d \in Clients : /\ pc[d] = "relock" => pc'[d] = "relock"
                           /\ pc'[d] \in {"queueLinks", "queueList"} =>
                                 pc[d] \in {"queueLinks", "queueList"} /\ call'[d] = call[d]
    BY <1>0, <1>11 DEF ClientQueueLinks, client
  <2>. QED
    BY <1>0, <1>11, <2>1, LinksStay DEF ClientQueueLinks, tables
<1>12. CASE UNCHANGED vars
  BY <1>1, <1>12 DEF vars, tables
<1>. QED
  BY <1>3, <1>4, <1>5, <1>6, <1>7, <1>8, <1>9, <1>10, <1>11, <1>12, RegisterInGlobalLinks,
     UnregisterInGlobalLinks, UnregisterQueueLinks, RegisterInQueueLinks, UnregisterInQueueLinks
  DEF Next, GlobalThread, QueueThread, Client, ClientBegins, ClientContinues, Hubs,
      RegisterModule, UnregisterModule, UnregisterQueue

\* For any queues, modules, links and number of clients, whatever registrations,
\* unregistrations and throws come in between: a queue's tables name modules of
\* the queue only, and what modules asked for is at both levels while the global
\* tables are unlocked.
THEOREM LinksAreSound == Spec => []LinksSound
<1>1. LockInv /\ LinksInv /\ [Next]_vars => LinksInv'
  BY NextLinks
<1>2. LockInv /\ LinksInv => LinksSound
  <2>. SUFFICES ASSUME LockInv, LinksInv PROVE LinksSound
    OBVIOUS
  <2>1. QueueLinksSound
    BY DEF LinksInv, QueueLinksOwn, QueueLinksSound
  <2>2. LevelsAgree
    BY ThreadAssumption DEF LinksInv, LinksComplete, Linked, LevelsAgree, LockInv, GlobalOwners, Threads
  <2>. QED
    BY <2>1, <2>2 DEF LinksSound
<1>. QED
  BY <1>1, <1>2, InitLinks, Locking, PTL DEF Spec
-------------------------------------------------------------------------------
(* Messages and their copies. *)

\* lists of queues, each in it once
OnceEach == {s \in Seq(Queues) : \A i, j \in DOMAIN s : s[i] = s[j] => i = j}

\* A queue that is not in the list yet comes behind it.
LEMMA AppendOnce ==
  ASSUME NEW s \in OnceEach, NEW q \in Queues, q \notin ToSet(s)
  PROVE  Append(s, q) \in OnceEach
<1>1. s \in Seq(Queues) /\ \A i, j \in DOMAIN s : s[i] = s[j] => i = j
  BY DEF OnceEach
<1>2. \A i \in DOMAIN s : s[i] # q
  BY DEF ToSet
<1>3. /\ Append(s, q) \in Seq(Queues)
      /\ DOMAIN Append(s, q) = DOMAIN s \cup {Len(s) + 1}
      /\ \A i \in DOMAIN s : Append(s, q)[i] = s[i]
      /\ Append(s, q)[Len(s) + 1] = q
  BY <1>1
<1>. QED
  BY <1>1, <1>2, <1>3 DEF OnceEach

\* What AddLinkedQueues adds it adds once (global_message_queue_thread.cpp:252).
LEMMA AddLinkedOnce ==
  ASSUME NEW receivers \in OnceEach, NEW key, links[Global][key] \in Seq(Modules), queues \subseteq Queues
  PROVE  AddLinkedQueues(receivers, key) \in OnceEach
<1>l. PICK list \in Seq(Modules) : list = links[Global][key]
  OBVIOUS
<1>. DEFINE n == Len(list)
            Next1(k, s) == IF QueueOf[list[k]] \in queues \ ToSet(s)
                           THEN Append(s, QueueOf[list[k]]) ELSE s
<1>1. n \in Nat
  OBVIOUS
<1>2. ASSUME NEW k, NEW s \in OnceEach PROVE Next1(k, s) \in OnceEach
  BY AppendOnce
<1>3. PICK g \in [Nat \X OnceEach -> OnceEach] : g = [p \in Nat \X OnceEach |-> Next1(p[1], p[2])]
  <2>1. \A p \in Nat \X OnceEach : Next1(p[1], p[2]) \in OnceEach
    BY <1>2
  <2>. HIDE DEF Next1
  <2>. QED
    BY <2>1
<1>4. PICK h \in [0..n -> OnceEach] : Solves(h, n, receivers, g)
  BY <1>1, Recursion
<1>5. h[0] = receivers /\ \A k \in 1..n : h[k] = Next1(k, h[k - 1])
  <2>1. ASSUME NEW k \in 1..n PROVE h[k] = Next1(k, h[k - 1])
    <3>1. k \in Nat /\ h[k - 1] \in OnceEach
      BY <1>1
    <3>2. g[<<k, h[k - 1]>>] = Next1(k, h[k - 1])
      <4>. HIDE DEF Next1
      <4>. QED
        BY <1>3, <3>1
    <3>. QED
      BY <1>4, <3>2 DEF Solves
  <2>. QED
    BY <1>4, <2>1 DEF Solves
<1>. DEFINE F(f) == [k \in 0..n |-> IF k = 0 THEN receivers
                                    ELSE LET before == f[k - 1]
                                             q == QueueOf[list[k]]
                                         IN  IF q \in queues \ ToSet(before)
                                             THEN Append(before, q) ELSE before]
            added == CHOOSE f : f = F(f)
<1>6. h = F(h)
  <2>1. ASSUME NEW k \in 0..n PROVE h[k] = F(h)[k]
    <3>1. CASE k = 0
      BY <1>5, <3>1
    <3>2. CASE k # 0
      <4>1. k \in 1..n
        BY <1>1, <3>2
      <4>. QED
        BY <1>5, <3>2, <4>1
    <3>. QED
      BY <3>1, <3>2
  <2>. QED
    BY <2>1
<1>7. AddLinkedQueues(receivers, key) = added[n]
  BY <1>l DEF AddLinkedQueues
<1>8. added = F(added)
  BY <1>6
<1>. HIDE DEF added
<1>9. /\ added[0] = receivers
      /\ \A k \in 1..n : added[k] = Next1(k, added[k - 1])
  <2>1. \A k \in 0..n : added[k] = F(added)[k]
    BY <1>8
  <2>2. added[0] = receivers
    BY <1>1, <2>1
  <2>3. ASSUME NEW k \in 1..n PROVE added[k] = Next1(k, added[k - 1])
    <3>1. k \in 0..n /\ k # 0
      BY <1>1
    <3>. QED
      BY <2>1, <3>1
  <2>. QED
    BY <2>2, <2>3
<1>. HIDE DEF Next1
<1>. DEFINE Q == {k \in Nat : k <= n => added[k] \in OnceEach}
<1>10. 0 \in Q
  BY <1>9
<1>11. ASSUME NEW k \in Nat, k \in Q PROVE k + 1 \in Q
  <2>1. k + 1 <= n => k + 1 \in 1..n /\ (k + 1) - 1 = k /\ k <= n
    BY <1>1
  <2>. QED
    BY <1>2, <1>9, <1>11, <2>1
<1>. HIDE DEF Q
<1>12. n \in Q
  BY <1>1, <1>10, <1>11, AllNumbers
<1>. QED
  BY <1>1, <1>7, <1>12 DEF Q

\* The queues found for a message are registered ones, each once.
LEMMA ReceiversOnce ==
  ASSUME LinksInv, NEW m \in Msgs
  PROVE  ReceiverQueues(m) \in OnceEach
<1>1. \A key \in Keys : links[Global][key] \in Seq(Modules)
  BY DEF LinksInv, LinkTypes, Hubs
<1>2. queues \subseteq Queues
  BY DEF LinksInv, LinkTypes
<1>3. <<"recv", To[m]>> \in Keys /\ <<"send", From[m]>> \in Keys
  BY MsgAssumption DEF Keys, Sides
<1>4. <<>> \in OnceEach /\ \A q \in Queues : <<q>> \in OnceEach
  BY DEF OnceEach
<1>. DEFINE direct == IF QueueOf[To[m]] \in queues THEN <<QueueOf[To[m]]>> ELSE <<>>
<1>5. direct \in OnceEach
  BY <1>2, <1>4
<1>. HIDE DEF direct
<1>6. AddLinkedQueues(direct, <<"recv", To[m]>>) \in OnceEach
  BY <1>1, <1>2, <1>3, <1>5, AddLinkedOnce
<1>7. AddLinkedQueues(AddLinkedQueues(direct, <<"recv", To[m]>>), <<"send", From[m]>>) \in OnceEach
  BY <1>1, <1>2, <1>3, <1>6, AddLinkedOnce
<1>. QED
  BY <1>7 DEF ReceiverQueues, direct

OrderTypes ==
    /\ posted \in Seq(Msgs)
    /\ inbox \in [Hubs -> Seq(Msgs)]
    /\ DOMAIN msg = Hubs /\ DOMAIN todo = Hubs
    /\ todo[Global] \in OnceEach
    /\ DOMAIN copies = Msgs \X Queues
    /\ got \in [Modules -> Seq(Msgs)]

\* how many messages the thread of the global queue has taken
Passed == Len(posted) - Len(inbox[Global])

\* P gives each message its place among those that were pushed, 0 before.
Places(P) == /\ \A i \in DOMAIN posted : P[posted[i]] = i
             /\ \A m \in Msgs : P[m] > 0 => P[m] \in DOMAIN posted /\ posted[P[m]] = m

\* The global queue holds what it has not taken, in the order of the pushes; its
\* thread has the last that it took.
GlobalOrder ==
    /\ Passed \in Nat
    /\ \A i \in DOMAIN inbox[Global] : inbox[Global][i] = posted[Passed + i]
    /\ pc[Global] # "idle" => Passed >= 1 /\ msg[Global] = posted[Passed]

Reached(P, m) == m \in Msgs /\ P[m] \in 1..Passed

\* A queue has one copy of what was propagated, and none of what is still to be.
CopiesOnce(P) ==
    \A m \in Msgs, q \in Queues :
        /\ copies[<<m, q>>] \in {0, 1}
        /\ copies[<<m, q>>] = 1 => Reached(P, m)
        /\ \/ pc[Global] \in {"links", "list"}
           \/ pc[Global] = "deliver" /\ q \in ToSet(todo[Global])
           => copies[<<msg[Global], q>>] = 0

\* What a queue holds is in order, behind what its thread has ...
InboxOrder(P, q) ==
    /\ \A i \in DOMAIN inbox[q] : Reached(P, inbox[q][i])
    /\ \A i, j \in DOMAIN inbox[q] : i < j => P[inbox[q][i]] <= P[inbox[q][j]]
    /\ pc[q] # "idle" => /\ Reached(P, msg[q])
                         /\ \A i \in DOMAIN inbox[q] : P[msg[q]] <= P[inbox[q][i]]

\* ... and behind what its modules have handled, in order too.
GotOrder(P, x) ==
    LET q == QueueOf[x] IN
    /\ \A i \in DOMAIN got[x] :
          /\ Reached(P, got[x][i])
          /\ pc[q] # "idle" => P[got[x][i]] <= P[msg[q]]
          /\ \A j \in DOMAIN inbox[q] : P[got[x][i]] <= P[inbox[q][j]]
    /\ \A i, j \in DOMAIN got[x] : i < j => P[got[x][i]] <= P[got[x][j]]

OrderInv ==
    /\ OrderTypes /\ GlobalOrder
    /\ \E P \in [Msgs -> Nat] :
          /\ Places(P) /\ CopiesOnce(P)
          /\ \A q \in Queues : InboxOrder(P, q)
          /\ \A x \in Modules : GotOrder(P, x)

LEMMA InitOrder == Init => OrderInv
<1>. SUFFICES ASSUME Init PROVE OrderInv
  OBVIOUS
<1>1. PICK P \in [Msgs -> Nat] : \A m \in Msgs : P[m] = 0
  <2>1. [m \in Msgs |-> 0] \in [Msgs -> Nat]
    OBVIOUS
  <2>. QED
    BY <2>1
<1>2. /\ posted = <<>> /\ \A h \in Hubs : inbox[h] = <<>> /\ todo[h] = <<>>
      /\ \A x \in Modules : got[x] = <<>>
  BY DEF Init
<1>9. /\ DOMAIN copies = Msgs \X Queues
      /\ \A m \in Msgs, q \in Queues : copies[<<m, q>>] = 0
  BY DEF Init
<1>8. /\ Global \in Hubs /\ \A q \in Queues : q \in Hubs
      /\ \A h \in Hubs : pc[h] = "idle"
  BY DEF Init, Threads, Hubs
<1>3. OrderTypes
  <2>1. <<>> \in OnceEach
    BY DEF OnceEach
  <2>2. posted \in Seq(Msgs) /\ inbox \in [Hubs -> Seq(Msgs)] /\ got \in [Modules -> Seq(Msgs)]
    BY DEF Init
  <2>3. DOMAIN msg = Hubs /\ DOMAIN todo = Hubs
    BY DEF Init
  <2>. QED
    BY <1>2, <1>8, <1>9, <2>1, <2>2, <2>3 DEF OrderTypes
<1>4. GlobalOrder
  BY <1>2, <1>8 DEF GlobalOrder, Passed
<1>5. Places(P) /\ CopiesOnce(P)
  BY <1>1, <1>2, <1>8, <1>9 DEF Places, CopiesOnce
<1>6. ASSUME NEW q \in Queues PROVE InboxOrder(P, q)
  BY <1>2, <1>8 DEF InboxOrder
<1>7. ASSUME NEW x \in Modules PROVE GotOrder(P, x)
  BY <1>2, <1>8, IDAssumption DEF GotOrder
<1>. QED
  BY <1>3, <1>4, <1>5, <1>6, <1>7 DEF OrderInv

\* Steps that move no message: a thread may come to its end.
LEMMA OrderStays ==
  ASSUME OrderInv, UNCHANGED <<posted, inbox, msg, copies, got>>,
         todo'[Global] = todo[Global], DOMAIN todo' = DOMAIN todo,
         \/ pc'[Global] \in {pc[Global], "idle"}
         \/ pc[Global] = "links" /\ pc'[Global] = "list",
         \A q \in Queues : pc'[q] # "idle" => pc[q] # "idle"
  PROVE  OrderInv'
<1>1. PICK P \in [Msgs -> Nat] :
          /\ Places(P) /\ CopiesOnce(P)
          /\ \A q \in Queues : InboxOrder(P, q)
          /\ \A x \in Modules : GotOrder(P, x)
  BY DEF OrderInv
<1>2. Passed' = Passed /\ \A m : Reached(P, m)' <=> Reached(P, m)
  BY DEF Passed, Reached
<1>3. OrderTypes' /\ GlobalOrder'
  BY <1>2 DEF OrderInv, OrderTypes, GlobalOrder
<1>4. Places(P)' /\ CopiesOnce(P)'
  BY <1>1, <1>2 DEF Places, CopiesOnce
<1>5. ASSUME NEW q \in Queues PROVE InboxOrder(P, q)'
  BY <1>1, <1>2 DEF InboxOrder
<1>6. ASSUME NEW x \in Modules PROVE GotOrder(P, x)'
  BY <1>1, <1>2, IDAssumption DEF GotOrder
<1>. QED
  BY <1>3, <1>4, <1>5, <1>6 DEF OrderInv

\* What a queue has stays in order while others move messages.
LEMMA InboxStays ==
  ASSUME NEW CONSTANT P, NEW CONSTANT R, NEW q \in Queues, InboxOrder(P, q),
         \A m : Reached(P, m) => Reached(R, m)' /\ R[m] = P[m],
         inbox'[q] = inbox[q], pc'[q] = pc[q], msg'[q] = msg[q]
  PROVE  InboxOrder(R, q)'
BY DEF InboxOrder

LEMMA GotStays ==
  ASSUME NEW CONSTANT P, NEW CONSTANT R, NEW x \in Modules,
         InboxOrder(P, QueueOf[x]), GotOrder(P, x),
         \A m : Reached(P, m) => Reached(R, m)' /\ R[m] = P[m],
         inbox'[QueueOf[x]] = inbox[QueueOf[x]], pc'[QueueOf[x]] = pc[QueueOf[x]],
         msg'[QueueOf[x]] = msg[QueueOf[x]], got'[x] = got[x]
  PROVE  GotOrder(R, x)'
BY DEF GotOrder, InboxOrder

\* A message is pushed behind all there are.
LEMMA PostOrder ==
  ASSUME OrderInv, NEW n \in Msgs, Post(n)
  PROVE  OrderInv'
<1>1. PICK P \in [Msgs -> Nat] :
          /\ Places(P) /\ CopiesOnce(P)
          /\ \A q \in Queues : InboxOrder(P, q)
          /\ \A x \in Modules : GotOrder(P, x)
  BY DEF OrderInv
<1>2. /\ posted \in Seq(Msgs) /\ n \notin ToSet(posted) /\ posted' = Append(posted, n)
      /\ Len(posted) \in Nat /\ DOMAIN posted = 1..Len(posted)
      /\ inbox[Global] \in Seq(Msgs) /\ inbox'[Global] = Append(inbox[Global], n)
      /\ \A q \in Queues : inbox'[q] = inbox[q]
      /\ UNCHANGED <<pc, msg, todo, copies, got>>
  BY ThreadAssumption DEF Post, OrderInv, OrderTypes, Hubs
<1>3. /\ posted' \in Seq(Msgs) /\ DOMAIN posted' = 1..Len(posted) + 1
      /\ Len(posted') = Len(posted) + 1
      /\ \A i \in 1..Len(posted) : posted'[i] = posted[i]
      /\ posted'[Len(posted) + 1] = n
  BY <1>2
<1>4. /\ Len(inbox'[Global]) = Len(inbox[Global]) + 1
      /\ DOMAIN inbox[Global] = 1..Len(inbox[Global])
      /\ DOMAIN inbox'[Global] = 1..Len(inbox[Global]) + 1
      /\ \A i \in 1..Len(inbox[Global]) : inbox'[Global][i] = inbox[Global][i]
      /\ inbox'[Global][Len(inbox[Global]) + 1] = n
      /\ Len(inbox[Global]) \in Nat
  BY <1>2
<1>5. Passed' = Passed /\ Passed \in Nat /\ Passed + Len(inbox[Global]) = Len(posted)
  BY <1>2, <1>3, <1>4 DEF Passed, OrderInv, GlobalOrder
<1>6. OrderTypes'
  BY <1>2, <1>3 DEF Post, OrderInv, OrderTypes
<1>7. GlobalOrder'
  <2>1. ASSUME NEW i \in DOMAIN inbox'[Global] PROVE inbox'[Global][i] = posted'[Passed + i]
    <3>1. CASE i = Len(inbox[Global]) + 1
      BY <1>3, <1>4, <1>5, <3>1
    <3>2. CASE i \in DOMAIN inbox[Global]
      <4>1. inbox[Global][i] = posted[Passed + i] /\ Passed + i \in 1..Len(posted)
        BY <1>4, <1>5, <3>2 DEF OrderInv, GlobalOrder
      <4>. QED
        BY <1>3, <1>4, <3>2, <4>1
    <3>. QED
      BY <1>4, <3>1, <3>2
  <2>2. pc[Global] # "idle" => Passed >= 1 /\ msg[Global] = posted[Passed] /\ Passed \in 1..Len(posted)
    BY <1>4, <1>5 DEF OrderInv, GlobalOrder
  <2>. QED
    BY <1>2, <1>3, <1>5, <2>1, <2>2 DEF GlobalOrder
<1>8. P[n] = 0 /\ \A i \in 1..Len(posted) : posted[i] # n
  <2>1. \A i \in 1..Len(posted) : posted[i] # n
    BY <1>2 DEF ToSet
  <2>. QED
    BY <1>1, <1>2, <2>1 DEF Places
<1>9. PICK R \in [Msgs -> Nat] : /\ R[n] = Len(posted) + 1
                                /\ \A m \in Msgs : m # n => R[m] = P[m]
  <2>1. [P EXCEPT ![n] = Len(posted) + 1] \in [Msgs -> Nat]
    BY <1>2
  <2>. QED
    BY <2>1
<1>10. \A m : Reached(P, m) => Reached(R, m)' /\ R[m] = P[m]
  BY <1>5, <1>8, <1>9 DEF Reached
<1>11. Places(R)'
  <2>1. ASSUME NEW i \in DOMAIN posted' PROVE R[posted'[i]] = i
    BY <1>1, <1>2, <1>3, <1>8, <1>9 DEF Places
  <2>2. ASSUME NEW m \in Msgs, R[m] > 0 PROVE R[m] \in DOMAIN posted' /\ posted'[R[m]] = m
    BY SMTT(30), <1>1, <1>2, <1>3, <1>8, <1>9, <2>2 DEF Places
  <2>. QED
    BY <2>1, <2>2 DEF Places
<1>12. CopiesOnce(R)'
  BY <1>1, <1>2, <1>10 DEF CopiesOnce
<1>13. ASSUME NEW q \in Queues PROVE InboxOrder(R, q)'
  BY <1>1, <1>2, <1>10, InboxStays
<1>14. ASSUME NEW x \in Modules PROVE GotOrder(R, x)'
  BY <1>1, <1>2, <1>10, IDAssumption, GotStays
<1>. QED
  BY <1>6, <1>7, <1>11, <1>12, <1>13, <1>14 DEF OrderInv
\* The thread of the global queue takes the next message, of which there is no
\* copy yet.
LEMMA TakeGlobalOrder ==
  ASSUME OrderInv, Take(Global), ThreadPCs
  PROVE  OrderInv'
<1>1. PICK P \in [Msgs -> Nat] :
          /\ Places(P) /\ CopiesOnce(P)
          /\ \A q \in Queues : InboxOrder(P, q)
          /\ \A x \in Modules : GotOrder(P, x)
  BY DEF OrderInv
<1>. DEFINE old == inbox[Global]
<1>2. /\ old \in Seq(Msgs) /\ old # <<>>
      /\ inbox'[Global] = Tail(old) /\ msg'[Global] = Head(old)
      /\ pc[Global] = "idle" /\ pc'[Global] = "links"
      /\ \A q \in Queues : inbox'[q] = inbox[q] /\ msg'[q] = msg[q] /\ pc'[q] = pc[q]
      /\ UNCHANGED <<todo, posted, copies, got>>
  BY ThreadAssumption DEF Take, OrderInv, OrderTypes, Hubs, Threads, history, ThreadPCs
<1>3. /\ posted \in Seq(Msgs) /\ Len(posted) \in Nat /\ DOMAIN posted = 1..Len(posted)
      /\ Len(old) \in Nat \ {0} /\ DOMAIN old = 1..Len(old)
      /\ Len(Tail(old)) = Len(old) - 1 /\ DOMAIN Tail(old) = 1..Len(old) - 1
      /\ \A i \in 1..Len(old) - 1 : Tail(old)[i] = old[i + 1]
      /\ Head(old) = old[1] /\ old[1] \in Msgs
  BY <1>2 DEF OrderInv, OrderTypes
<1>4. Passed' = Passed + 1 /\ Passed \in Nat /\ Passed + Len(old) = Len(posted)
  <2>1. Passed \in Nat /\ Passed = Len(posted) - Len(old)
    BY DEF Passed, OrderInv, GlobalOrder
  <2>2. Passed' = Len(posted) - (Len(old) - 1)
    BY <1>2, <1>3 DEF Passed
  <2>. QED
    BY <1>3, <2>1, <2>2
<1>5. OrderTypes'
  <2>1. inbox' = [inbox EXCEPT ![Global] = Tail(@)] /\ msg' = [msg EXCEPT ![Global] = Head(old)]
    BY DEF Take
  <2>2. Tail(old) \in Seq(Msgs)
    BY <1>2
  <2>3. inbox' \in [Hubs -> Seq(Msgs)] /\ DOMAIN msg' = Hubs
    BY <2>1, <2>2 DEF OrderInv, OrderTypes
  <2>. QED
    BY <1>2, <2>3 DEF OrderInv, OrderTypes
<1>6. \A i \in 1..Len(old) : old[i] = posted[Passed + i]
  BY <1>3 DEF OrderInv, GlobalOrder
<1>7. GlobalOrder'
  <2>1. ASSUME NEW i \in 1..Len(old) - 1 PROVE Tail(old)[i] = posted[(Passed + 1) + i]
    <3>1. i + 1 \in 1..Len(old) /\ Passed + (i + 1) = (Passed + 1) + i
      <4>1. Len(old) \in Nat /\ Passed \in Nat /\ i \in 1..Len(old) - 1
        BY <1>3, <1>4
      <4>. QED
        BY <4>1
    <3>. QED
      BY <1>3, <1>6, <3>1
  <2>2. Head(old) = posted[Passed + 1]
    BY <1>3, <1>6
  <2>3. ASSUME NEW i \in DOMAIN inbox'[Global] PROVE inbox'[Global][i] = posted'[Passed' + i]
    BY <1>2, <1>3, <1>4, <2>1
  <2>4. Passed' \in Nat /\ Passed' >= 1 /\ msg'[Global] = posted'[Passed']
    BY <1>2, <1>4, <2>2
  <2>. QED
    BY <2>3, <2>4 DEF GlobalOrder
<1>8. \A m : Reached(P, m) => Reached(P, m)' /\ P[m] = P[m]
  BY <1>4 DEF Reached
<1>9. P[old[1]] = Passed + 1
  <2>1. Passed + 1 \in DOMAIN posted /\ old[1] = posted[Passed + 1]
    <3>1. \A p, n, l \in Nat : n # 0 /\ p + n = l => 1 \in 1..n /\ p + 1 \in 1..l
      OBVIOUS
    <3>2. 1 \in 1..Len(old) /\ Passed + 1 \in 1..Len(posted)
      BY <1>3, <1>4, <3>1
    <3>. QED
      BY <1>3, <1>6, <3>2
  <2>. QED
    BY <1>1, <2>1 DEF Places
<1>10. CopiesOnce(P)'
  <2>1. \A q \in Queues : copies[<<old[1], q>>] = 0
    <3>1. ~Reached(P, old[1])
      BY <1>4, <1>9 DEF Reached
    <3>. QED
      BY <1>1, <1>3, <3>1 DEF CopiesOnce
  <2>2. ASSUME NEW n \in Msgs, NEW q \in Queues
        PROVE  copies[<<n, q>>] \in {0, 1} /\ (copies[<<n, q>>] = 1 => Reached(P, n)')
    BY <1>1, <1>8 DEF CopiesOnce
  <2>. QED
    BY <1>2, <1>3, <2>1, <2>2 DEF CopiesOnce
<1>11. Places(P)'
  BY <1>1, <1>2 DEF Places
<1>12. ASSUME NEW q \in Queues PROVE InboxOrder(P, q)'
  BY <1>1, <1>2, <1>8, InboxStays
<1>13. ASSUME NEW x \in Modules PROVE GotOrder(P, x)'
  BY <1>1, <1>2, <1>8, IDAssumption, GotStays
<1>. QED
  BY <1>5, <1>7, <1>10, <1>11, <1>12, <1>13 DEF OrderInv

\* The receivers are gathered, each once.
LEMMA ListOrder ==
  ASSUME OrderInv, LinksInv, ThreadPCs, GlobalList
  PROVE  OrderInv'
<1>1. PICK P \in [Msgs -> Nat] :
          /\ Places(P) /\ CopiesOnce(P)
          /\ \A q \in Queues : InboxOrder(P, q)
          /\ \A x \in Modules : GotOrder(P, x)
  BY DEF OrderInv
<1>2. /\ pc[Global] = "list" /\ pc'[Global] = "deliver"
      /\ \A q \in Queues : pc'[q] = pc[q]
      /\ UNCHANGED <<inbox, msg, posted, copies, got>>
  BY ThreadAssumption DEF GlobalList, Hubs, Threads, history, ThreadPCs
<1>3. msg[Global] \in Msgs
  BY <1>2 DEF OrderInv, OrderTypes, GlobalOrder, Passed
<1>4. todo'[Global] \in OnceEach /\ DOMAIN todo' = Hubs
  BY <1>3, ReceiversOnce DEF GlobalList, OrderInv, OrderTypes, Hubs
<1>5. Passed' = Passed /\ \A m : Reached(P, m) => Reached(P, m)' /\ P[m] = P[m]
  BY <1>2 DEF Passed, Reached
<1>6. OrderTypes' /\ GlobalOrder'
  BY <1>2, <1>4, <1>5 DEF OrderInv, OrderTypes, GlobalOrder
<1>7. Places(P)' /\ CopiesOnce(P)'
  BY <1>1, <1>2, <1>5 DEF Places, CopiesOnce
<1>8. ASSUME NEW q \in Queues PROVE InboxOrder(P, q)'
  BY <1>1, <1>2, <1>5, InboxStays
<1>9. ASSUME NEW x \in Modules PROVE GotOrder(P, x)'
  BY <1>1, <1>2, <1>5, IDAssumption, GotStays
<1>. QED
  BY <1>6, <1>7, <1>8, <1>9 DEF OrderInv

\* The first of the receivers gets the one copy of the message, behind all that
\* came before.
LEMMA DeliverOrder ==
  ASSUME OrderInv, ThreadPCs, GlobalDeliver
  PROVE  OrderInv'
<1>1. PICK P \in [Msgs -> Nat] :
          /\ Places(P) /\ CopiesOnce(P)
          /\ \A q \in Queues : InboxOrder(P, q)
          /\ \A x \in Modules : GotOrder(P, x)
  BY DEF OrderInv
<1>. DEFINE left == todo[Global]
<1>16. /\ left \in Seq(Queues) /\ left # <<>> /\ Head(left) \in Queues /\ msg[Global] \in Msgs
       /\ \A i, j \in DOMAIN left : left[i] = left[j] => i = j
  BY SMTT(30) DEF GlobalDeliver, OrderInv, OrderTypes, OnceEach, GlobalOrder, Passed
<1>17. PICK r \in Queues : r = Head(left)
  BY <1>16
<1>18. PICK m \in Msgs : m = msg[Global]
  BY <1>16
<1>2. /\ left \in Seq(Queues) /\ left # <<>> /\ r \in Queues /\ r # Global
      /\ Tail(left) \in OnceEach /\ r \notin ToSet(Tail(left)) /\ r \in ToSet(left)
      /\ ToSet(Tail(left)) \subseteq ToSet(left)
  <2>2. /\ Tail(left) \in Seq(Queues) /\ r \in Queues /\ r = left[1] /\ 1 \in DOMAIN left
        /\ \A i \in DOMAIN Tail(left) : Tail(left)[i] = left[i + 1] /\ i + 1 \in DOMAIN left /\ i \in Nat \ {0}
    BY <1>16, <1>17
  <2>1. ASSUME NEW i \in DOMAIN Tail(left), NEW j \in DOMAIN Tail(left), Tail(left)[i] = Tail(left)[j]
        PROVE  i = j
    <3>1. i + 1 = j + 1
      BY <1>16, <2>1, <2>2
    <3>. QED
      BY <2>2, <3>1
  <2>5. ASSUME NEW i \in DOMAIN Tail(left), Tail(left)[i] = r PROVE FALSE
    <3>1. i + 1 = 1
      BY <1>16, <2>2, <2>5
    <3>. QED
      BY <2>2, <3>1
  <2>3. Tail(left) \in OnceEach /\ r \notin ToSet(Tail(left))
    BY <2>1, <2>2, <2>5 DEF OnceEach, ToSet
  <2>4. r \in ToSet(left) /\ ToSet(Tail(left)) \subseteq ToSet(left)
    BY <2>2 DEF ToSet
  <2>. QED
    BY <1>16, <2>2, <2>3, <2>4, ThreadAssumption
<1>3. /\ pc[Global] = "deliver" /\ UNCHANGED <<pc, msg, posted, got>>
      /\ inbox'[r] = Append(inbox[r], m)
      /\ \A h \in Hubs : h # r => inbox'[h] = inbox[h]
      /\ todo' = [todo EXCEPT ![Global] = Tail(@)]
      /\ copies' = [copies EXCEPT ![<<m, r>>] = @ + 1]
      /\ inbox' \in [Hubs -> Seq(Msgs)] /\ inbox[r] \in Seq(Msgs)
  <2>2. inbox' = [inbox EXCEPT ![r] = Append(@, m)] /\ r \in Hubs /\ inbox \in [Hubs -> Seq(Msgs)]
    BY <1>2, <1>17, <1>18 DEF GlobalDeliver, OrderInv, OrderTypes, Hubs
  <2>. QED
    BY <1>17, <1>18, <2>2 DEF GlobalDeliver
<1>4. /\ Global \in Hubs /\ \A q \in Queues : q \in Hubs
      /\ posted \in Seq(Msgs) /\ DOMAIN posted = 1..Len(posted) /\ Len(posted) \in Nat
  BY DEF Hubs, OrderInv, OrderTypes
<1>5. Passed' = Passed /\ \A n : Reached(P, n) => Reached(P, n)' /\ P[n] = P[n]
  BY <1>2, <1>3, <1>4 DEF Passed, Reached
<1>6. m \in Msgs /\ Passed \in 1..Len(posted) /\ P[m] = Passed /\ Reached(P, m)
  <2>1. Passed >= 1 /\ m = posted[Passed] /\ Passed \in Nat /\ Passed <= Len(posted)
    BY <1>3, <1>4, <1>18 DEF OrderInv, OrderTypes, GlobalOrder, Passed
  <2>. QED
    BY <1>1, <1>4, <2>1 DEF Places, Reached
<1>7. OrderTypes'
  <2>1. todo'[Global] \in OnceEach
    BY <1>2, <1>3 DEF OrderInv, OrderTypes, OnceEach
  <2>. QED
    BY <1>3, <2>1 DEF OrderInv, OrderTypes
<1>8. GlobalOrder'
  BY <1>2, <1>3, <1>4, <1>5 DEF OrderInv, GlobalOrder
<1>9. Places(P)'
  BY <1>1, <1>3 DEF Places
<1>10. CopiesOnce(P)'
  <2>1. copies[<<m, r>>] = 0 /\ <<m, r>> \in DOMAIN copies /\ DOMAIN copies = Msgs \X Queues
    BY <1>1, <1>2, <1>3, <1>6, <1>18 DEF CopiesOnce, OrderInv, OrderTypes
  <2>2. /\ copies'[<<m, r>>] = 1
        /\ \A n \in Msgs, q \in Queues : <<n, q>> # <<m, r>> => copies'[<<n, q>>] = copies[<<n, q>>]
    BY <1>3, <2>1
  <2>4. ASSUME NEW n \in Msgs, NEW q \in Queues
        PROVE  copies'[<<n, q>>] \in {0, 1} /\ (copies'[<<n, q>>] = 1 => Reached(P, n)')
    BY <1>1, <1>5, <1>6, <2>1, <2>2 DEF CopiesOnce
  <2>5. ASSUME NEW q \in Queues, q \in ToSet(Tail(left)) PROVE copies'[<<m, q>>] = 0
    BY <1>1, <1>2, <1>18, <1>3, <1>6, <2>1, <2>2, <2>5 DEF CopiesOnce
  <2>6. todo'[Global] = Tail(left)
    BY <1>3, <1>4 DEF OrderInv, OrderTypes
  <2>. QED
    BY <1>3, <1>18, <2>4, <2>5, <2>6 DEF CopiesOnce
<1>11. \A q \in Queues : q # r => InboxOrder(P, q)'
  BY <1>1, <1>3, <1>4, <1>5, InboxStays
<1>12. /\ Len(inbox[r]) \in Nat /\ DOMAIN inbox[r] = 1..Len(inbox[r])
       /\ DOMAIN inbox'[r] = 1..Len(inbox[r]) + 1
       /\ \A i \in 1..Len(inbox[r]) : inbox'[r][i] = inbox[r][i]
       /\ inbox'[r][Len(inbox[r]) + 1] = m
  BY <1>3, <1>6
<1>13. \A n : Reached(P, n) => P[n] <= P[m]
  BY <1>6 DEF Reached
<1>14. InboxOrder(P, r)'
  <2>1. InboxOrder(P, r)
    BY <1>1, <1>2
  <2>2. ASSUME NEW i \in DOMAIN inbox'[r] PROVE Reached(P, inbox'[r][i])
    BY <1>6, <1>12, <2>1 DEF InboxOrder
  <2>3. ASSUME NEW i \in DOMAIN inbox'[r], NEW j \in DOMAIN inbox'[r], i < j
        PROVE  P[inbox'[r][i]] <= P[inbox'[r][j]]
    <3>1. CASE j = Len(inbox[r]) + 1
      BY <1>12, <1>13, <2>2, <3>1
    <3>2. CASE i \in DOMAIN inbox[r] /\ j \in DOMAIN inbox[r]
      BY SMTT(30), <1>12, <2>1, <2>3, <3>2 DEF InboxOrder
    <3>. QED
      BY <1>12, <2>3, <3>1, <3>2
  <2>4. ASSUME pc[r] # "idle", NEW i \in DOMAIN inbox'[r]
        PROVE  Reached(P, msg[r]) /\ P[msg[r]] <= P[inbox'[r][i]]
    BY <1>12, <1>13, <2>1, <2>4 DEF InboxOrder
  <2>5. pc[r] # "idle" => Reached(P, msg[r])
    BY <2>1 DEF InboxOrder
  <2>. QED
    BY <1>3, <1>5, <2>2, <2>3, <2>4, <2>5 DEF InboxOrder
<1>15. ASSUME NEW x \in Modules PROVE GotOrder(P, x)'
  <2>1. CASE QueueOf[x] # r
    BY <1>1, <1>3, <1>4, <1>5, <2>1, IDAssumption, GotStays
  <2>2. CASE QueueOf[x] = r
    <3>1. GotOrder(P, x)
      BY <1>1
    <3>2. ASSUME NEW i \in DOMAIN got[x], NEW j \in DOMAIN inbox'[r] PROVE P[got[x][i]] <= P[inbox'[r][j]]
      BY <1>12, <1>13, <2>2, <3>1 DEF GotOrder
    <3>. QED
      BY <1>3, <1>5, <2>2, <3>1, <3>2 DEF GotOrder
  <2>. QED
    BY <2>1, <2>2
<1>. QED
  BY <1>2, <1>7, <1>8, <1>9, <1>10, <1>11, <1>14, <1>15 DEF OrderInv

\* A queue's thread takes the next message of the queue.
LEMMA TakeQueueOrder ==
  ASSUME OrderInv, ThreadPCs, NEW r \in Queues, Take(r)
  PROVE  OrderInv'
<1>1. PICK P \in [Msgs -> Nat] :
          /\ Places(P) /\ CopiesOnce(P)
          /\ \A q \in Queues : InboxOrder(P, q)
          /\ \A x \in Modules : GotOrder(P, x)
  BY DEF OrderInv
<1>. DEFINE old == inbox[r]
<1>2. /\ r # Global /\ Global \in Hubs /\ \A q \in Queues : q \in Hubs
      /\ \A h \in Hubs : h \in Threads
  BY ThreadAssumption DEF Hubs, Threads
<1>3. /\ inbox' = [inbox EXCEPT ![r] = Tail(old)] /\ msg' = [msg EXCEPT ![r] = Head(old)]
      /\ pc' = [pc EXCEPT ![r] = "links"] /\ pc[r] = "idle"
      /\ old \in Seq(Msgs) /\ old # <<>>
      /\ UNCHANGED <<todo, posted, copies, got>>
  BY <1>2 DEF Take, OrderInv, OrderTypes, history
<1>4. /\ inbox'[r] = Tail(old) /\ msg'[r] = Head(old) /\ pc'[r] = "links"
      /\ \A h \in Hubs : h # r => inbox'[h] = inbox[h] /\ msg'[h] = msg[h] /\ pc'[h] = pc[h]
  BY <1>2, <1>3 DEF OrderInv, OrderTypes, ThreadPCs
<1>5. /\ Len(old) \in Nat \ {0} /\ DOMAIN old = 1..Len(old)
      /\ DOMAIN Tail(old) = 1..Len(old) - 1
      /\ \A i \in 1..Len(old) - 1 : Tail(old)[i] = old[i + 1]
      /\ Head(old) = old[1] /\ old[1] \in Msgs /\ Tail(old) \in Seq(Msgs)
  BY <1>3
<1>6. OrderTypes'
  <2>1. inbox' \in [Hubs -> Seq(Msgs)] /\ DOMAIN msg' = Hubs
    BY <1>3, <1>5 DEF OrderInv, OrderTypes
  <2>. QED
    BY <1>3, <2>1 DEF OrderInv, OrderTypes
<1>7. Passed' = Passed /\ \A n : Reached(P, n) => Reached(P, n)' /\ P[n] = P[n]
  BY <1>2, <1>3, <1>4 DEF Passed, Reached
<1>8. GlobalOrder'
  BY <1>2, <1>3, <1>4, <1>7 DEF OrderInv, GlobalOrder
<1>9. Places(P)' /\ CopiesOnce(P)'
  BY <1>1, <1>2, <1>3, <1>4, <1>7 DEF Places, CopiesOnce
<1>10. \A q \in Queues : q # r => InboxOrder(P, q)'
  BY <1>1, <1>2, <1>4, <1>7, InboxStays
<1>11. \A i \in 1..Len(old) - 1 : i + 1 \in 1..Len(old) /\ 1 < i + 1
  BY <1>5
<1>12. InboxOrder(P, r)'
  <2>1. InboxOrder(P, r)
    BY <1>1
  <2>2. ASSUME NEW i \in DOMAIN Tail(old) PROVE Reached(P, Tail(old)[i])
    BY <1>5, <1>11, <2>1 DEF InboxOrder
  <2>3. ASSUME NEW i \in DOMAIN Tail(old), NEW j \in DOMAIN Tail(old), i < j
        PROVE  P[Tail(old)[i]] <= P[Tail(old)[j]]
    <3>1. i + 1 \in DOMAIN old /\ j + 1 \in DOMAIN old /\ i + 1 < j + 1
      BY SMTT(30), <1>5, <2>3
    <3>2. P[old[i + 1]] <= P[old[j + 1]]
      BY <2>1, <3>1 DEF InboxOrder
    <3>. QED
      BY <1>5, <3>2
  <2>4. ASSUME NEW i \in DOMAIN Tail(old) PROVE P[Head(old)] <= P[Tail(old)[i]]
    <3>1. 1 \in DOMAIN old /\ i + 1 \in DOMAIN old /\ 1 < i + 1
      BY <1>5
    <3>2. P[old[1]] <= P[old[i + 1]]
      BY <2>1, <3>1 DEF InboxOrder
    <3>. QED
      BY <1>5, <3>2
  <2>5. Reached(P, Head(old))
    BY <1>5, <2>1 DEF InboxOrder
  <2>. QED
    BY <1>4, <1>7, <2>2, <2>3, <2>4, <2>5 DEF InboxOrder
<1>13. ASSUME NEW x \in Modules PROVE GotOrder(P, x)'
  <2>1. CASE QueueOf[x] # r
    BY <1>1, <1>2, <1>3, <1>4, <1>7, <2>1, IDAssumption, GotStays
  <2>2. CASE QueueOf[x] = r
    <3>1. GotOrder(P, x)
      BY <1>1
    <3>2. ASSUME NEW i \in DOMAIN got[x], NEW j \in DOMAIN Tail(old) PROVE P[got[x][i]] <= P[Tail(old)[j]]
      BY <1>5, <1>11, <2>2, <3>1 DEF GotOrder
    <3>3. ASSUME NEW i \in DOMAIN got[x] PROVE P[got[x][i]] <= P[Head(old)]
      BY <1>5, <2>2, <3>1 DEF GotOrder
    <3>. QED
      BY <1>3, <1>4, <1>7, <2>2, <3>1, <3>2, <3>3 DEF GotOrder
  <2>. QED
    BY <2>1, <2>2
<1>. QED
  BY <1>6, <1>8, <1>9, <1>10, <1>12, <1>13 DEF OrderInv

\* A handler is done with a message: it comes behind what the module has handled.
LEMMA HandledOrder ==
  ASSUME OrderInv, LinkTypes, HandlerIsRegistered, Functions, ThreadPCs,
         NEW r \in Queues, HandlerReturns(r)
  PROVE  OrderInv'
<1>1. PICK P \in [Msgs -> Nat] :
          /\ Places(P) /\ CopiesOnce(P)
          /\ \A q \in Queues : InboxOrder(P, q)
          /\ \A x \in Modules : GotOrder(P, x)
  BY DEF OrderInv
<1>2. /\ r # Global /\ Global \in Hubs /\ \A q \in Queues : q \in Hubs
      /\ \A h \in Hubs : h \in Threads
  BY ThreadAssumption DEF Hubs, Threads
<1>3. PICK y \in Modules : y = Head(todo[r]) /\ QueueOf[y] = r
  BY DEF HandlerReturns, HandlerIsRegistered, LinkTypes
<1>4. /\ got' = [got EXCEPT ![y] = Append(@, msg[r])]
      /\ todo' = [todo EXCEPT ![r] = Tail(@)]
      /\ pc' = [pc EXCEPT ![r] = "deliver"] /\ pc[r] = "handle"
      /\ UNCHANGED <<inbox, msg, posted, copies>>
  BY <1>3 DEF HandlerReturns
<1>5. /\ todo'[Global] = todo[Global] /\ DOMAIN todo' = Hubs
      /\ \A q \in Queues : pc'[q] # "idle" <=> pc[q] # "idle"
      /\ pc'[Global] = pc[Global]
  BY <1>2, <1>4 DEF ThreadPCs, Functions
<1>6. Reached(P, msg[r]) /\ InboxOrder(P, r) /\ GotOrder(P, y)
  BY <1>1, <1>4 DEF InboxOrder
<1>7. OrderTypes'
  <2>1. msg[r] \in Msgs /\ got[y] \in Seq(Msgs) /\ got \in [Modules -> Seq(Msgs)]
    BY <1>6 DEF Reached, OrderInv, OrderTypes
  <2>2. got' \in [Modules -> Seq(Msgs)]
    BY <1>4, <2>1
  <2>. QED
    BY <1>4, <1>5, <2>2 DEF OrderInv, OrderTypes
<1>8. Passed' = Passed /\ \A n : Reached(P, n) => Reached(P, n)' /\ P[n] = P[n]
  BY <1>4 DEF Passed, Reached
<1>9. GlobalOrder' /\ Places(P)' /\ CopiesOnce(P)'
  BY <1>1, <1>4, <1>5, <1>8 DEF OrderInv, GlobalOrder, Places, CopiesOnce
<1>10. ASSUME NEW q \in Queues PROVE InboxOrder(P, q)'
  BY <1>1, <1>4, <1>5, <1>8 DEF InboxOrder
<1>11. \A x \in Modules : x # y => got'[x] = got[x]
  BY <1>4 DEF OrderInv, OrderTypes
<1>12. /\ Len(got[y]) \in Nat /\ DOMAIN got[y] = 1..Len(got[y])
       /\ DOMAIN got'[y] = 1..Len(got[y]) + 1
       /\ \A i \in 1..Len(got[y]) : got'[y][i] = got[y][i]
       /\ got'[y][Len(got[y]) + 1] = msg[r]
  <2>1. msg[r] \in Msgs /\ got[y] \in Seq(Msgs) /\ got'[y] = Append(got[y], msg[r])
    BY <1>4, <1>6 DEF Reached, OrderInv, OrderTypes
  <2>. QED
    BY <2>1
<1>13. ASSUME NEW x \in Modules, x # y PROVE GotOrder(P, x)'
  BY <1>1, <1>4, <1>5, <1>8, <1>11, <1>13, IDAssumption DEF GotOrder
<1>14. GotOrder(P, y)'
  <2>1. ASSUME NEW i \in DOMAIN got'[y]
        PROVE  /\ Reached(P, got'[y][i]) /\ P[got'[y][i]] <= P[msg[r]]
               /\ \A j \in DOMAIN inbox[r] : P[got'[y][i]] <= P[inbox[r][j]]
    <3>1. CASE i = Len(got[y]) + 1
      <4>1. P[msg[r]] \in Nat
        BY <1>6 DEF Reached
      <4>. QED
        BY <1>4, <1>6, <1>12, <3>1, <4>1 DEF InboxOrder
    <3>2. CASE i \in DOMAIN got[y]
      BY <1>3, <1>4, <1>6, <1>12, <3>2 DEF GotOrder
    <3>. QED
      BY <1>12, <3>1, <3>2
  <2>2. ASSUME NEW i \in DOMAIN got'[y], NEW j \in DOMAIN got'[y], i < j
        PROVE  P[got'[y][i]] <= P[got'[y][j]]
    <3>1. CASE j = Len(got[y]) + 1
      BY <1>12, <2>1, <3>1
    <3>2. CASE i \in DOMAIN got[y] /\ j \in DOMAIN got[y]
      BY <1>6, <1>12, <2>2, <3>2 DEF GotOrder
    <3>. QED
      BY <1>12, <2>2, <3>1, <3>2
  <2>. QED
    BY <1>3, <1>4, <1>8, <2>1, <2>2 DEF GotOrder
<1>. QED
  BY <1>7, <1>9, <1>10, <1>13, <1>14 DEF OrderInv

LEMMA NextOrder ==
  ASSUME OrderInv, LockInv, LinksInv, HandlerIsRegistered, [Next]_vars
  PROVE  OrderInv'
<1>0. /\ pc \in [Threads -> HubPCs \cup ClientPCs] /\ DOMAIN todo = Hubs
      /\ Global \in Hubs /\ \A q \in Queues : q # Global /\ q \in Hubs
      /\ \A h \in Hubs : h \notin Clients /\ h \in Threads
  BY ThreadAssumption DEF LockInv, ThreadPCs, Functions, Hubs, Threads
<1>1. ASSUME NEW m \in Msgs, Post(m) PROVE OrderInv'
  BY <1>1, PostOrder
<1>2. CASE GlobalThread
  <2>1. CASE GlobalLinks
    <3>1. UNCHANGED <<posted, inbox, msg, copies, got, todo>>
      BY <2>1 DEF GlobalLinks, traffic, history
    <3>2. pc[Global] = "links" /\ pc'[Global] = "list" /\ \A q \in Queues : pc'[q] = pc[q]
      BY <1>0, <2>1 DEF GlobalLinks
    <3>. QED
      BY <3>1, <3>2, OrderStays
  <2>2. CASE GlobalDone
    <3>1. UNCHANGED <<posted, inbox, msg, copies, got, todo>>
      BY <2>2 DEF GlobalDone, traffic, history
    <3>2. pc'[Global] = "idle" /\ \A q \in Queues : pc'[q] = pc[q]
      BY <1>0, <2>2 DEF GlobalDone
    <3>. QED
      BY <3>1, <3>2, OrderStays
  <2>. QED
    BY <1>2, <2>1, <2>2, TakeGlobalOrder, ListOrder, DeliverOrder DEF GlobalThread, LockInv
<1>3. ASSUME NEW q \in Queues, QueueThread(q) PROVE OrderInv'
  <2>1. CASE Take(q)
    BY <2>1, TakeQueueOrder DEF LockInv
  <2>2. CASE HandlerReturns(q)
    BY <2>2, HandledOrder DEF LockInv, LinksInv
  <2>3. CASE QueueLinks(q) \/ QueueFind(q) \/ HandlerThrows(q) \/ QueueDone(q)
    <3>1. UNCHANGED <<posted, inbox, msg, copies, got>>
      BY <2>3 DEF QueueLinks, QueueFind, HandlerThrows, QueueDone, traffic, history
    <3>2. (\E s : todo' = [todo EXCEPT ![q] = s]) \/ todo' = todo
      BY <2>3 DEF QueueLinks, QueueFind, HandlerThrows, QueueDone, traffic
    <3>3. pc[q] # "idle" /\ ((\E s : pc' = [pc EXCEPT ![q] = s]) \/ pc' = pc)
      BY <2>3 DEF QueueLinks, QueueFind, HandlerThrows, QueueDone
    <3>4. todo'[Global] = todo[Global] /\ DOMAIN todo' = DOMAIN todo /\ pc'[Global] = pc[Global]
      BY <1>0, <3>2, <3>3
    <3>5. \A r \in Queues : pc'[r] # "idle" => pc[r] # "idle"
      BY <1>0, <3>3
    <3>. QED
      BY <3>1, <3>4, <3>5, OrderStays
  <2>. QED
    BY <1>3, <2>1, <2>2, <2>3 DEF QueueThread
<1>4. ASSUME NEW c \in Clients, Client(c) PROVE OrderInv'
  <2>1. UNCHANGED <<posted, inbox, msg, copies, got>>
    BY <1>4 DEF Client, ClientBegins, ClientContinues, RegisterQueue, UnregisterQueue, RegisterModule,
       UnregisterModule, AddLink, Begin, ClientLinks, RegisterInGlobal, UnregisterInGlobal,
       UnregisterQueueInGlobal, ClientQueueLinks, RegisterInQueue, UnregisterInQueue, traffic, history
  <2>2. (\E s : pc' = [pc EXCEPT ![c] = s]) \/ pc' = pc
    BY <1>4 DEF Client, ClientBegins, ClientContinues, RegisterQueue, UnregisterQueue, RegisterModule,
       UnregisterModule, AddLink, Begin, ClientLinks, RegisterInGlobal, UnregisterInGlobal,
       UnregisterQueueInGlobal, ClientQueueLinks, RegisterInQueue, UnregisterInQueue, Return, ToQueue
  <2>3. (\E q \in Queues : \E s : todo' = [todo EXCEPT ![q] = s]) \/ todo' = todo
    <3>1. CASE UnregisterQueueInGlobal(c)
      <4>1. call[c].arg \in Queues
        BY <3>1 DEF UnregisterQueueInGlobal, Doing, LockInv, CallsFit, CallFits
      <4>. QED
        BY <3>1, <4>1 DEF UnregisterQueueInGlobal
    <3>2. CASE ~UnregisterQueueInGlobal(c)
      BY <1>4, <3>2 DEF Client, ClientBegins, ClientContinues, RegisterQueue, UnregisterQueue, RegisterModule,
         UnregisterModule, AddLink, Begin, ClientLinks, RegisterInGlobal, UnregisterInGlobal,
         ClientQueueLinks, RegisterInQueue, UnregisterInQueue, traffic
    <3>. QED
      BY <3>1, <3>2
  <2>4. todo'[Global] = todo[Global] /\ DOMAIN todo' = DOMAIN todo
    BY <1>0, <2>3
  <2>5. pc'[Global] = pc[Global] /\ \A q \in Queues : pc'[q] = pc[q]
    BY <1>0, <2>2
  <2>. QED
    BY <2>1, <2>4, <2>5, OrderStays
<1>5. CASE UNCHANGED vars
  <2>1. UNCHANGED <<posted, inbox, msg, copies, got, todo, pc>>
    BY <1>5 DEF vars
  <2>. QED
    BY <2>1, OrderStays
<1>. QED
  BY <1>1, <1>2, <1>3, <1>4, <1>5 DEF Next

\* The place of a message in the invariant is its position among the pushes.
LEMMA OrderHolds == ASSUME OrderInv PROVE InOrder
<1>1. PICK P \in [Msgs -> Nat] :
          /\ Places(P) /\ CopiesOnce(P)
          /\ \A q \in Queues : InboxOrder(P, q)
          /\ \A x \in Modules : GotOrder(P, x)
  BY DEF OrderInv
<1>2. OneCopyPerQueue
  <2>1. ASSUME NEW m \in Msgs, NEW q \in Queues PROVE copies[<<m, q>>] <= 1
    <3>1. copies[<<m, q>>] \in {0, 1}
      BY <1>1 DEF CopiesOnce
    <3>2. \A n \in {0, 1} : n <= 1
      OBVIOUS
    <3>. QED
      BY <3>1, <3>2
  <2>. QED
    BY <2>1 DEF OneCopyPerQueue
<1>3. ASSUME NEW m \in Msgs, Reached(P, m) PROVE Position(m) = P[m]
  <2>1. P[m] \in DOMAIN posted /\ posted[P[m]] = m
    BY <1>1, <1>3 DEF Places, Reached
  <2>2. \A i \in DOMAIN posted : posted[i] = m => i = P[m]
    BY <1>1 DEF Places
  <2>. QED
    BY <2>1, <2>2 DEF Position
<1>4. ASSUME NEW x \in Modules, NEW i \in DOMAIN got[x], NEW j \in DOMAIN got[x], i < j
      PROVE  Position(got[x][i]) <= Position(got[x][j])
  <2>1. /\ Reached(P, got[x][i]) /\ Reached(P, got[x][j])
        /\ P[got[x][i]] <= P[got[x][j]]
    BY <1>1, <1>4 DEF GotOrder
  <2>. QED
    BY <1>3, <2>1 DEF Reached
<1>. QED
  BY <1>2, <1>4 DEF InOrder

\* For any messages, queues, modules and clients, and whatever links and
\* registrations change in between: a queue gets one copy of a message at most,
\* and every module handles messages in the order they were pushed onto the
\* global queue, whoever pushed them.
THEOREM MessagesInOrder == Spec => []InOrder
<1>1. LockInv /\ LinksInv /\ [Next]_vars => LinksInv'
  BY NextLinks
<1>2. OrderInv /\ LockInv /\ LinksInv /\ HandlerIsRegistered /\ [Next]_vars => OrderInv'
  BY NextOrder
<1>3. OrderInv => InOrder
  BY OrderHolds
<1>. QED
  BY <1>1, <1>2, <1>3, InitLinks, InitOrder, Locking, HandlersRegistered, PTL DEF Spec

===============================================================================
