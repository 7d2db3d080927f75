------------------------ MODULE ProtocolManager_proofs ------------------------
(***************************************************************************)
(* Proofs about ProtocolManager, for any number of IDs and instances and   *)
(* any instantiators: the global queue reaches live queues only, at        *)
(* whatever step of a stop a message is passed on, a stopped instance has  *)
(* handled all that reached it, connections and threads belong together as *)
(* long as no ID is given away twice, and an instance starts with all its  *)
(* modules.                                                                *)
(***************************************************************************)
EXTENDS ProtocolManager, Lemmas, TLAPS

PCs == {"idle", "register", "modules", "unregister", "blocked", "refuse", "drain",
        "destroy", "join", "release"}

\* the types of what the proofs are about
Types0 ==
    /\ made \in 0..MaxInstances
    /\ threads \in [ThreadIDs -> Instances \cup {None}]
    /\ registered \subseteq Instances
    /\ inbox \in [Instances -> Seq(Types)]
    /\ accepts \in [Instances -> BOOLEAN]
    /\ memory \in [Instances -> BOOLEAN]
    /\ state \in [Instances -> {"none", "RUNNING", "PAUSED", "dead", "gone"}]
    /\ posted \in Seq(Messages)
    /\ pc \in PCs
    /\ subject \in Instances \cup {None}

\* the steps at which the caller works on an instance that is there, and those
\* at which its queue is not registered
Working    == {"register", "modules", "unregister", "blocked", "refuse", "drain", "destroy",
               "join"}
OnItsOwn   == {"register", "refuse", "drain", "destroy"}

\* _Threads holds an instance under its own ID, and every thread in it has a
\* registered queue, but for the one the caller is at work on.
ThreadsSound ==
    \A id \in ThreadIDs : threads[id] # None =>
        /\ IDOf(threads[id]) = id
        /\ threads[id] <= made
        /\ threads[id] \in registered \/ (threads[id] = subject /\ pc \in OnItsOwn)

\* A registered queue belongs to a thread in _Threads, which accepts and runs.
QueuesSound ==
    \A i \in registered :
        /\ Live(i) /\ accepts[i] /\ memory[i]
        /\ state[i] \in {"RUNNING", "dead"}

\* What the caller is at.
CallerSound ==
    /\ pc \in Working => subject \in Instances /\ subject <= made
    /\ pc = "register" => /\ threads[IDOf(subject)] # None
                          /\ subject \notin registered
                          /\ state[subject] \in {"RUNNING", "dead"}
    /\ pc \in {"unregister", "refuse", "drain", "destroy"} => threads[IDOf(subject)] = subject
    /\ pc \in {"refuse", "drain", "destroy", "join"} => subject \notin registered

\* A queue that was never registered is empty, and so is one that is past the
\* wait of StopInstance.
InboxSound ==
    /\ \A i \in Instances : i > made => inbox[i] = <<>>
    /\ pc \in {"register", "destroy", "join"} => inbox[subject] = <<>>
    /\ StopsDrained

IInv == Types0 /\ ThreadsSound /\ QueuesSound /\ CallerSound /\ InboxSound
-------------------------------------------------------------------------------
\* The counter of IDs stays within its type.
LEMMA IDOfType == \A i \in Instances : IDOf(i) \in ThreadIDs
BY IDAssumption, BoundAssumption DEF IDOf, ThreadIDs, Instances

\* The manager starts with nothing.
LEMMA InitInv == Init => IInv
BY IDAssumption, BoundAssumption
   DEF Init, IInv, Types0, PCs, ThreadsSound, QueuesSound, CallerSound, InboxSound, StopsDrained,
       Working, Instances
\* A new instance: its thread is put under its ID unless the ID is taken.
LEMMA CreateInv ==
  ASSUME IInv, Create
  PROVE  IInv'
<1>1. Types0'
  <2>1. made + 1 \in Instances /\ made' = made + 1
    BY BoundAssumption DEF IInv, Types0, Create, Instances
  <2>2. IDOf(made + 1) \in ThreadIDs
    BY <2>1, IDOfType
  <2>3. threads' \in [ThreadIDs -> Instances \cup {None}]
    BY <2>1, <2>2 DEF IInv, Types0, Create
  <2>4. /\ accepts' \in [Instances -> BOOLEAN]
        /\ memory' \in [Instances -> BOOLEAN]
        /\ state' \in [Instances -> {"none", "RUNNING", "PAUSED", "dead", "gone"}]
    BY <2>1 DEF IInv, Types0, Create
  <2>5. made' \in 0..MaxInstances /\ subject' \in Instances \cup {None} /\ pc' \in PCs
    BY <2>1, BoundAssumption DEF IInv, Types0, Create, Instances, PCs
  <2>6. QED
    BY <2>3, <2>4, <2>5 DEF IInv, Types0, Create, global
<1>2. ThreadsSound'
  BY DEF IInv, Create, Types, Types0, ThreadsSound, OnItsOwn, Instances
<1>3. QueuesSound'
  <2>1. made + 1 \in Instances /\ made + 1 \notin registered
    BY BoundAssumption, IDOfType, IDAssumption
    DEF IInv, Types0, ThreadsSound, QueuesSound, Live, Create, Instances
  <2>2. \A i \in registered : i # made + 1
    BY <2>1
  <2>3. \A i \in registered : IDOf(i) \in ThreadIDs /\ threads[IDOf(i)] = i /\ i # None
    BY IDOfType, IDAssumption DEF IInv, Types0, QueuesSound, Live, Instances
  <2>4. \A i \in registered : threads'[IDOf(i)] = i
    BY <2>3 DEF IInv, Types0, Create
  <2>5. QED
    BY <2>1, <2>2, <2>4 DEF IInv, Types0, QueuesSound, Live, Create
<1>4. CallerSound'
  <2>1. made + 1 \in Instances /\ made' = made + 1 /\ subject' = made + 1 /\ pc' = "register"
    BY BoundAssumption DEF IInv, Types0, Create, Instances
  <2>2. threads'[IDOf(subject')] # None
    BY <2>1, IDOfType, IDAssumption DEF IInv, Types0, Create, Instances
  <2>3. made + 1 \notin registered
    BY SMTT(30), <2>1, BoundAssumption, IDOfType, IDAssumption
    DEF IInv, Types0, ThreadsSound, QueuesSound, Live, Instances
  <2>4. registered' = registered /\ state'[made + 1] = "RUNNING"
    BY <2>1 DEF IInv, Types0, Create
  <2>5. QED
    BY <2>1, <2>2, <2>3, <2>4 DEF CallerSound, Working, Instances
<1>5. InboxSound'
  BY BoundAssumption DEF IInv, Create, Types0, InboxSound, StopsDrained, Instances
<1>6. QED
  BY <1>1, <1>2, <1>3, <1>4, <1>5 DEF IInv

\* The queue is registered, or the ID was taken and the thread is destroyed.
LEMMA RegisterQueueInv ==
  ASSUME IInv, RegisterQueue
  PROVE  IInv'
<1> DEFINE taken == \E n \in registered : IDOf(n) = IDOf(subject)
<1>1. subject \in Instances /\ IDOf(subject) \in ThreadIDs /\ subject \notin registered
  BY IDOfType DEF IInv, CallerSound, RegisterQueue, Working
<1>2. taken => \A id \in ThreadIDs : threads[id] # subject
  <2>1. SUFFICES ASSUME NEW n \in registered, IDOf(n) = IDOf(subject),
                        NEW id \in ThreadIDs, threads[id] = subject
                 PROVE  FALSE
    OBVIOUS
  <2>2. threads[IDOf(subject)] = n
    BY <2>1 DEF IInv, QueuesSound, Live
  <2>3. IDOf(subject) = id
    BY <1>1, <2>1, IDAssumption DEF IInv, ThreadsSound, Instances
  <2>4. QED
    BY <1>1, <2>1, <2>2, <2>3
<1>3. ~taken => threads[IDOf(subject)] = subject
  BY <1>1 DEF IInv, ThreadsSound, CallerSound, RegisterQueue, OnItsOwn
<1>4. /\ registered' = IF taken THEN registered ELSE registered \cup {subject}
      /\ threads' = threads /\ made' = made /\ subject' = subject /\ inbox' = inbox
      /\ pc = "register" /\ pc' = IF taken THEN "idle" ELSE "modules"
  BY DEF RegisterQueue, Goes, manager
<1>5. Types0'
  <2>1. /\ accepts' \in [Instances -> BOOLEAN]
        /\ memory' \in [Instances -> BOOLEAN]
        /\ state' \in [Instances -> {"none", "RUNNING", "PAUSED", "dead", "gone"}]
    BY <1>1 DEF IInv, Types0, RegisterQueue
  <2>2. registered' \subseteq Instances /\ pc' \in PCs
    BY <1>1, <1>4 DEF IInv, Types0, PCs
  <2>3. QED
    BY <1>4, <2>1, <2>2 DEF IInv, Types0, RegisterQueue, Goes, global
<1>6. ThreadsSound'
  BY <1>1, <1>2, <1>4 DEF IInv, ThreadsSound, OnItsOwn
<1>7. QueuesSound'
  <2>1. /\ accepts' = [accepts EXCEPT ![subject] = ~taken]
        /\ memory' = [memory EXCEPT ![subject] = ~taken]
        /\ state' = [state EXCEPT ![subject] = IF taken THEN "gone" ELSE @]
    BY DEF RegisterQueue
  <2>2. CASE taken
    BY <1>1, <1>4, <2>1, <2>2 DEF IInv, Types0, QueuesSound, Live
  <2>3. CASE ~taken
    <3>1. state[subject] \in {"RUNNING", "dead"}
      BY <1>4 DEF IInv, CallerSound
    <3>2. QED
      <4>1. SUFFICES ASSUME NEW i \in registered'
                     PROVE  /\ threads'[IDOf(i)] = i /\ accepts'[i] /\ memory'[i]
                            /\ state'[i] \in {"RUNNING", "dead"}
        BY DEF QueuesSound, Live
      <4>2. CASE i = subject
        BY <1>1, <1>3, <1>4, <2>1, <2>3, <3>1, <4>2 DEF IInv, Types0
      <4>3. CASE i # subject
        BY <1>1, <1>4, <2>1, <2>3, <4>1, <4>3 DEF IInv, Types0, QueuesSound, Live
      <4>4. QED
        BY <4>2, <4>3
  <2>4. QED
    BY <2>2, <2>3
<1>8. CallerSound'
  BY DEF IInv, RegisterQueue, Goes, manager, CallerSound, Working
<1>9. InboxSound'
  <2>1. subject \in Instances /\ inbox[subject] = <<>>
    BY DEF IInv, RegisterQueue, CallerSound, InboxSound, Working
  <2>2. inbox' = inbox /\ made' = made /\ pc' \in {"idle", "modules"}
    BY DEF RegisterQueue, Goes, manager
  <2>3. \A i \in Instances : state'[i] = state[i] \/ i = subject
    BY <2>1 DEF IInv, Types0, RegisterQueue
  <2>4. QED
    BY <2>1, <2>2, <2>3 DEF IInv, InboxSound, StopsDrained
<1>10. QED
  BY <1>5, <1>6, <1>7, <1>8, <1>9 DEF IInv

\* A module more, or an exception.
LEMMA RegisterModuleInv ==
  ASSUME IInv, RegisterModule
  PROVE  IInv'
<1>1. Types0'
  BY DEF IInv, RegisterModule, manager, Types0, PCs
<1>2. ThreadsSound'
  BY DEF IInv, RegisterModule, manager, ThreadsSound, OnItsOwn
<1>3. QueuesSound'
  BY DEF IInv, RegisterModule, manager, QueuesSound, Live
<1>4. CallerSound'
  BY DEF IInv, RegisterModule, manager, CallerSound, Working
<1>5. InboxSound'
  BY DEF IInv, RegisterModule, manager, InboxSound, StopsDrained
<1>6. QED
  BY <1>1, <1>2, <1>3, <1>4, <1>5 DEF IInv

\* The request to start.
LEMMA RequestStartInv ==
  ASSUME IInv, RequestStart
  PROVE  IInv'
<1>1. Types0'
  BY IDOfType DEF IInv, RequestStart, Goes, manager, queues, Message, Messages, Types,
     Types0, CallerSound, PCs, Working
<1>2. ThreadsSound'
  BY DEF IInv, RequestStart, manager, queues, ThreadsSound, OnItsOwn
<1>3. QueuesSound'
  BY DEF IInv, RequestStart, manager, queues, QueuesSound, Live
<1>4. CallerSound'
  BY DEF RequestStart, Goes, CallerSound, Working
<1>5. InboxSound'
  BY DEF IInv, RequestStart, Goes, manager, queues, InboxSound, StopsDrained
<1>6. QED
  BY <1>1, <1>2, <1>3, <1>4, <1>5 DEF IInv

\* StopInstance finds a thread, or only a connection.
LEMMA StopInv ==
  ASSUME IInv, Stop
  PROVE  IInv'
<1>1. Types0'
  <2>1. subject' \in Instances \cup {None} /\ pc' \in PCs
    BY DEF IInv, Types0, Stop, PCs
  <2>2. QED
    BY <2>1 DEF IInv, Types0, Stop, manager, queues, global
<1>2. ThreadsSound'
  BY DEF IInv, Stop, manager, queues, ThreadsSound, OnItsOwn
<1>3. QueuesSound'
  BY DEF IInv, Stop, manager, queues, QueuesSound, Live
<1>4. CallerSound'
  BY DEF IInv, Stop, manager, Types0, ThreadsSound, CallerSound, Working
<1>5. InboxSound'
  BY DEF IInv, Stop, manager, queues, InboxSound, StopsDrained
<1>6. QED
  BY <1>1, <1>2, <1>3, <1>4, <1>5 DEF IInv

\* From here on nobody reaches the queue.
LEMMA UnregisterQueueInv ==
  ASSUME IInv, UnregisterQueue
  PROVE  IInv'
<1>1. Types0'
  BY DEF IInv, UnregisterQueue, Goes, manager, Types0, PCs
<1>2. ThreadsSound'
  BY DEF IInv, UnregisterQueue, Goes, manager, ThreadsSound, OnItsOwn
<1>3. QueuesSound'
  BY DEF IInv, UnregisterQueue, manager, QueuesSound, Live
<1>4. CallerSound'
  BY DEF IInv, UnregisterQueue, Goes, manager, CallerSound, Working
<1>5. InboxSound'
  BY DEF IInv, UnregisterQueue, Goes, manager, InboxSound, StopsDrained
<1>6. QED
  BY <1>1, <1>2, <1>3, <1>4, <1>5 DEF IInv

\* The queue refuses; it is not registered any more.
LEMMA RefuseInv ==
  ASSUME IInv, Refuse
  PROVE  IInv'
<1>1. Types0'
  BY DEF IInv, Refuse, Goes, manager, global, Types0, CallerSound, PCs, Working
<1>2. ThreadsSound'
  BY DEF IInv, Refuse, Goes, manager, ThreadsSound, OnItsOwn
<1>3. QueuesSound'
  BY DEF IInv, Refuse, manager, QueuesSound, CallerSound, Live
<1>4. CallerSound'
  BY DEF IInv, Refuse, Goes, manager, CallerSound, Working
<1>5. InboxSound'
  BY DEF IInv, Refuse, Goes, manager, InboxSound, StopsDrained
<1>6. QED
  BY <1>1, <1>2, <1>3, <1>4, <1>5 DEF IInv

\* The queue is empty and stays so.
LEMMA PauseInv ==
  ASSUME IInv, Pause
  PROVE  IInv'
<1>1. Types0'
  BY IDOfType, IDAssumption, BoundAssumption DEF IInv, Pause, Goes, manager, queues,
     global, caller, Message, Messages, Types, ThreadIDs, Types0, ThreadsSound, QueuesSound,
     CallerSound, InboxSound, StopsDrained, Live, PCs, Working, OnItsOwn, Instances
<1>2. ThreadsSound'
  BY DEF IInv, Pause, Goes, manager, ThreadsSound, OnItsOwn
<1>3. QueuesSound'
  BY DEF IInv, Pause, manager, QueuesSound, CallerSound, Live
<1>4. CallerSound'
  BY DEF IInv, Pause, Goes, manager, CallerSound, Working
<1>5. InboxSound'
  BY DEF IInv, Pause, manager, InboxSound, StopsDrained
<1>6. QED
  BY <1>1, <1>2, <1>3, <1>4, <1>5 DEF IInv

\* The thread leaves _Threads; no other queue has its ID.
LEMMA DestroyMemoryInv ==
  ASSUME IInv, DestroyMemory
  PROVE  IInv'
<1>1. Types0'
  BY IDOfType DEF IInv, DestroyMemory, Goes, global, Types0, CallerSound, PCs, Working
<1>2. ThreadsSound'
  BY DEF IInv, DestroyMemory, Types0, ThreadsSound
<1>3. QueuesSound'
  BY DEF IInv, DestroyMemory, QueuesSound, CallerSound, Live
<1>4. CallerSound'
  BY DEF IInv, DestroyMemory, Goes, CallerSound, Working
<1>5. InboxSound'
  BY DEF IInv, DestroyMemory, InboxSound, StopsDrained
<1>6. QED
  BY <1>1, <1>2, <1>3, <1>4, <1>5 DEF IInv

\* The thread is over.
LEMMA JoinInv ==
  ASSUME IInv, Join
  PROVE  IInv'
<1>1. Types0'
  BY DEF IInv, Join, Goes, manager, global, Types0, CallerSound, PCs, Working
<1>2. ThreadsSound'
  BY DEF IInv, Join, manager, ThreadsSound, OnItsOwn
<1>3. QueuesSound'
  BY DEF IInv, Join, manager, QueuesSound, CallerSound, Live
<1>4. CallerSound'
  BY DEF Join, Goes, CallerSound, Working
<1>5. InboxSound'
  BY DEF IInv, Join, manager, InboxSound, StopsDrained
<1>6. QED
  BY <1>1, <1>2, <1>3, <1>4, <1>5 DEF IInv

\* The connection is given back.
LEMMA ReleaseInv ==
  ASSUME IInv, Release
  PROVE  IInv'
<1>1. Types0'
  BY DEF IInv, Release, queues, global, Types0, PCs
<1>2. ThreadsSound'
  BY DEF IInv, Release, queues, ThreadsSound, OnItsOwn
<1>3. QueuesSound'
  BY DEF IInv, Release, queues, QueuesSound, Live
<1>4. CallerSound'
  BY DEF Release, CallerSound, Working
<1>5. InboxSound'
  BY DEF IInv, Release, queues, InboxSound, StopsDrained
<1>6. QED
  BY <1>1, <1>2, <1>3, <1>4, <1>5 DEF IInv

\* Instantiators come ...
LEMMA RegisterModuleInstantiatorInv ==
  ASSUME IInv, RegisterModuleInstantiator
  PROVE  IInv'
<1>1. Types0'
  BY DEF IInv, RegisterModuleInstantiator, queues, global, caller, Types0
<1>2. ThreadsSound'
  BY DEF IInv, RegisterModuleInstantiator, queues, caller, ThreadsSound
<1>3. QueuesSound'
  BY DEF IInv, RegisterModuleInstantiator, queues, QueuesSound, Live
<1>4. CallerSound'
  BY DEF IInv, RegisterModuleInstantiator, caller, CallerSound
<1>5. InboxSound'
  BY DEF IInv, RegisterModuleInstantiator, queues, caller, InboxSound, StopsDrained
<1>6. QED
  BY <1>1, <1>2, <1>3, <1>4, <1>5 DEF IInv

\* ... and go.
LEMMA UnregisterModuleInv ==
  ASSUME IInv, UnregisterModule
  PROVE  IInv'
<1>1. Types0'
  BY DEF IInv, UnregisterModule, queues, global, caller, Types0
<1>2. ThreadsSound'
  BY DEF IInv, UnregisterModule, queues, caller, ThreadsSound
<1>3. QueuesSound'
  BY DEF IInv, UnregisterModule, queues, QueuesSound, Live
<1>4. CallerSound'
  BY DEF IInv, UnregisterModule, caller, CallerSound
<1>5. InboxSound'
  BY DEF IInv, UnregisterModule, queues, caller, InboxSound, StopsDrained
<1>6. QED
  BY <1>1, <1>2, <1>3, <1>4, <1>5 DEF IInv

\* A read is requested.
LEMMA RequestReadInv ==
  ASSUME IInv, RequestRead
  PROVE  IInv'
<1>1. Types0'
  BY DEF IInv, RequestRead, manager, queues, Message, Messages, Types, Types0
<1>2. ThreadsSound'
  BY DEF IInv, RequestRead, manager, queues, ThreadsSound
<1>3. QueuesSound'
  BY DEF IInv, RequestRead, manager, queues, QueuesSound, Live
<1>4. CallerSound'
  BY DEF IInv, RequestRead, manager, CallerSound
<1>5. InboxSound'
  BY DEF IInv, RequestRead, manager, queues, InboxSound, StopsDrained
<1>6. QED
  BY <1>1, <1>2, <1>3, <1>4, <1>5 DEF IInv

\* A message reaches registered queues, which are live.
LEMMA DeliverInv ==
  ASSUME IInv, Deliver
  PROVE  IInv'
<1>1. Types0'
  <2>1. Head(posted) \in Messages /\ Tail(posted) \in Seq(Messages)
    BY DEF IInv, Types0, Deliver
  <2>2. Head(posted).type \in Types
    BY <2>1 DEF Messages
  <2>3. inbox' \in [Instances -> Seq(Types)]
    BY <2>2 DEF IInv, Types0, Deliver
  <2>4. QED
    BY <2>1, <2>3 DEF IInv, Types0, Deliver, manager, caller
<1>2. ThreadsSound'
  BY DEF IInv, Deliver, manager, caller, ThreadsSound
<1>3. QueuesSound'
  BY DEF IInv, Deliver, manager, QueuesSound, Live
<1>4. CallerSound'
  BY DEF IInv, Deliver, manager, caller, CallerSound
<1>5. InboxSound'
  <2>1. \A i \in Instances : inbox'[i] = inbox[i] \/ i \in registered
    BY DEF IInv, Types0, Deliver
  <2>2. ASSUME NEW i \in registered
        PROVE  i <= made
    <3>1. i \in Instances /\ IDOf(i) \in ThreadIDs /\ i # None
      <4>1. i \in Instances /\ Instances \subseteq Nat
        BY BoundAssumption DEF IInv, Types0, Instances
      <4>. QED
        BY <4>1, IDOfType, IDAssumption
    <3>2. threads[IDOf(i)] = i
      BY DEF IInv, QueuesSound, Live
    <3>3. QED
      BY <3>1, <3>2 DEF IInv, ThreadsSound
  <2>3. pc \in {"register", "destroy", "join"} => subject \in Instances /\ subject \notin registered
    BY DEF IInv, CallerSound, Working
  <2>4. \A i \in registered : state[i] \in {"RUNNING", "dead"}
    BY DEF IInv, QueuesSound
  <2>5. /\ made' = made /\ pc' = pc /\ subject' = subject /\ state' = state
    BY DEF Deliver, manager, caller
  <2>6. \A i \in Instances : i > made => i \notin registered
    BY <2>2, BoundAssumption DEF IInv, Types0, Instances
  <2>7. QED
    BY <2>1, <2>3, <2>4, <2>5, <2>6 DEF IInv, InboxSound, StopsDrained
<1>6. QED
  BY <1>1, <1>2, <1>3, <1>4, <1>5 DEF IInv

\* A message is taken.
LEMMA TakeInv ==
  ASSUME IInv, NEW i \in Instances, Take(i)
  PROVE  IInv'
<1>1. Types0'
  <2>1. inbox[i] \in Seq(Types) /\ inbox[i] # <<>>
    BY DEF IInv, Types0, Take
  <2>2. inbox' \in [Instances -> Seq(Types)]
    BY <2>1 DEF IInv, Types0, Take
  <2>3. QED
    BY <2>2 DEF IInv, Types0, Take, manager, global, caller
<1>2. ThreadsSound'
  BY DEF IInv, Take, manager, caller, ThreadsSound
<1>3. QueuesSound'
  BY DEF IInv, Take, manager, QueuesSound, Live
<1>4. CallerSound'
  BY DEF IInv, Take, manager, caller, CallerSound
<1>5. InboxSound'
  <2>1. inbox[i] # <<>>
    BY DEF Take
  <2>2. \A j \in Instances : inbox'[j] = inbox[j] \/ j = i
    BY DEF IInv, Types0, Take
  <2>3. /\ made' = made /\ pc' = pc /\ subject' = subject /\ state' = state
    BY DEF Take, manager, caller
  <2>4. QED
    BY <2>1, <2>2, <2>3 DEF IInv, CallerSound, Working, InboxSound, StopsDrained
<1>6. QED
  BY <1>1, <1>2, <1>3, <1>4, <1>5 DEF IInv

\* A handler is over.
LEMMA HandleInv ==
  ASSUME IInv, NEW i \in Instances, Handle(i)
  PROVE  IInv'
<1>1. Types0'
  <2>1. state' \in [Instances -> {"none", "RUNNING", "PAUSED", "dead", "gone"}]
    BY DEF IInv, Types0, Handle
  <2>2. QED
    BY <2>1 DEF IInv, Types0, Handle, manager, global, caller
<1>2. ThreadsSound'
  BY DEF IInv, Handle, manager, caller, ThreadsSound
<1>3. QueuesSound'
  BY DEF IInv, Handle, manager, Types0, ThreadsSound, QueuesSound, Live
<1>4. CallerSound'
  BY DEF IInv, Handle, manager, caller, Types0, CallerSound, Working
<1>5. InboxSound'
  BY DEF IInv, Handle, manager, caller, Types0, InboxSound, StopsDrained
<1>6. QED
  BY <1>1, <1>2, <1>3, <1>4, <1>5 DEF IInv

\* Every step preserves the invariant.
LEMMA NextInv == IInv /\ [Next]_vars => IInv'
<1>1. SUFFICES ASSUME IInv, [Next]_vars PROVE IInv'
  OBVIOUS
<1>2. CASE Calling
  BY <1>1, <1>2, CreateInv, StopInv, RegisterModuleInstantiatorInv, UnregisterModuleInv,
     RequestReadInv DEF Calling
<1>3. CASE Returning
  BY <1>1, <1>3, RegisterQueueInv, RegisterModuleInv, RequestStartInv, UnregisterQueueInv,
     RefuseInv, PauseInv, DestroyMemoryInv, JoinInv, ReleaseInv DEF Returning
<1>4. CASE Deliver
  BY <1>1, <1>4, DeliverInv
<1>5. ASSUME NEW i \in Instances, Take(i) PROVE IInv'
  BY <1>1, <1>5, TakeInv
<1>6. ASSUME NEW i \in Instances, Handle(i) PROVE IInv'
  BY <1>1, <1>6, HandleInv
<1>7. CASE UNCHANGED vars
  BY <1>1, <1>7 DEF IInv, Types0, ThreadsSound, QueuesSound, CallerSound, InboxSound,
     StopsDrained, Live, vars, manager, queues, global, caller
<1>8. QED
  BY <1>1, <1>2, <1>3, <1>4, <1>5, <1>6, <1>7 DEF Next

\* The inductive invariant holds in every reachable state.
THEOREM Invariance == Spec => []IInv
<1>1. Init => IInv
  BY InitInv
<1>2. IInv /\ [Next]_vars => IInv'
  BY NextInv
<1>3. QED
  BY <1>1, <1>2, PTL DEF Spec

\* CreateNewInstance and StopInstance keep their order with the global queue:
\* whatever it passes on, however many IDs and instances there are, reaches a
\* queue that exists, accepts and is the only one with its ID.
THEOREM QueuesAreLive == Spec => []ReachesLiveQueues
<1>1. IInv => ReachesLiveQueues
  BY DEF IInv, QueuesSound, Live, ReachesLiveQueues
<1>2. QED
  BY <1>1, Invariance, PTL

\* StopInstance gives up an instance only when all that reached its queue has
\* been taken, however messages, pauses and the end of its thread fall.
THEOREM StopsDrain == Spec => []StopsDrained
<1>1. IInv => StopsDrained
  BY DEF IInv, InboxSound
<1>2. QED
  BY <1>1, Invariance, PTL
-------------------------------------------------------------------------------
(* Connections and their threads. *)

\* steps of a stop before and after the thread is gone from _Threads
Stopping == {"unregister", "refuse", "drain", "destroy", "join"}
Detached == {"join", "release"}

DistinctIDs ==
    \A k, l \in 1..Len(connections) :
        IDOf(connections[k]) = IDOf(connections[l]) => k = l

\* As long as no ID is in use twice, the connections are those of the threads in
\* _Threads, and of the one that has just left it.
Paired ==
    /\ DistinctIDs
    /\ \A i \in ToSet(connections) : Live(i) \/ (pc \in Detached /\ returned = i)
    /\ \A id \in ThreadIDs : threads[id] # None => threads[id] \in ToSet(connections)
    /\ pc \in Stopping => returned = subject
    /\ pc \in Detached => \A id \in ThreadIDs : threads[id] # None => threads[id] # returned

OwnInv ==
    /\ connections \in Seq(Instances)
    /\ returned \in Instances \cup {None}
    /\ clash \in BOOLEAN
    /\ \A i \in ToSet(connections) : i <= made
    /\ ~clash => Paired

\* Where IDs are distinct, looking up an ID finds the connection that has it.
LEMMA ConnectionFound ==
  ASSUME connections \in Seq(Instances), DistinctIDs, NEW id
  PROVE  /\ ConnectionOf(id) # None =>
               ConnectionOf(id) \in ToSet(connections) /\ IDOf(ConnectionOf(id)) = id
         /\ \A i \in ToSet(connections) : IDOf(i) = id => ConnectionOf(id) = i
<1>. DEFINE I == {k \in 1..Len(connections) : IDOf(connections[k]) = id}
<1>1. I \subseteq Nat /\ DOMAIN connections = 1..Len(connections)
  BY LenProperties
<1>2. I # {} => Min(I) \in I
  <2>. HIDE DEF I
  <2>. QED
    BY <1>1, MinIsLeast
<1>3. ConnectionOf(id) = IF I = {} THEN None ELSE connections[Min(I)]
  BY <1>1, <1>2 DEF ConnectionOf, SelectInSeq
<1>4. CASE I = {}
  BY <1>1, <1>3, <1>4 DEF ToSet
<1>5. CASE I # {}
  <2>. DEFINE m == Min(I)
  <2>1. m \in 1..Len(connections) /\ IDOf(connections[m]) = id
    BY <1>2, <1>5
  <2>2. ConnectionOf(id) = connections[m]
    BY <1>3, <1>5
  <2>. HIDE DEF m
  <2>3. \A k \in 1..Len(connections) : IDOf(connections[k]) = id => k = m
    BY <2>1 DEF DistinctIDs
  <2>. QED
    BY <1>1, <2>1, <2>2, <2>3 DEF ToSet
<1>. QED
  BY <1>4, <1>5

\* A new connection is stored in front; unless its ID is in use, so are its
\* thread and its ID.
LEMMA CreateOwn ==
  ASSUME IInv, OwnInv, Create
  PROVE  OwnInv'
<1>. DEFINE i == made + 1
<1>1. i \in Instances /\ IDOf(i) \in ThreadIDs /\ made' = i
  BY IDOfType, BoundAssumption DEF IInv, Types0, Create, Instances
<1>2. connections' = <<i>> \o connections /\ pc' = "register" /\ returned' = returned
  BY DEF Create
<1>3. /\ connections' \in Seq(Instances) /\ Len(connections') = Len(connections) + 1
      /\ connections'[1] = i
      /\ \A k \in 1..Len(connections) : connections'[k + 1] = connections[k]
      /\ ToSet(connections') = {i} \cup ToSet(connections)
  BY <1>1, <1>2, PrependProperties DEF OwnInv
<1>4. \A n \in ToSet(connections') : n <= made'
  <2>1. ToSet(connections) \subseteq Instances
    BY LenProperties DEF OwnInv, ToSet
  <2>2. ToSet(connections) \subseteq Int /\ made \in Int
    BY <2>1 DEF IInv, Types0, Instances
  <2>. QED
    BY <1>1, <1>3, <2>2 DEF OwnInv
<1>5. ASSUME ~clash' PROVE Paired'
  <2>1. Paired /\ \A n \in ToSet(connections) : IDOf(n) # IDOf(i)
    BY <1>5 DEF Create, OwnInv
  <2>2. DistinctIDs'
    <3>1. \A k \in 1..Len(connections) : IDOf(connections[k]) # IDOf(i)
      BY <2>1, LenProperties DEF ToSet, OwnInv
    <3>2. ASSUME NEW k \in 1..Len(connections'), k # 1
          PROVE  k - 1 \in 1..Len(connections) /\ connections'[k] = connections[k - 1]
      <4>1. k - 1 \in 1..Len(connections) /\ (k - 1) + 1 = k
        BY <1>3, <3>2, LenProperties DEF OwnInv
      <4>. QED
        BY <1>3, <4>1
    <3>3. ASSUME NEW k \in 1..Len(connections'), NEW l \in 1..Len(connections'),
                 IDOf(connections'[k]) = IDOf(connections'[l])
          PROVE  k = l
      <4>1. CASE k = 1 \/ l = 1
        BY <1>3, <3>1, <3>2, <3>3, <4>1
      <4>2. CASE k # 1 /\ l # 1
        <5>1. k - 1 = l - 1
          BY <2>1, <3>2, <3>3, <4>2 DEF Paired, DistinctIDs
        <5>. QED
          BY <5>1
      <4>. QED
        BY <4>1, <4>2
    <3>. QED
      BY <3>3 DEF DistinctIDs
  <2>3. threads[IDOf(i)] = None
    BY <1>1, <2>1 DEF Paired, IInv, ThreadsSound
  <2>4. threads' = [threads EXCEPT ![IDOf(i)] = i]
    BY <2>3 DEF Create
  <2>5. threads \in [ThreadIDs -> Instances \cup {None}]
    BY DEF IInv, Types0
  <2>6. pc = "idle" /\ \A n \in ToSet(connections) : Live(n)
    BY <2>1 DEF Create, Paired, Detached
  <2>7. \A n \in ToSet(connections') : Live(n)'
    BY <1>1, <1>3, <2>1, <2>4, <2>5, <2>6 DEF Live
  <2>8. \A id \in ThreadIDs : threads'[id] # None => threads'[id] \in ToSet(connections')
    BY <1>1, <1>3, <2>1, <2>4, <2>5 DEF Paired
  <2>. QED
    BY <1>2, <2>2, <2>7, <2>8 DEF Paired, Stopping, Detached
<1>6. returned' \in Instances \cup {None} /\ clash' \in BOOLEAN
  BY DEF OwnInv, Create
<1>. QED
  BY <1>3, <1>4, <1>5, <1>6 DEF OwnInv

\* What is looked up belongs together.
LEMMA StopOwn ==
  ASSUME IInv, OwnInv, Stop
  PROVE  OwnInv'
<1>1. PICK id \in ThreadIDs :
         /\ threads[id] # None \/ ConnectionOf(id) # None
         /\ subject' = threads[id] /\ returned' = ConnectionOf(id)
         /\ pc' = IF threads[id] = None THEN "release" ELSE "unregister"
  BY DEF Stop
<1>2. UNCHANGED <<made, connections, threads, clash>> /\ pc = "idle"
  BY DEF Stop, manager
<1>3. returned' \in Instances \cup {None}
  <2>. DEFINE I == {k \in 1..Len(connections) : IDOf(connections[k]) = id}
  <2>1. I \subseteq Nat
    OBVIOUS
  <2>2. I # {} => Min(I) \in I
    <3>. HIDE DEF I
    <3>. QED
      BY <2>1, MinIsLeast
  <2>3. I # {} => Min(I) \in 1..Len(connections)
    BY <2>2
  <2>4. ConnectionOf(id) = IF I = {} THEN None ELSE connections[Min(I)]
    BY <2>3 DEF ConnectionOf, SelectInSeq
  <2>. HIDE DEF I
  <2>. QED
    BY <1>1, <2>3, <2>4, ElementOfSeq DEF OwnInv
<1>4. ASSUME ~clash PROVE Paired'
  <2>1. Paired /\ \A i \in ToSet(connections) : Live(i)
    BY <1>2, <1>4 DEF OwnInv, Paired, Detached
  <2>2. /\ ConnectionOf(id) # None =>
               ConnectionOf(id) \in ToSet(connections) /\ IDOf(ConnectionOf(id)) = id
        /\ \A i \in ToSet(connections) : IDOf(i) = id => ConnectionOf(id) = i
    BY <2>1, ConnectionFound DEF OwnInv, Paired
  <2>3. threads[id] # None
    BY <1>1, <2>1, <2>2 DEF Live
  <2>4. ConnectionOf(id) = threads[id] /\ pc' = "unregister"
    BY <1>1, <2>1, <2>2, <2>3 DEF Paired, IInv, ThreadsSound
  <2>. QED
    BY <1>1, <1>2, <2>1, <2>4 DEF Paired, DistinctIDs, Stopping, Detached, Live
<1>. QED
  BY <1>2, <1>3, <1>4 DEF OwnInv

\* The thread leaves _Threads; its connection is the one to be returned.
LEMMA DestroyMemoryOwn ==
  ASSUME IInv, OwnInv, DestroyMemory
  PROVE  OwnInv'
<1>1. /\ UNCHANGED <<made, connections, clash, returned, subject>>
      /\ pc = "destroy" /\ pc' = "join"
      /\ threads' = [threads EXCEPT ![IDOf(subject)] = None]
  BY DEF DestroyMemory, Goes
<1>2. subject \in Instances /\ threads[IDOf(subject)] = subject
  BY <1>1 DEF IInv, CallerSound, Working
<1>3. IDOf(subject) \in ThreadIDs /\ threads \in [ThreadIDs -> Instances \cup {None}]
  BY <1>2, IDOfType DEF IInv, Types0
<1>4. ASSUME ~clash PROVE Paired'
  <2>1. Paired /\ returned = subject
    BY <1>1, <1>4 DEF OwnInv, Paired, Stopping
  <2>2. \A i \in ToSet(connections) : i # subject => IDOf(i) # IDOf(subject) /\ Live(i)
    BY <1>1, <1>2, <2>1 DEF Paired, Live, Detached
  <2>3. \A id \in ThreadIDs : threads[id] = subject => id = IDOf(subject)
    BY <1>2, IDAssumption DEF IInv, ThreadsSound, Instances
  <2>4. ToSet(connections) \subseteq Instances
    BY LenProperties DEF OwnInv, ToSet
  <2>5. \A i \in ToSet(connections) : Live(i)' \/ returned' = i
    BY <1>1, <1>3, <2>1, <2>2, <2>4, IDOfType DEF Live
  <2>6. \A id \in ThreadIDs : threads'[id] # None =>
           threads'[id] \in ToSet(connections') /\ threads'[id] # returned'
    BY <1>1, <1>3, <2>1, <2>3 DEF Paired
  <2>. QED
    BY <1>1, <2>1, <2>5, <2>6 DEF Paired, DistinctIDs, Detached
<1>. QED
  BY <1>1, <1>4 DEF OwnInv

\* The connection returned is taken from the list, and no other.
LEMMA ReleaseOwn ==
  ASSUME IInv, OwnInv, Release
  PROVE  OwnInv'
<1>1. /\ UNCHANGED <<made, threads, clash, returned, subject>>
      /\ pc = "release" /\ pc' = "idle"
      /\ connections' = RemoveFirst(connections, returned)
  BY DEF Release
<1>2. connections' \in Seq(Instances) /\ ToSet(connections') \subseteq ToSet(connections)
  <2>1. \/ connections' = connections
        \/ \E k \in 1..Len(connections) : connections' = RemoveAt(connections, k)
    BY <1>1, RemoveFirstProperties DEF OwnInv
  <2>2. ASSUME NEW k \in 1..Len(connections), connections' = RemoveAt(connections, k)
        PROVE  connections' \in Seq(Instances) /\ ToSet(connections') \subseteq ToSet(connections)
    <3>1. /\ connections' \in Seq(Instances) /\ Len(connections') = Len(connections) - 1
          /\ \A i \in 1..Len(connections) - 1 :
               connections'[i] = IF i < k THEN connections[i] ELSE connections[i + 1]
      BY <2>2, RemoveAtProperties DEF OwnInv
    <3>2. \A i \in 1..Len(connections) - 1 :
              i \in 1..Len(connections) /\ i + 1 \in 1..Len(connections)
      BY LenProperties DEF OwnInv
    <3>3. DOMAIN connections = 1..Len(connections) /\ DOMAIN connections' = 1..Len(connections')
      BY <3>1, LenProperties DEF OwnInv
    <3>. QED
      BY <3>1, <3>2, <3>3 DEF ToSet
  <2>. QED
    BY <2>1, <2>2 DEF OwnInv
<1>3. ASSUME ~clash PROVE Paired'
  <2>1. Paired
    BY <1>3 DEF OwnInv
  <2>2. \A k, l \in 1..Len(connections) : connections[k] = connections[l] => k = l
    BY <2>1 DEF Paired, DistinctIDs
  <2>3. /\ ToSet(connections') = ToSet(connections) \ {returned}
        /\ \A k, l \in 1..Len(connections') : connections'[k] = connections'[l] => k = l
    BY <1>1, <2>2, RemoveFirstOfInjective DEF OwnInv
  <2>4. DistinctIDs'
    <3>1. SUFFICES ASSUME NEW k \in 1..Len(connections'), NEW l \in 1..Len(connections'),
                          IDOf(connections'[k]) = IDOf(connections'[l])
                   PROVE  connections'[k] = connections'[l]
      BY <2>3 DEF DistinctIDs
    <3>2. connections'[k] \in ToSet(connections) /\ connections'[l] \in ToSet(connections)
      BY <1>2, LenProperties DEF ToSet
    <3>3. \A m, n \in ToSet(connections) : IDOf(m) = IDOf(n) => m = n
      BY <2>1, LenProperties DEF Paired, DistinctIDs, ToSet, OwnInv
    <3>. QED
      BY <3>1, <3>2, <3>3
  <2>5. \A i \in ToSet(connections') : Live(i)'
    BY <1>1, <2>1, <2>3 DEF Paired, Live
  <2>6. \A id \in ThreadIDs : threads'[id] # None => threads'[id] \in ToSet(connections')
    BY <1>1, <2>1, <2>3 DEF Paired, Detached
  <2>. QED
    BY <1>1, <2>4, <2>5, <2>6 DEF Paired, Stopping, Detached
<1>. QED
  BY <1>1, <1>2, <1>3 DEF OwnInv

\* Steps that look at neither the list of connections nor _Threads.
LEMMA OtherOwn ==
  ASSUME OwnInv, UNCHANGED <<made, connections, threads, returned, clash, subject>>,
         pc' \in Stopping => pc \in Stopping,
         pc \in Detached <=> pc' \in Detached
  PROVE  OwnInv'
BY DEF OwnInv, Paired, DistinctIDs, Live

LEMMA NextOwn == IInv /\ OwnInv /\ [Next]_vars => OwnInv'
<1>. SUFFICES ASSUME IInv, OwnInv, [Next]_vars PROVE OwnInv'
  OBVIOUS
<1>. USE DEF Goes, manager, queues, global, caller, Stopping, Detached
<1>1. CASE Create
  BY <1>1, CreateOwn
<1>2. CASE Stop
  BY <1>2, StopOwn
<1>3. CASE DestroyMemory
  BY <1>3, DestroyMemoryOwn
<1>4. CASE Release
  BY <1>4, ReleaseOwn
<1>5. CASE RegisterModuleInstantiator \/ UnregisterModule \/ RequestRead
  BY <1>5, OtherOwn DEF RegisterModuleInstantiator, UnregisterModule, RequestRead
<1>6. CASE RegisterQueue \/ RegisterModule \/ RequestStart
  BY <1>6, OtherOwn DEF RegisterQueue, RegisterModule, RequestStart
<1>7. CASE UnregisterQueue \/ Refuse \/ Pause \/ Join
  BY <1>7, OtherOwn DEF UnregisterQueue, Refuse, Pause, Join
<1>8. CASE Deliver
  BY <1>8, OtherOwn DEF Deliver
<1>9. ASSUME NEW i \in Instances, Take(i) \/ Handle(i) PROVE OwnInv'
  BY <1>9, OtherOwn DEF Take, Handle
<1>10. CASE UNCHANGED vars
  BY <1>10, OtherOwn DEF vars
<1>. QED
  BY <1>1, <1>2, <1>3, <1>4, <1>5, <1>6, <1>7, <1>8, <1>9, <1>10 DEF Next, Calling, Returning

\* For any number of IDs and instances: until an ID is given to two instances at
\* a time, StopInstance returns the connection of the thread it has stopped.
THEOREM ConnectionsAreOwn == Spec => []OwnConnection
<1>1. Init => OwnInv
  <2>. SUFFICES ASSUME Init PROVE OwnInv
    OBVIOUS
  <2>1. connections \in Seq(Instances) /\ Len(connections) = 0 /\ ToSet(connections) = {}
    BY EmptySeq, LenProperties DEF Init, ToSet
  <2>2. Paired
    BY <2>1 DEF Init, Paired, DistinctIDs, Stopping, Detached
  <2>. QED
    BY <2>1, <2>2 DEF Init, OwnInv
<1>2. IInv /\ OwnInv => OwnConnection
  <2>. SUFFICES ASSUME IInv, OwnInv, ~clash PROVE OwnConnection
    BY DEF OwnConnection
  <2>1. \A id \in ThreadIDs : threads[id] # None => ConnectionOf(id) = threads[id]
    BY ConnectionFound DEF OwnInv, Paired, IInv, ThreadsSound
  <2>. QED
    BY <2>1 DEF OwnConnection, OwnInv, Paired, Stopping, Detached
<1>. QED
  BY <1>1, <1>2, Invariance, NextOwn, PTL DEF Spec
-------------------------------------------------------------------------------
(* The request to start, and the modules there are by then. *)

\* instances whose ID is new
Firsts == 1..IDCount \cap Instances

\* CreateNewInstance is through with i, or has not come to it.
Past(i) == ~(subject = i /\ pc \in {"register", "modules"})

Complete(i) == modules[i] = plan[i]

\* a request to start i under way
Requested(i) == \E k \in 1..Len(posted) : posted[k] = Message("start", IDOf(i))
Arrived(i)   == handling[i] = "start" \/ \E k \in 1..Len(inbox[i]) : inbox[i][k] = "start"

\* Nothing can ask i to start before CreateNewInstance has come to its end for i,
\* and then either i has its modules, or it is not reached any more.
StartInv ==
    /\ modules \in [Instances -> SUBSET (ModuleIDs \cup {OwnModule})]
    /\ plan \in [Instances -> SUBSET (ModuleIDs \cup {OwnModule})]
    /\ handling \in [Instances -> Types \cup {None}]
    /\ instantiators \in Seq(ModuleIDs) /\ todo \in Seq(ModuleIDs)
    /\ \A i \in Instances : i > made => handling[i] = None
    /\ pc \in {"register", "modules"} => plan[subject] = modules[subject] \cup ToSet(todo)
    /\ \A i \in Firsts :
          /\ Requested(i) => i <= made /\ Past(i)
          /\ i \in registered /\ ~locked /\ Past(i) => Complete(i)
          /\ Arrived(i) => Past(i) /\ (state[i] = "RUNNING" => Complete(i))

\* An instance whose ID is new is the first that has it.
LEMMA FirstsAreFirst ==
  ASSUME NEW i \in Firsts, NEW j \in Instances, IDOf(i) = IDOf(j)
  PROVE  i <= j
<1>1. IDCount \in Nat \ {0} /\ i \in 1..IDCount /\ j \in Nat \ {0}
  BY IDAssumption, BoundAssumption DEF Firsts, Instances
<1>2. \A k \in 0..IDCount - 1 : k % IDCount = k
  BY <1>1
<1>3. IDCount % IDCount = 0
  BY <1>1
<1>4. ASSUME j < i PROVE FALSE
  <2>1. j \in 0..IDCount - 1 /\ j % IDCount = j
    BY <1>1, <1>2, <1>4
  <2>2. i = IDCount \/ i % IDCount = i
    BY <1>1, <1>2
  <2>. QED
    BY <1>1, <1>3, <1>4, <2>1, <2>2 DEF IDOf
<1>. QED
  BY <1>1, <1>4

\* A new instance has one module and is to get those of the instantiators.
LEMMA CreateStart ==
  ASSUME IInv, StartInv, Create
  PROVE  StartInv'
<1>. DEFINE n == made + 1
<1>1. n \in Instances /\ made' = n /\ subject' = n /\ pc' = "register"
  BY BoundAssumption DEF IInv, Types0, Create, Instances
<1>2. /\ modules' = [modules EXCEPT ![n] = {OwnModule}]
      /\ plan' = [plan EXCEPT ![n] = {OwnModule} \cup ToSet(instantiators)]
      /\ todo' = instantiators
      /\ state' = [state EXCEPT ![n] = "RUNNING"]
      /\ UNCHANGED <<instantiators, handling, inbox, posted, registered, locked>>
  BY DEF Create, global
<1>3. ToSet(instantiators) \subseteq ModuleIDs
  BY LenProperties DEF StartInv, ToSet
<1>4. /\ modules' \in [Instances -> SUBSET (ModuleIDs \cup {OwnModule})]
      /\ plan' \in [Instances -> SUBSET (ModuleIDs \cup {OwnModule})]
      /\ handling' \in [Instances -> Types \cup {None}]
      /\ instantiators' \in Seq(ModuleIDs) /\ todo' \in Seq(ModuleIDs)
  BY <1>1, <1>2, <1>3 DEF StartInv
<1>5. plan'[n] = modules'[n] \cup ToSet(todo')
  BY <1>1, <1>2 DEF StartInv
<1>6. \A i \in Instances : i > n => handling[i] = None /\ i > made
  BY <1>1 DEF StartInv, IInv, Types0, Instances
<1>7. handling[n] = None /\ inbox[n] = <<>>
  BY <1>1 DEF StartInv, IInv, Types0, InboxSound, Instances
<1>8. ASSUME NEW i \in Firsts
      PROVE  /\ Requested(i) => i <= n /\ Past(i)'
             /\ i \in registered /\ ~locked /\ Past(i)' => Complete(i)'
             /\ Arrived(i) => Past(i)' /\ (state'[i] = "RUNNING" => Complete(i)')
  <2>1. i \in Instances /\ i \in Int /\ n \in Int /\ made \in Int /\ n = made + 1
    BY <1>1 DEF Firsts, Instances, IInv, Types0
  <2>2. Past(i) /\ pc = "idle"
    BY DEF Past, Create
  <2>3. CASE i = n
    <3>1. ~Requested(i)
      BY <2>1, <2>3 DEF StartInv
    <3>2. ~Arrived(i)
      BY <1>7, <2>3, IDAssumption DEF Arrived
    <3>3. ~Past(i)'
      BY <1>1, <2>3 DEF Past
    <3>. QED
      BY <3>1, <3>2, <3>3
  <2>4. CASE i # n
    <3>1. Past(i)' /\ (Complete(i)' <=> Complete(i)) /\ state'[i] = state[i]
      BY <1>1, <1>2, <2>1, <2>4 DEF Past, Complete, StartInv, IInv, Types0
    <3>. QED
      BY <2>1, <2>2, <3>1 DEF StartInv
  <2>. QED
    BY <2>3, <2>4
<1>9. \A i \in Firsts : (Requested(i)' <=> Requested(i)) /\ (Arrived(i)' <=> Arrived(i))
  BY <1>2 DEF Requested, Arrived
<1>. HIDE DEF n
<1>. QED
  BY <1>1, <1>2, <1>4, <1>5, <1>6, <1>8, <1>9 DEF StartInv

\* Whether it is taken or not, the new queue is not asked to start yet.
LEMMA RegisterQueueStart ==
  ASSUME IInv, StartInv, RegisterQueue
  PROVE  StartInv'
<1>1. /\ pc = "register" /\ pc' \in {"idle", "modules"}
      /\ registered' \subseteq registered \cup {subject}
      /\ pc' = "idle" => registered' = registered
      /\ UNCHANGED <<made, instantiators, modules, plan, todo, subject, handling, inbox, posted,
                     locked>>
  BY DEF RegisterQueue, Goes, manager, global
<1>2. subject \in Instances /\ subject \notin registered
  BY <1>1 DEF IInv, CallerSound, Working
<1>3. \A i \in Instances : i # subject => state'[i] = state[i]
  BY DEF RegisterQueue, IInv, Types0
<1>4. ASSUME NEW i \in Firsts
      PROVE  /\ Requested(i) => i <= made /\ Past(i)'
             /\ i \in registered' /\ ~locked /\ Past(i)' => Complete(i)
             /\ Arrived(i) => Past(i)' /\ (state'[i] = "RUNNING" => Complete(i))
  <2>1. i \in Instances
    BY DEF Firsts
  <2>2. CASE i = subject
    BY <1>1, <1>2, <2>2 DEF Past, StartInv
  <2>3. CASE i # subject
    BY <1>1, <1>3, <2>1, <2>3 DEF Past, StartInv
  <2>. QED
    BY <2>2, <2>3
<1>5. \A i \in Firsts : Requested(i)' <=> Requested(i)
  BY <1>1 DEF Requested
<1>7. \A i \in Firsts : Arrived(i)' <=> Arrived(i)
  BY <1>1 DEF Arrived
<1>8. \A i \in Firsts : Complete(i)' <=> Complete(i)
  BY <1>1 DEF Complete
<1>6. pc' \in {"register", "modules"} => plan'[subject'] = modules'[subject'] \cup ToSet(todo')
  BY <1>1 DEF StartInv
<1>. QED
  BY <1>1, <1>4, <1>5, <1>6, <1>7, <1>8 DEF StartInv

\* A module more, or the locks are lost.
LEMMA RegisterModuleStart ==
  ASSUME IInv, StartInv, RegisterModule
  PROVE  StartInv'
<1>1. /\ pc = "modules" /\ pc' \in {"idle", "modules"} /\ todo # <<>>
      /\ modules' = [modules EXCEPT ![subject] = @ \cup {Head(todo)}]
      /\ pc' = "idle" => locked'
      /\ ~locked' => ~locked
      /\ todo' = Tail(todo)
      /\ UNCHANGED <<made, instantiators, plan, subject, handling, inbox, posted, registered,
                     state>>
  BY DEF RegisterModule, manager
<1>2. subject \in Instances
  BY <1>1 DEF IInv, CallerSound, Working
<1>3. /\ Head(todo) \in ModuleIDs /\ Tail(todo) \in Seq(ModuleIDs)
      /\ ToSet(todo) = {Head(todo)} \cup ToSet(Tail(todo))
  <2>1. /\ Len(todo) \in Nat /\ Len(todo) > 0 /\ DOMAIN todo = 1..Len(todo)
        /\ Head(todo) = todo[1] /\ Head(todo) \in ModuleIDs
        /\ Tail(todo) \in Seq(ModuleIDs) /\ Len(Tail(todo)) = Len(todo) - 1
        /\ \A k \in 1..Len(todo) - 1 : Tail(todo)[k] = todo[k + 1]
    BY <1>1 DEF StartInv
  <2>2. DOMAIN Tail(todo) = 1..Len(todo) - 1
    BY <2>1, LenProperties
  <2>3. \A k \in 1..Len(todo) : k = 1 \/ (k - 1 \in 1..Len(todo) - 1 /\ todo[k] = Tail(todo)[k - 1])
    BY <2>1
  <2>4. \A k \in 1..Len(todo) - 1 : k + 1 \in 1..Len(todo)
    BY <2>1
  <2>5. \A x : (\E k \in 1..Len(todo) : todo[k] = x)
                <=> x = todo[1] \/ \E k \in 1..Len(todo) - 1 : Tail(todo)[k] = x
    <3>1. ASSUME NEW k \in 1..Len(todo)
          PROVE  todo[k] = todo[1] \/ \E l \in 1..Len(todo) - 1 : Tail(todo)[l] = todo[k]
      BY <2>3
    <3>2. ASSUME NEW k \in 1..Len(todo) - 1
          PROVE  \E l \in 1..Len(todo) : todo[l] = Tail(todo)[k]
      BY <2>1, <2>4
    <3>3. \E l \in 1..Len(todo) : todo[l] = todo[1]
      BY <2>1
    <3>. QED
      BY <3>1, <3>2, <3>3
  <2>6. /\ \A x : x \in ToSet(todo) <=> \E k \in 1..Len(todo) : todo[k] = x
        /\ \A x : x \in ToSet(Tail(todo)) <=> \E k \in 1..Len(todo) - 1 : Tail(todo)[k] = x
    BY <2>1, <2>2 DEF ToSet
  <2>. QED
    BY <2>1, <2>5, <2>6
<1>4. modules' \in [Instances -> SUBSET (ModuleIDs \cup {OwnModule})]
  BY <1>1, <1>2, <1>3 DEF StartInv
<1>5. plan'[subject'] = modules'[subject'] \cup ToSet(todo')
  BY <1>1, <1>2, <1>3 DEF StartInv
<1>6. ASSUME NEW i \in Firsts
      PROVE  /\ Requested(i) => i <= made /\ Past(i)'
             /\ i \in registered /\ ~locked' /\ Past(i)' => Complete(i)'
             /\ Arrived(i) => Past(i)' /\ (state[i] = "RUNNING" => Complete(i)')
  <2>1. i \in Instances
    BY DEF Firsts
  <2>2. CASE i = subject
    BY <1>1, <2>2 DEF Past, StartInv
  <2>3. CASE i # subject
    <3>1. Complete(i)' <=> Complete(i)
      BY <1>1, <2>1, <2>3 DEF Complete, StartInv
    <3>. QED
      BY <1>1, <2>3, <3>1 DEF Past, StartInv
  <2>. QED
    BY <2>2, <2>3
<1>7. \A i \in Firsts : (Requested(i)' <=> Requested(i)) /\ (Arrived(i)' <=> Arrived(i))
  BY <1>1 DEF Requested, Arrived
<1>. QED
  BY <1>1, <1>3, <1>4, <1>5, <1>6, <1>7 DEF StartInv

\* The request is pushed when no module is left to be made.
LEMMA RequestStartStart ==
  ASSUME IInv, StartInv, RequestStart
  PROVE  StartInv'
<1>1. /\ pc = "modules" /\ pc' = "idle" /\ todo = <<>>
      /\ posted' = Append(posted, Message("start", IDOf(subject)))
      /\ UNCHANGED <<made, instantiators, modules, plan, todo, subject, handling, inbox,
                     registered, state, locked>>
  BY DEF RequestStart, Goes, manager, queues
<1>2. subject \in Instances /\ subject <= made
  BY <1>1 DEF IInv, CallerSound, Working
<1>3. Complete(subject)
  <2>1. ToSet(todo) = {}
    BY <1>1, EmptySeq, LenProperties DEF ToSet, StartInv
  <2>. QED
    BY <1>1, <2>1 DEF StartInv, Complete
<1>4. ASSUME NEW i \in Firsts
      PROVE  /\ Requested(i)' => i <= made /\ Past(i)'
             /\ i \in registered /\ ~locked /\ Past(i)' => Complete(i)
             /\ Arrived(i) => Past(i)' /\ (state[i] = "RUNNING" => Complete(i))
  <2>1. Past(i)'
    BY <1>1 DEF Past
  <2>2. ASSUME Requested(i)' PROVE i <= made
    <3>1. PICK k \in 1..Len(posted') : posted'[k] = Message("start", IDOf(i))
      BY <2>2 DEF Requested
    <3>2. CASE k \in 1..Len(posted)
      BY <1>1, <3>1, <3>2 DEF StartInv, Requested, IInv, Types0
    <3>3. CASE k \notin 1..Len(posted)
      <4>1. posted'[k] = Message("start", IDOf(subject))
        BY <1>1, <3>3 DEF IInv, Types0
      <4>2. IDOf(i) = IDOf(subject)
        BY <3>1, <4>1 DEF Message
      <4>3. i \in Int /\ subject \in Int /\ made \in Int
        BY <1>2 DEF Firsts, Instances, IInv, Types0
      <4>. QED
        BY <1>2, <4>2, <4>3, FirstsAreFirst
    <3>. QED
      BY <3>2, <3>3
  <2>3. Past(i) \/ i = subject
    BY DEF Past
  <2>. QED
    BY <1>3, <2>1, <2>2, <2>3 DEF StartInv
<1>5. \A i \in Firsts : (Arrived(i)' <=> Arrived(i)) /\ (Complete(i)' <=> Complete(i))
  BY <1>1 DEF Arrived, Complete
<1>. QED
  BY <1>1, <1>4, <1>5 DEF StartInv

\* The global queue passes a request on to the queue that has its ID.
LEMMA DeliverStart ==
  ASSUME IInv, StartInv, Deliver
  PROVE  StartInv'
<1>1. /\ posted # <<>> /\ ~locked /\ posted' = Tail(posted)
      /\ inbox' = [i \in Instances |->
                     IF i \in registered /\ IDOf(i) = Head(posted).id
                     THEN Append(inbox[i], Head(posted).type) ELSE inbox[i]]
      /\ UNCHANGED <<made, instantiators, modules, plan, todo, subject, handling, registered,
                     state, locked, pc>>
  BY DEF Deliver, manager, caller
<1>2. /\ Len(posted) \in Nat /\ Len(posted) > 0 /\ Head(posted) = posted[1]
      /\ Head(posted) \in Messages /\ Len(posted') = Len(posted) - 1
      /\ \A k \in 1..Len(posted) - 1 : posted'[k] = posted[k + 1]
  BY <1>1 DEF IInv, Types0
<1>3. ASSUME NEW i \in Firsts
      PROVE  /\ Requested(i)' => Requested(i)
             /\ Arrived(i)' => Arrived(i) \/ (Requested(i) /\ i \in registered)
  <2>1. i \in Instances /\ inbox[i] \in Seq(Types)
    BY DEF Firsts, IInv, Types0
  <2>2. Requested(i)' => Requested(i)
    BY <1>2 DEF Requested
  <2>3. CASE i \in registered /\ IDOf(i) = Head(posted).id
    <3>1. inbox'[i] = Append(inbox[i], Head(posted).type)
      BY <1>1, <2>1, <2>3
    <3>2. Head(posted).type = "start" => posted[1] = Message("start", IDOf(i))
      BY <1>2, <2>3 DEF Messages, Message
    <3>3. Head(posted).type \in Types
      BY <1>2 DEF Messages
    <3>4. \A k \in 1..Len(inbox'[i]) :
             inbox'[i][k] = Head(posted).type
               \/ (k \in 1..Len(inbox[i]) /\ inbox'[i][k] = inbox[i][k])
      BY <2>1, <3>1, <3>3
    <3>5. ASSUME Arrived(i)' PROVE Arrived(i) \/ (Requested(i) /\ i \in registered)
      <4>1. CASE Head(posted).type = "start"
        <5>1. 1 \in 1..Len(posted)
          BY <1>2
        <5>. QED
          BY <2>3, <3>2, <4>1, <5>1 DEF Requested
      <4>2. CASE Head(posted).type # "start"
        BY <1>1, <3>4, <3>5, <4>2 DEF Arrived
      <4>. QED
        BY <4>1, <4>2
    <3>. QED
      BY <2>2, <3>5
  <2>4. CASE ~(i \in registered /\ IDOf(i) = Head(posted).id)
    BY <1>1, <2>1, <2>2, <2>4 DEF Arrived
  <2>. QED
    BY <2>3, <2>4
<1>4. \A i \in Firsts : (Past(i)' <=> Past(i)) /\ (Complete(i)' <=> Complete(i))
  BY <1>1 DEF Past, Complete
<1>. QED
  BY <1>1, <1>3, <1>4 DEF StartInv

\* The thread takes a message, handles it or dies of it.
LEMMA ThreadStart ==
  ASSUME IInv, StartInv, NEW i \in Instances, Take(i) \/ Handle(i)
  PROVE  StartInv'
<1>1. /\ UNCHANGED <<made, instantiators, modules, plan, todo, subject, registered, locked, pc,
                     posted>>
      /\ \A j \in Instances : state'[j] = "RUNNING" => state[j] = "RUNNING"
  BY DEF Take, Handle, manager, global, caller, IInv, Types0
<1>2. /\ handling' \in [Instances -> Types \cup {None}]
      /\ \A j \in Instances : (Arrived(j)' => Arrived(j))
                              /\ (handling'[j] # None => handling[j] # None \/ inbox[j] # <<>>)
  <2>1. CASE Handle(i)
    <3>1. /\ handling' = [handling EXCEPT ![i] = None] /\ inbox' = inbox
          /\ handling \in [Instances -> Types \cup {None}]
      BY <2>1 DEF Handle, StartInv
    <3>2. \A j \in Instances : handling'[j] = handling[j] \/ handling'[j] = None
      BY <3>1
    <3>3. \A j \in Instances : handling'[j] = "start" => handling[j] = "start"
      BY <3>2, IDAssumption
    <3>4. handling' \in [Instances -> Types \cup {None}]
      BY <3>1
    <3>. QED
      BY <3>1, <3>2, <3>3, <3>4 DEF Arrived
  <2>2. CASE Take(i)
    <3>1. /\ handling' = [handling EXCEPT ![i] = Head(inbox[i])]
          /\ inbox' = [inbox EXCEPT ![i] = Tail(@)] /\ inbox[i] # <<>>
          /\ inbox[i] \in Seq(Types) /\ inbox \in [Instances -> Seq(Types)]
      BY <2>2 DEF Take, IInv, Types0
    <3>2. /\ Head(inbox[i]) = inbox[i][1] /\ Head(inbox[i]) \in Types
          /\ Len(inbox[i]) \in Nat /\ Len(inbox[i]) > 0
          /\ Len(Tail(inbox[i])) = Len(inbox[i]) - 1
          /\ \A k \in 1..Len(inbox[i]) - 1 : Tail(inbox[i])[k] = inbox[i][k + 1]
      BY <3>1
    <3>3. handling' \in [Instances -> Types \cup {None}]
      BY <3>1, <3>2 DEF StartInv
    <3>4. Arrived(i)' => Arrived(i)
      BY <3>1, <3>2 DEF Arrived, StartInv
    <3>5. \A j \in Instances : j # i => /\ Arrived(j)' <=> Arrived(j)
                                        /\ handling'[j] = handling[j]
      BY <3>1 DEF Arrived, StartInv
    <3>. QED
      BY <3>1, <3>3, <3>4, <3>5
  <2>. QED
    BY <2>1, <2>2
<1>3. \A j \in Instances : j > made => handling'[j] = None
  BY <1>2 DEF StartInv, IInv, InboxSound
<1>4. ASSUME NEW j \in Firsts
      PROVE  /\ Requested(j)' => j <= made /\ Past(j)'
             /\ j \in registered /\ ~locked /\ Past(j)' => Complete(j)'
             /\ Arrived(j)' => Past(j)' /\ (state'[j] = "RUNNING" => Complete(j)')
  <2>1. j \in Instances /\ (Past(j)' <=> Past(j)) /\ (Complete(j)' <=> Complete(j))
    BY <1>1 DEF Past, Complete, Firsts
  <2>2. Requested(j)' <=> Requested(j)
    BY <1>1 DEF Requested
  <2>. QED
    BY <1>1, <1>2, <2>1, <2>2 DEF StartInv
<1>. QED
  BY <1>1, <1>2, <1>3, <1>4 DEF StartInv

\* A request to read is not one to start.
LEMMA RequestReadStart ==
  ASSUME IInv, StartInv, RequestRead
  PROVE  StartInv'
<1>1. PICK id \in ThreadIDs : posted' = Append(posted, Message("read", id))
  BY DEF RequestRead
<1>2. /\ UNCHANGED <<made, instantiators, modules, plan, todo, subject, handling, inbox,
                     registered, state, locked, pc>>
      /\ pc = "idle"
  BY DEF RequestRead, manager, queues
<1>3. ASSUME NEW i \in Firsts, Requested(i)' PROVE Requested(i)
  <2>1. PICK k \in 1..Len(posted') : posted'[k] = Message("start", IDOf(i))
    BY <1>3 DEF Requested
  <2>2. Message("read", id) # Message("start", IDOf(i))
    BY DEF Message
  <2>3. k \in 1..Len(posted) /\ posted'[k] = posted[k]
    BY <1>1, <2>1, <2>2 DEF IInv, Types0
  <2>. QED
    BY <2>1, <2>3 DEF Requested
<1>4. \A i \in Firsts : (Arrived(i)' <=> Arrived(i)) /\ (Complete(i)' <=> Complete(i)) /\ Past(i)'
  BY <1>2 DEF Arrived, Complete, Past
<1>5. \A i \in Firsts : Past(i)
  BY <1>2 DEF Past
<1>. QED
  BY <1>2, <1>3, <1>4, <1>5 DEF StartInv

\* The modules are gone with the thread, which is registered no more.
LEMMA JoinStart ==
  ASSUME IInv, StartInv, Join
  PROVE  StartInv'
<1>1. /\ UNCHANGED <<made, instantiators, plan, todo, subject, handling, inbox, registered,
                     posted, locked>>
      /\ modules' = [modules EXCEPT ![subject] = {}]
      /\ state' = [state EXCEPT ![subject] = "gone"]
      /\ pc = "join" /\ pc' = "release"
  BY DEF Join, Goes, manager, global
<1>2. subject \notin registered
  BY <1>1 DEF IInv, CallerSound
<1>3. modules' \in [Instances -> SUBSET (ModuleIDs \cup {OwnModule})]
  BY <1>1 DEF StartInv
<1>4. ASSUME NEW i \in Firsts
      PROVE  /\ Requested(i)' => i <= made /\ Past(i)'
             /\ i \in registered /\ ~locked /\ Past(i)' => Complete(i)'
             /\ Arrived(i)' => Past(i)' /\ (state'[i] = "RUNNING" => Complete(i)')
  <2>1. /\ i \in Instances /\ Past(i) /\ Past(i)' /\ (Requested(i)' <=> Requested(i))
        /\ Arrived(i)' <=> Arrived(i)
    BY <1>1 DEF Firsts, Past, Requested, Arrived
  <2>2. CASE i = subject
    BY <1>1, <1>2, <2>1, <2>2 DEF StartInv, IInv, Types0
  <2>3. CASE i # subject
    <3>1. (Complete(i)' <=> Complete(i)) /\ state'[i] = state[i]
      BY <1>1, <2>1, <2>3 DEF Complete, StartInv, IInv, Types0
    <3>. QED
      BY <2>1, <3>1 DEF StartInv
  <2>. QED
    BY <2>2, <2>3
<1>. QED
  BY <1>1, <1>3, <1>4 DEF StartInv

\* Steps that are no part of CreateNewInstance and post nothing.
LEMMA OtherStart ==
  ASSUME StartInv, UNCHANGED <<made, modules, plan, todo, handling, inbox, posted>>,
         instantiators' \in Seq(ModuleIDs),
         registered' \subseteq registered, ~locked' => ~locked,
         {pc, pc'} \cap {"register", "modules"} = {},
         \A i \in Instances : state'[i] = "RUNNING" => state[i] = "RUNNING"
  PROVE  StartInv'
<1>1. ASSUME NEW i \in Firsts
      PROVE  /\ Requested(i)' => i <= made /\ Past(i)'
             /\ i \in registered' /\ ~locked' /\ Past(i)' => Complete(i)'
             /\ Arrived(i)' => Past(i)' /\ (state'[i] = "RUNNING" => Complete(i)')
  <2>1. /\ i \in Instances /\ Past(i) /\ Past(i)' /\ (Complete(i)' <=> Complete(i))
    BY DEF Firsts, Past, Complete
  <2>2. (Arrived(i)' <=> Arrived(i)) /\ (Requested(i)' <=> Requested(i))
    BY DEF Arrived, Requested
  <2>. QED
    BY <2>1, <2>2 DEF StartInv
<1>. QED
  BY <1>1 DEF StartInv

LEMMA NextStart == IInv /\ StartInv /\ [Next]_vars => StartInv'
<1>. SUFFICES ASSUME IInv, StartInv, [Next]_vars PROVE StartInv'
  OBVIOUS
<1>. USE DEF Goes, manager, queues, global, caller
<1>1. CASE Create
  BY <1>1, CreateStart
<1>2. CASE RegisterQueue
  BY <1>2, RegisterQueueStart
<1>3. CASE RegisterModule
  BY <1>3, RegisterModuleStart
<1>4. CASE RequestStart
  BY <1>4, RequestStartStart
<1>5. CASE RequestRead
  BY <1>5, RequestReadStart
<1>6. CASE Join
  BY <1>6, JoinStart
<1>7. instantiators \in Seq(ModuleIDs)
  BY DEF StartInv
<1>8. CASE RegisterModuleInstantiator
  <2>1. instantiators' \in Seq(ModuleIDs)
    BY <1>7, <1>8 DEF RegisterModuleInstantiator
  <2>. QED
    BY <1>8, <2>1, OtherStart DEF RegisterModuleInstantiator
<1>9. CASE UnregisterModule
  <2>1. PICK x \in ToSet(instantiators) : instantiators' = RemoveFirst(instantiators, x)
    BY <1>9 DEF UnregisterModule
  <2>2. instantiators' \in Seq(ModuleIDs)
    BY <1>7, <2>1, RemoveFirstProperties, RemoveAtProperties
  <2>. QED
    BY <1>9, <2>2, OtherStart DEF UnregisterModule
<1>10. CASE Stop \/ Release \/ DestroyMemory \/ Refuse
  BY <1>7, <1>10, OtherStart DEF Stop, Release, DestroyMemory, Refuse
<1>11. CASE UnregisterQueue
  BY <1>7, <1>11, OtherStart DEF UnregisterQueue
<1>12. CASE Pause
  BY <1>7, <1>12, OtherStart DEF Pause, IInv, Types0
<1>13. CASE Deliver
  BY <1>13, DeliverStart
<1>14. ASSUME NEW i \in Instances, Take(i) \/ Handle(i) PROVE StartInv'
  BY <1>14, ThreadStart
<1>15. CASE UNCHANGED vars
  <2>1. \A i \in Firsts : (Requested(i)' <=> Requested(i)) /\ (Arrived(i)' <=> Arrived(i))
    BY <1>15 DEF vars, Requested, Arrived
  <2>2. \A i \in Firsts : (Past(i)' <=> Past(i)) /\ (Complete(i)' <=> Complete(i))
    BY <1>15 DEF vars, Past, Complete
  <2>. QED
    BY <1>15, <2>1, <2>2 DEF vars, StartInv
<1>. QED
  BY <1>1, <1>2, <1>3, <1>4, <1>5, <1>6, <1>8, <1>9, <1>10, <1>11, <1>12, <1>13, <1>14, <1>15
  DEF Next, Calling, Returning

\* For any number of IDs, instances and instantiators: an instance with a new ID
\* handles its request to start with all the modules it was to get.
THEOREM StartsAreComplete == Spec => []StartsComplete
<1>1. Init => StartInv
  <2>. SUFFICES ASSUME Init PROVE StartInv
    OBVIOUS
  <2>1. instantiators \in Seq(ModuleIDs) /\ todo \in Seq(ModuleIDs)
    BY EmptySeq DEF Init
  <2>2. \A i \in Firsts : ~Requested(i) /\ ~Arrived(i)
    BY IDAssumption DEF Init, Requested, Arrived, Firsts
  <2>. QED
    BY <2>1, <2>2 DEF Init, StartInv
<1>2. StartInv => StartsComplete
  BY DEF StartInv, StartsComplete, Firsts, Arrived, Complete
<1>. QED
  BY <1>1, <1>2, Invariance, NextStart, PTL DEF Spec
===============================================================================
