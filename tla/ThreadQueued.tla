----------------------------- MODULE ThreadQueued -----------------------------
(***************************************************************************)
(* thread_queued::ThreadQueued, the thread with a message queue every      *)
(* other thread of the program is built on (thread_queued.h), together     *)
(* with the locked queue it derives from (thread_message_queue.h,          *)
(* message_queue.h) and the future that runs it (thread_function.h).       *)
(*                                                                         *)
(* Three kinds of threads meet here:                                       *)
(*   - workers run ThreadMessageFunction.  The first is started by the     *)
(*     constructor, RestartThread starts another one;                      *)
(*   - producers call PushMessage or PushMessageFront;                     *)
(*   - the owner changes the state, restarts the thread and destroys it.   *)
(*                                                                         *)
(* An operation on the list runs under _QueueLock and takes no other lock, *)
(* so Push, PushFront and Pop are each one step.  The two reads of _State, *)
(* the unlocked read of the list's size and the pop are separate steps, as *)
(* are the assertion, the test and the push of PushMessage.                *)
(***************************************************************************)
EXTENDS Naturals, Sequences, FiniteSets

CONSTANTS Msgs,       \* messages; each is pushed at most once
          Urgent,     \* those pushed with PushMessageFront
          Producers,  \* threads that push
          MaxStarts,  \* bound: how often a worker thread is started
          Throws,     \* may a message handler throw?
          None        \* "no message"

ASSUME MsgAssumption   == None \notin Msgs /\ Urgent \subseteq Msgs
ASSUME StartAssumption == MaxStarts \in Nat \ {0}
ASSUME ThrowAssumption == Throws \in BOOLEAN

Workers == 1..MaxStarts

VARIABLES queue,     \* _Messages
          accept,    \* _AcceptMessages
          state,     \* _State
          started,   \* the worker _Thread holds is number started
          wpc,       \* where each worker is in ThreadMessageFunction
          hand,      \* tmpMessage of each worker
          ppc,       \* where each producer is in PushMessage
          pmsg,      \* the message each producer is pushing
          opc,       \* where the owner is
          fresh,     \* messages nobody has pushed yet
          handled,   \* history: messages whose handler returned, in order
          failed,    \* history: messages whose handler threw
          late,      \* history: pops in a state other than THREAD_RUNNING since
                     \* _State was last written
          quiet,     \* history: no push was under way when the queue was closed
          drained,   \* history: the destructor took the emptying branch
          aborted    \* an assertion failed: the process is gone

queueVars  == <<queue, accept, state>>
workerVars == <<started, wpc, hand>>
prodVars   == <<ppc, pmsg, fresh>>
histVars   == <<handled, failed, late>>
deathVars  == <<quiet, drained>>
vars == <<queue, accept, state, started, wpc, hand, ppc, pmsg, opc, fresh,
          handled, failed, late, quiet, drained, aborted>>

States    == {"RUNNING", "PAUSED", "STOPPED"}
WorkerPCs == {"unborn", "loop", "cond", "size", "pop", "call", "ended"}
OwnerPCs  == {"idle", "restartWait", "restartRun", "restartLaunch",
              "closeQueue", "drain", "stop", "join", "dead"}

Items(s) == {s[i] : i \in DOMAIN s}
Held     == {hand[w] : w \in Workers} \ {None}

Init == /\ queue = <<>>
        /\ accept = TRUE
        /\ state \in {"RUNNING", "PAUSED"}
        /\ started = 1
        /\ wpc = [w \in Workers |-> IF w = 1 THEN "loop" ELSE "unborn"]
        /\ hand = [w \in Workers |-> None]
        /\ ppc = [p \in Producers |-> "idle"]
        /\ pmsg = [p \in Producers |-> None]
        /\ opc = "idle"
        /\ fresh = Msgs
        /\ handled = <<>>
        /\ failed = {}
        /\ late = 0
        /\ quiet = FALSE
        /\ drained = FALSE
        /\ aborted = FALSE
-------------------------------------------------------------------------------
(* The worker: ThreadMessageFunction. *)

\* while(_State != THREAD_STOPPED)
CheckStopped(w) ==
    /\ wpc[w] = "loop"
    /\ wpc' = [wpc EXCEPT ![w] = IF state = "STOPPED" THEN "ended" ELSE "cond"]
    /\ UNCHANGED <<queueVars, started, hand, prodVars, opc, histVars, deathVars, aborted>>

\* Mutant: GetQueueSize() > 1
CheckSizeOffByOne(w) ==
    /\ wpc[w] = "size"
    /\ wpc' = [wpc EXCEPT ![w] = IF Len(queue) <= 1 THEN "loop" ELSE "pop"]
    /\ UNCHANGED <<queueVars, started, hand, prodVars, opc, histVars, deathVars, aborted>>

\* Mutant: the loop empties the queue before it looks at the state again
HandlerReturnsToSize(w) ==
    /\ wpc[w] = "call"
    /\ handled' = Append(handled, hand[w])
    /\ hand' = [hand EXCEPT ![w] = None]
    /\ wpc' = [wpc EXCEPT ![w] = "size"]
    /\ UNCHANGED <<queueVars, started, prodVars, opc, failed, late, deathVars, aborted>>

\* _State != THREAD_PAUSED; else sleep and go round again
CheckPaused(w) ==
    /\ wpc[w] = "cond"
    /\ wpc' = [wpc EXCEPT ![w] = IF state = "PAUSED" THEN "loop" ELSE "size"]
    /\ UNCHANGED <<queueVars, started, hand, prodVars, opc, histVars, deathVars, aborted>>

\* GetQueueSize() > 0, read without the lock; else sleep and go round again
CheckSize(w) ==
    /\ wpc[w] = "size"
    /\ wpc' = [wpc EXCEPT ![w] = IF queue = <<>> THEN "loop" ELSE "pop"]
    /\ UNCHANGED <<queueVars, started, hand, prodVars, opc, histVars, deathVars, aborted>>

\* Pop() under _QueueLock.  On an empty list front() is undefined: no step.
Pop(w) ==
    /\ wpc[w] = "pop"
    /\ queue # <<>>
    /\ hand' = [hand EXCEPT ![w] = Head(queue)]
    /\ queue' = Tail(queue)
    /\ wpc' = [wpc EXCEPT ![w] = "call"]
    /\ late' = IF state = "RUNNING" THEN 0 ELSE late + 1
    /\ UNCHANGED <<accept, state, started, prodVars, opc, handled, failed,
                   deathVars, aborted>>

\* _MessageFcn returns
HandlerReturns(w) ==
    /\ wpc[w] = "call"
    /\ handled' = Append(handled, hand[w])
    /\ hand' = [hand EXCEPT ![w] = None]
    /\ wpc' = [wpc EXCEPT ![w] = "loop"]
    /\ UNCHANGED <<queueVars, started, prodVars, opc, failed, late, deathVars, aborted>>

\* _MessageFcn throws: nothing catches it in the loop, the exception is
\* stored in the future and the thread is over, with _State unchanged
HandlerThrows(w) ==
    /\ Throws
    /\ wpc[w] = "call"
    /\ failed' = failed \cup {hand[w]}
    /\ hand' = [hand EXCEPT ![w] = None]
    /\ wpc' = [wpc EXCEPT ![w] = "ended"]
    /\ UNCHANGED <<queueVars, started, prodVars, opc, handled, late, deathVars, aborted>>

Worker(w) == \/ CheckStopped(w)
             \/ CheckPaused(w)
             \/ CheckSize(w)
             \/ Pop(w)
             \/ HandlerReturns(w)
             \/ HandlerThrows(w)
-------------------------------------------------------------------------------
(* A producer: PushMessage and PushMessageFront. *)

\* Mutant: PushMessageFront calls Push
PushToBack(p) ==
    /\ ppc[p] = "push"
    /\ queue' = Append(queue, pmsg[p])
    /\ ppc' = [ppc EXCEPT ![p] = "idle"]
    /\ pmsg' = [pmsg EXCEPT ![p] = None]
    /\ UNCHANGED <<accept, state, workerVars, opc, fresh, histVars, deathVars, aborted>>

\* assert(_AcceptMessages == true), compiled in: nothing defines NDEBUG
PushAssert(p, m) ==
    /\ ppc[p] = "idle"
    /\ opc # "dead"
    /\ m \in fresh
    /\ fresh' = fresh \ {m}
    /\ IF accept
       THEN /\ ppc' = [ppc EXCEPT ![p] = "test"]
            /\ pmsg' = [pmsg EXCEPT ![p] = m]
            /\ UNCHANGED aborted
       ELSE /\ aborted' = TRUE
            /\ UNCHANGED <<ppc, pmsg>>
    /\ UNCHANGED <<queueVars, workerVars, opc, histVars, deathVars>>

\* if(_AcceptMessages == true); else the message is silently dropped
PushTest(p) ==
    /\ ppc[p] = "test"
    /\ IF accept
       THEN /\ ppc' = [ppc EXCEPT ![p] = "push"]
            /\ UNCHANGED pmsg
       ELSE /\ ppc' = [ppc EXCEPT ![p] = "idle"]
            /\ pmsg' = [pmsg EXCEPT ![p] = None]
    /\ UNCHANGED <<queueVars, workerVars, opc, fresh, histVars, deathVars, aborted>>

\* ThreadMessageQueue::Push or PushFront, under _QueueLock
PushToQueue(p) ==
    /\ ppc[p] = "push"
    /\ queue' = IF pmsg[p] \in Urgent THEN <<pmsg[p]>> \o queue
                                      ELSE Append(queue, pmsg[p])
    /\ ppc' = [ppc EXCEPT ![p] = "idle"]
    /\ pmsg' = [pmsg EXCEPT ![p] = None]
    /\ UNCHANGED <<accept, state, workerVars, opc, fresh, histVars, deathVars, aborted>>

Producer(p) == \/ \E m \in Msgs : PushAssert(p, m)
               \/ PushTest(p)
               \/ PushToQueue(p)
-------------------------------------------------------------------------------
(* The owner. *)

\* Mutant: the destructor does not stop the thread
DestroyNoStop ==
    /\ opc = "stop"
    /\ opc' = "join"
    /\ UNCHANGED <<queueVars, workerVars, prodVars, histVars, deathVars, aborted>>

SetState(s) ==
    /\ state' = s
    /\ late' = 0

SetThreadState(s) ==
    /\ opc = "idle"
    /\ SetState(s)
    /\ UNCHANGED <<queue, accept, workerVars, prodVars, opc, handled, failed,
                   deathVars, aborted>>

StopThread == SetThreadState("STOPPED")

SetMessageAcceptance(b) ==
    /\ opc = "idle"
    /\ accept' = b
    /\ UNCHANGED <<queue, state, workerVars, prodVars, opc, histVars, deathVars, aborted>>

\* RestartThread, first statement: _State = THREAD_STOPPED
RestartStop ==
    /\ opc = "idle"
    /\ started < MaxStarts
    /\ SetState("STOPPED")
    /\ opc' = "restartWait"
    /\ UNCHANGED <<queue, accept, workerVars, prodVars, handled, failed, deathVars, aborted>>

\* Wait(): the future is ready when the worker's function is over
RestartWait ==
    /\ opc = "restartWait"
    /\ wpc[started] = "ended"
    /\ opc' = "restartRun"
    /\ UNCHANGED <<queueVars, workerVars, prodVars, histVars, deathVars, aborted>>

\* _State = THREAD_RUNNING
RestartRun ==
    /\ opc = "restartRun"
    /\ SetState("RUNNING")
    /\ opc' = "restartLaunch"
    /\ UNCHANGED <<queue, accept, workerVars, prodVars, handled, failed, deathVars, aborted>>

\* _Thread = thread_t(ThreadMessageFunction, this)
RestartLaunch ==
    /\ opc = "restartLaunch"
    /\ started' = started + 1
    /\ wpc' = [wpc EXCEPT ![started + 1] = "loop"]
    /\ opc' = "idle"
    /\ UNCHANGED <<queueVars, hand, prodVars, histVars, deathVars, aborted>>

\* ~ThreadQueued(): the queue is emptied first only if the thread is running
DestroyBegin ==
    /\ opc = "idle"
    /\ drained' = (state = "RUNNING")
    /\ opc' = IF state = "RUNNING" THEN "closeQueue" ELSE "stop"
    /\ UNCHANGED <<queueVars, workerVars, prodVars, histVars, quiet, aborted>>

\* SetMessageAcceptance(false)
DestroyClose ==
    /\ opc = "closeQueue"
    /\ accept' = FALSE
    /\ quiet' = (\A p \in Producers : ppc[p] = "idle")
    /\ opc' = "drain"
    /\ UNCHANGED <<queue, state, workerVars, prodVars, histVars, drained, aborted>>

\* while(!IsQueueEmpty()) {}
DestroyDrain ==
    /\ opc = "drain"
    /\ queue = <<>>
    /\ opc' = "stop"
    /\ UNCHANGED <<queueVars, workerVars, prodVars, histVars, deathVars, aborted>>

\* ... a busy wait: nothing changes while the queue holds a message
DestroySpin ==
    /\ opc = "drain"
    /\ queue # <<>>
    /\ UNCHANGED vars

\* StopThread()
DestroyStop ==
    /\ opc = "stop"
    /\ SetState("STOPPED")
    /\ opc' = "join"
    /\ UNCHANGED <<queue, accept, workerVars, prodVars, handled, failed, deathVars, aborted>>

\* ~_Thread: the destructor of a future made by async waits for the thread
DestroyJoin ==
    /\ opc = "join"
    /\ wpc[started] = "ended"
    /\ opc' = "dead"
    /\ UNCHANGED <<queueVars, workerVars, prodVars, histVars, deathVars, aborted>>

\* what the owner goes on with once it has begun
OwnerContinues == \/ RestartWait
                  \/ RestartRun
                  \/ RestartLaunch
                  \/ DestroyClose
                  \/ DestroyDrain
                  \/ DestroyStop
                  \/ DestroyJoin

Owner == \/ \E s \in {"RUNNING", "PAUSED"} : SetThreadState(s)
         \/ StopThread
         \/ \E b \in BOOLEAN : SetMessageAcceptance(b)
         \/ RestartStop
         \/ DestroyBegin
         \/ DestroySpin
         \/ OwnerContinues
-------------------------------------------------------------------------------
Over == /\ aborted \/ opc = "dead"
        /\ UNCHANGED vars

Next == \/ /\ ~aborted
           /\ \/ \E w \in Workers : Worker(w)
              \/ \E p \in Producers : Producer(p)
              \/ Owner
        \/ Over

Spec == Init /\ [][Next]_vars

\* A thread that is not blocked goes on: the workers' loop, a push that has
\* begun and an owner's call that has begun.  Nobody is obliged to begin one.
Fairness ==
    /\ \A w \in Workers : WF_vars(~aborted /\ Worker(w))
    /\ \A p \in Producers : WF_vars(~aborted /\ (PushTest(p) \/ PushToQueue(p)))
    /\ WF_vars(~aborted /\ OwnerContinues)

FairSpec == Spec /\ Fairness
-------------------------------------------------------------------------------
(* Properties. *)

TypeOK ==
    /\ queue \in Seq(Msgs)
    /\ accept \in BOOLEAN
    /\ state \in States
    /\ started \in Workers
    /\ wpc \in [Workers -> WorkerPCs]
    /\ hand \in [Workers -> Msgs \cup {None}]
    /\ ppc \in [Producers -> {"idle", "test", "push"}]
    /\ pmsg \in [Producers -> Msgs \cup {None}]
    /\ opc \in OwnerPCs
    /\ fresh \subseteq Msgs
    /\ handled \in Seq(Msgs)
    /\ failed \subseteq Msgs
    /\ late \in Nat
    /\ quiet \in BOOLEAN
    /\ drained \in BOOLEAN
    /\ aborted \in BOOLEAN

\* Two worker threads are never between taking a message and finishing it:
\* module handlers, which share unlocked state, run one at a time even
\* across RestartThread (thread_queued.h:200-213, 296-316).
HandlersSerialized ==
    \A v, w \in Workers : wpc[v] = "call" /\ wpc[w] = "call" => v = w

\* The worker tests the size and pops in two steps, without holding the lock
\* in between; still it never pops from an empty list, which would be
\* undefined (thread_queued.h:306-308, message_queue.h Pop).
PopNeverEmpty == \A w \in Workers : wpc[w] = "pop" => queue # <<>>

\* A message is in one place only: not pushed, in a producer's hands, waiting,
\* being handled, done or failed.  No message is handled twice, or handled
\* while it still waits.
MessagesNotDuplicated ==
    /\ \A i, j \in DOMAIN queue : queue[i] = queue[j] => i = j
    /\ \A i, j \in DOMAIN handled : handled[i] = handled[j] => i = j
    /\ Items(queue) \cap Items(handled) = {}
    /\ Held \cap (Items(queue) \cup Items(handled)) = {}
    /\ failed \cap (Items(queue) \cup Items(handled) \cup Held) = {}

\* After the state was set to paused or stopped at most one more message is
\* taken, the one the worker was already committed to: StopInstance and the
\* move operations pause a thread and go on at once.  The count starts anew
\* with each write of _State: stopping a paused thread lets a worker that is
\* between its two tests take one message more, since "not paused" is all the
\* second test asks (thread_queued.h:303-308).
AtMostOneLatePop == late <= 1

\* If no push is under way when the destructor stops accepting messages, a
\* running thread is destroyed only after every message in its queue was given
\* to the handler and the handler is over (thread_queued.h:114-129).
QuietShutdownDrains ==
    opc = "dead" /\ drained /\ quiet => queue = <<>> /\ Held = {}

\* A message that waits in the queue of a thread that stays in state
\* THREAD_RUNNING, with a worker alive, is given to the handler, which returns
\* or throws.
StaysUp == /\ state = "RUNNING"
           /\ opc = "idle"
           /\ ~aborted
           /\ wpc[started] # "ended"
EventuallyHandled ==
    <>[]StaysUp => \A m \in Msgs :
        m \in Items(queue) ~> m \in Items(handled) \cup failed

\* The destructor of a running queue returns: the wait for the empty queue and
\* the wait for the worker both end, unless a handler ends the worker by an
\* exception while the destructor waits for it to empty the queue.
DestructorReturns ==
    /\ opc = "closeQueue"
    /\ wpc[started] # "ended"
    ~> \/ opc = "dead"
       \/ aborted
       \/ opc = "drain" /\ wpc[started] = "ended"

\* Seen from outside the queue thread is a mailbox: whatever the worker
\* threads, the pauses and the restarts do, messages are taken in order.
InHand == IF Held = {} THEN None ELSE CHOOSE m \in Held : TRUE
Box == INSTANCE Mailbox WITH box <- queue, reading <- InHand,
                             read <- handled, spoiled <- failed
IsMailbox == Box!Spec
===============================================================================
