------------------------- MODULE ThreadQueued_proofs -------------------------
(***************************************************************************)
(* Proofs about ThreadQueued for any set of messages and producers and any *)
(* number of restarts.                                                     *)
(***************************************************************************)
EXTENDS ThreadQueued, TLAPS

\* The three program counters and what they say of the messages in hand.
PlaceInv ==
    /\ \A w \in Workers : hand[w] # None <=> wpc[w] = "call"
    /\ \A p \in Producers : pmsg[p] # None <=> ppc[p] # "idle"

\* Only the worker _Thread holds can be alive, and none is while the next one
\* is being made.
WorkerInv ==
    /\ \A w \in Workers : w > started => wpc[w] = "unborn"
    /\ \A w \in Workers : w < started => wpc[w] = "ended"
    /\ wpc[started] # "unborn"
    /\ opc \in {"restartWait", "restartRun", "restartLaunch"} => started < MaxStarts
    /\ opc \in {"restartRun", "restartLaunch", "dead"} => wpc[started] = "ended"

\* After a late pop the worker cannot reach the next pop.
LateInv ==
    /\ late <= 1
    /\ late = 1 => /\ state # "RUNNING"
                   /\ \A w \in Workers : /\ wpc[w] \notin {"size", "pop"}
                                         /\ wpc[w] = "cond" => state = "PAUSED"

\* How far the destructor is.
ShutdownInv ==
    /\ opc \in {"idle", "restartWait", "restartRun", "restartLaunch"} => ~drained
    /\ opc \in {"closeQueue", "drain"} => drained
    /\ drained /\ opc \in {"drain", "stop", "join", "dead"} => ~accept
    /\ drained /\ quiet /\ opc \in {"drain", "stop", "join", "dead"}
         => \A p \in Producers : ppc[p] = "idle"
    /\ drained /\ quiet /\ opc \in {"stop", "join", "dead"} => queue = <<>>

IInv == /\ TypeOK
        /\ PlaceInv
        /\ WorkerInv
        /\ PopNeverEmpty
        /\ LateInv
        /\ ShutdownInv

\* A message is in one place: the inductive form of MessagesNotDuplicated, which
\* also says that a message about to be pushed is nowhere else.
Distinct(s) == \A i, j \in DOMAIN s : s[i] = s[j] => i = j
DupInv ==
    /\ Distinct(queue) /\ Distinct(handled)
    /\ \A p, q \in Producers : pmsg[p] # None /\ pmsg[p] = pmsg[q] => p = q
    /\ \A p \in Producers : pmsg[p] \notin fresh \cup Items(queue) \cup Items(handled) \cup failed
    /\ \A w \in Workers : hand[w] \notin fresh \cup Items(queue) \cup Items(handled) \cup failed
    /\ \A p \in Producers, w \in Workers : pmsg[p] = hand[w] => hand[w] = None
    /\ fresh \cap (Items(queue) \cup Items(handled) \cup failed) = {}
    /\ Items(queue) \cap (Items(handled) \cup failed) = {}
    /\ Items(handled) \cap failed = {}


\* Only the worker that was started last can be inside the loop.
LEMMA OneAlive ==
  ASSUME IInv, NEW w \in Workers, wpc[w] \notin {"unborn", "ended"}
  PROVE  w = started
BY StartAssumption DEF IInv, TypeOK, WorkerInv, Workers

\* Every step keeps the types; the handler and the push need a message in hand.
LEMMA TypeStep == IInv /\ [Next]_vars => TypeOK'
<1> SUFFICES ASSUME IInv, [Next]_vars
             PROVE  TypeOK'
  OBVIOUS
<1> USE MsgAssumption, StartAssumption, ThrowAssumption DEF IInv, TypeOK, PlaceInv, WorkerInv, PopNeverEmpty,
        States, WorkerPCs, OwnerPCs, Workers, queueVars, workerVars, prodVars, histVars, deathVars
<1>1. ASSUME NEW w \in Workers, CheckStopped(w) PROVE TypeOK'
  BY <1>1 DEF CheckStopped
<1>2. ASSUME NEW w \in Workers, CheckPaused(w) PROVE TypeOK'
  BY <1>2 DEF CheckPaused
<1>3. ASSUME NEW w \in Workers, CheckSize(w) PROVE TypeOK'
  BY <1>3 DEF CheckSize
<1>4. ASSUME NEW w \in Workers, Pop(w) PROVE TypeOK'
  BY <1>4 DEF Pop
<1>5. ASSUME NEW w \in Workers, HandlerReturns(w) PROVE TypeOK'
  BY <1>5 DEF HandlerReturns
<1>6. ASSUME NEW w \in Workers, HandlerThrows(w) PROVE TypeOK'
  BY <1>6 DEF HandlerThrows
<1>7. ASSUME NEW p \in Producers, NEW m \in Msgs, PushAssert(p, m) PROVE TypeOK'
  BY ZenonT(60), <1>7 DEF PushAssert
<1>8. ASSUME NEW p \in Producers, PushTest(p) PROVE TypeOK'
  BY <1>8 DEF PushTest
<1>9. ASSUME NEW p \in Producers, PushToQueue(p) PROVE TypeOK'
  BY <1>9 DEF PushToQueue
<1>10. ASSUME NEW s \in {"RUNNING", "PAUSED"}, SetThreadState(s) PROVE TypeOK'
  BY <1>10 DEF SetState, SetThreadState
<1>11. ASSUME NEW b \in BOOLEAN, SetMessageAcceptance(b) PROVE TypeOK'
  BY <1>11 DEF SetMessageAcceptance
<1>12. CASE StopThread
  BY <1>12 DEF StopThread, SetThreadState, SetState
<1>13. CASE RestartStop
  BY <1>13 DEF SetState, RestartStop
<1>14. CASE RestartWait
  BY <1>14 DEF RestartWait
<1>15. CASE RestartRun
  BY <1>15 DEF SetState, RestartRun
<1>16. CASE RestartLaunch
  <2>1. opc = "restartLaunch" /\ started < MaxStarts
    BY <1>16 DEF RestartLaunch
  <2>2. started + 1 \in 1..MaxStarts
    BY <2>1
  <2>3. wpc' \in [Workers -> WorkerPCs]
    BY <1>16 DEF RestartLaunch
  <2> QED
    BY <1>16, <2>2, <2>3 DEF RestartLaunch
<1>17. CASE DestroyBegin
  BY <1>17 DEF DestroyBegin
<1>18. CASE DestroyClose
  BY <1>18 DEF DestroyClose
<1>19. CASE DestroyDrain
  BY <1>19 DEF DestroyDrain
<1>20. CASE DestroySpin
  BY <1>20 DEF DestroySpin, vars
<1>21. CASE DestroyStop
  BY <1>21 DEF SetState, DestroyStop
<1>22. CASE DestroyJoin
  BY <1>22 DEF DestroyJoin
<1>23. CASE UNCHANGED vars
  BY <1>23 DEF vars
<1> QED
  BY <1>1, <1>2, <1>3, <1>4, <1>5, <1>6, <1>7, <1>8, <1>9, <1>10, <1>11,
     <1>12, <1>13, <1>14, <1>15, <1>16, <1>17, <1>18, <1>19, <1>20, <1>21,
     <1>22, <1>23
     DEF Next, Worker, Producer, Owner, OwnerContinues, Over

\* Every step keeps the message in hand in line with the program counter.
LEMMA PlaceStep == IInv /\ [Next]_vars => PlaceInv'
<1> SUFFICES ASSUME IInv, [Next]_vars
             PROVE  PlaceInv'
  OBVIOUS
<1> USE MsgAssumption DEF IInv, TypeOK, PlaceInv, queueVars, workerVars, prodVars, histVars, deathVars
<1>1. ASSUME NEW w \in Workers, CheckStopped(w) PROVE PlaceInv'
  BY <1>1 DEF CheckStopped
<1>2. ASSUME NEW w \in Workers, CheckPaused(w) PROVE PlaceInv'
  BY <1>2 DEF CheckPaused
<1>3. ASSUME NEW w \in Workers, CheckSize(w) PROVE PlaceInv'
  BY <1>3 DEF CheckSize
<1>4. ASSUME NEW w \in Workers, Pop(w) PROVE PlaceInv'
  BY <1>4 DEF Pop
<1>5. ASSUME NEW w \in Workers, HandlerReturns(w) PROVE PlaceInv'
  BY <1>5 DEF HandlerReturns
<1>6. ASSUME NEW w \in Workers, HandlerThrows(w) PROVE PlaceInv'
  BY <1>6 DEF HandlerThrows
<1>7. ASSUME NEW p \in Producers, NEW m \in Msgs, PushAssert(p, m) PROVE PlaceInv'
  BY <1>7 DEF PushAssert
<1>8. ASSUME NEW p \in Producers, PushTest(p) PROVE PlaceInv'
  BY <1>8 DEF PushTest
<1>9. ASSUME NEW p \in Producers, PushToQueue(p) PROVE PlaceInv'
  BY <1>9 DEF PushToQueue
<1>10. ASSUME NEW s \in {"RUNNING", "PAUSED"}, SetThreadState(s) PROVE PlaceInv'
  BY <1>10 DEF SetState, SetThreadState
<1>11. ASSUME NEW b \in BOOLEAN, SetMessageAcceptance(b) PROVE PlaceInv'
  BY <1>11 DEF SetMessageAcceptance
<1>12. CASE StopThread
  BY <1>12 DEF StopThread, SetThreadState, SetState
<1>13. CASE RestartStop
  BY <1>13 DEF SetState, RestartStop
<1>14. CASE RestartWait
  BY <1>14 DEF RestartWait
<1>15. CASE RestartRun
  BY <1>15 DEF SetState, RestartRun
<1>16. CASE RestartLaunch
  <2>1. started < MaxStarts /\ started \in Workers
    BY <1>16 DEF RestartLaunch, WorkerInv
  <2>2. started + 1 \in Workers /\ wpc[started + 1] = "unborn"
    BY <2>1, StartAssumption DEF WorkerInv, Workers
  <2>3. hand[started + 1] = None
    BY <2>2
  <2> QED
    BY <1>16, <2>2, <2>3 DEF RestartLaunch
<1>17. CASE DestroyBegin
  BY <1>17 DEF DestroyBegin
<1>18. CASE DestroyClose
  BY <1>18 DEF DestroyClose
<1>19. CASE DestroyDrain
  BY <1>19 DEF DestroyDrain
<1>20. CASE DestroySpin
  BY <1>20 DEF DestroySpin, vars
<1>21. CASE DestroyStop
  BY <1>21 DEF SetState, DestroyStop
<1>22. CASE DestroyJoin
  BY <1>22 DEF DestroyJoin
<1>23. CASE UNCHANGED vars
  BY <1>23 DEF vars
<1> QED
  BY <1>1, <1>2, <1>3, <1>4, <1>5, <1>6, <1>7, <1>8, <1>9, <1>10, <1>11,
     <1>12, <1>13, <1>14, <1>15, <1>16, <1>17, <1>18, <1>19, <1>20, <1>21,
     <1>22, <1>23
     DEF Next, Worker, Producer, Owner, OwnerContinues, Over

\* Every step keeps at most one worker alive.
LEMMA WorkerStep == IInv /\ [Next]_vars => WorkerInv'
<1> SUFFICES ASSUME IInv, [Next]_vars
             PROVE  WorkerInv'
  OBVIOUS
<1> USE StartAssumption DEF IInv, TypeOK, WorkerInv, Workers, queueVars, workerVars, prodVars, histVars, deathVars
<1>1. ASSUME NEW w \in Workers, CheckStopped(w) PROVE WorkerInv'
  BY <1>1 DEF CheckStopped
<1>2. ASSUME NEW w \in Workers, CheckPaused(w) PROVE WorkerInv'
  BY <1>2 DEF CheckPaused
<1>3. ASSUME NEW w \in Workers, CheckSize(w) PROVE WorkerInv'
  BY <1>3 DEF CheckSize
<1>4. ASSUME NEW w \in Workers, Pop(w) PROVE WorkerInv'
  BY <1>4 DEF Pop
<1>5. ASSUME NEW w \in Workers, HandlerReturns(w) PROVE WorkerInv'
  BY <1>5 DEF HandlerReturns
<1>6. ASSUME NEW w \in Workers, HandlerThrows(w) PROVE WorkerInv'
  BY <1>6 DEF HandlerThrows
<1>7. ASSUME NEW p \in Producers, NEW m \in Msgs, PushAssert(p, m) PROVE WorkerInv'
  BY <1>7 DEF PushAssert
<1>8. ASSUME NEW p \in Producers, PushTest(p) PROVE WorkerInv'
  BY <1>8 DEF PushTest
<1>9. ASSUME NEW p \in Producers, PushToQueue(p) PROVE WorkerInv'
  BY <1>9 DEF PushToQueue
<1>10. ASSUME NEW s \in {"RUNNING", "PAUSED"}, SetThreadState(s) PROVE WorkerInv'
  BY <1>10 DEF SetState, SetThreadState
<1>11. ASSUME NEW b \in BOOLEAN, SetMessageAcceptance(b) PROVE WorkerInv'
  BY <1>11 DEF SetMessageAcceptance
<1>12. CASE StopThread
  BY <1>12 DEF StopThread, SetThreadState, SetState
<1>13. CASE RestartStop
  BY <1>13 DEF SetState, RestartStop
<1>14. CASE RestartWait
  BY <1>14 DEF RestartWait
<1>15. CASE RestartRun
  BY <1>15 DEF SetState, RestartRun
<1>16. CASE RestartLaunch
  BY <1>16 DEF RestartLaunch
<1>17. CASE DestroyBegin
  BY <1>17 DEF DestroyBegin
<1>18. CASE DestroyClose
  BY <1>18 DEF DestroyClose
<1>19. CASE DestroyDrain
  BY <1>19 DEF DestroyDrain
<1>20. CASE DestroySpin
  BY <1>20 DEF DestroySpin, vars
<1>21. CASE DestroyStop
  BY <1>21 DEF SetState, DestroyStop
<1>22. CASE DestroyJoin
  BY <1>22 DEF DestroyJoin
<1>23. CASE UNCHANGED vars
  BY <1>23 DEF vars
<1> QED
  BY <1>1, <1>2, <1>3, <1>4, <1>5, <1>6, <1>7, <1>8, <1>9, <1>10, <1>11,
     <1>12, <1>13, <1>14, <1>15, <1>16, <1>17, <1>18, <1>19, <1>20, <1>21,
     <1>22, <1>23
     DEF Next, Worker, Producer, Owner, OwnerContinues, Over

\* Nobody else can empty the queue between the worker's test and its pop.
LEMMA PopStep == IInv /\ [Next]_vars => PopNeverEmpty'
<1> SUFFICES ASSUME IInv, [Next]_vars
             PROVE  PopNeverEmpty'
  OBVIOUS
<1> USE DEF IInv, TypeOK, PlaceInv, WorkerInv, PopNeverEmpty, queueVars, workerVars, prodVars, histVars, deathVars
<1>1. ASSUME NEW w \in Workers, CheckStopped(w) PROVE PopNeverEmpty'
  BY <1>1 DEF CheckStopped
<1>2. ASSUME NEW w \in Workers, CheckPaused(w) PROVE PopNeverEmpty'
  BY <1>2 DEF CheckPaused
<1>3. ASSUME NEW w \in Workers, CheckSize(w) PROVE PopNeverEmpty'
  BY <1>3 DEF CheckSize
<1>4. ASSUME NEW w \in Workers, Pop(w) PROVE PopNeverEmpty'
  <2>1. ASSUME NEW v \in Workers, v # w
        PROVE  wpc'[v] # "pop"
    <3>1. wpc[w] = "pop"
      BY <1>4 DEF Pop
    <3>2. wpc[v] \in {"unborn", "ended"}
      BY <2>1, <3>1, OneAlive
    <3> QED
      BY <1>4, <2>1, <3>2 DEF Pop
  <2>2. wpc'[w] = "call"
    BY <1>4 DEF Pop
  <2> QED
    BY <2>1, <2>2
<1>5. ASSUME NEW w \in Workers, HandlerReturns(w) PROVE PopNeverEmpty'
  BY <1>5 DEF HandlerReturns
<1>6. ASSUME NEW w \in Workers, HandlerThrows(w) PROVE PopNeverEmpty'
  BY <1>6 DEF HandlerThrows
<1>7. ASSUME NEW p \in Producers, NEW m \in Msgs, PushAssert(p, m) PROVE PopNeverEmpty'
  BY <1>7 DEF PushAssert
<1>8. ASSUME NEW p \in Producers, PushTest(p) PROVE PopNeverEmpty'
  BY <1>8 DEF PushTest
<1>9. ASSUME NEW p \in Producers, PushToQueue(p) PROVE PopNeverEmpty'
  BY SMTT(30), <1>9 DEF PushToQueue
<1>10. ASSUME NEW s \in {"RUNNING", "PAUSED"}, SetThreadState(s) PROVE PopNeverEmpty'
  BY <1>10 DEF SetState, SetThreadState
<1>11. ASSUME NEW b \in BOOLEAN, SetMessageAcceptance(b) PROVE PopNeverEmpty'
  BY <1>11 DEF SetMessageAcceptance
<1>12. CASE StopThread
  BY <1>12 DEF StopThread, SetThreadState, SetState
<1>13. CASE RestartStop
  BY <1>13 DEF SetState, RestartStop
<1>14. CASE RestartWait
  BY <1>14 DEF RestartWait
<1>15. CASE RestartRun
  BY <1>15 DEF SetState, RestartRun
<1>16. CASE RestartLaunch
  BY <1>16 DEF RestartLaunch
<1>17. CASE DestroyBegin
  BY <1>17 DEF DestroyBegin
<1>18. CASE DestroyClose
  BY <1>18 DEF DestroyClose
<1>19. CASE DestroyDrain
  BY <1>19 DEF DestroyDrain
<1>20. CASE DestroySpin
  BY <1>20 DEF DestroySpin, vars
<1>21. CASE DestroyStop
  BY <1>21 DEF SetState, DestroyStop
<1>22. CASE DestroyJoin
  BY <1>22 DEF DestroyJoin
<1>23. CASE UNCHANGED vars
  BY <1>23 DEF vars
<1> QED
  BY <1>1, <1>2, <1>3, <1>4, <1>5, <1>6, <1>7, <1>8, <1>9, <1>10, <1>11,
     <1>12, <1>13, <1>14, <1>15, <1>16, <1>17, <1>18, <1>19, <1>20, <1>21,
     <1>22, <1>23
     DEF Next, Worker, Producer, Owner, OwnerContinues, Over

\* A late pop leads the worker back to the tests of the state.
LEMMA LateStep == IInv /\ [Next]_vars => LateInv'
<1> SUFFICES ASSUME IInv, [Next]_vars
             PROVE  LateInv'
  OBVIOUS
<1> USE DEF IInv, TypeOK, PlaceInv, WorkerInv, LateInv, PopNeverEmpty, queueVars, workerVars, prodVars, histVars, deathVars
<1>1. ASSUME NEW w \in Workers, CheckStopped(w) PROVE LateInv'
  <2>1. late' = late /\ state' = state /\ late \in Nat /\ late <= 1
    BY <1>1 DEF CheckStopped
  <2>2. ASSUME late = 1, NEW v \in Workers
        PROVE  wpc'[v] \notin {"size", "pop"} /\ (wpc'[v] = "cond" => state = "PAUSED")
    <3>1. CASE v = w
      BY <1>1, <2>2, <3>1 DEF CheckStopped, States
    <3>2. CASE v # w
      BY <1>1, <2>2, <3>2 DEF CheckStopped
    <3> QED
      BY <3>1, <3>2
  <2> QED
    BY <2>1, <2>2
<1>2. ASSUME NEW w \in Workers, CheckPaused(w) PROVE LateInv'
  BY <1>2 DEF CheckPaused
<1>3. ASSUME NEW w \in Workers, CheckSize(w) PROVE LateInv'
  BY <1>3 DEF CheckSize
<1>4. ASSUME NEW w \in Workers, Pop(w) PROVE LateInv'
  <2>1. wpc[w] = "pop" /\ late = 0
    BY <1>4 DEF Pop
  <2>2. late' \in {0, 1} /\ state' = state /\ (late' = 1 => state # "RUNNING")
    BY <1>4, <2>1 DEF Pop
  <2>3. ASSUME NEW v \in Workers
        PROVE  wpc'[v] \notin {"size", "pop", "cond"}
    <3>1. CASE v = w
      BY <1>4, <3>1 DEF Pop
    <3>2. CASE v # w
      <4>1. wpc[v] \in {"unborn", "ended"}
        BY <2>1, <3>2, OneAlive
      <4> QED
        BY <1>4, <3>2, <4>1 DEF Pop
    <3> QED
      BY <3>1, <3>2
  <2> QED
    BY <2>2, <2>3
<1>5. ASSUME NEW w \in Workers, HandlerReturns(w) PROVE LateInv'
  BY <1>5 DEF HandlerReturns
<1>6. ASSUME NEW w \in Workers, HandlerThrows(w) PROVE LateInv'
  BY <1>6 DEF HandlerThrows
<1>7. ASSUME NEW p \in Producers, NEW m \in Msgs, PushAssert(p, m) PROVE LateInv'
  BY <1>7 DEF PushAssert
<1>8. ASSUME NEW p \in Producers, PushTest(p) PROVE LateInv'
  BY <1>8 DEF PushTest
<1>9. ASSUME NEW p \in Producers, PushToQueue(p) PROVE LateInv'
  BY <1>9 DEF PushToQueue
<1>10. ASSUME NEW s \in {"RUNNING", "PAUSED"}, SetThreadState(s) PROVE LateInv'
  BY <1>10 DEF SetState, SetThreadState
<1>11. ASSUME NEW b \in BOOLEAN, SetMessageAcceptance(b) PROVE LateInv'
  BY <1>11 DEF SetMessageAcceptance
<1>12. CASE StopThread
  BY <1>12 DEF StopThread, SetThreadState, SetState
<1>13. CASE RestartStop
  BY <1>13 DEF SetState, RestartStop
<1>14. CASE RestartWait
  BY <1>14 DEF RestartWait
<1>15. CASE RestartRun
  BY <1>15 DEF SetState, RestartRun
<1>16. CASE RestartLaunch
  BY <1>16 DEF RestartLaunch
<1>17. CASE DestroyBegin
  BY <1>17 DEF DestroyBegin
<1>18. CASE DestroyClose
  BY <1>18 DEF DestroyClose
<1>19. CASE DestroyDrain
  BY <1>19 DEF DestroyDrain
<1>20. CASE DestroySpin
  BY <1>20 DEF DestroySpin, vars
<1>21. CASE DestroyStop
  BY <1>21 DEF SetState, DestroyStop
<1>22. CASE DestroyJoin
  BY <1>22 DEF DestroyJoin
<1>23. CASE UNCHANGED vars
  BY <1>23 DEF vars
<1> QED
  BY <1>1, <1>2, <1>3, <1>4, <1>5, <1>6, <1>7, <1>8, <1>9, <1>10, <1>11,
     <1>12, <1>13, <1>14, <1>15, <1>16, <1>17, <1>18, <1>19, <1>20, <1>21,
     <1>22, <1>23
     DEF Next, Worker, Producer, Owner, OwnerContinues, Over

\* Every step keeps the destructor's bookkeeping.
LEMMA ShutdownStep == IInv /\ [Next]_vars => ShutdownInv'
<1> SUFFICES ASSUME IInv, [Next]_vars
             PROVE  ShutdownInv'
  OBVIOUS
<1> USE DEF IInv, TypeOK, PlaceInv, WorkerInv, PopNeverEmpty, ShutdownInv, queueVars, workerVars, prodVars, histVars, deathVars
<1>1. ASSUME NEW w \in Workers, CheckStopped(w) PROVE ShutdownInv'
  BY <1>1 DEF CheckStopped
<1>2. ASSUME NEW w \in Workers, CheckPaused(w) PROVE ShutdownInv'
  BY <1>2 DEF CheckPaused
<1>3. ASSUME NEW w \in Workers, CheckSize(w) PROVE ShutdownInv'
  BY <1>3 DEF CheckSize
<1>4. ASSUME NEW w \in Workers, Pop(w) PROVE ShutdownInv'
  BY <1>4 DEF Pop
<1>5. ASSUME NEW w \in Workers, HandlerReturns(w) PROVE ShutdownInv'
  BY <1>5 DEF HandlerReturns
<1>6. ASSUME NEW w \in Workers, HandlerThrows(w) PROVE ShutdownInv'
  BY <1>6 DEF HandlerThrows
<1>7. ASSUME NEW p \in Producers, NEW m \in Msgs, PushAssert(p, m) PROVE ShutdownInv'
  BY <1>7 DEF PushAssert
<1>8. ASSUME NEW p \in Producers, PushTest(p) PROVE ShutdownInv'
  BY <1>8 DEF PushTest
<1>9. ASSUME NEW p \in Producers, PushToQueue(p) PROVE ShutdownInv'
  BY <1>9 DEF PushToQueue
<1>10. ASSUME NEW s \in {"RUNNING", "PAUSED"}, SetThreadState(s) PROVE ShutdownInv'
  BY <1>10 DEF SetState, SetThreadState
<1>11. ASSUME NEW b \in BOOLEAN, SetMessageAcceptance(b) PROVE ShutdownInv'
  BY <1>11 DEF SetMessageAcceptance
<1>12. CASE StopThread
  BY <1>12 DEF StopThread, SetThreadState, SetState
<1>13. CASE RestartStop
  BY <1>13 DEF SetState, RestartStop
<1>14. CASE RestartWait
  BY <1>14 DEF RestartWait
<1>15. CASE RestartRun
  BY <1>15 DEF SetState, RestartRun
<1>16. CASE RestartLaunch
  BY <1>16 DEF RestartLaunch
<1>17. CASE DestroyBegin
  BY <1>17 DEF DestroyBegin
<1>18. CASE DestroyClose
  BY <1>18 DEF DestroyClose
<1>19. CASE DestroyDrain
  BY <1>19 DEF DestroyDrain
<1>20. CASE DestroySpin
  BY <1>20 DEF DestroySpin, vars
<1>21. CASE DestroyStop
  BY <1>21 DEF SetState, DestroyStop
<1>22. CASE DestroyJoin
  BY <1>22 DEF DestroyJoin
<1>23. CASE UNCHANGED vars
  BY <1>23 DEF vars
<1> QED
  BY <1>1, <1>2, <1>3, <1>4, <1>5, <1>6, <1>7, <1>8, <1>9, <1>10, <1>11,
     <1>12, <1>13, <1>14, <1>15, <1>16, <1>17, <1>18, <1>19, <1>20, <1>21,
     <1>22, <1>23
     DEF Next, Worker, Producer, Owner, OwnerContinues, Over

\* The invariant holds initially.
LEMMA IInvInit == Init => IInv
<1> SUFFICES ASSUME Init
             PROVE  IInv
  OBVIOUS
<1>1. TypeOK
  <2>1. started \in Workers
    BY StartAssumption DEF Init, Workers
  <2>2. wpc \in [Workers -> WorkerPCs] /\ hand \in [Workers -> Msgs \cup {None}]
    BY DEF Init, WorkerPCs
  <2>3. queue \in Seq(Msgs) /\ handled \in Seq(Msgs) /\ late \in Nat
    BY DEF Init
  <2> QED
    BY <2>1, <2>2, <2>3 DEF Init, TypeOK, States, OwnerPCs
<1>2. PlaceInv
  BY MsgAssumption DEF Init, PlaceInv
<1>3. WorkerInv /\ PopNeverEmpty
  <2>1. 1 \in Workers /\ \A w \in Workers : w \in Nat /\ w >= 1
    BY StartAssumption DEF Workers
  <2>2. \A w \in Workers : wpc[w] \in {"loop", "unborn"} /\ (w = 1 => wpc[w] = "loop")
                                                        /\ (w # 1 => wpc[w] = "unborn")
    BY DEF Init
  <2>3. started = 1 /\ opc = "idle"
    BY DEF Init
  <2> QED
    BY <2>1, <2>2, <2>3 DEF WorkerInv, PopNeverEmpty
<1>4. LateInv /\ ShutdownInv
  BY DEF Init, LateInv, ShutdownInv
<1> QED
  BY <1>1, <1>2, <1>3, <1>4 DEF IInv

\* IInv is an inductive invariant of the queue thread.
THEOREM Invariance == Spec => []IInv
<1>1. IInv /\ [Next]_vars => IInv'
  BY TypeStep, PlaceStep, WorkerStep, PopStep, LateStep, ShutdownStep DEF IInv
<1> QED
  BY IInvInit, <1>1, PTL DEF Spec

\* Every variable keeps its type, messages are only ever taken from Msgs.
THEOREM TypeCorrect == Spec => []TypeOK
<1>1. IInv => TypeOK
  BY DEF IInv
<1> QED
  BY <1>1, Invariance, PTL

\* The message handlers of a queue thread never overlap, whatever the owner
\* does with the thread and however often it is restarted.
THEOREM Serialized == Spec => []HandlersSerialized
<1>1. IInv => HandlersSerialized
  BY OneAlive DEF HandlersSerialized
<1> QED
  BY <1>1, Invariance, PTL

\* The worker never takes a message from an empty list, although it tests the
\* size without the lock.
THEOREM PopSafe == Spec => []PopNeverEmpty
<1>1. IInv => PopNeverEmpty
  BY DEF IInv
<1> QED
  BY <1>1, Invariance, PTL

\* A thread that was paused or stopped takes at most one more message.
THEOREM LatePopBound == Spec => []AtMostOneLatePop
<1>1. IInv => AtMostOneLatePop
  BY DEF IInv, LateInv, AtMostOneLatePop
<1> QED
  BY <1>1, Invariance, PTL

\* A destructor that closes the queue while no push is under way returns only
\* when every message was handled.
THEOREM QuietShutdown == Spec => []QuietShutdownDrains
<1>1. IInv => QuietShutdownDrains
  <2> SUFFICES ASSUME IInv, opc = "dead", drained, quiet
               PROVE  queue = <<>> /\ Held = {}
    BY DEF QuietShutdownDrains
  <2>1. queue = <<>>
    BY DEF IInv, ShutdownInv
  <2>2. ASSUME NEW w \in Workers
        PROVE  hand[w] = None
    <3>1. wpc[started] = "ended"
      BY DEF IInv, WorkerInv
    <3>2. wpc[w] # "call"
      BY <3>1, OneAlive
    <3> QED
      BY <3>2 DEF IInv, PlaceInv
  <2> QED
    BY <2>1, <2>2 DEF Held
<1> QED
  BY <1>1, Invariance, PTL

\* Appending puts one more item in the queue and keeps distinct items distinct.
LEMMA AppendItems ==
  ASSUME NEW S, NEW s \in Seq(S), NEW x \in S
  PROVE  /\ Items(Append(s, x)) = Items(s) \cup {x}
         /\ Distinct(s) /\ x \notin Items(s) => Distinct(Append(s, x))
<1>1. /\ Append(s, x) \in Seq(S)
      /\ Len(Append(s, x)) = Len(s) + 1
      /\ \A i \in 1..Len(s) : Append(s, x)[i] = s[i]
      /\ Append(s, x)[Len(s) + 1] = x
  OBVIOUS
<1>2. DOMAIN s = 1..Len(s) /\ DOMAIN Append(s, x) = 1..(Len(s) + 1) /\ Len(s) \in Nat
  BY <1>1
<1>3. \A i \in 1..(Len(s) + 1) : i \in 1..Len(s) \/ i = Len(s) + 1
  BY <1>2
<1>4. 1..Len(s) \subseteq 1..(Len(s) + 1) /\ Len(s) + 1 \in 1..(Len(s) + 1)
  BY <1>2
<1>5. Items(Append(s, x)) = Items(s) \cup {x}
  BY <1>1, <1>2, <1>3, <1>4 DEF Items
<1>6. ASSUME Distinct(s), x \notin Items(s)
      PROVE  Distinct(Append(s, x))
  BY <1>1, <1>2, <1>3, <1>4, <1>6 DEF Items, Distinct
<1> QED
  BY <1>5, <1>6

\* The same for a message put before the waiting ones.
LEMMA PrependItems ==
  ASSUME NEW S, NEW s \in Seq(S), NEW x \in S
  PROVE  /\ <<x>> \o s \in Seq(S)
         /\ Items(<<x>> \o s) = Items(s) \cup {x}
         /\ Distinct(s) /\ x \notin Items(s) => Distinct(<<x>> \o s)
<1> DEFINE t == <<x>> \o s
<1>1. /\ t \in Seq(S)
      /\ Len(t) = Len(s) + 1
      /\ t[1] = x
      /\ \A i \in 1..Len(s) : t[i + 1] = s[i]
  OBVIOUS
<1>2. DOMAIN s = 1..Len(s) /\ DOMAIN t = 1..(Len(s) + 1) /\ Len(s) \in Nat
  BY <1>1
<1> HIDE DEF t
<1>3. \A i \in 1..(Len(s) + 1) : i = 1 \/ (i - 1 \in 1..Len(s) /\ t[i] = s[i - 1])
  BY <1>1, <1>2
<1>4. \A i \in 1..Len(s) : i + 1 \in 1..(Len(s) + 1)
  BY <1>2
<1>5. Items(t) = Items(s) \cup {x}
  <2>1. Items(t) \subseteq Items(s) \cup {x}
    BY SMTT(30), <1>1, <1>2, <1>3 DEF Items
  <2>2. Items(s) \subseteq Items(t)
    BY <1>1, <1>2, <1>4 DEF Items
  <2>3. x \in Items(t)
    BY <1>1, <1>2 DEF Items
  <2> QED
    BY <2>1, <2>2, <2>3
<1>6. ASSUME Distinct(s), x \notin Items(s)
      PROVE  Distinct(t)
  <2> SUFFICES ASSUME NEW i \in 1..(Len(s) + 1), NEW j \in 1..(Len(s) + 1), t[i] = t[j]
               PROVE  i = j
    BY <1>2 DEF Distinct
  <2>1. CASE i = 1 /\ j = 1
    BY <2>1
  <2>2. CASE i # 1 /\ j # 1
    BY <2>2, <1>2, <1>3, <1>6 DEF Distinct
  <2>3. CASE i = 1 /\ j # 1
    BY <2>3, <1>1, <1>2, <1>3, <1>6 DEF Items
  <2>4. CASE i # 1 /\ j = 1
    BY <2>4, <1>1, <1>2, <1>3, <1>6 DEF Items
  <2> QED
    BY <2>1, <2>2, <2>3, <2>4
<1> QED
  BY <1>1, <1>5, <1>6 DEF t

\* Taking the head leaves the other items, and the head is not among them.
LEMMA TailItems ==
  ASSUME NEW S, NEW s \in Seq(S), s # <<>>
  PROVE  /\ Head(s) \in S /\ Head(s) \in Items(s)
         /\ Items(Tail(s)) \subseteq Items(s)
         /\ Distinct(s) => Distinct(Tail(s)) /\ Head(s) \notin Items(Tail(s))
<1>1. /\ Tail(s) \in Seq(S)
      /\ Len(s) \in Nat /\ Len(s) >= 1
      /\ Len(Tail(s)) = Len(s) - 1
      /\ \A i \in 1..(Len(s) - 1) : Tail(s)[i] = s[i + 1]
      /\ Head(s) = s[1]
  OBVIOUS
<1>2. DOMAIN s = 1..Len(s) /\ DOMAIN Tail(s) = 1..(Len(s) - 1)
  BY <1>1
<1>3. \A i \in 1..(Len(s) - 1) : i + 1 \in 1..Len(s) /\ i + 1 # 1
  BY <1>1
<1>4. 1 \in 1..Len(s) /\ s[1] \in S
  BY <1>1
<1>5. Head(s) \in S /\ Head(s) \in Items(s)
  BY <1>1, <1>2, <1>4 DEF Items
<1>6. Items(Tail(s)) \subseteq Items(s)
  BY <1>1, <1>2, <1>3 DEF Items
<1>7. ASSUME Distinct(s)
      PROVE  Distinct(Tail(s)) /\ Head(s) \notin Items(Tail(s))
  <2>1. Distinct(Tail(s))
    <3> SUFFICES ASSUME NEW i \in 1..(Len(s) - 1), NEW j \in 1..(Len(s) - 1),
                        Tail(s)[i] = Tail(s)[j]
                 PROVE  i = j
      BY <1>2 DEF Distinct
    <3>1. s[i + 1] = s[j + 1]
      BY <1>1
    <3>2. i + 1 = j + 1
      BY <3>1, <1>2, <1>3, <1>7 DEF Distinct
    <3> QED
      BY <3>2
  <2>2. Head(s) \notin Items(Tail(s))
    BY <1>1, <1>2, <1>3, <1>4, <1>7 DEF Distinct, Items
  <2> QED
    BY <2>1, <2>2
<1> QED
  BY <1>5, <1>6, <1>7

\* The items of a sequence over S are in S.
LEMMA ItemsOfSeq ==
  ASSUME NEW S, NEW s \in Seq(S)
  PROVE  Items(s) \subseteq S
BY DEF Items

\* Every step moves a message from one place to the next.
LEMMA DupStep == IInv /\ DupInv /\ [Next]_vars => DupInv'
<1> SUFFICES ASSUME IInv, DupInv, [Next]_vars
             PROVE  DupInv'
  OBVIOUS
<1> USE MsgAssumption DEF IInv, DupInv, queueVars, workerVars, prodVars, histVars, deathVars
<1>1. ASSUME NEW w \in Workers, CheckStopped(w) PROVE DupInv'
  BY <1>1 DEF CheckStopped
<1>2. ASSUME NEW w \in Workers, CheckPaused(w) PROVE DupInv'
  BY <1>2 DEF CheckPaused
<1>3. ASSUME NEW w \in Workers, CheckSize(w) PROVE DupInv'
  BY <1>3 DEF CheckSize
<1>4. ASSUME NEW w \in Workers, Pop(w) PROVE DupInv'
  <2>1. /\ queue \in Seq(Msgs) /\ queue # <<>> /\ hand[w] = None
        /\ hand' = [hand EXCEPT ![w] = Head(queue)] /\ queue' = Tail(queue)
        /\ UNCHANGED <<pmsg, fresh, handled, failed>>
        /\ hand \in [Workers -> Msgs \cup {None}]
    BY <1>4 DEF Pop, PlaceInv, TypeOK
  <2>2. /\ Head(queue) \in Items(queue) /\ Head(queue) \in Msgs
        /\ Items(queue') \subseteq Items(queue)
        /\ Distinct(queue') /\ Head(queue) \notin Items(queue')
    BY <2>1, TailItems
  <2>3. \A v \in Workers : hand'[v] = IF v = w THEN Head(queue) ELSE hand[v]
    BY <2>1
  <2> QED
    BY <2>1, <2>2, <2>3
<1>5. ASSUME NEW w \in Workers, HandlerReturns(w) PROVE DupInv'
  <2>1. /\ handled \in Seq(Msgs) /\ hand[w] \in Msgs
        /\ hand' = [hand EXCEPT ![w] = None] /\ handled' = Append(handled, hand[w])
        /\ UNCHANGED <<queue, pmsg, fresh, failed>>
        /\ hand \in [Workers -> Msgs \cup {None}]
        /\ queue \in Seq(Msgs) /\ fresh \subseteq Msgs /\ failed \subseteq Msgs
    BY <1>5 DEF HandlerReturns, PlaceInv, TypeOK
  <2>2. Items(handled') = Items(handled) \cup {hand[w]} /\ Distinct(handled')
    BY <2>1, AppendItems
  <2>3. \A v \in Workers : hand'[v] = IF v = w THEN None ELSE hand[v]
    BY <2>1
  <2>4. \A v \in Workers : v # w => hand[v] = None
    BY <1>5, OneAlive DEF HandlerReturns, PlaceInv, WorkerInv
  <2>5. None \notin fresh \cup Items(queue) \cup Items(handled) \cup failed
    BY <2>1, ItemsOfSeq
  <2> QED
    BY <2>1, <2>2, <2>3, <2>4, <2>5
<1>6. ASSUME NEW w \in Workers, HandlerThrows(w) PROVE DupInv'
  <2>1. /\ hand[w] \in Msgs
        /\ hand' = [hand EXCEPT ![w] = None] /\ failed' = failed \cup {hand[w]}
        /\ UNCHANGED <<queue, pmsg, fresh, handled>>
        /\ hand \in [Workers -> Msgs \cup {None}]
        /\ queue \in Seq(Msgs) /\ fresh \subseteq Msgs /\ failed \subseteq Msgs
        /\ handled \in Seq(Msgs)
    BY <1>6 DEF HandlerThrows, PlaceInv, TypeOK
  <2>2. \A v \in Workers : hand'[v] = IF v = w THEN None ELSE hand[v]
    BY <2>1
  <2>3. \A v \in Workers : v # w => hand[v] = None
    BY <1>6, OneAlive DEF HandlerThrows, PlaceInv, WorkerInv
  <2>4. None \notin fresh \cup Items(queue) \cup Items(handled) \cup failed
    BY <2>1, ItemsOfSeq
  <2> QED
    BY <2>1, <2>2, <2>3, <2>4
<1>7. ASSUME NEW p \in Producers, NEW m \in Msgs, PushAssert(p, m) PROVE DupInv'
  <2>1. /\ pmsg \in [Producers -> Msgs \cup {None}] /\ pmsg[p] = None
        /\ fresh' = fresh \ {m} /\ m \in fresh
        /\ pmsg' = pmsg \/ pmsg' = [pmsg EXCEPT ![p] = m]
        /\ UNCHANGED <<queue, hand, handled, failed>>
    BY <1>7 DEF PushAssert, PlaceInv, TypeOK
  <2>2. \/ pmsg' = pmsg
        \/ \A q \in Producers : pmsg'[q] = IF q = p THEN m ELSE pmsg[q]
    BY <2>1
  <2> QED
    BY <2>1, <2>2
<1>8. ASSUME NEW p \in Producers, PushTest(p) PROVE DupInv'
  <2>1. /\ pmsg \in [Producers -> Msgs \cup {None}]
        /\ pmsg' = pmsg \/ pmsg' = [pmsg EXCEPT ![p] = None]
        /\ UNCHANGED <<queue, hand, handled, failed, fresh>>
        /\ queue \in Seq(Msgs) /\ handled \in Seq(Msgs) /\ fresh \subseteq Msgs /\ failed \subseteq Msgs
    BY <1>8 DEF PushTest, TypeOK
  <2>2. \A q \in Producers : pmsg'[q] = pmsg[q] \/ pmsg'[q] = None
    BY <2>1
  <2>3. None \notin fresh \cup Items(queue) \cup Items(handled) \cup failed
    BY <2>1, ItemsOfSeq
  <2> QED
    BY <2>1, <2>2, <2>3
<1>9. ASSUME NEW p \in Producers, PushToQueue(p) PROVE DupInv'
  <2>1. /\ pmsg \in [Producers -> Msgs \cup {None}] /\ pmsg[p] \in Msgs
        /\ pmsg' = [pmsg EXCEPT ![p] = None]
        /\ queue' = <<pmsg[p]>> \o queue \/ queue' = Append(queue, pmsg[p])
        /\ UNCHANGED <<hand, handled, failed, fresh>>
        /\ queue \in Seq(Msgs) /\ handled \in Seq(Msgs) /\ fresh \subseteq Msgs /\ failed \subseteq Msgs
    BY <1>9 DEF PushToQueue, PlaceInv, TypeOK
  <2>2. Items(queue') = Items(queue) \cup {pmsg[p]} /\ Distinct(queue')
    <3>1. Distinct(queue) /\ pmsg[p] \notin Items(queue)
      OBVIOUS
    <3>2. CASE queue' = <<pmsg[p]>> \o queue
      BY <2>1, <3>1, <3>2, PrependItems
    <3>3. CASE queue' = Append(queue, pmsg[p])
      BY <2>1, <3>1, <3>3, AppendItems
    <3> QED
      BY <2>1, <3>2, <3>3
  <2>3. \A q \in Producers : pmsg'[q] = IF q = p THEN None ELSE pmsg[q]
    BY <2>1
  <2>4. None \notin fresh \cup Items(queue) \cup Items(handled) \cup failed
    BY <2>1, ItemsOfSeq
  <2>5. \A w \in Workers : hand[w] # pmsg[p]
    BY <2>1
  <2> QED
    BY <2>1, <2>2, <2>3, <2>4, <2>5
<1>10. ASSUME NEW s \in {"RUNNING", "PAUSED"}, SetThreadState(s) PROVE DupInv'
  BY <1>10 DEF SetState, SetThreadState
<1>11. ASSUME NEW b \in BOOLEAN, SetMessageAcceptance(b) PROVE DupInv'
  BY <1>11 DEF SetMessageAcceptance
<1>12. CASE StopThread
  BY <1>12 DEF StopThread, SetThreadState, SetState
<1>13. CASE RestartStop
  BY <1>13 DEF SetState, RestartStop
<1>14. CASE RestartWait
  BY <1>14 DEF RestartWait
<1>15. CASE RestartRun
  BY <1>15 DEF SetState, RestartRun
<1>16. CASE RestartLaunch
  BY <1>16 DEF RestartLaunch
<1>17. CASE DestroyBegin
  BY <1>17 DEF DestroyBegin
<1>18. CASE DestroyClose
  BY <1>18 DEF DestroyClose
<1>19. CASE DestroyDrain
  BY <1>19 DEF DestroyDrain
<1>20. CASE DestroySpin
  BY <1>20 DEF DestroySpin, vars
<1>21. CASE DestroyStop
  BY <1>21 DEF SetState, DestroyStop
<1>22. CASE DestroyJoin
  BY <1>22 DEF DestroyJoin
<1>23. CASE UNCHANGED vars
  BY <1>23 DEF vars
<1> QED
  BY <1>1, <1>2, <1>3, <1>4, <1>5, <1>6, <1>7, <1>8, <1>9, <1>10, <1>11,
     <1>12, <1>13, <1>14, <1>15, <1>16, <1>17, <1>18, <1>19, <1>20, <1>21,
     <1>22, <1>23
     DEF Next, Worker, Producer, Owner, OwnerContinues, Over

\* A message is never in two places: pushed once, it is handled at most once.
THEOREM NotDuplicated == Spec => []MessagesNotDuplicated
<1>1. Init => DupInv
  BY MsgAssumption DEF Init, DupInv, Distinct, Items
<1>2. IInv /\ DupInv => MessagesNotDuplicated
  BY DEF MessagesNotDuplicated, DupInv, Distinct, Held
<1> QED
  BY <1>1, <1>2, DupStep, Invariance, PTL DEF Spec

InHandInv == InHand = hand[started]

\* What the workers have in hand is what the one that is alive has in hand.
LEMMA InHandIs == IInv => InHandInv
<1> SUFFICES ASSUME IInv
             PROVE  InHand = hand[started]
  BY DEF InHandInv
<1>1. started \in Workers
  BY DEF IInv, TypeOK
<1>2. \A w \in Workers : w # started => hand[w] = None
  BY OneAlive DEF IInv, PlaceInv
<1>3. CASE hand[started] = None
  <2>1. Held = {}
    BY <1>1, <1>2, <1>3 DEF Held
  <2> QED
    BY <2>1, <1>3 DEF InHand
<1>4. CASE hand[started] # None
  <2>1. Held = {hand[started]}
    BY <1>1, <1>2, <1>4 DEF Held
  <2> QED
    BY <2>1 DEF InHand
<1> QED
  BY <1>3, <1>4

\* Only four actions touch what the mailbox sees.
LEMMA OtherSteps ==
  ASSUME [Next]_vars,
         \A w \in Workers : ~Pop(w) /\ ~HandlerReturns(w) /\ ~HandlerThrows(w),
         \A p \in Producers : ~PushToQueue(p)
  PROVE  UNCHANGED <<queue, hand, handled, failed>>
<1> USE DEF queueVars, workerVars, prodVars, histVars, deathVars
<1>1. ASSUME NEW w \in Workers, Worker(w)
      PROVE  UNCHANGED <<queue, hand, handled, failed>>
  BY <1>1 DEF Worker, CheckStopped, CheckPaused, CheckSize
<1>2. ASSUME NEW p \in Producers, Producer(p)
      PROVE  UNCHANGED <<queue, hand, handled, failed>>
  BY <1>2 DEF Producer, PushAssert, PushTest
<1>3. ASSUME Owner
      PROVE  UNCHANGED <<queue, hand, handled, failed>>
  BY <1>3 DEF Owner, OwnerContinues, SetThreadState, StopThread, SetState,
              SetMessageAcceptance, RestartStop, RestartWait, RestartRun,
              RestartLaunch, DestroyBegin, DestroyClose, DestroyDrain,
              DestroySpin, DestroyStop, DestroyJoin, vars
<1> QED
  BY <1>1, <1>2, <1>3 DEF Next, Over, vars

\* Every step of the threads is a step of the mailbox or leaves it alone.
LEMMA MailboxStep ==
  IInv /\ IInv' /\ DupInv /\ InHandInv' /\ [Next]_vars => [Box!Next]_(Box!boxVars)
<1> SUFFICES ASSUME IInv, IInv', DupInv, InHandInv', [Next]_vars
             PROVE  [Box!Next]_(Box!boxVars)
  OBVIOUS
<1>0. /\ started \in Workers /\ InHand = hand[started]
      /\ hand \in [Workers -> Msgs \cup {None}]
      /\ hand' \in [Workers -> Msgs \cup {None}]
  BY InHandIs DEF InHandInv, IInv, TypeOK
<1>1. InHand' = hand'[started']
  BY DEF InHandInv
<1>2. ASSUME NEW w \in Workers, Pop(w)
      PROVE  Box!Next
  <2>1. wpc[w] = "pop" /\ w = started
    BY <1>2, OneAlive DEF Pop
  <2>2. hand[w] = None
    BY <2>1 DEF IInv, PlaceInv
  <2>3. queue # <<>> /\ hand'[w] = Head(queue) /\ queue' = Tail(queue)
                     /\ UNCHANGED <<started, handled, failed>>
    BY <1>0, <1>2 DEF Pop
  <2>4. Box!Take
    BY <1>0, <1>1, <2>1, <2>2, <2>3 DEF Box!Take
  <2> QED
    BY <2>4 DEF Box!Next
<1>3. ASSUME NEW w \in Workers, HandlerReturns(w) \/ HandlerThrows(w)
      PROVE  Box!Next
  <2>1. wpc[w] = "call" /\ w = started
    BY <1>3, OneAlive DEF HandlerReturns, HandlerThrows
  <2>2. hand[w] # None
    BY <2>1 DEF IInv, PlaceInv
  <2>3. /\ hand'[w] = None /\ UNCHANGED <<started, queue>>
        /\ \/ handled' = Append(handled, hand[w]) /\ UNCHANGED failed
           \/ failed' = failed \cup {hand[w]} /\ UNCHANGED handled
    BY <1>0, <1>3 DEF HandlerReturns, HandlerThrows, queueVars, histVars
  <2>4. Box!Finish
    BY <1>0, <1>1, <2>1, <2>2, <2>3 DEF Box!Finish
  <2> QED
    BY <2>4 DEF Box!Next
<1>4. ASSUME NEW p \in Producers, PushToQueue(p)
      PROVE  Box!Next
  <2> DEFINE m == pmsg[p]
  <2>1. /\ queue' = IF m \in Urgent THEN <<m>> \o queue ELSE Append(queue, m)
        /\ UNCHANGED <<hand, started, handled, failed>>
        /\ ppc[p] = "push"
    BY <1>4 DEF PushToQueue, workerVars, histVars
  <2>2. m \in Msgs /\ m # None
    BY <2>1, MsgAssumption DEF IInv, PlaceInv, TypeOK
  <2>3. m \notin Items(queue) \cup Items(handled) \cup failed \cup {hand[started]}
    BY <1>0, <2>2 DEF DupInv
  <2>4. Box!Deliver(m)
    BY <1>0, <1>1, <2>1, <2>3 DEF Box!Deliver, Box!Seen, Box!Items, Items
  <2> QED
    BY <2>2, <2>4 DEF Box!Next
<1>5. CASE /\ \A w \in Workers : ~Pop(w) /\ ~HandlerReturns(w) /\ ~HandlerThrows(w)
           /\ \A p \in Producers : ~PushToQueue(p)
  <2>1. UNCHANGED <<queue, hand, handled, failed>>
    BY <1>5, OtherSteps
  <2>2. UNCHANGED InHand
    BY <2>1 DEF InHand, Held
  <2> QED
    BY <2>1, <2>2 DEF Box!boxVars
<1> QED
  BY <1>2, <1>3, <1>4, <1>5

\* The queue thread implements the mailbox: whatever pauses, restarts and
\* destruction do, messages are taken one at a time and in order.
THEOREM ImplementsMailbox == Spec => IsMailbox
<1>1. Init => Box!Init
  BY DEF Init, Box!Init, InHand, Held
<1>2. Init => DupInv
  BY MsgAssumption DEF Init, DupInv, Distinct, Items
<1> QED
  BY <1>1, <1>2, DupStep, InHandIs, MailboxStep, Invariance, PTL DEF Spec, IsMailbox, Box!Spec

==============================================================================
