--------------------------- MODULE TLSModule_proofs ---------------------------
(***************************************************************************)
(* Proofs about TLSModule, for any number of attempts, records and         *)
(* restarts and whatever the two atomics are initialised with: what the    *)
(* peer sends is read and what the thread of the module writes is sent,    *)
(* whole and in order, no wake-up for it is lost, one result of a          *)
(* handshake is under way at a time, and handshakes are counted right.     *)
(***************************************************************************)
EXTENDS TLSModule, Lemmas, TLAPS

PCs == {"begin", "loop", "handshake", "announce", "report", "store", "transfer",
        "announce last", "done"}

\* the types of what the proofs are about
Types ==
    /\ handshake \in HandshakeStates
    /\ mail \in Seq(Messages)
    /\ written \in Nat
    /\ writeBuffer \in Seq(Nat)
    /\ sent \in Seq(Nat)
    /\ pc \in PCs /\ success \in BOOLEAN
    /\ ordered \in Nat /\ begun \in Nat
    /\ peerSent \in 0..MaxRecords

\* While a handshake runs, up to its result, no result is waiting; an order that
\* is open is one more than have begun.
Running ==
    /\ pc \in {"handshake", "announce", "report"} => handshake = "RUNNING"
    /\ handshake = "PERFORM" => begun < ordered

IInv == Types /\ WrittenInOrder /\ WrittenIsAnnounced /\ OneResult /\ Running
-------------------------------------------------------------------------------
(* Sequences. *)

\* What a sequence of messages holds after one is taken off ...
LEMMA TailOfMail ==
  ASSUME NEW S, NEW s \in Seq(S), s # <<>>
  PROVE  /\ Tail(s) \in Seq(S)
         /\ \A i \in DOMAIN Tail(s) : i + 1 \in DOMAIN s /\ Tail(s)[i] = s[i + 1]
         /\ \A i \in DOMAIN s : i # 1 => i - 1 \in DOMAIN Tail(s) /\ Tail(s)[i - 1] = s[i]
         /\ 1 \in DOMAIN s /\ s[1] = Head(s)
OBVIOUS

\* ... and after one is added.
LEMMA AppendToMail ==
  ASSUME NEW S, NEW s \in Seq(S), NEW e \in S
  PROVE  /\ Append(s, e) \in Seq(S)
         /\ DOMAIN Append(s, e) = DOMAIN s \cup {Len(s) + 1}
         /\ \A i \in DOMAIN s : Append(s, e)[i] = s[i]
         /\ Append(s, e)[Len(s) + 1] = e
         /\ Len(s) + 1 \notin DOMAIN s
OBVIOUS

\* A record more is the last of the numbers.
LEMMA NumbersGrow ==
  ASSUME NEW s \in Seq(Nat), NEW t \in Seq(Nat), NEW n \in Nat, s \o t = Numbers(n)
  PROVE  s \o Append(t, n + 1) = Numbers(n + 1)
<1>1. s \o Append(t, n + 1) = Append(s \o t, n + 1)
  BY SMTT(30)
<1>2. Append(Numbers(n), n + 1) = Numbers(n + 1)
  <2>1. Numbers(n) \in Seq(Nat) /\ Len(Numbers(n)) = n
    BY DEF Numbers
  <2>2. Append(Numbers(n), n + 1) \in Seq(Nat) /\ Len(Append(Numbers(n), n + 1)) = n + 1
    BY <2>1
  <2>3. Numbers(n + 1) \in Seq(Nat) /\ Len(Numbers(n + 1)) = n + 1
    BY DEF Numbers
  <2>4. \A i \in 1..n + 1 : Append(Numbers(n), n + 1)[i] = Numbers(n + 1)[i]
    BY <2>1 DEF Numbers
  <2>5. QED
    BY <2>2, <2>3, <2>4
<1>3. QED
  BY <1>1, <1>2

\* Moving the write buffer to what is sent changes nothing of the whole.
LEMMA NothingMore == \A s \in Seq(Nat) : s \o <<>> = s
OBVIOUS
-------------------------------------------------------------------------------
(* The mail of the module. *)

\* A message is pushed: results wait where they did, and the new one if it is
\* one.
LEMMA Pushed ==
  ASSUME IInv, NEW e \in Messages, Push(e)
  PROVE  /\ mail' \in Seq(Messages)
         /\ Results' = IF e.type = "completed" THEN Results \cup {Len(mail) + 1} ELSE Results
         /\ Updated \in ToSet(mail) \/ e = Updated => Updated \in ToSet(mail')
<1>1. mail \in Seq(Messages) /\ mail' = Append(mail, e)
  BY DEF IInv, Types, Push
<1>2. Results' = IF e.type = "completed" THEN Results \cup {Len(mail) + 1} ELSE Results
  BY <1>1, AppendToMail DEF Results
<1>3. Updated \in ToSet(mail) \/ e = Updated => Updated \in ToSet(mail')
  BY <1>1, AppendToMail DEF ToSet
<1>4. QED
  BY <1>1, <1>2, <1>3, AppendToMail

\* A message is taken: at most the results that waited wait, and none after a
\* result is taken.
LEMMA Taken ==
  ASSUME IInv, NEW type, Handles(type)
  PROVE  /\ mail' \in Seq(Messages)
         /\ \A i, j \in Results' : i = j
         /\ Results = {} \/ type = "completed" => Results' = {}
         /\ type = "completed" => Results # {}
         /\ type # "written" /\ Updated \in ToSet(mail) => Updated \in ToSet(mail')
<1>1. /\ mail \in Seq(Messages) /\ mail # <<>> /\ mail' = Tail(mail)
      /\ Head(mail).type = type
  BY DEF IInv, Types, Handles
<1>2. \A i \in Results' : i + 1 \in Results
  BY <1>1, TailOfMail DEF Results
<1>3. \A i \in Results' : i \in Nat \ {0}
  BY <1>1, TailOfMail DEF Results
<1>4. type = "completed" => 1 \in Results
  BY <1>1, TailOfMail DEF Results
<1>5. \A i, j \in Results : i = j
  BY DEF IInv, OneResult
<1>6. type # "written" /\ Updated \in ToSet(mail) => Updated \in ToSet(mail')
  <2>1. SUFFICES ASSUME type # "written", NEW i \in DOMAIN mail, mail[i] = Updated
                 PROVE  Updated \in ToSet(mail')
    BY DEF ToSet
  <2>2. i # 1
    BY <1>1, <2>1, TailOfMail DEF Updated
  <2>3. i - 1 \in DOMAIN mail' /\ mail'[i - 1] = Updated
    BY <1>1, <2>1, <2>2, TailOfMail
  <2>4. QED
    BY <2>3 DEF ToSet
<1>7. QED
  BY <1>1, <1>2, <1>3, <1>4, <1>5, <1>6, TailOfMail
-------------------------------------------------------------------------------
(* The actions. *)

\* At the start there is nothing, and at most one order.
LEMMA InitInv == Init => IInv
<1>1. SUFFICES ASSUME Init PROVE IInv
  OBVIOUS
<1>2. Numbers(0) = <<>>
  BY DEF Numbers
<1>3. Results = {}
  BY <1>1 DEF Init, Results
<1>4. Types
  <2>1. 0 \in 0..MaxRecords /\ ordered \in Nat
    BY <1>1, BoundAssumption DEF Init
  <2>2. mail \in Seq(Messages) /\ writeBuffer \in Seq(Nat) /\ sent \in Seq(Nat)
    BY <1>1 DEF Init
  <2>3. handshake \in HandshakeStates /\ pc \in PCs /\ success \in BOOLEAN
    BY <1>1, StartAssumption DEF Init, PCs
  <2>4. written \in Nat /\ begun \in Nat /\ peerSent \in 0..MaxRecords
    BY <1>1, <2>1 DEF Init
  <2>5. QED
    BY <2>1, <2>2, <2>3, <2>4 DEF Types
<1>5. QED
  BY <1>1, <1>2, <1>3, <1>4 DEF Init, IInv, WrittenInOrder, WrittenIsAnnounced,
     OneResult, Running

\* A record of the peer is put into the read buffer.
LEMMA HandleReceivedInv ==
  ASSUME IInv, HandleReceived
  PROVE  IInv'
<1>1. /\ mail' \in Seq(Messages)
      /\ \A i, j \in Results' : i = j
      /\ Results = {} => Results' = {}
      /\ Updated \in ToSet(mail) => Updated \in ToSet(mail')
  BY Taken DEF HandleReceived
<1>2. QED
  BY <1>1 DEF IInv, Types, WrittenInOrder, WrittenIsAnnounced, OneResult, Running,
     HandleReceived, buffers, records, counts, thread

\* Data is put into the input buffer.
LEMMA HandleInputInv ==
  ASSUME IInv, HandleInput
  PROVE  IInv'
<1>1. /\ mail' \in Seq(Messages)
      /\ \A i, j \in Results' : i = j
      /\ Results = {} => Results' = {}
      /\ Updated \in ToSet(mail) => Updated \in ToSet(mail')
  BY Taken DEF HandleInput
<1>2. QED
  BY <1>1 DEF IInv, Types, WrittenInOrder, WrittenIsAnnounced, OneResult, Running,
     HandleInput, buffers, records, counts, thread

\* The failures are counted from zero again.
LEMMA HandleStartedInv ==
  ASSUME IInv, HandleStarted
  PROVE  IInv'
<1>1. /\ mail' \in Seq(Messages)
      /\ \A i, j \in Results' : i = j
      /\ Results = {} => Results' = {}
      /\ Updated \in ToSet(mail) => Updated \in ToSet(mail')
  BY Taken DEF HandleStarted
<1>2. QED
  BY <1>1 DEF IInv, Types, WrittenInOrder, WrittenIsAnnounced, OneResult, Running,
     HandleStarted, buffers, records, counts, thread

\* The result is taken: no other is waiting, and no handshake runs.
LEMMA HandleFailureInv ==
  ASSUME IInv, HandleFailure
  PROVE  IInv'
<1>1. /\ mail' \in Seq(Messages)
      /\ Results' = {} /\ Results # {}
      /\ Updated \in ToSet(mail) => Updated \in ToSet(mail')
  BY Taken DEF HandleFailure
<1>2. pc \notin {"handshake", "announce", "report"}
  BY <1>1 DEF IInv, OneResult, Running
<1>3. Types'
  BY <1>1 DEF IInv, Types, HandleFailure, HandshakeStates, buffers, records, thread
<1>4. OneResult'
  BY <1>1 DEF IInv, Types, OneResult, HandleFailure
<1>5. Running'
  BY <1>1, <1>2 DEF IInv, Types, OneResult, Running, HandleFailure, thread
<1>6. WrittenInOrder' /\ WrittenIsAnnounced'
  BY <1>1 DEF IInv, WrittenInOrder, WrittenIsAnnounced, HandleFailure, buffers, records, thread
<1>7. QED
  BY <1>3, <1>4, <1>5, <1>6 DEF IInv

\* The result is taken; it gives no order.
LEMMA HandleSuccessInv ==
  ASSUME IInv, HandleSuccess
  PROVE  IInv'
<1>1. /\ mail' \in Seq(Messages)
      /\ Results' = {} /\ Results # {}
      /\ Updated \in ToSet(mail) => Updated \in ToSet(mail')
  BY Taken DEF HandleSuccess
<1>2. pc \notin {"handshake", "announce", "report"}
  BY <1>1 DEF IInv, OneResult, Running
<1>3. Types'
  BY <1>1 DEF IInv, Types, HandleSuccess, buffers, records, counts, thread
<1>4. OneResult'
  BY <1>1 DEF IInv, OneResult, HandleSuccess, counts, thread
<1>5. Running'
  BY <1>1, <1>2 DEF IInv, Types, OneResult, Running, HandleSuccess, counts, thread
<1>6. WrittenInOrder' /\ WrittenIsAnnounced'
  BY <1>1 DEF IInv, WrittenInOrder, WrittenIsAnnounced, HandleSuccess, buffers, records, thread
<1>7. QED
  BY <1>3, <1>4, <1>5, <1>6 DEF IInv

\* All that is in the write buffer is sent.
LEMMA HandleWrittenInv ==
  ASSUME IInv, HandleWritten
  PROVE  IInv'
<1>1. /\ mail' \in Seq(Messages)
      /\ \A i, j \in Results' : i = j
      /\ Results = {} => Results' = {}
  BY Taken DEF HandleWritten
<1>2. /\ sent' = sent \o writeBuffer /\ writeBuffer' = <<>>
      /\ sent' \in Seq(Nat)
      /\ sent' \o writeBuffer' = sent \o writeBuffer
  BY NothingMore DEF IInv, Types, HandleWritten
<1>3. OneResult' /\ Running'
  BY <1>1 DEF IInv, OneResult, Running, HandleWritten, counts, thread
<1>4. WrittenInOrder' /\ WrittenIsAnnounced'
  BY <1>2 DEF IInv, WrittenInOrder, WrittenIsAnnounced, HandleWritten
<1>5. writeBuffer' \in Seq(Nat)
  BY <1>2
<1>6. Types'
  BY <1>1, <1>2, <1>5 DEF IInv, Types, HandleWritten, counts, thread
<1>7. QED
  BY <1>3, <1>4, <1>6 DEF IInv

\* The mail stays.
LEMMA DestroyInv ==
  ASSUME IInv, Destroy
  PROVE  IInv'
<1>1. mail' = mail /\ Results' = Results
  BY DEF Destroy, Results
<1>2. QED
  BY <1>1 DEF IInv, Types, WrittenInOrder, WrittenIsAnnounced, OneResult, Running,
     Destroy, buffers, records, counts, thread, Moves, At, PCs, HandshakeStates

\* The thread enters its loop or is through.
LEMMA BeginInv ==
  ASSUME IInv, Begin
  PROVE  IInv'
<1>1. mail' = mail /\ Results' = Results
  BY DEF Begin, Results
<1>2. QED
  BY <1>1 DEF IInv, Types, WrittenInOrder, WrittenIsAnnounced, OneResult, Running, Begin,
     buffers, records, counts, Moves, At, PCs

\* An order is taken off, and its handshake begun: no result waits.
LEMMA PerformInv ==
  ASSUME IInv, Perform
  PROVE  IInv'
<1>1. mail' = mail /\ Results' = Results
  BY DEF Perform, Results
<1>2. QED
  BY <1>1 DEF IInv, Types, WrittenInOrder, WrittenIsAnnounced, OneResult, Running,
     Perform, buffers, records, At, PCs, HandshakeStates

\* Only the read buffer changes.
LEMMA ReadInv ==
  ASSUME IInv, Read
  PROVE  IInv'
<1>1. mail' = mail /\ Results' = Results
  BY DEF Read, Results
<1>2. QED
  BY <1>1 DEF IInv, Types, WrittenInOrder, WrittenIsAnnounced, OneResult, Running, Read,
     counts, At

\* The handshake is over, its result not yet pushed.
LEMMA EndHandshakeInv ==
  ASSUME IInv, EndHandshake
  PROVE  IInv'
<1>1. mail' = mail /\ Results' = Results
  BY DEF EndHandshake, Results
<1>2. QED
  BY <1>1 DEF IInv, Types, WrittenInOrder, WrittenIsAnnounced, OneResult, Running,
     EndHandshake, buffers, records, counts, At, PCs

\* The result is stored; an order given meanwhile is lost.
LEMMA StoreInv ==
  ASSUME IInv, Store
  PROVE  IInv'
<1>1. mail' = mail /\ Results' = Results
  BY DEF Store, Results
<1>2. QED
  BY <1>1 DEF IInv, Types, WrittenInOrder, WrittenIsAnnounced, OneResult, Running, Store,
     buffers, records, counts, Moves, At, PCs, HandshakeStates

\* The lock is taken.
LEMMA TransferInv ==
  ASSUME IInv, Transfer
  PROVE  IInv'
<1>1. mail' = mail /\ Results' = Results
  BY DEF Transfer, Results
<1>2. QED
  BY <1>1 DEF IInv, Types, WrittenInOrder, WrittenIsAnnounced, OneResult, Running,
     Transfer, buffers, records, counts, Moves, At, PCs

\* A record more in the write buffer, and the thread about to announce it.
LEMMA WriteInv ==
  ASSUME IInv, Write
  PROVE  IInv'
<1>1. mail' = mail /\ Results' = Results
  BY DEF Write, Put, Results
<1>2. /\ writeBuffer' = Append(writeBuffer, written + 1) /\ written' = written + 1
      /\ sent' = sent
  BY DEF Write, Put
<1>3. /\ sent \in Seq(Nat) /\ writeBuffer \in Seq(Nat) /\ written \in Nat
      /\ sent \o writeBuffer = Numbers(written)
  BY DEF IInv, Types, WrittenInOrder
<1>4. sent \o Append(writeBuffer, written + 1) = Numbers(written + 1)
  BY <1>3, NumbersGrow
<1>5. WrittenInOrder'
  BY <1>2, <1>4 DEF WrittenInOrder
<1>6. writeBuffer' \in Seq(Nat) /\ written' \in Nat
  BY <1>2, <1>3
<1>7. Types'
  BY <1>1, <1>6 DEF IInv, Types, Write, Put, Moves, PCs, counts, thread
<1>8. OneResult' /\ Running' /\ WrittenIsAnnounced'
  BY <1>1 DEF IInv, OneResult, Running, WrittenIsAnnounced, Write, Put, Moves, At, counts
<1>9. QED
  BY <1>5, <1>7, <1>8 DEF IInv

\* The last record, of gnutls_bye.
LEMMA CloseInv ==
  ASSUME IInv, Close
  PROVE  IInv'
<1>1. mail' = mail /\ Results' = Results
  BY DEF Close, Put, Results
<1>2. /\ writeBuffer' = Append(writeBuffer, written + 1) /\ written' = written + 1
      /\ sent' = sent
  BY DEF Close, Put
<1>3. /\ sent \in Seq(Nat) /\ writeBuffer \in Seq(Nat) /\ written \in Nat
      /\ sent \o writeBuffer = Numbers(written)
  BY DEF IInv, Types, WrittenInOrder
<1>4. sent \o Append(writeBuffer, written + 1) = Numbers(written + 1)
  BY <1>3, NumbersGrow
<1>5. WrittenInOrder'
  BY <1>2, <1>4 DEF WrittenInOrder
<1>6. writeBuffer' \in Seq(Nat) /\ written' \in Nat
  BY <1>2, <1>3
<1>7. Types'
  BY <1>1, <1>6 DEF IInv, Types, Close, Put, Moves, PCs, counts, thread
<1>8. OneResult' /\ Running' /\ WrittenIsAnnounced'
  BY <1>1 DEF IInv, OneResult, Running, WrittenIsAnnounced, Close, Put, Moves, At, counts
<1>9. QED
  BY <1>5, <1>7, <1>8 DEF IInv

\* What is in the write buffer has its message.
LEMMA AnnounceInv ==
  ASSUME IInv, Announce
  PROVE  IInv'
<1>1. Updated \in Messages /\ Push(Updated)
  BY DEF Announce, Messages
<1>2. /\ mail' \in Seq(Messages)
      /\ Results' = Results
      /\ Updated \in ToSet(mail) => Updated \in ToSet(mail')
      /\ Updated \in ToSet(mail')
  BY <1>1, Pushed DEF Updated
<1>3. QED
  BY <1>1, <1>2 DEF IInv, Types, WrittenInOrder, WrittenIsAnnounced, OneResult, Running,
     Announce, buffers, records, counts, thread, Moves, At, PCs, HandshakeStates

\* A record of the peer is no result.
LEMMA PeerSendsInv ==
  ASSUME IInv, PeerSends
  PROVE  IInv'
<1>1. peerSent' \in 1..MaxRecords
  BY BoundAssumption DEF PeerSends, IInv, Types
<1>2. Received(peerSent') \in Messages /\ Push(Received(peerSent'))
  BY <1>1 DEF PeerSends, Messages
<1>3. /\ mail' \in Seq(Messages)
      /\ Results' = Results
      /\ Updated \in ToSet(mail) => Updated \in ToSet(mail')
  BY <1>2, Pushed DEF Received
<1>4. Types'
  BY <1>1, <1>3, BoundAssumption DEF IInv, Types, PeerSends, Others, buffers, thread
<1>5. QED
  BY <1>3, <1>4 DEF IInv, WrittenInOrder, WrittenIsAnnounced, OneResult, Running,
     PeerSends, Others, buffers, thread

\* Nor is data ...
LEMMA ModuleSendsInv ==
  ASSUME IInv, ModuleSends
  PROVE  IInv'
<1>1. Input \in Messages /\ Push(Input)
  BY DEF ModuleSends, Messages
<1>2. /\ mail' \in Seq(Messages)
      /\ Results' = Results
      /\ Updated \in ToSet(mail) => Updated \in ToSet(mail')
  BY <1>1, Pushed DEF Input
<1>3. QED
  BY <1>1, <1>2 DEF IInv, Types, WrittenInOrder, WrittenIsAnnounced, OneResult, Running,
     ModuleSends, Others, buffers, records, counts, thread

\* ... or a start of the connection.
LEMMA RestartInv ==
  ASSUME IInv, Restart
  PROVE  IInv'
<1>1. Started \in Messages /\ Push(Started)
  BY DEF Restart, Messages
<1>2. /\ mail' \in Seq(Messages)
      /\ Results' = Results
      /\ Updated \in ToSet(mail) => Updated \in ToSet(mail')
  BY <1>1, Pushed DEF Started
<1>3. QED
  BY <1>1, <1>2 DEF IInv, Types, WrittenInOrder, WrittenIsAnnounced, OneResult, Running,
     Restart, Others, buffers, records, counts, thread

\* The first result that waits.
LEMMA ReportInv ==
  ASSUME IInv, Report
  PROVE  IInv'
<1>1. Result(success) \in Messages /\ Push(Result(success)) /\ Results = {}
  BY DEF Report, Messages, IInv, Types, OneResult, Running, At
<1>2. /\ mail' \in Seq(Messages)
      /\ Results' = {Len(mail) + 1}
      /\ Updated \in ToSet(mail) => Updated \in ToSet(mail')
  BY <1>1, Pushed DEF Result
<1>3. QED
  BY <1>2 DEF IInv, Types, WrittenInOrder, WrittenIsAnnounced, OneResult, Running,
     Report, buffers, records, counts, Moves, At, PCs

\* Every step preserves the invariant.
LEMMA NextInv == IInv /\ [Next]_vars => IInv'
<1>1. SUFFICES ASSUME IInv, [Next]_vars PROVE IInv'
  OBVIOUS
<1>2. CASE Module
  BY <1>1, <1>2, HandleReceivedInv, HandleWrittenInv, HandleInputInv, HandleStartedInv,
     HandleFailureInv, HandleSuccessInv DEF Module
<1>3. CASE Thread
  BY <1>1, <1>3, BeginInv, PerformInv, ReadInv, WriteInv, CloseInv, AnnounceInv,
     EndHandshakeInv, ReportInv, StoreInv, TransferInv DEF Thread
<1>4. CASE Destroy \/ PeerSends \/ ModuleSends \/ Restart
  BY <1>1, <1>4, DestroyInv, PeerSendsInv, ModuleSendsInv, RestartInv
<1>5. CASE UNCHANGED vars
  BY <1>1, <1>5 DEF IInv, Types, WrittenInOrder, WrittenIsAnnounced, OneResult, Running,
     Results,
     vars, buffers, records, counts, thread
<1>6. QED
  BY <1>1, <1>2, <1>3, <1>4, <1>5 DEF Next

\* The inductive invariant holds in every reachable state.
THEOREM Invariance == Spec => []IInv
<1>1. Init => IInv
  BY InitInv
<1>2. IInv /\ [Next]_vars => IInv'
  BY NextInv
<1>3. QED
  BY <1>1, <1>2, PTL DEF Spec

\* No wake-up is lost, however many records the thread writes between two
\* messages and whenever the module takes the lock.
THEOREM WakeUps == Spec => []WrittenIsAnnounced
<1>1. IInv => WrittenIsAnnounced
  BY DEF IInv
<1>2. QED
  BY <1>1, Invariance, PTL

\* What the thread writes is sent whole, once and in order.
THEOREM SendsInOrder == Spec => []WrittenInOrder
<1>1. IInv => WrittenInOrder
  BY DEF IInv
<1>2. QED
  BY <1>1, Invariance, PTL

\* Failures and orders alternate: one result is under way at a time, and no
\* handshake begins that was not ordered.
THEOREM OneAtATime == Spec => []OneResult
<1>1. IInv => OneResult
  BY DEF IInv
<1>2. QED
  BY <1>1, Invariance, PTL
-------------------------------------------------------------------------------
(* What the peer sends. *)

IsRecord(msg) == msg.type = "received"

\* Records wait in the mail in their order.
InMailOrder ==
    \A j, k \in DOMAIN mail :
        j < k /\ IsRecord(mail[j]) /\ IsRecord(mail[k]) => mail[j].record < mail[k].record

StreamInv ==
    /\ consumed \in Seq(Nat) /\ readBuffer \in Seq(Nat)
    /\ Arrived = Numbers(Len(Arrived))
    /\ OnTheWay = Len(Arrived) + 1..peerSent
    /\ Len(Arrived) <= peerSent
    /\ InMailOrder

\* Cutting a sequence changes nothing of the whole.
LEMMA Regrouped == \A s, t, u \in Seq(Nat) : (s \o t) \o u = s \o (t \o u)
BY SMTT(30)

LEMMA OnTheWayMembers ==
  \A n : n \in OnTheWay <=> \E k \in DOMAIN mail : IsRecord(mail[k]) /\ mail[k].record = n
BY DEF OnTheWay, ToSet, IsRecord

\* Taking another message leaves the records that wait, and their order ...
LEMMA OtherTaken ==
  ASSUME IInv, InMailOrder, NEW type, Handles(type), type # "received"
  PROVE  OnTheWay' = OnTheWay /\ InMailOrder'
<1>1. /\ mail \in Seq(Messages) /\ mail # <<>> /\ mail' = Tail(mail)
      /\ Head(mail).type = type
  BY DEF IInv, Types, Handles
<1>2. /\ \A i \in DOMAIN mail' : i \in Int /\ i + 1 \in DOMAIN mail /\ mail'[i] = mail[i + 1]
      /\ \A i \in DOMAIN mail : i # 1 => i - 1 \in DOMAIN mail' /\ mail'[i - 1] = mail[i]
      /\ ~IsRecord(mail[1])
  BY <1>1, TailOfMail DEF IsRecord
<1>3. \A n : n \in OnTheWay' <=> \E k \in DOMAIN mail' : IsRecord(mail'[k]) /\ mail'[k].record = n
  BY DEF OnTheWay, ToSet, IsRecord
<1>4. OnTheWay' = OnTheWay
  <2>1. ASSUME NEW n \in OnTheWay PROVE n \in OnTheWay'
    <3>1. PICK k \in DOMAIN mail : IsRecord(mail[k]) /\ mail[k].record = n
      BY OnTheWayMembers
    <3>. QED
      BY <1>2, <1>3, <3>1
  <2>2. ASSUME NEW n \in OnTheWay' PROVE n \in OnTheWay
    <3>1. PICK k \in DOMAIN mail' : IsRecord(mail'[k]) /\ mail'[k].record = n
      BY <1>3
    <3>. QED
      BY <1>2, <3>1, OnTheWayMembers
  <2>. QED
    BY <2>1, <2>2
<1>5. InMailOrder'
  BY <1>2 DEF InMailOrder
<1>. QED
  BY <1>4, <1>5

\* ... and so does pushing one.
LEMMA OtherPushed ==
  ASSUME IInv, InMailOrder, NEW e \in Messages, Push(e), ~IsRecord(e)
  PROVE  OnTheWay' = OnTheWay /\ InMailOrder'
<1>1. /\ DOMAIN mail' = DOMAIN mail \cup {Len(mail) + 1}
      /\ \A i \in DOMAIN mail : mail'[i] = mail[i]
      /\ ~IsRecord(mail'[Len(mail) + 1])
  BY AppendToMail DEF IInv, Types, Push
<1>2. \A n : n \in OnTheWay' <=> \E k \in DOMAIN mail' : IsRecord(mail'[k]) /\ mail'[k].record = n
  BY DEF OnTheWay, ToSet, IsRecord
<1>3. OnTheWay' = OnTheWay
  <2>1. ASSUME NEW n \in OnTheWay PROVE n \in OnTheWay'
    <3>1. PICK k \in DOMAIN mail : IsRecord(mail[k]) /\ mail[k].record = n
      BY OnTheWayMembers
    <3>. QED
      BY <1>1, <1>2, <3>1
  <2>2. ASSUME NEW n \in OnTheWay' PROVE n \in OnTheWay
    <3>1. PICK k \in DOMAIN mail' : IsRecord(mail'[k]) /\ mail'[k].record = n
      BY <1>2
    <3>. QED
      BY <1>1, <3>1, OnTheWayMembers
  <2>. QED
    BY <2>1, <2>2
<1>4. InMailOrder'
  BY <1>1 DEF InMailOrder
<1>. QED
  BY <1>3, <1>4

\* A record that is put behind the numbers there are is the next.
LEMMA HandleReceivedStream ==
  ASSUME IInv, StreamInv, HandleReceived
  PROVE  StreamInv'
<1>1. /\ mail \in Seq(Messages) /\ mail # <<>> /\ mail' = Tail(mail) /\ IsRecord(mail[1])
      /\ readBuffer' = Append(readBuffer, mail[1].record)
      /\ UNCHANGED <<consumed, peerSent>>
      /\ peerSent \in Nat
  BY TailOfMail, BoundAssumption DEF IInv, Types, HandleReceived, Handles, records, IsRecord
<1>2. /\ \A i \in DOMAIN mail' : i \in Nat /\ i >= 1 /\ i + 1 \in DOMAIN mail /\ mail'[i] = mail[i + 1]
      /\ \A i \in DOMAIN mail : /\ i \in Nat /\ i >= 1
                               /\ i # 1 => i - 1 \in DOMAIN mail' /\ mail'[i - 1] = mail[i]
      /\ 1 \in DOMAIN mail
  BY <1>1, TailOfMail
<1>. DEFINE r == mail[1].record
            n == Len(Arrived)
<1>3. n \in Nat /\ Arrived \in Seq(Nat)
  BY LenProperties DEF StreamInv, Arrived
<1>4. r = n + 1
  <2>1. r \in n + 1..peerSent
    BY <1>1, <1>2, OnTheWayMembers DEF StreamInv
  <2>2. n + 1 \in OnTheWay
    BY <1>1, <1>3, <2>1 DEF StreamInv
  <2>3. PICK k \in DOMAIN mail : IsRecord(mail[k]) /\ mail[k].record = n + 1
    BY <2>2, OnTheWayMembers
  <2>4. k = 1 \/ r < n + 1
    BY <1>1, <1>2, <2>3 DEF StreamInv, InMailOrder
  <2>. QED
    BY <1>3, <2>1, <2>3, <2>4
<1>5. readBuffer' = Append(readBuffer, n + 1) /\ n + 1 <= peerSent
  <2>1. r \in n + 1..peerSent
    BY <1>1, <1>2, OnTheWayMembers DEF StreamInv
  <2>. QED
    BY <1>1, <1>3, <1>4, <2>1
<1>6. /\ Arrived' = Numbers(n + 1) /\ readBuffer' \in Seq(Nat) /\ Len(Arrived') = n + 1
  <2>1. consumed \in Seq(Nat) /\ readBuffer \in Seq(Nat) /\ consumed \o readBuffer = Numbers(n)
    BY DEF StreamInv, Arrived
  <2>2. consumed \o Append(readBuffer, n + 1) = Numbers(n + 1)
    BY <1>3, <2>1, NumbersGrow
  <2>3. readBuffer' \in Seq(Nat)
    BY <1>3, <1>5, <2>1
  <2>4. Len(Numbers(n + 1)) = n + 1
    BY <1>3 DEF Numbers
  <2>. QED
    BY <1>1, <1>5, <2>2, <2>3, <2>4 DEF Arrived
<1>7. \A m : m \in OnTheWay' <=> \E k \in DOMAIN mail' : IsRecord(mail'[k]) /\ mail'[k].record = m
  BY DEF OnTheWay, ToSet, IsRecord
<1>8. OnTheWay' = OnTheWay \ {n + 1}
  <2>1. ASSUME NEW k \in DOMAIN mail, k # 1, IsRecord(mail[k]) PROVE mail[k].record # n + 1
    <3>1. r < mail[k].record
      BY <1>1, <1>2, <2>1 DEF StreamInv, InMailOrder
    <3>. QED
      BY <1>3, <1>4, <3>1
  <2>2. ASSUME NEW m \in OnTheWay, m # n + 1 PROVE m \in OnTheWay'
    <3>1. PICK k \in DOMAIN mail : IsRecord(mail[k]) /\ mail[k].record = m
      BY OnTheWayMembers
    <3>2. k # 1
      BY <1>4, <2>2, <3>1
    <3>3. k - 1 \in DOMAIN mail' /\ mail'[k - 1] = mail[k]
      BY <1>1, <3>2, TailOfMail
    <3>. QED
      BY <1>7, <3>1, <3>3
  <2>3. ASSUME NEW m \in OnTheWay' PROVE m \in OnTheWay /\ m # n + 1
    <3>1. PICK k \in DOMAIN mail' : IsRecord(mail'[k]) /\ mail'[k].record = m
      BY <1>7
    <3>2. k + 1 \in DOMAIN mail /\ k + 1 # 1 /\ mail[k + 1] = mail'[k]
      BY <1>2
    <3>. QED
      BY <2>1, <3>1, <3>2, OnTheWayMembers
  <2>. HIDE DEF n
  <2>. QED
    BY <2>2, <2>3
<1>9. OnTheWay' = (n + 1) + 1..peerSent
  <2>1. OnTheWay = n + 1..peerSent
    BY DEF StreamInv
  <2>. QED
    BY <1>1, <1>3, <1>8, <2>1
<1>10. InMailOrder'
  BY SMTT(30), <1>2 DEF StreamInv, InMailOrder
<1>. HIDE DEF n
<1>. QED
  BY <1>1, <1>5, <1>6, <1>9, <1>10 DEF StreamInv

\* A read moves records from one to the other.
LEMMA ReadStream ==
  ASSUME IInv, StreamInv, Read
  PROVE  StreamInv'
<1>1. PICK n \in 1..Len(readBuffer) :
        /\ consumed' = consumed \o SubSeq(readBuffer, 1, n)
        /\ readBuffer' = SubSeq(readBuffer, n + 1, Len(readBuffer))
  BY DEF Read
<1>2. UNCHANGED <<mail, peerSent>> /\ consumed \in Seq(Nat) /\ readBuffer \in Seq(Nat)
  BY DEF Read, StreamInv
<1>. DEFINE a == SubSeq(readBuffer, 1, n)
            b == SubSeq(readBuffer, n + 1, Len(readBuffer))
<1>3. Len(readBuffer) \in Nat /\ n \in Nat /\ n <= Len(readBuffer)
  BY <1>2, LenProperties
<1>4. a \in Seq(Nat) /\ Len(a) = n /\ \A i \in 1..n : a[i] = readBuffer[i]
  BY <1>2, <1>3, ElementOfSeq, SubSeqProperties
<1>5. /\ b \in Seq(Nat) /\ Len(b) = Len(readBuffer) - n
      /\ \A i \in 1..Len(readBuffer) - n : b[i] = readBuffer[n + i]
  BY <1>2, <1>3, ElementOfSeq, SubSeqProperties
<1>. HIDE DEF a, b
<1>6. a \o b = readBuffer
  <2>1. /\ a \o b \in Seq(Nat) /\ Len(a \o b) = Len(a) + Len(b)
        /\ \A i \in 1..Len(a) + Len(b) : (a \o b)[i] = IF i <= Len(a) THEN a[i] ELSE b[i - Len(a)]
    BY <1>4, <1>5, ConcatProperties
  <2>2. Len(a) + Len(b) = Len(readBuffer)
    BY <1>3, <1>4, <1>5
  <2>3. ASSUME NEW i \in 1..Len(readBuffer) PROVE (a \o b)[i] = readBuffer[i]
    <3>1. CASE i <= n
      BY <1>4, <2>1, <2>2, <3>1
    <3>2. CASE ~(i <= n)
      <4>1. i - n \in 1..Len(readBuffer) - n /\ n + (i - n) = i
        BY <1>3, <3>2
      <4>. QED
        BY <1>4, <1>5, <2>1, <2>2, <3>2, <4>1
    <3>. QED
      BY <3>1, <3>2
  <2>. QED
    BY <1>2, <2>1, <2>2, <2>3, SeqEqual
<1>7. /\ consumed' = consumed \o a /\ readBuffer' = b
  BY <1>1 DEF a, b
<1>8. Arrived' = Arrived /\ consumed' \in Seq(Nat) /\ readBuffer' \in Seq(Nat)
  <2>1. (consumed \o a) \o b = consumed \o (a \o b)
    <3>1. consumed \in Seq(Nat) /\ a \in Seq(Nat) /\ b \in Seq(Nat)
      BY <1>2, <1>4, <1>5
    <3>. QED
      BY <3>1, Regrouped
  <2>2. consumed \o a \in Seq(Nat)
    BY <1>2, <1>4, ConcatProperties
  <2>. QED
    BY <1>5, <1>6, <1>7, <2>1, <2>2 DEF Arrived
<1>9. OnTheWay' = OnTheWay /\ (InMailOrder' <=> InMailOrder)
  BY <1>2 DEF OnTheWay, InMailOrder
<1>. QED
  BY <1>2, <1>8, <1>9 DEF StreamInv

\* The next record of the peer is the last in the mail.
LEMMA PeerSendsStream ==
  ASSUME IInv, StreamInv, PeerSends
  PROVE  StreamInv'
<1>1. /\ peerSent \in Nat /\ peerSent' = peerSent + 1 /\ Push(Received(peerSent + 1))
      /\ UNCHANGED <<consumed, readBuffer>>
      /\ Received(peerSent + 1) \in Messages
  <2>1. peerSent + 1 \in 1..MaxRecords /\ peerSent \in Nat
    BY BoundAssumption DEF PeerSends, IInv, Types
  <2>. QED
    BY <2>1 DEF PeerSends, Others, buffers, Messages
<1>2. /\ DOMAIN mail' = DOMAIN mail \cup {Len(mail) + 1}
      /\ \A i \in DOMAIN mail : mail'[i] = mail[i] /\ i \in Nat /\ i < Len(mail) + 1
      /\ IsRecord(mail'[Len(mail) + 1]) /\ mail'[Len(mail) + 1].record = peerSent + 1
  <2>1. mail \in Seq(Messages) /\ mail' = Append(mail, Received(peerSent + 1))
    BY <1>1 DEF IInv, Types, Push
  <2>2. \A i \in DOMAIN mail : i \in Nat /\ i < Len(mail) + 1
    BY <2>1
  <2>. QED
    BY <1>1, <2>1, <2>2, AppendToMail DEF IsRecord, Received
<1>3. \A n : n \in OnTheWay' <=> \E k \in DOMAIN mail' : IsRecord(mail'[k]) /\ mail'[k].record = n
  BY DEF OnTheWay, ToSet, IsRecord
<1>4. OnTheWay' = OnTheWay \cup {peerSent + 1}
  BY <1>2, <1>3, OnTheWayMembers
<1>5. Arrived' = Arrived /\ Len(Arrived) \in Nat
  BY <1>1, LenProperties DEF Arrived, StreamInv
<1>6. OnTheWay' = Len(Arrived) + 1..peerSent'
  <2>1. OnTheWay = Len(Arrived) + 1..peerSent /\ Len(Arrived) <= peerSent
    BY DEF StreamInv
  <2>. QED
    BY <1>1, <1>4, <1>5, <2>1
<1>7. InMailOrder'
  <2>1. \A k \in DOMAIN mail : IsRecord(mail[k]) => mail[k].record \in Int /\ mail[k].record < peerSent + 1
    <3>1. \A k \in DOMAIN mail : IsRecord(mail[k]) => mail[k].record \in OnTheWay
      BY OnTheWayMembers
    <3>. QED
      BY <1>1, <1>5, <3>1 DEF StreamInv
  <2>. QED
    BY <1>2, <2>1, LenProperties DEF StreamInv, InMailOrder, IInv, Types
<1>. QED
  BY <1>1, <1>5, <1>6, <1>7 DEF StreamInv

LEMMA NextStream == IInv /\ StreamInv /\ [Next]_vars => StreamInv'
<1>. SUFFICES ASSUME IInv, StreamInv, [Next]_vars PROVE StreamInv'
  OBVIOUS
<1>. USE DEF buffers, records, counts, thread
<1>1. ASSUME OnTheWay' = OnTheWay, InMailOrder', UNCHANGED <<consumed, readBuffer, peerSent>>
      PROVE  StreamInv'
  BY <1>1 DEF StreamInv, Arrived
<1>2. InMailOrder
  BY DEF StreamInv
<1>3. CASE HandleReceived
  BY <1>3, HandleReceivedStream
<1>4. CASE Read
  BY <1>4, ReadStream
<1>5. CASE PeerSends
  BY <1>5, PeerSendsStream
<1>6. CASE HandleWritten
  BY <1>1, <1>2, <1>6, OtherTaken DEF HandleWritten
<1>7. CASE HandleInput
  BY <1>1, <1>2, <1>7, OtherTaken DEF HandleInput
<1>8. CASE HandleStarted
  BY <1>1, <1>2, <1>8, OtherTaken DEF HandleStarted
<1>9. CASE HandleFailure
  BY <1>1, <1>2, <1>9, OtherTaken DEF HandleFailure
<1>10. CASE HandleSuccess
  BY <1>1, <1>2, <1>10, OtherTaken DEF HandleSuccess
<1>11. CASE Announce
  <2>1. Updated \in Messages /\ ~IsRecord(Updated) /\ Push(Updated)
    BY <1>11 DEF Announce, Messages, Updated, IsRecord
  <2>. QED
    BY <1>1, <1>2, <1>11, <2>1, OtherPushed DEF Announce
<1>12. CASE Report
  <2>1. Result(success) \in Messages /\ ~IsRecord(Result(success)) /\ Push(Result(success))
    BY <1>12 DEF Report, Messages, Result, IsRecord, IInv, Types
  <2>. QED
    BY <1>1, <1>2, <1>12, <2>1, OtherPushed DEF Report
<1>13. CASE ModuleSends
  <2>1. Input \in Messages /\ ~IsRecord(Input) /\ Push(Input)
    BY <1>13 DEF ModuleSends, Messages, Input, IsRecord
  <2>. QED
    BY <1>1, <1>2, <1>13, <2>1, OtherPushed DEF ModuleSends, Others
<1>14. CASE Restart
  <2>1. Started \in Messages /\ ~IsRecord(Started) /\ Push(Started)
    BY <1>14 DEF Restart, Messages, Started, IsRecord
  <2>. QED
    BY <1>1, <1>2, <1>14, <2>1, OtherPushed DEF Restart, Others
<1>15. ASSUME UNCHANGED <<mail, consumed, readBuffer, peerSent>> PROVE StreamInv'
  <2>1. OnTheWay' = OnTheWay /\ InMailOrder'
    BY <1>2, <1>15 DEF OnTheWay, InMailOrder
  <2>. QED
    BY <1>1, <1>15, <2>1
<1>16. CASE Destroy \/ Begin \/ Perform \/ EndHandshake
  BY <1>15, <1>16 DEF Destroy, Begin, Perform, EndHandshake
<1>17. CASE Write \/ Close
  BY <1>15, <1>17 DEF Write, Close, Put
<1>18. CASE Store \/ Transfer \/ UNCHANGED vars
  BY <1>15, <1>18 DEF Store, Transfer, vars
<1>. QED
  BY <1>3, <1>4, <1>5, <1>6, <1>7, <1>8, <1>9, <1>10, <1>11, <1>12, <1>13, <1>14, <1>16, <1>17, <1>18
  DEF Next, Module, Thread

\* For any number of records, however the reads of the handshake cut them: what
\* the peer sends is read whole, once and in order.
THEOREM StreamsAreIntact == Spec => []StreamsIntact
<1>1. Init => StreamInv
  <2>. SUFFICES ASSUME Init PROVE StreamInv
    OBVIOUS
  <2>1. /\ consumed \in Seq(Nat) /\ readBuffer \in Seq(Nat) /\ Arrived = <<>>
        /\ Len(Arrived) = 0 /\ peerSent = 0 /\ mail = <<>>
    BY EmptySeq DEF Init, Arrived
  <2>2. Numbers(0) = <<>>
    BY DEF Numbers
  <2>3. OnTheWay = {} /\ 0 + 1..0 = {}
    BY <2>1, OnTheWayMembers
  <2>4. InMailOrder
    BY <2>1 DEF InMailOrder
  <2>. QED
    BY <2>1, <2>2, <2>3, <2>4 DEF StreamInv
<1>2. IInv /\ StreamInv => StreamsIntact
  BY DEF IInv, StreamInv, StreamsIntact
<1>. QED
  BY <1>1, <1>2, Invariance, NextStream, PTL DEF Spec
-------------------------------------------------------------------------------
(* Handshakes and reports. *)

IsStart(msg) == msg.type = "started"

\* The starts that wait in the mail are at least as far apart as g counts, and
\* with the h that were taken no more than there were: there is a g where no
\* more wait than restarts - h.
Credits(h, g) ==
    /\ \A k \in DOMAIN mail : IsStart(mail[k]) => g[k] \in 1..restarts - h
    /\ \A j, k \in DOMAIN mail :
          j < k /\ IsStart(mail[j]) /\ IsStart(mail[k]) => g[j] < g[k]

\* failures since the last start that was taken, of which the last gives no order
Failed == IF attempts < MaxAttempts THEN attempts ELSE MaxAttempts - 1

\* the bound that the count of orders keeps to with the h starts that were taken
Ordered(h) == ordered <= 1 + Failed + (MaxAttempts - 1) * h

Counted == \E h \in Nat, g \in [Nat -> Nat] : h <= restarts /\ Credits(h, g) /\ Ordered(h)

\* A result that waits, or a handshake that runs, is the one of the last order;
\* with a report nothing is open any more.
Quiet ==
    /\ ordered <= begun + 1
    /\ Results # {} \/ pc \in {"handshake", "announce", "report"} => begun = ordered
    /\ Len(requests) <= 1
    /\ requests # <<>> =>
          /\ begun = ordered /\ handshake # "PERFORM" /\ Results = {}
          /\ pc \notin {"handshake", "announce", "report"}

CountTypes ==
    /\ attempts \in Nat /\ restarts \in Nat
    /\ requests \in Seq({"PROTOCOL_TLS_HANDSHAKE_FAILED", "PROTOCOL_SECURE_CONNECTION_STATE"})

CountInv == CountTypes /\ Quiet /\ Counted

\* The places of a sequence are numbers.
LEMMA Places ==
  ASSUME NEW S, NEW s \in Seq(S)
  PROVE  Len(s) \in Nat /\ \A i \in DOMAIN s : i \in Nat /\ 1 <= i /\ i < Len(s) + 1
BY LenProperties

\* What the mail is after a message was pushed.
LEMMA MailPushed ==
  ASSUME IInv, NEW e \in Messages, Push(e)
  PROVE  /\ DOMAIN mail' = DOMAIN mail \cup {Len(mail) + 1}
         /\ \A i \in DOMAIN mail : mail'[i] = mail[i] /\ i \in Nat /\ i < Len(mail) + 1
         /\ mail'[Len(mail) + 1] = e
         /\ Len(mail) + 1 \in Nat
<1>1. mail \in Seq(Messages) /\ mail' = Append(mail, e)
  BY DEF IInv, Types, Push
<1>2. Len(mail) \in Nat /\ \A i \in DOMAIN mail : i \in Nat /\ i < Len(mail) + 1
  BY <1>1, Places
<1>3. /\ DOMAIN mail' = DOMAIN mail \cup {Len(mail) + 1}
      /\ \A i \in DOMAIN mail : mail'[i] = mail[i]
      /\ mail'[Len(mail) + 1] = e
  BY <1>1, AppendToMail
<1>. QED
  BY <1>2, <1>3

\* A start more in the mail is one restart more ...
LEMMA StartPushed ==
  ASSUME IInv, Restart, restarts \in Nat, NEW h \in Nat, h <= restarts,
         NEW g \in [Nat -> Nat], Credits(h, g)
  PROVE  \E f \in [Nat -> Nat] : Credits(h, f)'
<1>1. /\ restarts' = restarts + 1
      /\ DOMAIN mail' = DOMAIN mail \cup {Len(mail) + 1}
      /\ \A i \in DOMAIN mail : mail'[i] = mail[i] /\ i \in Nat /\ i < Len(mail) + 1
      /\ Len(mail) + 1 \in Nat
  <2>1. Started \in Messages /\ Push(Started)
    BY DEF Restart, Messages
  <2>. QED
    BY <2>1, MailPushed DEF Restart
<1>2. PICK new \in Nat : new = Len(mail) + 1
  BY <1>1
<1>3. PICK rest \in Nat : rest = restarts' - h
  BY <1>1
<1>f. PICK f \in [Nat -> Nat] : f = [k \in Nat |-> IF k = new THEN rest ELSE g[k]]
  <2>. DEFINE F == [k \in Nat |-> IF k = new THEN rest ELSE g[k]]
  <2>1. F \in [Nat -> Nat]
    OBVIOUS
  <2>. HIDE DEF F
  <2>2. \E f \in [Nat -> Nat] : f = F
    BY <2>1
  <2>. QED
    BY <2>2 DEF F
<1>7. f[new] = rest /\ \A k \in DOMAIN mail : f[k] = g[k]
  BY <1>1, <1>2, <1>f
<1>4. \A k \in DOMAIN mail' : IsStart(mail'[k]) => f[k] \in 1..restarts' - h
  <2>. SUFFICES ASSUME NEW k \in DOMAIN mail', IsStart(mail'[k])
                PROVE  f[k] \in 1..restarts' - h
    OBVIOUS
  <2>1. CASE k = new
    BY <1>1, <1>3, <1>7, <2>1
  <2>2. CASE k \in DOMAIN mail
    <3>1. g[k] \in 1..restarts - h
      BY <1>1, <2>2 DEF Credits
    <3>2. g[k] \in Nat /\ 1 <= g[k] /\ g[k] <= restarts - h /\ f[k] = g[k]
      BY <1>7, <2>2, <3>1
    <3>3. restarts' - h = (restarts - h) + 1
      BY <1>1
    <3>. QED
      BY <3>2, <3>3
  <2>. QED
    BY <1>1, <1>2, <2>1, <2>2
<1>5. \A j, k \in DOMAIN mail' :
        j < k /\ IsStart(mail'[j]) /\ IsStart(mail'[k]) => f[j] < f[k]
  <2>. SUFFICES ASSUME NEW j \in DOMAIN mail', NEW k \in DOMAIN mail', j < k,
                       IsStart(mail'[j]), IsStart(mail'[k])
                PROVE  f[j] < f[k]
    OBVIOUS
  <2>1. j \in DOMAIN mail
    <3>1. CASE j = new
      <4>1. k \in Nat /\ (k = new \/ k < new)
        BY <1>1, <1>2
      <4>2. \A m \in Nat : m = new \/ m < new => ~(new < m)
        OBVIOUS
      <4>3. new < k
        BY <3>1
      <4>. QED
        BY <4>1, <4>2, <4>3
    <3>. QED
      BY <1>1, <1>2, <3>1
  <2>2. g[j] \in 1..restarts - h
    BY <1>1, <2>1 DEF Credits
  <2>3. CASE k = new
    BY SMTT(30), <1>1, <1>3, <1>7, <2>1, <2>2, <2>3
  <2>4. CASE k \in DOMAIN mail
    <3>1. g[j] < g[k]
      BY <1>1, <2>1, <2>4 DEF Credits
    <3>. QED
      BY <1>7, <2>1, <2>4, <3>1
  <2>. QED
    BY <1>1, <1>2, <2>3, <2>4
<1>6. Credits(h, f)'
  BY <1>4, <1>5 DEF Credits
<1>. QED
  BY <1>6

\* ... other messages are none ...
LEMMA NoStartPushed ==
  ASSUME IInv, NEW e \in Messages, ~IsStart(e), Push(e), restarts' = restarts, NEW h, NEW g,
         Credits(h, g)
  PROVE  Credits(h, g)'
<1>1. /\ DOMAIN mail' = DOMAIN mail \cup {Len(mail) + 1}
      /\ \A i \in DOMAIN mail : mail'[i] = mail[i]
      /\ ~IsStart(mail'[Len(mail) + 1])
  BY MailPushed
<1>. QED
  BY <1>1 DEF Credits

\* ... and each that is taken was counted.
LEMMA CreditsTaken ==
  ASSUME IInv, NEW type, Handles(type), restarts' = restarts, restarts \in Nat,
         NEW h \in Nat, h <= restarts, NEW g \in [Nat -> Nat], Credits(h, g)
  PROVE  /\ type # "started" => \E f \in [Nat -> Nat] : Credits(h, f)'
         /\ type = "started" =>
              h + 1 <= restarts /\ \E f \in [Nat -> Nat] : Credits(h + 1, f)'
<1>1. /\ mail \in Seq(Messages) /\ mail # <<>> /\ mail' = Tail(mail)
      /\ IsStart(Head(mail)) <=> type = "started"
  BY DEF IInv, Types, Handles, IsStart
<1>2. /\ \A i \in DOMAIN mail' : i + 1 \in DOMAIN mail /\ mail'[i] = mail[i + 1]
      /\ \A i \in DOMAIN mail' : i \in Nat /\ 1 < i + 1
      /\ IsStart(mail[1]) <=> type = "started"
      /\ 1 \in DOMAIN mail
  <2>1. mail' \in Seq(Messages)
    BY <1>1, TailOfMail
  <2>2. \A i \in DOMAIN mail' : i \in Nat /\ 1 < i + 1
    BY <2>1, Places
  <2>. QED
    BY <1>1, <2>2, TailOfMail
<1>3. CASE type # "started"
  <2>f. PICK f \in [Nat -> Nat] : f = [k \in Nat |-> g[k + 1]]
    <3>. DEFINE F == [k \in Nat |-> g[k + 1]]
    <3>1. F \in [Nat -> Nat]
      OBVIOUS
    <3>. HIDE DEF F
    <3>2. \E f \in [Nat -> Nat] : f = F
      BY <3>1
    <3>. QED
      BY <3>2 DEF F
  <2>1. \A k \in DOMAIN mail' : f[k] = g[k + 1]
    BY <1>2, <2>f
  <2>2. ASSUME NEW k \in DOMAIN mail', IsStart(mail'[k]) PROVE f[k] \in 1..restarts - h
    BY <1>2, <2>1, <2>2 DEF Credits
  <2>3. ASSUME NEW j \in DOMAIN mail', NEW k \in DOMAIN mail', j < k,
               IsStart(mail'[j]), IsStart(mail'[k])
        PROVE  f[j] < f[k]
    <3>1. j + 1 < k + 1
      BY <1>2, <2>3
    <3>. QED
      BY <1>2, <2>1, <2>3, <3>1 DEF Credits
  <2>4. Credits(h, f)'
    BY <2>2, <2>3 DEF Credits
  <2>. QED
    BY <1>3, <2>1, <2>4
<1>4. CASE type = "started"
  <2>1. g[1] \in 1..restarts - h
    BY <1>2, <1>4 DEF Credits
  <2>2. ASSUME NEW k \in DOMAIN mail', IsStart(mail'[k])
        PROVE  g[k + 1] \in 2..restarts - h
    <3>1. k + 1 \in DOMAIN mail /\ IsStart(mail[k + 1]) /\ 1 < k + 1
      BY <1>2, <2>2
    <3>2. g[k + 1] \in 1..restarts - h /\ g[1] < g[k + 1]
      BY <1>2, <1>4, <3>1 DEF Credits
    <3>. QED
      BY <2>1, <3>2
  <2>3. PICK f \in [Nat -> Nat] :
          f = [k \in Nat |-> IF g[k + 1] > 0 THEN g[k + 1] - 1 ELSE 0]
    <3>1. \A k \in Nat : g[k + 1] \in Nat
      OBVIOUS
    <3>2. \A k \in Nat : (IF g[k + 1] > 0 THEN g[k + 1] - 1 ELSE 0) \in Nat
      BY <3>1
    <3>. QED
      BY <3>2
  <2>4. ASSUME NEW k \in DOMAIN mail', IsStart(mail'[k])
        PROVE  f[k] = g[k + 1] - 1
    BY <1>2, <2>2, <2>3, <2>4
  <2>5. ASSUME NEW k \in DOMAIN mail', IsStart(mail'[k]) PROVE f[k] \in 1..restarts - (h + 1)
    BY <2>2, <2>4, <2>5
  <2>6. ASSUME NEW j \in DOMAIN mail', NEW k \in DOMAIN mail', j < k,
               IsStart(mail'[j]), IsStart(mail'[k])
        PROVE  f[j] < f[k]
    <3>1. j + 1 < k + 1 /\ g[j + 1] \in Int /\ g[k + 1] \in Int
      BY <1>2, <2>2, <2>6
    <3>2. g[j + 1] < g[k + 1]
      BY <1>2, <2>6, <3>1 DEF Credits
    <3>. QED
      BY <2>4, <2>6, <3>1, <3>2
  <2>7. Credits(h + 1, f)'
    BY <2>5, <2>6 DEF Credits
  <2>. QED
    BY <1>4, <2>1, <2>7
<1>. QED
  BY <1>3, <1>4

\* Neither the mail nor a counter changes, or the mail in what is not counted.
LEMMA CountedStays ==
  ASSUME IInv, Counted, restarts \in Nat, UNCHANGED <<restarts, attempts, ordered>>,
         \/ UNCHANGED mail
         \/ \E e \in Messages : ~IsStart(e) /\ Push(e)
         \/ \E type \in {"received", "written", "input", "completed"} : Handles(type)
  PROVE  Counted'
<1>1. PICK h \in Nat, g \in [Nat -> Nat] : h <= restarts /\ Credits(h, g) /\ Ordered(h)
  BY DEF Counted
<1>2. Ordered(h)' /\ h <= restarts'
  BY <1>1 DEF Ordered, Failed
<1>3. \E f \in [Nat -> Nat] : Credits(h, f)'
  <2>1. CASE UNCHANGED mail
    BY <1>1, <2>1 DEF Credits
  <2>2. CASE \E e \in Messages : ~IsStart(e) /\ Push(e)
    BY <1>1, <2>2, NoStartPushed
  <2>3. CASE \E type \in {"received", "written", "input", "completed"} : Handles(type)
    BY <1>1, <2>3, CreditsTaken
  <2>. QED
    BY <2>1, <2>2, <2>3
<1>. QED
  BY <1>2, <1>3 DEF Counted

\* An order leaves at most one open, and a report ends what the thread does.
LEMMA NextQuiet ==
  ASSUME IInv, CountTypes, Quiet, Next
  PROVE  CountTypes' /\ Quiet'
<1>. USE DEF CountTypes, Quiet
<1>0. /\ handshake = "RUNNING" /\ pc # "store" => Results = {}
      /\ handshake = "PERFORM" => Results = {}
      /\ pc \in {"handshake", "announce", "report"} => handshake = "RUNNING"
      /\ handshake = "PERFORM" => begun < ordered
      /\ begun \in Nat /\ ordered \in Nat /\ MaxAttempts \in Nat \ {0}
      /\ Len(requests) \in Nat
  BY AttemptsAssumption DEF IInv, Types, OneResult, Running
<1>1. CASE HandleReceived
  BY <1>0, <1>1, Taken DEF HandleReceived, counts, thread
<1>2. CASE HandleWritten
  BY <1>0, <1>2, Taken DEF HandleWritten, counts, thread
<1>3. CASE HandleInput
  BY <1>0, <1>3, Taken DEF HandleInput, counts, thread
<1>4. CASE HandleStarted
  BY <1>0, <1>4, Taken DEF HandleStarted, counts, thread
<1>r. requests = <<>> => \A r \in {"PROTOCOL_TLS_HANDSHAKE_FAILED", "PROTOCOL_SECURE_CONNECTION_STATE"} :
                            /\ Append(requests, r) # <<>> /\ Len(Append(requests, r)) = 1
                            /\ Append(requests, r) \in Seq({"PROTOCOL_TLS_HANDSHAKE_FAILED",
                                                            "PROTOCOL_SECURE_CONNECTION_STATE"})
  OBVIOUS
<1>5. ASSUME Handles("completed"), UNCHANGED thread PROVE /\ requests = <<>> /\ begun = ordered
        /\ Results' = {} /\ pc' = pc /\ pc \notin {"handshake", "announce", "report"}
        /\ handshake # "PERFORM"
  <2>1. Results # {} /\ Results' = {}
    BY <1>5, Taken
  <2>. QED
    BY <1>0, <1>5, <2>1 DEF thread
<1>6. CASE HandleFailure
  <2>1. /\ requests = <<>> /\ begun = ordered
        /\ Results' = {} /\ pc' = pc /\ pc \notin {"handshake", "announce", "report"}
        /\ handshake # "PERFORM"
    BY <1>5, <1>6 DEF HandleFailure
  <2>2. attempts' \in Nat /\ restarts' = restarts /\ begun' = begun
    BY <1>6 DEF HandleFailure
  <2>3. CASE Retries(attempts')
    BY <1>0, <1>6, <2>1, <2>2, <2>3 DEF HandleFailure
  <2>4. CASE ~Retries(attempts')
    <3>1. requests' = Append(requests, "PROTOCOL_TLS_HANDSHAKE_FAILED")
      BY <1>6, <2>4 DEF HandleFailure
    <3>2. ordered' = ordered /\ handshake' = handshake
      BY <1>6, <2>4 DEF HandleFailure
    <3>. QED
      BY <1>0, <1>r, <2>1, <2>2, <3>1, <3>2
  <2>. QED
    BY <2>3, <2>4
<1>7. CASE HandleSuccess
  <2>1. /\ requests = <<>> /\ begun = ordered
        /\ Results' = {} /\ pc' = pc /\ pc \notin {"handshake", "announce", "report"}
        /\ handshake # "PERFORM"
    BY <1>5, <1>7 DEF HandleSuccess
  <2>. QED
    BY <1>0, <1>7, <1>r, <2>1 DEF HandleSuccess, counts
<1>8. ASSUME NEW e \in Messages, Push(e), e.type # "completed" PROVE Results' = Results
  BY <1>8, Pushed
<1>9. CASE Announce
  <2>1. Results' = Results
    BY <1>8, <1>9 DEF Announce, Messages, Updated
  <2>. QED
    BY <1>0, <1>9, <2>1 DEF Announce, counts, Moves, At
<1>10. CASE Report
  BY <1>0, <1>10 DEF Report, counts, Moves, At
<1>11. CASE PeerSends
  <2>1. peerSent' \in 1..MaxRecords
    BY <1>11, BoundAssumption DEF PeerSends, IInv, Types
  <2>2. Received(peerSent') \in Messages /\ Received(peerSent').type # "completed"
    BY <2>1 DEF Messages, Received
  <2>3. Results' = Results
    BY <1>8, <1>11, <2>2 DEF PeerSends
  <2>. QED
    BY <1>0, <1>11, <2>3 DEF PeerSends, Others, thread
<1>12. CASE ModuleSends
  <2>1. Results' = Results
    BY <1>8, <1>12 DEF ModuleSends, Messages, Input
  <2>. QED
    BY <1>0, <1>12, <2>1 DEF ModuleSends, Others, thread
<1>13. CASE Restart
  <2>1. Results' = Results
    BY <1>8, <1>13 DEF Restart, Messages, Started
  <2>. QED
    BY <1>0, <1>13, <2>1 DEF Restart, Others, thread
<1>14. CASE Perform
  BY <1>0, <1>14 DEF Perform, Results
<1>15. CASE Destroy
  BY <1>0, <1>15 DEF Destroy, Results, counts, thread
<1>16. CASE Begin \/ EndHandshake
  BY <1>0, <1>16 DEF Begin, EndHandshake, Moves, At, Results, counts
<1>17. CASE Read
  BY <1>0, <1>17 DEF Read, Results, counts
<1>18. CASE Write \/ Close
  BY <1>0, <1>18 DEF Write, Close, Put, Moves, At, Results, counts
<1>19. CASE Store
  BY <1>0, <1>19 DEF Store, Moves, At, Results, counts
<1>20. CASE Transfer
  BY <1>0, <1>20 DEF Transfer, Moves, At, Results, counts
<1>. QED
  BY <1>1, <1>2, <1>3, <1>4, <1>6, <1>7, <1>9, <1>10, <1>11, <1>12, <1>13, <1>14, <1>15,
     <1>16, <1>17, <1>18, <1>19, <1>20
  DEF Next, Module, Thread

\* A failure is counted once, and a start that is taken makes up for those
\* before it.
LEMMA NextCounted ==
  ASSUME IInv, CountTypes, Counted, Next
  PROVE  Counted'
<1>. USE DEF CountTypes
<1>1. PICK h \in Nat, g \in [Nat -> Nat] : h <= restarts /\ Credits(h, g) /\ Ordered(h)
  BY DEF Counted
<1>2. PICK m \in Nat : m = MaxAttempts - 1
  BY AttemptsAssumption
<1>3. PICK p \in Nat : p = m * h
  OBVIOUS
<1>4. /\ ordered \in Nat /\ attempts \in Nat
      /\ ordered <= 1 + Failed + p
      /\ Failed = IF attempts < m + 1 THEN attempts ELSE m
  BY <1>1, <1>2, <1>3, AttemptsAssumption DEF Ordered, Failed, IInv, Types
<1>5. CASE HandleStarted
  <2>1. h + 1 <= restarts' /\ \E f \in [Nat -> Nat] : Credits(h + 1, f)'
    BY <1>1, <1>5, CreditsTaken DEF HandleStarted, counts
  <2>2. m * (h + 1) = p + m
    BY <1>3
  <2>3. Failed' = 0 /\ ordered' = ordered
    BY <1>2, <1>5, AttemptsAssumption DEF HandleStarted, Failed, counts
  <2>4. ordered' <= 1 + Failed' + m * (h + 1)
    BY <1>4, <2>2, <2>3
  <2>5. Ordered(h + 1)'
    BY <1>2, <2>4 DEF Ordered
  <2>6. PICK f \in [Nat -> Nat] : Credits(h + 1, f)'
    BY <2>1
  <2>7. \E i \in Nat, e \in [Nat -> Nat] : (i <= restarts /\ Credits(i, e) /\ Ordered(i))'
    <3>1. h + 1 \in Nat /\ (h + 1 <= restarts /\ Credits(h + 1, f) /\ Ordered(h + 1))'
      BY <2>1, <2>5, <2>6
    <3>. QED
      BY <3>1 DEF Credits, Ordered
  <2>. QED
    BY <2>7 DEF Counted
<1>6. CASE HandleFailure
  <2>0. Handles("completed") /\ restarts' = restarts
    BY <1>6 DEF HandleFailure
  <2>c. \E f \in [Nat -> Nat] : Credits(h, f)'
    <3>1. PICK type \in {"completed"} : Handles(type)
      BY <2>0
    <3>. QED
      BY <1>1, <2>0, <3>1, CreditsTaken
  <2>1. h <= restarts' /\ \E f \in [Nat -> Nat] : Credits(h, f)'
    BY <1>1, <2>0, <2>c
  <2>2. attempts' = attempts + 1 /\ Failed' = IF attempts + 1 < m + 1 THEN attempts + 1 ELSE m
    BY <1>2, <1>6, AttemptsAssumption DEF HandleFailure, Failed
  <2>3. ordered' = IF attempts + 1 < m + 1 THEN ordered + 1 ELSE ordered
    BY <1>2, <1>6, <2>2, AttemptsAssumption DEF HandleFailure, Retries
  <2>4. ordered' <= 1 + Failed' + p
    BY <1>4, <2>2, <2>3
  <2>5. Ordered(h)'
    BY <1>2, <1>3, <2>4 DEF Ordered
  <2>. QED
    BY <2>1, <2>5 DEF Counted
<1>7. CASE Restart
  <2>0. \E f \in [Nat -> Nat] : Credits(h, f)'
    BY <1>1, <1>7, StartPushed
  <2>r. h <= restarts'
    BY <1>1, <1>7 DEF Restart
  <2>1. h <= restarts' /\ \E f \in [Nat -> Nat] : Credits(h, f)'
    BY <2>0, <2>r
  <2>2. Ordered(h)'
    BY <1>1, <1>7 DEF Ordered, Failed, Restart, Others
  <2>. QED
    BY <2>1, <2>2 DEF Counted
<1>8. CASE HandleReceived
  BY <1>8, CountedStays DEF HandleReceived, counts
<1>9. CASE HandleWritten
  BY <1>9, CountedStays DEF HandleWritten, counts
<1>10. CASE HandleInput
  BY <1>10, CountedStays DEF HandleInput, counts
<1>11. CASE HandleSuccess
  BY <1>11, CountedStays DEF HandleSuccess, counts
<1>12. CASE Announce
  <2>1. Updated \in Messages /\ ~IsStart(Updated)
    BY DEF Messages, Updated, IsStart
  <2>. QED
    BY <1>12, <2>1, CountedStays DEF Announce, counts
<1>13. CASE Report
  <2>1. Result(success) \in Messages /\ ~IsStart(Result(success))
    BY DEF Messages, Result, IsStart, IInv, Types
  <2>. QED
    BY <1>13, <2>1, CountedStays DEF Report, counts
<1>14. CASE PeerSends
  <2>1. peerSent' \in 1..MaxRecords
    BY <1>14, BoundAssumption DEF PeerSends, IInv, Types
  <2>2. Received(peerSent') \in Messages /\ ~IsStart(Received(peerSent'))
    BY <2>1 DEF Messages, Received, IsStart
  <2>. QED
    BY <1>14, <2>2, CountedStays DEF PeerSends, Others
<1>15. CASE ModuleSends
  <2>1. Input \in Messages /\ ~IsStart(Input)
    BY DEF Messages, Input, IsStart
  <2>. QED
    BY <1>15, <2>1, CountedStays DEF ModuleSends, Others
<1>16. ASSUME UNCHANGED <<mail, attempts, ordered, restarts>> PROVE Counted'
  BY <1>16, CountedStays
<1>17. CASE Destroy \/ Begin \/ Perform \/ Read \/ EndHandshake
  BY <1>16, <1>17 DEF Destroy, Begin, Perform, Read, EndHandshake, counts
<1>18. CASE Write \/ Close \/ Store \/ Transfer
  BY <1>16, <1>18 DEF Write, Close, Put, Store, Transfer, counts
<1>. QED
  BY <1>5, <1>6, <1>7, <1>8, <1>9, <1>10, <1>11, <1>12, <1>13, <1>14, <1>15, <1>17, <1>18
  DEF Next, Module, Thread

\* For any number of attempts and restarts, however failures, results and
\* restarts cross: a result is that of the last order, at most MaxAttempts
\* handshakes are ordered for a start, and the one report is the last thing.
THEOREM HandshakesAreCounted == Spec => []HandshakesCounted
<1>1. Init => CountInv
  <2>. SUFFICES ASSUME Init PROVE CountInv
    OBVIOUS
  <2>1. mail = <<>> /\ Results = {} /\ DOMAIN mail = {}
    BY DEF Init, Results
  <2>2. CountTypes /\ Quiet
    BY <2>1 DEF Init, CountTypes, Quiet
  <2>3. [k \in Nat |-> 0] \in [Nat -> Nat] /\ 0 \in Nat /\ 0 <= restarts
    BY DEF Init
  <2>4. \A g : Credits(0, g)
    BY <2>1 DEF Credits
  <2>5. Failed = 0 /\ (MaxAttempts - 1) * 0 = 0 /\ ordered \in {0, 1}
    BY AttemptsAssumption DEF Init, Failed
  <2>6. Ordered(0)
    BY <2>5 DEF Ordered
  <2>. QED
    BY <2>2, <2>3, <2>4, <2>6 DEF CountInv, Counted
<1>2. IInv /\ CountInv /\ [Next]_vars => CountInv'
  <2>. SUFFICES ASSUME IInv, CountInv, [Next]_vars PROVE CountInv'
    OBVIOUS
  <2>1. CASE Next
    BY <2>1, NextQuiet, NextCounted DEF CountInv
  <2>2. CASE UNCHANGED vars
    BY <2>2 DEF CountInv, CountTypes, Quiet, Counted, Credits, Ordered, Failed, Results, vars,
                counts, thread
  <2>. QED
    BY <2>1, <2>2
<1>3. IInv /\ CountInv => HandshakesCounted
  <2>. SUFFICES ASSUME IInv, CountInv PROVE HandshakesCounted
    OBVIOUS
  <2>1. PICK h \in Nat, g \in [Nat -> Nat] : h <= restarts /\ Credits(h, g) /\ Ordered(h)
    BY DEF CountInv, Counted
  <2>2. PICK d \in Nat : restarts = h + d
    BY <2>1 DEF CountInv, CountTypes
  <2>3. PICK m \in Nat : MaxAttempts = m + 1
    BY AttemptsAssumption
  <2>4. Failed <= m /\ Failed \in Nat
    BY <2>3 DEF Failed, CountInv, CountTypes
  <2>5. ordered <= 1 + m + m * h /\ ordered \in Nat
    BY <2>1, <2>3, <2>4 DEF Ordered, IInv, Types
  <2>6. (m + 1) * (h + d + 1) = 1 + m + m * h + h + (m + 1) * d
    OBVIOUS
  <2>7. m * h \in Nat /\ (m + 1) * d \in Nat
    OBVIOUS
  <2>8. ordered <= MaxAttempts * (restarts + 1)
    BY <2>2, <2>3, <2>5, <2>6, <2>7
  <2>. QED
    BY <2>8 DEF HandshakesCounted, OneReport, IInv, CountInv, Quiet
<1>. QED
  BY <1>1, <1>2, <1>3, Invariance, PTL DEF Spec
===============================================================================
