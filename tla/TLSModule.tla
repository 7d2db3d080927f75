------------------------------ MODULE TLSModule ------------------------------
(***************************************************************************)
(* The TLS module of a protocol connection and the thread it starts        *)
(* (protocol_module_tls_connection.cpp).  The module handles messages, in  *)
(* the thread of its queue; its own thread performs handshakes through a   *)
(* TLSConnection whose base connection reads and writes the buffers of the *)
(* module.  They share two atomics, _StopThread and _HandshakeState, and   *)
(* the buffers under _BuffersLock.                                         *)
(*                                                                         *)
(* The handshake itself is GnuTLS's: it writes and reads some number of    *)
(* records and succeeds or fails.  Records are numbered as they are made.  *)
(* Once the handshake has succeeded the thread takes _BuffersLock, and     *)
(* sends what is in the input buffer while it holds it: the base           *)
(* connection's Write takes the lock once more and never gets it.          *)
(***************************************************************************)
EXTENDS Naturals, Sequences, SequencesExt

CONSTANTS MaxAttempts,    \* MaximumTLSHandshakeAttempts
          StopAtStart,    \* what _StopThread is initialised with: TRUE
          StateAtStart,   \* what _HandshakeState is initialised with: UNDEFINED
          MaxRecords,     \* bound: records of the peer, and of the handshakes
          MaxInputs,      \* bound: pieces of data to be encrypted
          MaxRestarts     \* bound: times the connection is started again

HandshakeStates == {"UNDEFINED", "FAILED", "SUCCEEDED", "PERFORM", "RUNNING"}

ASSUME AttemptsAssumption == MaxAttempts \in Nat \ {0}
ASSUME StartAssumption == StopAtStart \in BOOLEAN /\ StateAtStart \in HandshakeStates
ASSUME BoundAssumption == {MaxRecords, MaxInputs, MaxRestarts} \subseteq Nat

VARIABLES stop,        \* _StopThread
          destroyed,   \* has the destructor of the module been entered
          handshake,   \* _HandshakeState
          attempts,    \* _HandshakeAttempts
          locked,      \* does the thread hold _BuffersLock between two steps
          readBuffer,  \* records of the peer the thread has not read
          writeBuffer, \* records of the thread the module has not sent
          inputs,      \* pieces of data in the input buffer
          mail,        \* messages the module has yet to handle
          requests,    \* state changes the module has requested
          pc,          \* where the thread is
          success,     \* result of the handshake that is ending
          took,        \* records read by the handshake that runs
          peerSent,    \* records the peer has sent
          consumed,    \* what the thread has read
          written,     \* number of records the thread has written
          sent,        \* what the module has sent
          ordered,     \* handshakes ordered, the first of them at the start
          begun,       \* handshakes begun
          restarts     \* restarts told to the module

buffers == <<readBuffer, writeBuffer, inputs>>
records == <<peerSent, consumed, written, sent>>
counts  == <<ordered, begun, restarts>>
thread  == <<pc, success, took>>
vars    == <<stop, destroyed, handshake, attempts, locked, mail, requests, buffers, records, counts, thread>>

\* Members are initialised in the order of their declaration, the thread last.
Init == /\ stop = StopAtStart
        /\ destroyed = FALSE
        /\ handshake = StateAtStart
        /\ attempts = 0
        /\ locked = FALSE
        /\ readBuffer = <<>> /\ writeBuffer = <<>> /\ inputs = 0
        /\ mail = <<>>
        /\ requests = <<>>
        /\ pc = "begin" /\ success = FALSE /\ took = 0
        /\ peerSent = 0 /\ consumed = <<>> /\ written = 0 /\ sent = <<>>
        /\ ordered = IF StateAtStart = "PERFORM" THEN 1 ELSE 0
        /\ begun = 0
        /\ restarts = 0
-------------------------------------------------------------------------------
(* The module, in the thread of its queue. *)

\* Messages: a record of the peer, data to encrypt, a start of the connection,
\* and the two the thread sends
Received(n) == [type |-> "received", record |-> n]
Result(b)   == [type |-> "completed", success |-> b]
Input       == [type |-> "input"]
Started     == [type |-> "started"]
Updated     == [type |-> "written"]

Handles(type) == /\ ~destroyed
                 /\ mail # <<>>
                 /\ Head(mail).type = type
                 /\ mail' = Tail(mail)

\* CopyDataToBufferEnd into the read buffer
HandleReceived ==
    /\ Handles("received")
    /\ ~locked
    /\ readBuffer' = Append(readBuffer, Head(mail).record)
    /\ UNCHANGED <<stop, destroyed, handshake, attempts, locked, requests, writeBuffer, inputs,
                   records, counts, thread>>

\* Mutant: the write buffer is copied and not moved
HandleWrittenCopies ==
    /\ Handles("written")
    /\ ~locked
    /\ sent' = sent \o writeBuffer
    /\ UNCHANGED <<stop, destroyed, handshake, attempts, locked, requests, buffers,
                   peerSent, consumed, written, counts, thread>>

\* MoveDataFromBuffer from the write buffer, and SendData
HandleWritten ==
    /\ Handles("written")
    /\ ~locked
    /\ sent' = sent \o writeBuffer
    /\ writeBuffer' = <<>>
    /\ UNCHANGED <<stop, destroyed, handshake, attempts, locked, requests, readBuffer, inputs,
                   peerSent, consumed, written, counts, thread>>

\* CopyDataToBufferEnd into the input buffer
HandleInput ==
    /\ Handles("input")
    /\ ~locked
    /\ inputs' = inputs + 1
    /\ UNCHANGED <<stop, destroyed, handshake, attempts, locked, requests, readBuffer, writeBuffer,
                   records, counts, thread>>

\* HandleStateUpdate with PROTOCOL_STARTED; it does nothing in any other state
HandleStarted ==
    /\ Handles("started")
    /\ attempts' = 0
    /\ UNCHANGED <<stop, destroyed, handshake, locked, requests, buffers, records, counts, thread>>

\* After the n-th failure in a row: one more attempt?
Retries(n) == n < MaxAttempts

\* tls_handshake_completed_t of a failure: a new order, or a report
HandleFailure ==
    /\ Handles("completed")
    /\ ~Head(mail).success
    /\ attempts' = attempts + 1
    /\ IF Retries(attempts')
       THEN /\ handshake' = "PERFORM"
            /\ ordered' = ordered + 1
            /\ UNCHANGED requests
       ELSE /\ requests' = Append(requests, "PROTOCOL_TLS_HANDSHAKE_FAILED")
            /\ UNCHANGED <<handshake, ordered>>
    /\ UNCHANGED <<stop, destroyed, locked, buffers, records, begun, restarts, thread>>

\* tls_handshake_completed_t of a success
HandleSuccess ==
    /\ Handles("completed")
    /\ Head(mail).success
    /\ requests' = Append(requests, "PROTOCOL_SECURE_CONNECTION_STATE")
    /\ UNCHANGED <<stop, destroyed, handshake, attempts, locked, buffers, records, counts, thread>>

\* Mutant: the destructor does not ask the thread to stop
DestroySilently ==
    /\ ~destroyed
    /\ mail # <<>> => ~locked \/ Head(mail).type \in {"started", "completed"}
    /\ destroyed' = TRUE
    /\ UNCHANGED <<stop, handshake, attempts, locked, mail, requests, buffers,
                   records, counts, thread>>

\* The destructor, which then waits for the thread as a member is destroyed.
\* It is not called while a handler runs, and so not while one waits for
\* _BuffersLock.
Destroy ==
    /\ ~destroyed
    /\ mail # <<>> => ~locked \/ Head(mail).type \in {"started", "completed"}
    /\ destroyed' = TRUE
    /\ stop' = TRUE
    /\ UNCHANGED <<handshake, attempts, locked, mail, requests, buffers,
                   records, counts, thread>>

Module == \/ HandleReceived \/ HandleWritten \/ HandleInput
          \/ HandleStarted \/ HandleFailure \/ HandleSuccess
-------------------------------------------------------------------------------
(* The thread: ProtocolModuleTLSNetworkConnection::ThreadFcn. *)

At(p)     == pc = p
Moves(p)  == pc' = p /\ UNCHANGED <<success, took>>
Push(msg) == mail' = Append(mail, msg)

\* The test before the connection is made: stopped, the thread has made none
\* and is through.
Begin ==
    /\ At("begin")
    /\ Moves(IF stop THEN "done" ELSE "loop")
    /\ UNCHANGED <<stop, destroyed, handshake, attempts, locked, mail, requests, buffers,
                   records, counts>>

\* Mutant: the order is not taken off
PerformAgain ==
    /\ At("loop") /\ ~stop
    /\ handshake = "PERFORM"
    /\ begun' = begun + 1
    /\ pc' = "handshake" /\ took' = 0
    /\ UNCHANGED <<stop, destroyed, handshake, attempts, locked, mail, requests, buffers,
                   records, ordered, restarts, success>>

\* The loop, with an order: RUNNING is stored and the handshake begins
Perform ==
    /\ At("loop") /\ ~stop
    /\ handshake = "PERFORM"
    /\ handshake' = "RUNNING"
    /\ begun' = begun + 1
    /\ pc' = "handshake" /\ took' = 0
    /\ UNCHANGED <<stop, destroyed, attempts, locked, mail, requests, buffers, records,
                   ordered, restarts, success>>

\* Mutant: what fits is copied, and all of the buffer erased
ReadErasesAll ==
    /\ At("handshake")
    /\ ~locked
    /\ \E n \in 1..Len(readBuffer) :
          /\ consumed' = consumed \o SubSeq(readBuffer, 1, n)
          /\ took' = took + n
    /\ readBuffer' = <<>>
    /\ UNCHANGED <<stop, destroyed, handshake, attempts, locked, mail, requests,
                   writeBuffer, inputs, peerSent, written, sent, counts, pc, success>>

\* Read of the base connection: as many records as GnuTLS made room for
Read ==
    /\ At("handshake")
    /\ ~locked
    /\ \E n \in 1..Len(readBuffer) :
          /\ consumed' = consumed \o SubSeq(readBuffer, 1, n)
          /\ readBuffer' = SubSeq(readBuffer, n + 1, Len(readBuffer))
          /\ took' = took + n
    /\ UNCHANGED <<stop, destroyed, handshake, attempts, locked, mail, requests,
                   writeBuffer, inputs, peerSent, written, sent, counts, pc, success>>

\* The critical section of Write, with which the thread comes to p
Put(p) ==
    /\ ~locked
    /\ written' = written + 1
    /\ writeBuffer' = Append(writeBuffer, written')
    /\ Moves(p)
    /\ UNCHANGED <<stop, destroyed, handshake, attempts, locked, mail, requests,
                   readBuffer, inputs, peerSent, consumed, sent, counts>>

\* Write of the base connection in a handshake ...
Write == At("handshake") /\ written < MaxRecords /\ Put("announce")

\* ... and in gnutls_bye, which ~TLSConnection calls after the loop
Close == At("loop") /\ stop /\ Put("announce last")

\* Mutant: data is announced only when the thread is through
AnnounceLast ==
    /\ pc \in {"announce", "announce last"}
    /\ IF At("announce last") THEN Push(Updated) ELSE UNCHANGED mail
    /\ Moves(IF At("announce") THEN "handshake" ELSE "done")
    /\ UNCHANGED <<stop, destroyed, handshake, attempts, locked, requests, buffers,
                   records, counts>>

\* The rest of Write, after the unlock: tls_write_data_updated_t is pushed
Announce ==
    /\ pc \in {"announce", "announce last"}
    /\ Push(Updated)
    /\ Moves(IF At("announce") THEN "handshake" ELSE "done")
    /\ UNCHANGED <<stop, destroyed, handshake, attempts, locked, requests, buffers,
                   records, counts>>

\* Handshake returns.  A read of an empty buffer returns 0, the end of the
\* connection to GnuTLS: no handshake outlasts what the peer has sent.
EndHandshake ==
    /\ At("handshake")
    /\ \E b \in BOOLEAN :
          /\ b => took > 0
          /\ success' = b
    /\ pc' = "report"
    /\ UNCHANGED <<stop, destroyed, handshake, attempts, locked, mail, requests, buffers,
                   records, counts, took>>

\* Its result is pushed ...
Report ==
    /\ At("report")
    /\ Push(Result(success))
    /\ Moves("store")
    /\ UNCHANGED <<stop, destroyed, handshake, attempts, locked, requests, buffers,
                   records, counts>>

\* ... and then stored, over what the module may have ordered in between
Store ==
    /\ At("store")
    /\ handshake' = IF success THEN "SUCCEEDED" ELSE "FAILED"
    /\ Moves("loop")
    /\ UNCHANGED <<stop, destroyed, attempts, locked, mail, requests, buffers, records,
                   counts>>

\* The loop after a success: _BuffersLock is taken and TLSConnection::Write
\* called, to which an empty buffer is an invalid request.  With data, or from
\* ~TLSConnection when the exception is thrown, GnuTLS calls Write of the base
\* connection, and the thread waits for a lock it holds.
Transfer ==
    /\ At("loop") /\ ~stop
    /\ handshake = "SUCCEEDED"
    /\ ~locked
    /\ locked' = TRUE
    /\ Moves("transfer")
    /\ UNCHANGED <<stop, destroyed, handshake, attempts, mail, requests, buffers, records,
                   counts>>

Thread == \/ Begin \/ Perform \/ Read \/ Write \/ Close \/ Announce
          \/ EndHandshake \/ Report \/ Store \/ Transfer
-------------------------------------------------------------------------------
(* Messages that others push. *)

Others == UNCHANGED <<stop, destroyed, handshake, attempts, locked, requests, buffers,
                      consumed, written, sent, ordered, begun, thread>>

\* ProtocolConnectionModule passes on data of the peer.
PeerSends ==
    /\ peerSent < MaxRecords
    /\ peerSent' = peerSent + 1
    /\ Push(Received(peerSent'))
    /\ Others /\ UNCHANGED restarts

\* A module has data to encrypt.
ModuleSends ==
    /\ inputs + Len(SelectSeq(mail, LAMBDA msg : msg = Input)) < MaxInputs
    /\ Push(Input)
    /\ Others /\ UNCHANGED <<peerSent, restarts>>

\* The connection state module tells of PROTOCOL_STARTED.
Restart ==
    /\ restarts < MaxRestarts
    /\ restarts' = restarts + 1
    /\ Push(Started)
    /\ Others /\ UNCHANGED peerSent

Next == Module \/ Destroy \/ Thread \/ PeerSends \/ ModuleSends \/ Restart

Spec == Init /\ [][Next]_vars

\* The thread of the queue handles what it is sent, and the thread of the
\* module runs in a loop; nothing makes anyone send or destroy anything.
FairSpec == Spec /\ WF_vars(Module) /\ WF_vars(Thread)
-------------------------------------------------------------------------------
(* Properties. *)

Messages == {Updated, Input, Started} \cup {Result(b) : b \in BOOLEAN}
                \cup {Received(n) : n \in 1..MaxRecords}

\* The type invariant.
TypeOK ==
    /\ {stop, destroyed, locked, success} \subseteq BOOLEAN
    /\ handshake \in HandshakeStates
    /\ attempts \in 0..MaxAttempts
    /\ readBuffer \in Seq(1..MaxRecords)
    /\ writeBuffer \in Seq(1..MaxRecords + 1)
    /\ inputs \in 0..MaxInputs
    /\ mail \in Seq(Messages)
    /\ requests \in Seq({"PROTOCOL_TLS_HANDSHAKE_FAILED", "PROTOCOL_SECURE_CONNECTION_STATE"})
    /\ pc \in {"begin", "loop", "handshake", "announce", "report", "store", "transfer",
               "announce last", "done"}
    /\ took \in 0..MaxRecords
    /\ peerSent \in 0..MaxRecords
    /\ consumed \in Seq(1..MaxRecords)
    /\ written \in 0..MaxRecords + 1
    /\ sent \in Seq(1..MaxRecords + 1)
    /\ {ordered, begun, restarts} \subseteq Nat

Numbers(n) == [i \in 1..n |-> i]

\* What the thread wrote
WrittenInOrder == sent \o writeBuffer = Numbers(written)

\* records that have come to the read buffer, in their order
Arrived == consumed \o readBuffer

\* the numbers of those that are on their way
OnTheWay == {msg.record : msg \in {m \in ToSet(mail) : m.type = "received"}}

\* What the peer sent is read, and what the thread wrote is sent, whole, in
\* order and once: nothing falls out between two critical sections or with a
\* read that takes a part of the buffer, and what has not arrived is under way.
StreamsIntact ==
    /\ WrittenInOrder
    /\ Arrived = Numbers(Len(Arrived))
    /\ OnTheWay = Len(Arrived) + 1..peerSent

\* No wake-up is lost: while there is something in the write buffer a message
\* that has it sent is on its way, or about to be pushed, though one message
\* may send the data of two.
WrittenIsAnnounced ==
    writeBuffer # <<>> =>
        \/ Updated \in ToSet(mail)
        \/ pc \in {"announce", "announce last"}

\* the places in the mail of results that are waiting
Results == {i \in DOMAIN mail : mail[i].type = "completed"}

\* One handshake at a time: while an order is open or a handshake runs, no
\* result is waiting, so no failure is counted twice and no order is given for
\* a handshake that is not the last one.
OneResult ==
    /\ \A i, j \in Results : i = j
    /\ handshake = "RUNNING" /\ pc # "store" => Results = {}
    /\ handshake = "PERFORM" => Results = {}
    /\ begun <= ordered

\* However failures, results and restarts cross, there are at most MaxAttempts
\* handshakes for every start of the connection, and one report in all: after
\* it the thread never performs a handshake again.
OneReport ==
    /\ ordered <= MaxAttempts * (restarts + 1)
    /\ Len(requests) <= 1
    /\ requests # <<>> => begun = ordered /\ handshake # "PERFORM"

\* Handshakes and results are counted right, across failures, retries and
\* restarts.
HandshakesCounted == OneResult /\ OneReport

\* The destructor returns, whatever the handshake is doing, unless the thread
\* has come to the data after a success.
DestructorReturns == destroyed ~> pc \in {"done", "transfer"}
===============================================================================
