# Silkstring in TLA+

TLA+ modules, TLC runs and TLAPS proofs about Silkstring, a peer-to-peer
program in C++ whose parts talk to each other by messages: queue threads,
modules registered with them, one global queue in the middle, and protocol
threads that negotiate a connection with a peer.  All paths below are relative
to `src/`.

## 1. The system

### Inventory

| part | source | state | operations |
|---|---|---|---|
| queue thread | `thread_queued.h`, `thread_message_queue.h`, `message_queue.h`, `thread_function.h` | the list of messages under `_QueueLock`; atomics `_State` (running, paused, stopped) and `_AcceptMessages`; the future of the thread | the worker loop, `PushMessage`, `PushMessageFront`, `SetThreadState`, `StopThread`, `SetMessageAcceptance`, `RestartThread`, the destructor |
| module manager | `thread_module_manager.h`, `thread_module_manager_multi_message.h` | `_Modules` under `_ModuleListLock`; the link tables by sender and by receiver under `_LockLinks` | `Register`, `Unregister`, `AddSendLink`, `AddReceiverLink`, `MessageCallback` (find the targets of a message, call their handlers) |
| global message queue | `global_message_queue_thread.cpp`, `silkstring_message.cpp` | a module manager whose modules are queues | `RegisterQueue`, `UnregisterQueue`, `RegisterModule`, `UnregisterModule`, `PushMessage`, `PropagateMessageToQueues` |
| protocol manager and threads | `protocol_manager.cpp`, `protocol_thread.cpp`, `protocol_module_instantiator.cpp` | lists of connections, threads and instantiators | `CreateNewInstance`, `StopInstance`, `RequestRead` |
| connection state module | `protocol_module_connection_state.cpp`, `protocol_thread_memory.h` | `State` and `PeerState` of an end, `RestartRequested` | handling of the peer's changes, of the modules' requests, restart and end |
| protocol connection | `protocol_connection_module.cpp`, `protocol_network_connection.cpp`, `protocol_send_handle.cpp`, `network_connection.cpp`, `network_dummy_connection.cpp` | `_ReadBuffer`, `_ReadLength`, the dummy's `_ReceivedData` and `_LockData` | `SendData`, `ReceiveData`, `ParseReceivedData`, `Read`, `Write`, `WriteTimeout` |
| TLS connection module | `protocol_module_tls_connection.cpp` | four buffers under `_BuffersLock`, atomics `_HandshakeState` and `_StopThread`, the number of attempts | the TLS thread's loop, the handling of buffer updates and of the result of a handshake |
| user storage | `string_user_storage.cpp`, `string_user.cpp`, `string_user_admin.cpp`, `user_cert_id.cpp`, `string_connection_option.cpp` | users, administrators, their certificates and issuers | registration, upgrade of a user, adding certificates, chains of issuers |
| string thread | `string_thread.cpp` | the user storage | requests of other modules for users and credentials |
| user interface | `user_cli_*`, `user_io_*` | registration requests | reading and parsing of commands |
| sockets, TLS, certificates | `linux_network_socket.cpp`, `tls_connection.cpp`, `crypto_*` | handles of the system and of GnuTLS | wrappers |
| utilities | `dynamic_pointer.h`, `vector_t.h`, `map_type.h`, `typesafe_class.h`, ... | none of their own | containers, typed pointers |

### How they interact

    main, CLI, protocol modules, TLS thread
            | PushMessage
            v
    global queue (its thread copies a message to the queues it is for)
            |                     |                    |
            v                     v                    v
      string thread         user I/O thread      protocol threads, one per end
      (user storage)                             (connection, state, TLS and
                                                  certificate modules)
                                                      |         |
                                                      SendData  ReceiveData
                                                      v         ^
                                                  network connection of the peer

A module never calls another one: it pushes a message, addressed to a module or
only bearing the sender's ID, and whoever is linked with the receiver or the
sender gets it.  The thread of a queue calls the handlers with the two mutexes
of its queue held.  Registration goes the other way, from the calling thread
through the two mutexes of the global queue into the two of the module's queue.
The two ends of a connection have a protocol thread each; in `main` both live in
one process and are connected by two dummy connections that write into each
other's buffers.

### What is hard, and what makes each part correct

* Queue thread: the worker reads the state twice and the size of the list once,
  all outside `_QueueLock`; pushes test `_AcceptMessages` and push in two steps;
  the owner pauses, restarts and destroys the thread meanwhile; a handler may
  throw, which ends the thread.  Correct: handlers one at a time, no pop from an
  empty list, nothing twice, nothing left behind by an orderly destruction, and
  what waits is handled.
* Global queue and managers: four kinds of mutexes taken by three kinds of
  threads, tables kept on two levels, and links that overlap.  Correct: no
  circular wait, handlers of registered modules only, tables that agree, one
  copy, in order, and every message handled.
* Connection state: both ends start, announce, follow, restart and end with
  messages crossing.  Correct: two ends at rest agree, no legal message is
  called illegal, no assertion fails, the negotiation ends.
* Protocol connection: frames in three writes, reads that stop anywhere, parsing
  that starts over at every call, and two mutexes of two partners.  Correct: the
  packets that were sent are the packets the modules get.
* TLS connection module: a thread that shares atomics and buffers with a module.
  Correct: no byte and no wake-up is lost, each attempt is answered by one
  result, and what fails is tried again as often as it should be.
* Protocol manager: creation and destruction take several calls each, while the
  global queue passes messages on, IDs come back after 256 instances, and a
  handler may be running or have ended its thread.  Correct: what is passed on
  reaches a queue that exists and accepts, an instance starts when it is
  complete, a stop leaves nothing behind and returns the right connection.
* User storage: an ID in exactly one of two vectors, no certificate lost or
  doubled by an upgrade, lookups that may not come back, and requests that
  throw.  Correct: one record per user, keys with administrators only, an answer
  of the right kind.
* Wrappers of handles (sessions, credentials, certificates, requests, keys,
  sockets): copies, moves, self-assignments, constructors that throw half way, and a
  `close` that fails.  Correct: a handle has one owner, is closed once, none is
  lost, and no object closes what another part of the program has open.
* User interface: a thread blocked in the terminal, told to stop from outside, and
  a parser reached through two hops.  Correct: lines are answered in order, and the
  destructor returns.
* Network connection: strings over a stream that takes and gives what it likes,
  with time limits.  Correct: what was written is what is read.

`PROJECT.json` lists every hazard at its line with the properties that answer it.

## 2. Modules

| module | what it is | main definitions and the code |
|---|---|---|
| `Mailbox` | abstract: what a queue thread promises a sender | `Deliver`, `Take`, `Finish` |
| `ThreadQueued` | the queue thread with all its threads | `Worker(w)`: `ThreadMessageFunction` step by step; `Producer(p)`: the assertion, the test and the push of `PushMessage`; `Owner`: states, `RestartThread` and the destructor statement by statement |
| `GlobalQueue` | the global queue, the queues registered with it, and their modules | `GlobalThread`: `PropagateMessageToQueues`; `QueueThread(q)`: `MessageCallback` and the handlers; `Client(c)`: the five registration calls; one action per mutex taken |
| `Channel` | abstract: what a protocol connection promises the modules of its two ends | `Send`, `Deliver` |
| `ConnectionState` | both ends of the negotiation | `PeerStarts`, `PeerMoves`, `PeerConfirms`, `PeerEnds`, `PeerIsIllegal`: `OnPeerStateChange`; `StartRequested`, `StepRequested`, `StepAsserted`, `EndRequested`: `OnInternalStateChangeRequest`; `Restart`: `OnRestartRequest` |
| `ProtocolConnection` | packets, frames and the dummy connection between two ends | `SendData`, `WriteLock`, `WriteCopy`: `SendData` and `Write`; `ReceiveHeader`, `ReceiveLength`, `ReceiveRest`, `ReceiveFrame`: `ReceiveData` between two reads; `ParsePart`, `ParseEnd`: `ParseReceivedData` |
| `NetworkConnection` | `ReadString`, `WriteString` and the timed reads and writes of the base class | `StartWrite`, `StartRead`: a call begins; `WriteStep`, `ReadStep`: one turn of its loop, with one call of the virtual `Write` or `Read` and the look at the clock after it; `WriteFails`, `ReadFails`: that call throws |
| `TLSModule` | the TLS module and the thread it starts | `Module`: the handlers of `ProtocolModuleTLSConnection`; `Thread`: `ThreadFcn`, and `Read` and `Write` of the base connection, one action per critical section and per atomic |
| `ProtocolManager` | the manager, its instances and what the global queue does with them | `Create`, `RegisterQueue`, `RegisterModule`, `RequestStart`: `CreateNewInstance`; `Stop` to `Release`: `StopInstance` and `~ProtocolThread`; `Deliver`, `Take`, `Handle`: the threads |
| `UserDirectory` | abstract: what the storage promises the string thread | for each user whether it is known, as what, and a growing set of certificates; what each request answers |
| `UserStorage` | the two vectors, the records, and every handler of the string thread | `Register`, `AddCert`, `AddAdminCert`: the storage's operations; `Authenticate`, `Verify`, `AuthenticateTLS`, `VerifyTLS`: the requests the thread answers; `Hangs`: a comparison of IDs that does not end |
| `Handles` | objects that own a handle of the system or of GnuTLS | one disjunct per class (`X509Certificate`, `X509CertificateRequest`, `X509PrivateKey`, `TLSSession`, `TLSCertificateCredentials`, `NetworkTCPSocket`, `NetworkSocketTCPServer`, `DynamicPointer`), put together from the constructors, assignments, `Close` or `Release`, destructors and failures it has; `UnmakeDerived`, `UnmakeBase`: the two destructors of a socket; `OthersOpen`: the rest of the program |
| `UserInterface` | terminal, reading thread, global queue, parser and register | `Start`, `Read`, `Push`, `Check`: the reading thread; `Construct`, `StopThread`, `Destroy`, `Destroyed`: its owner; `Forward`: the global queue; `HandleIO`, `HandleRead` (`ParseInput`): the threads of the register and the parser; `Ask`: a module that sends a request |
| `Lists` | a sequence with some elements erased | `Without`: loops that go through a vector and leave some elements out |
| `MC...` | values of constants for the runs | |
| `Lemmas` | facts about sequences and numbers that several proofs need | |
| `..._proofs` | theorems and proofs of the component; `Users_proofs` has those of `UserStorage` and `UserInterface`, `Connection_proofs` those of `NetworkConnection`, `ConnectionState` and `ProtocolConnection` | |

A module of proofs that extends several components needs different names for
their parts, so `UserInterface` has `ConsoleInit`, `ConsoleNext`, `ConsoleSpec`,
`NetworkConnection` has `CallsSpec` and `ConnectionState` has `NegotiationSpec`.

The modules are stacked rather than composed in one state machine.
`ThreadQueued` implements `Mailbox`; `GlobalQueue` uses a queue as a sequence
that is taken from in order, which is what `Mailbox` says, and models what comes
on top of it; `ConnectionState`, `ProtocolManager`, `TLSModule` and
`UserInterface` use the global queue and the connection as lines of messages in
order, which is what `InOrder` of `GlobalQueue` and `Channel`, which
`ProtocolConnection` implements, say.  `UserStorage` implements `UserDirectory`.
`PushMessageFront` is modelled in `ThreadQueued` only: no caller reaches it
through the global queue.

### Correspondence of state

* `ThreadQueued`: `queue`, `accept`, `state` are `_Messages`, `_AcceptMessages`
  and `_State`; `wpc` and `hand` are the place and the local message of each
  worker the constructor or `RestartThread` has started; `opc`, `ppc` are the
  places of the owner and of the producers.  `handled`, `failed`, `late`, `quiet`
  and `drained` are history.  Atomics are read and written in single steps; a
  failed assertion ends the process (`aborted`), since `silkstring.pro` does not
  define `NDEBUG`.
* `GlobalQueue`: `queues` and `mods` are `_Modules` of the two levels, `links` the
  two tables of each, in the order of the vectors, `linkLock` and `listLock` the
  mutexes, `inbox` the lists of messages.  What a thread does while it holds all
  the mutexes that guard it is one step; taking each mutex is a step of its own,
  and so is the call of each handler.
* `ConnectionState`: `state` and `peer` are the two states in
  `ProtocolThreadMemory`; `mail`, `requests` and `news` are the messages between
  the ends, those of the modules of an end, and the announcements to them.
  The module follows `protocol_module_connection_state.cpp`; the header
  `protocol_messages.h` of this commit no longer declares the `CLIENT_` and
  `SERVER_` states that file handles.  The certificate manager is not in the
  repository; the model takes from the assertions in
  `OnInternalStateChangeRequest` which request it makes on which announcement.
* `ProtocolConnection`: bytes are numbers.  A module's header is eight bytes in
  the program and two here, a name and a size; the frame around it is byte for
  byte that of the code.  `received` and `lock` are `_ReceivedData` and
  `_LockData` of an end's dummy connection, `pieces` what `SendData` has still
  to write. `HeaderModuleMap` is `_HeaderModuleMap` of each end, a `std::map`
  from the name of a header to one module, as registration has left it; a part
  whose name is not in it is dropped, as the loop at
  `protocol_connection_module.cpp:72` does.  (The comment above that loop, "Send
  data to all modules that requested it", can only ever mean one.)  The line of
  packets `Channel` has on their way to an end is not kept anywhere in the code:
  it is the packets its partner has written to the last byte, without those
  whose frames are in neither `_ReadBuffer` nor `_ReceivedData` any more; a
  frame that was taken and is still in `ParseReceivedData` is on its way.
* `NetworkConnection`: the stream between two ends is a sequence of bytes of two
  kinds and the zero byte that ends a string, `wire`; `writing` and `reading` are
  the calls the two ends are in, `left` what `InputSize - totalWriteSize` or
  `dataToWrite` says, `got` what is in `NetOutput` or `retString`.  `meant`,
  `given`, `partial` and `torn` are history.  The connection below takes or gives
  any number of bytes, or throws; a call with a limit may find its time up at
  each look at the clock.
* `TLSModule`: `stop` and `handshake` are the two atomics, `readBuffer`,
  `writeBuffer` and `inputs` the buffers, `mail` the queue of the module.
  Records are numbered as they are made, so that order and loss can be seen.
  GnuTLS is a choice: how many records a handshake writes and reads, and how it
  ends.  `peerSent`, `consumed`, `written`, `sent`, `ordered`, `begun` are history.
* `ProtocolManager`: instances are numbered in the order they are made and bear
  the number modulo `IDCount` as their ID; `connections`, `threads` and
  `instantiators` are the manager's containers, `registered`, `modules`, `inbox`,
  `accepts`, `state`, `memory` the parts of a `ProtocolThread`.  Of the locks of
  the global queue there is whether somebody keeps them for ever.
* `UserStorage`: `users` and `admins` are the two vectors, in order; a record is
  an ID and the sequences of its certificates.  What a certificate says (owner,
  issuer, key or not) is a constant function.  `status` is what has ended the
  thread: a failed assertion, an exception nothing catches, or a comparison that
  does not come back (`"stuck"`); `Same` is the comparison (see below).  The
  state of the abstract directory is computed from the vectors, not kept.
* `Handles`: `obj` is the handle an object holds, `open` whose each handle is
  (free, another part's of the program, the objects', or given away),
  `content` what an object stands for, `kind` the class of a behaviour's objects.
  A socket whose first destructor has failed to close is `dying` until its base's
  destructor has tried again.  `stray` is history: the numbers an object was left
  with, or dropped, after a failed close, and the 0 that the server's move
  assignment leaves in its source.  `Shut` is the kernel's `close`: it fails for a
  number that is not open, may fail for any other, and then the descriptor is gone
  or not; Linux does the former for most errors.
  What a class does in its own way (does assignment test for the object itself,
  what does a moved-from object hold, may a constructor throw half way) is a
  choice of operations in its disjunct.
* `UserInterface`: `reader` and `owner` are the places of the two threads,
  `stopThread` is `_StopThread`, `inHand` the line that was read; `global`, `cli`
  and `io` are the three queues, `requests` the register, `output` what is
  printed.  `read`, `late` and `early` are history.

## 3. Runs

`about` in `PROJECT.json` says the same in a sentence each.

| run | instance | shows | distinct states |
|---|---|---|---|
| `ThreadQueued_threads` | 3 messages, 1 urgent, 2 producers, 2 workers, handlers that may throw | one late message at most, the refinement of `Mailbox`, and two liveness properties | 130 000 |
| `GlobalQueue_safety` | 2 queues, 3 modules, 2 messages, overlapping links, 1 client with any 2 of all 5 calls, handlers that may throw | handlers of registered modules only, one copy and in order, sound and agreeing tables | 199 000 |
| `GlobalQueue_liveness` | the same with 2 clients, each registering or unregistering a module once | link tables that are stable while they are read, messages are handled, calls return | 134 000 |
| `ConnectionState_negotiation` | both ends, created in any order, up to 2 restarts, or 1 end | agreement at rest, no exception at the client and no failed assertion, completion, the end is reached | 57 000 |
| `ProtocolConnection_packets` | 2 packets each way, one of them for a name without a module, reads of any length | packets whole, once and in order, no byte lost, resumed reads, the refinement of `Channel`, arrival | 41 000 |
| `NetworkConnection_calls` | 2 writes and 3 reads, of strings and of bytes, with and without limits | bytes arrive in order, strings return | 47 000 |
| `TLSModule_handshakes` | 2 attempts, 2 records each way, 1 piece of data, 1 restart, destruction at any moment | both streams whole, no lost wake-up, handshakes and results counted, the destructor returns | 178 000 |
| `ProtocolManager_instances` | 3 instances with 2 IDs, 2 changes of the instantiators, 1 read, handlers that may throw | live queues only, connections belong to threads, complete starts, drained stops, every instance starts | 428 000 |
| `ProtocolManager_stop` | the lock that `UnregisterQueue` takes twice | violation: `StopInstance` never returns | 92 |
| `UserStorage_requests` | 3 users with 4 certificates, one of them three from the end of its chain; a comparison may not come back | one record per user, keys with administrators, the refinement of `UserDirectory` | 23 000 |
| `Handles_objects` | 3 objects of each of 8 classes, 4 numbers, closes that fail, others that open | one owner, nobody else's handle touched, nothing lost (all but for stray numbers), equal copies | 380 000 |
| `UserInterface_lines` | 3 lines of every kind, the end of input, 1 request | echoes in order, one more line at most after a stop, echoes arrive, the destructor returns | 459 000 |

### Bounds, and why they are enough

* `ThreadQueued`: two producers are what a race between pushes needs, three
  messages let one be handled, one wait and one be put in front.  Two workers
  (`MaxStarts = 2`) let an old and a new one meet; the theorems lift every one
  of these bounds.
* `GlobalQueue`: two queues are needed for copies and for two orders of mutexes;
  module `y` wants two things of one message, so that links overlap, and `xb` is
  linked with a module of its own queue, so that `MessageCallback` has more than
  one target.  Two calls let a registration meet the traces of an
  unregistration.  The theorems hold for any number of all of them.
* `ConnectionState`: the states are finite and the lines short, since an end
  waits for the other at most two states away; `Disturbances` bounds restarts
  and ends.  Two restarts are enough for restarts that cross, and the theorem
  holds for any number of them.  With two ends, or
  a restart and an end, in the same run `AgreeAtRest` does not hold: an
  end that is asked for while a start is under way is undone at one end and not
  at the other.  So the run has up to two restarts or one end, and the theorem
  speaks of the time until somebody asks for an end.
* `ProtocolConnection`: the first packet has a length of one digit and the
  second one of two; the second one's data contains an end character, a header
  and a colon, and one packet has no data at all.  The server has no module for
  one of the two names, so that a packet is dropped between others.  A read may
  stop after any byte, so longer packets add no new place to stop at.  The
  theorems hold for any packets.
* `NetworkConnection`: two writes, so that a string may follow another or follow
  plain bytes and a read may run from one into the other, and three reads, so that
  one more is asked for than is written.  The theorem lifts both bounds.
* `TLSModule`: two attempts are the smallest number with a retry, and a restart
  lets the counter start over between them; two records let a read take a part
  of a buffer.  The theorems lift these bounds.
* `ProtocolManager`: with two IDs the third instance meets the first one's ID, in
  use, freed or about to be; two changes of instantiators let one be registered
  twice over (a module with the ID of the thread's own among them) or taken away
  between two creations.  The theorems hold for any of these numbers.
* `UserStorage`: one user has two certificates, one issued by another user and
  itself the issuer of the third's, so that upgrades and chains of issuers all meet
  records that exist and records that do not.  The theorems hold for any users and
  certificates.
* `Handles`: three objects let one handle be moved on while a second waits for
  it; of four numbers one is open elsewhere from the start, and three let every
  object have one of its own or another part of the program take one in between.
  The theorems hold for any number of both.
* `UserInterface`: three lines let one be read, one wait and one be parsed.

`CHECK_DEADLOCK FALSE` stands where the system may stop: after a thread died with
its mutexes, when all calls that are bounded have been made, when both ends of a
connection are at rest or wait for each other.

### Constants that differ from the code

A constant stands where the program, as built, does nothing worth checking, and
says what it would do with one line repaired:

* `Relocks = FALSE` in `ProtocolManager_instances`; `TRUE` is the code, and
  `ProtocolManager_stop` shows what comes of it.
* `StopAtStart = FALSE` and `StateAtStart = "PERFORM"` in `TLSModule_handshakes`.
  `_StopThread` is initialised with true and never reset, so the thread ends
  before its loop, and nothing orders the first handshake.  The theorems hold for
  any values of the two.

### The comparison of IDs

`X509ID::operator==` (`crypto_x509_id.cpp:60-89`) never advances its iterators: it
says that two IDs differ when their first octets do, and loops for ever when they
are the same, as those of equal IDs are.  `UserStorage` has two constants for this.

* `ComparisonHangs = TRUE`, as written: a message may be the last one, because a
  comparison its handler makes never ends (`Hangs`).  Every handler looks for a
  record before it changes anything, so the storage stays as it is.  When the
  comparison ends all the same, the model lets the handler go on with the right
  answer, so its behaviours are those of the code as written and more.
* `EqualIDsNeverDiffer = TRUE`, as written: the only answer the loop ever gives is
  that two IDs differ, and it gives it for different ones only; the exception is a
  second ID that lies right behind the first in memory, whose beginning the loop
  takes for the end of the first, and that is excluded.  A C++ compiler may
  take a loop without effects to end, though: GCC 12 keeps it with `-O2`, and with
  `-O3` makes it answer `false`.  For such a build the constant is `FALSE`: nobody is
  ever found, and TLC finds `OneRecordPerUser` violated after two registrations of
  one user.
  `OneRecordPerUser` and the refinement of `UserDirectory` are stated for all other
  builds.

The theorems hold for both values of `ComparisonHangs`.  `StorageInvariant`, `Types`
and `Keys` hold for both values of `EqualIDsNeverDiffer`, too; `OneRecord` and
`StorageIsDirectory` assume that it is `TRUE`.

### Fairness

* `ThreadQueued`: weak fairness of each worker's loop, of a push that has begun
  and of an owner's call that has begun.  They run on threads of the system and
  block only on `_QueueLock`, which is held for a few statements.  Nothing obliges
  anybody to begin a call.  Both liveness properties except a worker that a
  handler's exception has ended.
* `GlobalQueue`: weak fairness of the threads of the queues and of clients that
  have begun a call.  A mutex that is given back is taken by somebody who waits;
  with a bounded number of calls nobody can be overtaken for ever, so weak
  fairness is enough.  Handlers return in this run: one that does not return
  stops its queue, as in the code.
* `ConnectionState`: ends are created, and an end that is up handles what waits
  for it, which is `EventuallyHandled` of the layers below.
* `ProtocolConnection`: each end's thread runs while it has something to do;
  `main` requests a read for ever.
* `TLSModule`: the queue's thread handles what waits, the module's own thread runs
  in a loop without a wait.  GnuTLS returns: a handshake does not outlast what the
  peer has sent, since a read of the empty buffer is the end of the connection.
* `ProtocolManager`: a call that has begun goes on, the global queue and the
  threads of instances run.
* `UserInterface` and `NetworkConnection`: the threads run, and a call that was
  begun goes on.  Nobody has to type, to write or to stop anything.

### What the violation shows

`global_message_queue_thread.cpp:57`: a second `_LockLinks.lock()` stands where the
mutex should be given back; the caller of `UnregisterQueue`, and with it
`ProtocolManager::StopInstance`, blocks for ever and the global queue with it.
The same function erases from the link tables of the queue under the global
queue's mutex (lines 52-55), while the queue's thread may be going through them:
`LinksStable` holds only without `UnregisterQueue`, and so says the theorem.

### Without a run of their own

What the properties leave out because the code does otherwise, each by name in the
property's comment:

* `thread_queued.h:142`: `PushMessage` tests `_AcceptMessages` and pushes in two
  steps.  Between them the destructor closes the queue, sees it empty and stops
  the thread; the message is never handled.  `QuietShutdownDrains` is what does
  hold.
* `thread_module_manager_multi_message.h:180`: `AddReceiverLink` on the global
  queue leaves the tables of the module's queue alone; the message arrives at
  the queue and no module is called.
* `protocol_module_connection_state.cpp:86`: the server has moved on from the
  credential transfer when the client's announcement of it arrives, and throws at
  a client that follows the protocol.
* `protocol_module_connection_state.cpp:340`: `OnRestartRequest` goes back to
  `PROTOCOL_STARTED` to "Later switch to next state" (line 339), creates the request
  for the switch and drops it, where every other request is pushed.  A connection
  that is restarted once it is up may come to rest with both ends in
  `PROTOCOL_STARTED`, and nothing is left that takes them on.  They do agree
  (`AgreeAtRest`), so neither notices; `NegotiationCompletes` is about connections
  nobody restarts.  A restart that is handled between a change and the
  certificate manager's request makes the assertions at lines 246, 260, 274 and
  288 fail (`NothingImpossible` speaks of undisturbed connections), and an end
  asked for in the middle of the start is undone by the start message that
  follows it (`EndReached` is stated for ends past their start).
* `network_dummy_connection.cpp:109`: `Write` locks its own end and then the
  partner's; two ends that write at the same time wait for each other, and the
  time limit is looked at between two calls only.  `Write` of no bytes throws with
  both mutexes locked (line 118), and after `Close` (line 65) the partner still
  points at the closed end.
* `protocol_module_tls_connection.cpp:267`: a failure is pushed before
  `TLS_HANDSHAKE_FAILED` is stored (line 271).  When the module handles it in
  between, its order to retry is overwritten: no handshake is tried again and no
  failure reported.  After a success the thread sends with `_BuffersLock` held
  (line 280) what the base connection takes the lock for once more, and sends the
  input buffer at that.
* `protocol_manager.cpp:66`: the queue counts as empty once its last message is
  taken; `_ThreadMemory` is destroyed while that message may still be handled.  A
  thread that has died of an exception never empties its queue, and the caller
  spins.  A request to start that is passed on after the stop may reach a later
  instance with the same ID.
* `protocol_thread_memory.cpp:8`: `AlreadyRegistered` of the header map does not
  advance past a first entry that differs, so that it never returns when another
  module has a name already.  The model of the connection starts with the map that
  is left; no property is about the registration.
* `linux_network_socket.cpp:255`: `Close` throws before it resets the number when
  `close` fails, and the destructors of `NetworkTCPSocket` (line 316) and of its base
  (line 236) both close the number again, which another thread may have got by
  then; `Close` of the server (line 422) does the same.  The server's move
  assignment (line 392) leaves 0, a valid descriptor, in the source.  The model does
  all of this, and `OneOwner`, `OthersUntouched` and `NothingLost` hold for every
  number but the `stray` ones, which come from these places only.
  Constructors that throw after they opened a handle lose it
  (`crypto_x509_certificate.cpp:189`, `crypto_x509_private_key.cpp:44`,
  `linux_network_socket.cpp:429`): `NothingLost` speaks of the time before.
  A session assigned to itself loses its content (`crypto_tls_session.cpp:24`),
  the credentials' move assignment drops the source's handle.
* `network_connection.cpp:62`: `WriteTimeout` gives every call of `Write` the
  beginning of the data; a connection that takes a part is sent it twice.
  `WriteString` may throw after a complete write, limits are counted in processor
  time, and `ReadString` returns the zero byte with the string, which the file's
  own test does not expect.
* `string_user_storage.cpp:226`: registering an administrator's ID as a plain
  user fails an assertion.  `AddIssuerCertificateChain` adds nothing, and a
  certificate may stay in both vectors of a record
  (`string_user_admin.cpp:136`).  An answer with an administrator leaves the
  certificates with keys behind, since it is copied as a plain user.
* The interface computes the ID of a grant and never calls
  `GrantRegistrationRequest`; no module sends registration requests; at the end of
  the input it pushes empty lines for ever; the link `main` makes brings requests
  to the parser, which reads them as lines.

## 4. Proofs

All proofs hold for every value of the constants that meets the named
assumptions of the modules.  Those keep kinds of values apart and say that bounds
are natural numbers; `ProtocolConnection` also assumes that a connection has two
ends and that the size of a packet fits into its header, as the program does.
`UserStorage` assumes that chains of issuers end (`ChainAssumption`): a certificate
is signed with one that was made before it.

No module has `RECURSIVE` operators, and `SelectSeq` is used where no proof needs
to know what it gives: the provers know it by its name only.  What a theorem is
about and is computed step by step is a recursive function.  What such a function
gives is proved by induction over a set of numbers (`AllNumbers` in `Lemmas`): the
numbers for which the claim holds contain zero and every successor.  So are the
lemmas on `Without`, `FlattenSeq`, the queues found for a message, numbers written
in digits, and functions that climb a chain (`ClimbsExist`, `ClimbsInduct`).

### ThreadQueued

`Invariance` proves the inductive invariant `IInv`.  None of the safety
properties is inductive: `HandlersSerialized` needs that only the newest worker
is not over, which needs the place of the owner in `RestartThread` (a new worker
is launched only after the old one's future was ready); `PopNeverEmpty` needs
that the one worker past the test is the only one that pops, and that a push
only lengthens the list; `AtMostOneLatePop` needs which worker is between the
two tests, and in which state it read; `QuietShutdownDrains` needs where the
producers were when the queue was closed; `MessagesNotDuplicated` needs that a
message is in one place of all.  From `IInv` follow `TypeCorrect`, `Serialized`,
`PopSafe`, `LatePopBound`, `QuietShutdown` and `NotDuplicated`.
`ImplementsMailbox` proves the refinement: initial states map to initial states
and, given `IInv`, every step is a step of the mailbox or leaves it alone.

### GlobalQueue

`Locking` proves that each mutex is held by exactly the threads whose place in
the code says so, with the parts of the types this needs.  It is the whole
argument of the rest: a module leaves `mods[q]` only under both mutexes of `q`,
which the thread of `q` holds while a handler runs (`HandlersRegistered`);
which mutexes are held at which place gives `OrderedLocks`; and the tables of `q`
change only under `_LockLinks` of `q` (`StableLinks`).  The last two assume that
`UnregisterQueue` is not among the calls: with it they are false.

`LinksAreSound` follows from `LinksInv`.  A table may lack what a module asked for
at one moment only: `UnregisterQueue` has taken links away and waits for the mutex
it already has, and from then on nobody sees the global tables again
(`LinksComplete`).  While a client is between the two levels of a registration,
what it has already written is in the tables (`CallsLinked`).

`MessagesInOrder` needs to say where a message is that has left the list of the
caller: `OrderInv` claims that there is a numbering `P` of the messages by their
pushes under which the global queue is a line of consecutive numbers, a queue has
one copy at most of what was passed on and none of what is still to be, and each
inbox, what its thread has in hand, and what each module has handled go up.  The
numbering is existential, so the proof of each action gives one: only a push
changes it.  `ReceiversOnce` shows that overlapping links find a queue once.

### ProtocolManager

`Invariance` ties three things together that the code keeps apart: what is in
`_Threads`, what is registered with the global queue, and how far the caller has
come.  Every thread in `_Threads` has a registered queue, except the one the
caller has just made, or is about to destroy (`ThreadsSound`); every registered
queue belongs to a thread in `_Threads` (`QueuesSound`).  That an ID which comes
back does no harm here rests on both: `RegisterQueue` refuses the ID exactly when
`emplace` has kept the old thread.  `QueuesAreLive` follows at once.
`StopsDrain` needs in addition that nothing reaches a queue that is not
registered, so that it stays empty between the wait and the end.

`ConnectionsAreOwn` rests on `Paired`: as long as no ID is in use twice, the
connections in the list are those of the threads in `_Threads`, and one more while
a stop has erased the thread and not yet the connection.  `StartsAreComplete` rests
on `StartInv`: of an instance with a new ID nobody can have sent a request to start
before `CreateNewInstance` has come to its end, and then it has the modules of all
instantiators there were, or it is not reached any more.  Both are stated for
IDs that are new or unique; a request that is passed on after a stop may reach a
later instance with the same ID.

### TLSModule

`WakeUps` is inductive with the types and the place of the thread: a record is
put into the buffer on the way to its announcement, a handler that takes the
announcement takes the whole buffer.  `SendsInOrder` is about the same two
buffers.  `OneAtATime` needs that a handshake which runs was stored as RUNNING
and that an open order is one more than were begun (`Running`).  The argument
holds though results are pushed before they are stored: an order given in between
may be lost, but never doubled.

`StreamsAreIntact`: the records the thread has consumed, those in the buffer and
those in the input are the numbers from one on without a gap (`Arrived`); the
numbers that follow are in the mail, in order, up to what the peer has sent.
`HandshakesAreCounted` bounds the orders by attempts and restarts.  The bound is
not inductive, because a restart in the mail has been counted and not yet reset
`attempts`: `Counted` says that for some number `h` of restarts already handled, and
some numbering of those still in the mail, the orders are at most those of `h`
restarts and the failures since.  `Quiet` says that a result that waits is the one
of the last order, and that a report is the last thing.

### UserStorage and Handles

`StorageInvariant` proves that records are what their types say, that keys are with
administrators and nobody else, and that the two vectors never list a user twice as
long as `EqualIDsNeverDiffer`.  It assumes nothing of the comparison: when equal IDs
are told apart nothing is found (`NothingFound`), a message adds a record or nothing
(`BlindStep`), and keys are still with administrators.  `Types` and `Keys` follow, and
`OneRecord` with that assumption.

`StorageIsDirectory` proves that `UserStorage` implements `UserDirectory` as
long as `EqualIDsNeverDiffer`; a comparison that never comes back (`HangsStep`)
ends the directory's thread and changes nothing.  The argument is about entries:
`Entry` says what the two vectors say of one user, that it is a peer or an
administrator with this record, or unknown.  Each operation changes the entry of
one user only (`Changed`), wherever the record is and wherever it goes: there is
a lemma for a record added to either vector, changed in it, or moved from one to
the other with the first key (`Promoted`).  The directory has what the entries
say, before a step and after it (`DirectorySees`, `Update`), so that a step is
compared with the directory's for one user.  For this the vectors of
certificates are what `CombinedAdminsIs` says they are.  The answers need that
lookups in all records find what the directory knows (`HeldIsKnown`), that
`AddIssuerCertificateChain` adds nothing (`NoIssuersAdded`), and that both
definitions of a chain of issuers, the list of the storage and the set of the
directory, have the same members (`Chains`), by induction along the chain.

In `Handles` the classes are made of twenty blocks, and there is a lemma for each
block and fact.  `OneOwner` is inductive with the types (`OwnershipIsUnique`): a close
that fails and a move of the server make the number they leave behind stray, a
number that is not stray has one holder, so the close that succeeds leaves it with
none, and what is opened was free, so nobody's.  `OthersAreUntouched` is an action
property and takes one step more: what an operation closes, if it is not stray, is
a handle its object holds, so the objects' and nobody else's.  `NothingIsLost` adds
that what was opened is held, with the exceptions the property names, and needs
`OneOwner`, for a handle that two objects held would be lost by the close of either.
`CopiesDoAgree` is an action property, and follows from who holds what before the
step; the classes that are copied have no stray numbers.

### NetworkConnection and UserInterface

`BytesArrive` says nothing of a call that is under way, so `Whole` and `Room` are
added to it: until a `Write` takes a part of its piece, a call has either all of
the piece to write, and the piece is the end of what was meant, or nothing; and a
read never has more than it asked for, which is what keeps the next length from
wrapping.  The rest is that cutting a sequence anywhere and joining the two parts
gives the sequence (`Cut`), and that a piece of one byte has nothing after its
end (`OneByte`), which is why `ReadString` reads byte by byte.

`AtMostOneMoreLine` is inductive with the places of the two threads: the flag is
cleared by the start of the reading thread and by the constructor only, and a line
read after a stop is on its way to the end of the loop with the flag still set.
A stop that comes before the thread has started is what the property leaves out.

`EchoesAreInOrder`: the lines under way are those in the parser's queue, those in
the global queue and the one being pushed, requests left out (`UnderWay`); they are
the last lines that were read, and the echoes shown are those of the lines before
(`FlowInv`).

### ConnectionState

`NegotiationInv` is an invariant of every behaviour; what it says beyond types is
said of undisturbed ones, without restarts and ends.  `Phases` names how far the two
ends are: nothing handled, one has started, the other has heard of it, both have
started at the same time, one is past the start, both are.  In each phase the
messages under way are known: towards the client they are a chain of moves that
lead, one by one, from the client's state to the server's (`Chain`), towards
the server only what the server ignores, and the client's last step when it is
ahead.  `NewsSound` adds that an announcement the certificate manager will answer
is the last one, and names the state the end is in, so that the request it makes is
one the module accepts.  With that no legal message is called illegal and no
assertion of a request fails (`UndisturbedIsLegal`), and ends with nothing left to
handle have both come as far as the implementation goes (`InvMoves`).  The
server's exception at line 86 is in the model; the invariant holds after it.

With restarts the phases are of no use: a restart may come in any of them, and
several may cross.  `RestInv` therefore says of each end apart what its state
means for what it heard last, what it said last and what it still owes, until
somebody asks for an end or an end is down: `Said` is the last line of its mail to
the peer, whether read or not, `LastTo` what it will have heard once its mail is
read, and `Owes` that an announcement or a request is left which takes it on.
`ServerSide` lists for each state of the server what these may be, `ClientSide` says
that the client is where the server took it last, one further, or starts anew,
and `Verification` that credentials which the server awaits an answer to are on
their way, with the client, or answered.  Every action is one of eight kinds of
turns (`Turn`): an end does nothing the other depends on, is confirmed, follows its
peer, falls back with it, meets it, starts anew, starts off, or leads.  So each of
the three parts is shown for the kinds of turns of one end and of the other, and
each action only to be of one kind.  At rest nothing is owed and the last line was
heard; then the three parts leave both ends done or both at their start.
`RestartsAgree` is that, for any number of restarts at any moments.

### ProtocolConnection

`PacketsGo` proves the inductive invariant of the connection.  For each direction
there are three numbers: the sender has written `s` bytes of the stream of all its
frames, the receiver has read `r` of them and taken `n` whole frames.  What is in
`_ReceivedData` are the bytes from `r` to `s`, what is in `_ReadBuffer` those from the
end of frame `n` to `r` (`HasRead`), what `SendData` has still to write those from
`s` to the end of its frame, cut in up to three pieces (`Gives`).  `_ReadLength` is
what is missing of the frame, as soon as the length field is complete (`Place`), and
the modules have their parts of the first `n` packets, the last of them perhaps
still in `ParseReceivedData` (`Hands`).

The steps of `ReceiveData` need that the beginning of a frame, cut anywhere, is
read as what it is: that it starts with the header, that the first colon after it
is the one after the length, whatever the data contain, that the digits before it
give back the size (the lemmas on `Decimal` and `Value`), and that the end is an end
character.  The rest is arithmetic on parts of a sequence (`Span` in `Lemmas`).
`PacketsArriveInOrder`, `StreamStaysIntact` and `PacketsAreTyped` follow, for any
packets of any length the header can state, and for reads that stop anywhere.

`ConnectionIsChannel` proves that the two ends implement `Channel`.  The
refinement mapping counts the frames an end has taken by the bytes that are
written and not yet taken, and frames are never empty, so there is one such
number: the `n` of `HasRead` (`FramesTakenIs`).  With it `OnTheWay` is a part of
the packets of the partner, from the first not handed on to the last written
whole (`OnTheWayIs`).  `SendData`, the mutex, all pieces of a frame but the
last, every read, the end of a frame and the end of `ParseReceivedData` change
neither end of it; the last piece appends a packet (`WriteCopySends`),
`ParsePart` takes the head and gives it to the one module the map has for its
name, or to none (`HandOverGives`).  For the first of these the invariant has to
say that a piece which is not the last leaves something of the frame to be
written, and for the second that a packet is taken after it was written
(`TakenIsWritten`).  What `PacketsInOrder` leaves open and `Channel` does not: a
packet reaches its module in one step and not before it is written whole, and no
module gets one before another has got what was sent earlier.

### Only model-checked

* Liveness everywhere: `EventuallyHandled`, `CallsReturn`, `DestructorReturns`,
  `NegotiationCompletes`, `EndReached`, `AllArrive`, `InstancesStart`, `EchoesArrive`
  and `StringsReturn`.  The proof system does not reason about fairness here.
* `AgreeAtRest` of `ConnectionState` after an end was asked for: the theorem has any
  number of restarts and no end.  With more than one end, or both, the property is
  false (section 3, bounds); what is left, one end and no restart, has finitely many
  states, and the run goes through all of them.

## 5. Plan

What comes next, most worthwhile first.

1. An abstract agreement that `ConnectionState` implements.
2. The transfer of data after a handshake, once the code has one that ends.
3. Closing and moving of dummy connections, once something calls it.

## 6. Not modelled

GnuTLS, system calls and the terminal, beyond what they may return; addresses
and their parsing; the generic containers: where a component depends on what one
of them does, that is part of the component's module.  Classes that nothing in
`main` reaches (`string_connection`, `string_tls_connection`,
`secure_connection`, `string_server`): `ExchangeIDs` is declared and not
defined, `ReceiveAcceptOrDecline` compares a string that keeps its zero byte,
one class is commented out.  The move operations of queues and managers
(`thread_message_queue.h:163`, `thread_module_manager.h:133`), which lock in the
opposite order of the copies or never unlock the source: only tests use them, on
queues nobody else knows.  Functions of the user storage that nothing calls:
`CombineWithStorage`, whose null test is the wrong way round
(`string_user_storage.cpp:344`: a call of a null pointer's method for a peer it
does not know, a second record for one it knows), `UpgradeToStringUserAdmin`,
`GenerateCompleteTLSCredentials`, `RemoveUserCert` and `Reset`.  The first
moments of a queue thread's construction (the constructor of the global queue
hands its state over as a thread ID, and the thread starts before its function
is set, `global_message_queue_thread.cpp:8`) and destructors that call their
base's destructor themselves, so that it runs twice
(`global_message_queue_thread.cpp:21`,
`thread_module_manager_multi_message.h:165`).  The certificates' verification
(`AddTrustCredentials` takes GnuTLS's count of certificates for an error), and
`SharedDynamicPointer`, whose payload is never freed.
