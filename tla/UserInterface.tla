----------------------------- MODULE UserInterface -----------------------------
(***************************************************************************)
(* The command line (user_cli_*.cpp, user_io_messages.h, and what main.cpp *)
(* sets up for it): a thread of its own reads lines and sends each one,    *)
(* through the global message queue, to the queue of the command line,     *)
(* whose thread parses it.  Requests for a registration go the same way to *)
(* the queue of the user interface, and by a link (main.cpp:86) to the     *)
(* parser as well.                                                         *)
(*                                                                         *)
(* A line is what SkipWhiteSpace and ReadWord make of it: a command and an *)
(* argument.  Nothing catches what a handler throws: the thread of the     *)
(* command line ends.                                                      *)
(***************************************************************************)
EXTENDS Naturals, Sequences, SequencesExt, Lists

CONSTANTS Lines,       \* lines the user may type
          Applicants,  \* IDs of users that ask to be registered
          Askers,      \* IDs of modules that send such requests
          MaxReads, MaxAsks   \* bounds on lines and requests

\* "id" is of a length and in digits StringUserID takes, "number" is not but in
\* digits, "huge" more than an int holds, "text" none of these
Line == [command : {"none", "echo", "listrequests", "grantrequests", "other"},
         argument : {"none", "id", "number", "huge", "text"}]

\* what getline leaves in the string at the end of the input
EmptyLine == [command |-> "none", argument |-> "none"]

ASSUME LinesAssumption == Lines \subseteq Line
ASSUME BoundsAssumption == MaxReads \in Nat /\ MaxAsks \in Nat

VARIABLES
  reader,      \* where the reading thread is in ReadFcn
  inHand,      \* the line it has read
  stopThread,  \* _StopThread
  owner,       \* what the owner of the reading thread is doing
  eof,         \* the input has ended
  global,      \* the global message queue
  cli,         \* the queue of UserCLIThread
  io,          \* the queue of UserIOThread
  parser,      \* the thread of the command line: "up", or what ended it
  requests,    \* _RegistrationRequests
  output,      \* what was written for the user
  read,        \* all lines that were read
  late,        \* how many of them since the thread was told to stop
  early,       \* the destructor was called before the thread had started
  asks         \* number of requests that were sent

readerVars == <<reader, inHand, stopThread, owner, eof, read, late, early>>
queues     == <<global, cli, io>>
parserVars == <<parser, requests, output>>
consoleVars == <<readerVars, queues, parserVars, asks>>

\* The thread is launched by the base class: it may run before the constructor
\* sets _StopThread.
ConsoleInit ==
  /\ reader = "starting" /\ inHand = EmptyLine
  /\ stopThread \in BOOLEAN /\ owner = "constructing" /\ eof = FALSE
  /\ global = <<>> /\ cli = <<>> /\ io = <<>>
  /\ parser = "up" /\ requests = <<>> /\ output = <<>>
  /\ read = <<>> /\ late = 0 /\ early = FALSE /\ asks = 0
--------------------------------------------------------------------------------
(* Messages and where they go. *)

\* IDs: a module of a queue and a thread
CLIReadID      == [module |-> "read", thread |-> 1]          \* of the parser
RegisterID     == [module |-> "registration", thread |-> 1]  \* of UserCLIThreadModuleRegister
RegistrationID == [module |-> "registration", thread |-> 0]  \* UserIORegistrationID

LineMessage(l)       == [receiver |-> CLIReadID, sender |-> "input", data |-> l]
RequestMessage(s, u) == [receiver |-> RegistrationID, sender |-> s, data |-> u]

\* Is the message of the type of those for id: the handler of the parser, which
\* goes by the number of the type, does not ask.
CheckMessageDataType(m, id) == m.receiver = id

\* The queues have one ID but for the thread, and the parser a link.
ToCLI(m) == m.receiver.thread = 1 \/ m.receiver = RegistrationID
ToIO(m)  == m.receiver.thread = 0

\* the global queue with a line in it
SentUrgently(l) == <<LineMessage(l)>> \o global
SentMoved(l)    == Append(global, LineMessage(EmptyLine))
Sent(l)         == Append(global, LineMessage(l))

\* A message of the global queue is handed on to the queues it is for.
Forward ==
  /\ global # <<>>
  /\ cli' = IF ToCLI(Head(global)) THEN Append(cli, Head(global)) ELSE cli
  /\ io' = IF ToIO(Head(global)) THEN Append(io, Head(global)) ELSE io
  /\ global' = Tail(global)
  /\ UNCHANGED <<readerVars, parserVars, asks>>

\* registration_request_message_t::CreateMessageFromSender, PushMessage
Ask(s, u) ==
  /\ asks < MaxAsks
  /\ asks' = asks + 1
  /\ global' = Append(global, RequestMessage(s, u))
  /\ UNCHANGED <<readerVars, cli, io, parserVars>>
--------------------------------------------------------------------------------
(* The reading thread and its owner. *)

ReaderOnly == UNCHANGED <<queues, parserVars, asks>>

\* ReadFcn clears the flag, also when it was set before the thread came to run.
Start ==
  /\ reader = "starting"
  /\ reader' = "reading"
  /\ stopThread' = FALSE
  /\ UNCHANGED <<inHand, owner, eof, read, late, early>> /\ ReaderOnly

\* getline, which at the end of the input returns at once, every time, since
\* the state of cin is cleared
Typed(l) == ~eof /\ Len(read) < MaxReads /\ l \in Lines
Ended(l) == eof /\ (Len(read) < MaxReads \/ stopThread) /\ l = EmptyLine
Read(l) ==
  /\ reader = "reading"
  /\ Typed(l) \/ Ended(l)
  /\ reader' = "pushing"
  /\ inHand' = l
  /\ read' = Append(read, l)
  /\ late' = IF stopThread THEN late + 1 ELSE late
  /\ UNCHANGED <<stopThread, owner, eof, early>> /\ ReaderOnly

EndOfInput ==
  /\ ~eof
  /\ eof' = TRUE
  /\ UNCHANGED <<reader, inHand, stopThread, owner, read, late, early>> /\ ReaderOnly

Push ==
  /\ reader = "pushing"
  /\ reader' = "checking"
  /\ global' = Sent(inHand)
  /\ UNCHANGED <<inHand, stopThread, owner, eof, read, late, early, cli, io, parserVars, asks>>

\* the condition of the loop, which comes after its body
CheckInput ==
  /\ reader = "checking"
  /\ reader' = IF stopThread /\ eof THEN "ended" ELSE "reading"
  /\ UNCHANGED <<inHand, stopThread, owner, eof, read, late, early>> /\ ReaderOnly
Check ==
  /\ reader = "checking"
  /\ reader' = IF stopThread THEN "ended" ELSE "reading"
  /\ UNCHANGED <<inHand, stopThread, owner, eof, read, late, early>> /\ ReaderOnly

OwnerStep(from, to) ==
  /\ owner = from
  /\ owner' = to
  /\ UNCHANGED <<reader, inHand, eof, read, late>> /\ ReaderOnly

Construct  == OwnerStep("constructing", "running") /\ stopThread' = FALSE /\ UNCHANGED early
StopThread == OwnerStep("running", "running") /\ stopThread' = TRUE /\ UNCHANGED early
DestroyOnly == OwnerStep("running", "waiting") /\ early' = (reader = "starting") /\ UNCHANGED stopThread
Destroy ==
  OwnerStep("running", "waiting") /\ early' = (reader = "starting") /\ stopThread' = TRUE
\* the future the class is derived from waits for the thread
Destroyed ==
  OwnerStep("waiting", "destroyed") /\ reader = "ended" /\ UNCHANGED <<stopThread, early>>
--------------------------------------------------------------------------------
(* The two queues of the user interface. *)

\* HandleRegistrationRequest: a request is recorded once, with all who sent it.
Recorded(m) ==
  IF \E i \in DOMAIN requests : requests[i].user = m.data
  THEN [i \in DOMAIN requests |->
          IF requests[i].user = m.data /\ ~Contains(requests[i].modules, m.sender)
          THEN [requests[i] EXCEPT !.modules = Append(@, m.sender)]
          ELSE requests[i]]
  ELSE Append(requests, [user |-> m.data, modules |-> <<m.sender>>])

\* The thread of the user interface has one module, the one that records
\* requests.  A message reaches it by its own ID, and it handles what is for
\* RegistrationID: nothing is for both.
HandleIO ==
  /\ io # <<>>
  /\ io' = Tail(io)
  /\ requests' = IF Head(io).receiver = RegisterID /\ CheckMessageDataType(Head(io), RegistrationID)
                 THEN Recorded(Head(io)) ELSE requests
  /\ UNCHANGED <<readerVars, global, cli, parser, output, asks>>

\* What ParseInput writes.  A number or an ID is looked up, and no request is
\* granted.
Shown(l) ==
  CASE l.command = "echo" -> <<[kind |-> "echo", what |-> l.argument]>>
    [] l.command = "listrequests" ->
         [i \in DOMAIN requests |-> [kind |-> "request", what |-> requests[i].user]]
    [] l.command = "grantrequests" /\ l.argument = "text" ->
         <<[kind |-> "error", what |-> "Invalid argument"]>>
    [] OTHER -> <<>>

\* IsNumber says TRUE of no argument at all, and std::stoi throws for it, and
\* for a number that is too large.
Throws(l) == l.command = "grantrequests" /\ l.argument \in {"none", "huge"}

ParseInput(l) ==
  IF Throws(l)
  THEN parser' = "threw" /\ UNCHANGED output
  ELSE output' = output \o Shown(l) /\ UNCHANGED parser

\* A request comes to the parser by the link, with the number of a line in its
\* type, and is taken for one: what the parser finds there may be an empty line
\* or no string at all.
MisreadRequest == parser' \in {"up", "crashed"} /\ UNCHANGED output

HandleRead ==
  /\ cli # <<>> /\ parser = "up"
  /\ cli' = Tail(cli)
  /\ IF Head(cli).receiver = CLIReadID THEN ParseInput(Head(cli).data) ELSE MisreadRequest
  /\ UNCHANGED <<readerVars, global, io, requests, asks>>
--------------------------------------------------------------------------------
ReaderNext == Start \/ Push \/ Check \/ \E l \in Lines \cup {EmptyLine} : Read(l)
OwnerNext  == Construct \/ StopThread \/ Destroy \/ Destroyed
QueueNext  == Forward \/ HandleIO \/ HandleRead

ConsoleNext ==
  \/ ReaderNext \/ OwnerNext \/ QueueNext \/ EndOfInput
  \/ \E s \in Askers, u \in Applicants : Ask(s, u)

\* The threads go on while they can; the user need not type anything, but at the
\* end of the input getline returns.
ConsoleFairness ==
  /\ WF_consoleVars(Start) /\ WF_consoleVars(Push) /\ WF_consoleVars(Check)
  /\ WF_consoleVars(eof /\ Read(EmptyLine))
  /\ WF_consoleVars(Construct) /\ WF_consoleVars(Destroyed)
  /\ WF_consoleVars(Forward) /\ WF_consoleVars(HandleIO) /\ WF_consoleVars(HandleRead)

ConsoleSpec == ConsoleInit /\ [][ConsoleNext]_consoleVars /\ ConsoleFairness
--------------------------------------------------------------------------------
(* Properties *)

Messages == [receiver : {CLIReadID}, sender : {"input"}, data : Line]
            \cup [receiver : {RegistrationID}, sender : Askers, data : Applicants]

\* what may be written: an argument, a user or an error message
Words == {"none", "id", "number", "huge", "text", "Invalid argument"} \cup Applicants
Displays == [kind : {"echo", "request", "error"}, what : Words]

\* Types of the variables.
ConsoleTypeOK ==
  /\ reader \in {"starting", "reading", "pushing", "checking", "ended"}
  /\ inHand \in Line /\ stopThread \in BOOLEAN /\ eof \in BOOLEAN
  /\ owner \in {"constructing", "running", "waiting", "destroyed"}
  /\ global \in Seq(Messages) /\ cli \in Seq(Messages) /\ io \in Seq(Messages)
  /\ parser \in {"up", "threw", "crashed"}
  /\ requests \in Seq([user : Applicants, modules : Seq(Askers)])
  /\ output \in Seq(Displays)
  /\ read \in Seq(Line) /\ late \in Nat /\ early \in BOOLEAN /\ asks \in 0..MaxAsks

\* the lines that ask for an echo, and the echoes that were written
OtherLines  == {l \in Line : l.command # "echo"}
OtherDisplays  == {o \in Displays : o.kind # "echo"}
EchoesRead  == Without(read, OtherLines)
EchoesShown == Without(output, OtherDisplays)

\* The user sees the echoes of the lines in the order they were typed in, each
\* once, whatever requests come in between (user_cli_input_thread.cpp:30-36 over
\* two queues to user_cli_thread_module_parser.cpp:61-66).
EchoesInOrder ==
  /\ Len(EchoesShown) <= Len(EchoesRead)
  /\ \A i \in DOMAIN EchoesShown : EchoesShown[i].what = EchoesRead[i].argument

\* Every line typed is answered, unless the parser has ended.
EchoesArrive ==
  \A n \in 1..MaxReads :
    Len(EchoesRead) >= n ~> (Len(EchoesShown) >= n \/ parser # "up")

\* Once the flag is set and the thread under way, it takes one more line at most
\* (user_cli_input_thread.cpp:47-52): that of the getline it is in.
AtMostOneMoreLine == late <= 1

\* At the end of the input the destructor returns, unless the thread had not yet
\* started when it was called and takes the request to stop back
\* (user_cli_input_thread.cpp:11-19, 45).
DestructorReturns == (owner = "waiting" /\ eof /\ ~early) ~> owner = "destroyed"
================================================================================
