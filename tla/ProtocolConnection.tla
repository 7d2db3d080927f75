--------------------------- MODULE ProtocolConnection ---------------------------
(* The packets of a connection: ProtocolModuleSendHandle puts a header before *)
(* the data of a module, ProtocolNetworkConnection makes a frame of it and    *)
(* writes the frame in three pieces to a NetworkDummyConnection; the other    *)
(* end reads what has arrived, puts frames together again over any number of  *)
(* calls and ProtocolConnectionModule hands each part to the module that is   *)
(* registered for its name.                                                   *)
(*                                                                            *)
(* Each end is one protocol thread, which handles a message to send or a      *)
(* request to receive, one after the other. A Read returns at most what has   *)
(* arrived; as a socket may, it may return less.                              *)
EXTENDS Integers, Sequences, SequencesExt, FiniteSetsExt, Lists

CONSTANTS Sides,       \* the two ends of the connection
          Packets,     \* for each end, the packets [name, data] it sends
          Modules,     \* the modules that get parts of packets
          HeaderModuleMap, \* for each end, the module registered for a name
          None         \* not an end

ASSUME SidesAssumption ==
    /\ \E e, f \in Sides : e # f /\ Sides = {e, f}
    /\ None \notin Sides

\* protocol_header_t, here a byte for the name and one for the size of header
\* and data
Octets == 0..255
Part  == [name : Octets, data : Seq(Octets)]
HeaderSize == 2

\* The size of a packet fits into its header.
ASSUME PacketsAssumption ==
    /\ Packets \in [Sides -> Seq(Part)]
    /\ \A e \in Sides : \A i \in DOMAIN Packets[e] :
          HeaderSize + Len(Packets[e][i].data) \in Octets

\* HeaderModuleMap is a std::map: a name has one module or none. The modules
\* register, each for a name of its own, when the thread is built.
ASSUME MapAssumption ==
    \A e \in Sides : \E names \in SUBSET Octets :
        HeaderModuleMap[e] \in [names -> Modules]

VARIABLES received,    \* _ReceivedData of the connection of an end
          lock,        \* _LockData of the connection of an end: None or who has it
          pc,          \* where the protocol thread is
          next,        \* index of the packet being sent or to be sent next
          pieces,      \* what SendData has still to write
          buffer,      \* _ReadBuffer
          readLength,  \* _ReadLength
          rest,        \* what ParseReceivedData has not looked at yet
          inbox        \* for each end, the parts pushed to each module

sendVars == <<next, pieces>>
receiveVars == <<buffer, readLength, rest, inbox>>
vars == <<received, lock, pc, sendVars, receiveVars>>

Partner(e) == CHOOSE f \in Sides : f # e
-------------------------------------------------------------------------------
(* Octets and frames. *)

Header == <<68, 65, 84, 65>>    \* "DATA"
Colon  == 58                    \* ProtocolDataLengthEnd
Open   == 60                    \* ProtocolDataStart
Close  == 62                    \* ProtocolDataEnd
IsDigit(b) == b \in 48..57

\* std::to_string and std::stoi
Decimal[n \in Nat] == IF n < 10 THEN <<48 + n>>
                      ELSE Append(Decimal[n \div 10], 48 + (n % 10))
Value(digits) ==
    LET value[n \in 0..Len(digits)] ==
          IF n = 0 THEN 0 ELSE 10 * value[n - 1] + (digits[n] - 48)
    IN  value[Len(digits)]

\* Mutant: the header holds the size of the data alone
PrependHeaderDataSize(p) == <<p.name, Len(p.data)>> \o p.data

PrependHeader(p) == <<p.name, HeaderSize + Len(p.data)>> \o p.data

FrameHeader(data) == Header \o Decimal[Len(data)] \o <<Colon, Open>>
Frame(p) == LET data == PrependHeader(p)
            IN  FrameHeader(data) \o data \o <<Close>>

\* the length field: the bytes after the header up to the colon
ColonAt(b) == SelectInSubSeq(b, Len(Header) + 1, Len(b), LAMBDA x : x = Colon)
HasLength(b) == ColonAt(b) # 0
Digits(b) == SubSeq(b, Len(Header) + 1, IF HasLength(b) THEN ColonAt(b) - 1 ELSE Len(b))
DataSize(b) == Value(Digits(b))
DataAt(b) == ColonAt(b) + 2

\* dataSize + 1 less what is there after the start of the data
Missing(b) == DataSize(b) + 1 - (Len(b) - DataAt(b) + 1)
-------------------------------------------------------------------------------
Init ==
    /\ received = [e \in Sides |-> <<>>]
    /\ lock = [e \in Sides |-> None]
    /\ pc = [e \in Sides |-> "idle"]
    /\ next = [e \in Sides |-> 1]
    /\ pieces = [e \in Sides |-> <<>>]
    /\ buffer = [e \in Sides |-> <<>>]
    /\ readLength = [e \in Sides |-> 0]
    /\ rest = [e \in Sides |-> <<>>]
    /\ inbox = [e \in Sides |-> [m \in Modules |-> <<>>]]

Goto(e, where) == pc' = [pc EXCEPT ![e] = where]

\* SendData of the module and of the connection: header, data and end character
SendData(e) ==
    /\ pc[e] = "idle"
    /\ next[e] <= Len(Packets[e])
    /\ LET data == PrependHeader(Packets[e][next[e]])
       IN  pieces' = [pieces EXCEPT ![e] = <<FrameHeader(data), data, <<Close>>>>]
    /\ Goto(e, "write")
    /\ UNCHANGED <<received, lock, next, receiveVars>>

\* Write of the dummy connection: lock its own data ...
WriteLock(e) ==
    /\ pc[e] = "write"
    /\ lock[e] = None
    /\ lock' = [lock EXCEPT ![e] = e]
    /\ Goto(e, "copy")
    /\ UNCHANGED <<received, sendVars, receiveVars>>

\* Mutant: the own data stays locked
WriteCopyKeepsLock(e) ==
    /\ pc[e] = "copy"
    /\ lock[Partner(e)] = None
    /\ received' = [received EXCEPT ![Partner(e)] = @ \o Head(pieces[e])]
    /\ pieces' = [pieces EXCEPT ![e] = Tail(@)]
    /\ next' = [next EXCEPT ![e] = IF Len(pieces[e]) = 1 THEN @ + 1 ELSE @]
    /\ Goto(e, IF Len(pieces[e]) = 1 THEN "idle" ELSE "write")
    /\ UNCHANGED <<lock, receiveVars>>

\* ... and that of its partner, copy the piece there and unlock both. A dummy
\* takes the whole piece, so the loop of WriteTimeout is over.
WriteCopy(e) ==
    /\ pc[e] = "copy"
    /\ lock[Partner(e)] = None
    /\ received' = [received EXCEPT ![Partner(e)] = @ \o Head(pieces[e])]
    /\ lock' = [lock EXCEPT ![e] = None]
    /\ pieces' = [pieces EXCEPT ![e] = Tail(@)]
    /\ next' = [next EXCEPT ![e] = IF Len(pieces[e]) = 1 THEN @ + 1 ELSE @]
    /\ Goto(e, IF Len(pieces[e]) = 1 THEN "idle" ELSE "write")
    /\ UNCHANGED receiveVars

\* How many of len bytes a Read may return: none only if nothing is there
Readable(e, len) == IF len = 0 \/ received[e] = <<>> THEN {0}
                    ELSE 1..Min({len, Len(received[e])})

\* Mutant: the bytes of earlier calls are overwritten
ReadSoFarOverwrites(e, k) == SubSeq(received[e], 1, k)

ReadSoFar(e, k) == buffer[e] \o SubSeq(received[e], 1, k)

\* AttemptRead of len bytes that gets k
AttemptRead(e, len, k) ==
    /\ lock[e] = None
    /\ received' = [received EXCEPT ![e] = SubSeq(@, k + 1, Len(@))]
    /\ buffer' = [buffer EXCEPT ![e] = ReadSoFar(e, k)]
    /\ readLength' = [readLength EXCEPT ![e] = len - k]

\* ReceiveData reads on where the last call stopped and looks for the header.
\* The first check sees exactly four bytes. (Four that do not begin with the
\* first byte of the header are thrown away or, when that byte comes later, are
\* compared past the end of the buffer; SendData writes no such stream, and
\* NeverThrows shows that nothing but a header gets there.)
ReceiveHeader(e) ==
    /\ pc[e] = "idle"
    /\ LET len == IF Len(buffer[e]) < Len(Header) THEN Len(Header) - Len(buffer[e])
                  ELSE readLength[e]
       IN  \E k \in Readable(e, len) :
               LET b == ReadSoFar(e, k)
               IN  /\ AttemptRead(e, len, k)
                   /\ Goto(e, IF Len(b) < Len(Header) THEN "idle"
                              ELSE IF IsPrefix(Header, b) THEN "length" ELSE "thrown")
    /\ UNCHANGED <<lock, sendVars, rest, inbox>>

\* ... then for the length of the data and the start of the data, reading byte
\* by byte ...
ReceiveLength(e) ==
    /\ pc[e] = "length"
    /\ LET b == buffer[e]
           wellFormed == \A i \in DOMAIN Digits(b) : IsDigit(Digits(b)[i])
           atEnd == wellFormed /\ ColonAt(b) \in {0, Len(b)}
       IN  \/ /\ atEnd
              /\ \E k \in Readable(e, 1) : /\ AttemptRead(e, 1, k)
                                           /\ Goto(e, IF k = 0 THEN "idle" ELSE "length")
           \/ /\ ~atEnd
              /\ Goto(e, IF /\ wellFormed
                            /\ Digits(b) # <<>>
                            /\ b[ColonAt(b) + 1] = Open
                         THEN "data" ELSE "thrown")
              /\ UNCHANGED <<received, buffer, readLength>>
    /\ UNCHANGED <<lock, sendVars, rest, inbox>>

\* ... then for the rest of the data and the end character
ReceiveRest(e) ==
    /\ pc[e] = "data"
    /\ LET missing == Missing(buffer[e])
       IN  /\ missing > 0
           /\ \E k \in Readable(e, missing) :
                  /\ AttemptRead(e, missing, k)
                  /\ Goto(e, IF k < missing THEN "idle" ELSE "data")
    /\ UNCHANGED <<lock, sendVars, rest, inbox>>

\* A whole frame: the buffer is emptied and the data goes to ParseReceivedData
ReceiveFrame(e) ==
    /\ pc[e] = "data"
    /\ LET b == buffer[e]
           end == DataAt(b) + DataSize(b)
       IN  /\ Missing(b) <= 0
           /\ IF b[end] = Close
              THEN /\ rest' = [rest EXCEPT ![e] = SubSeq(b, DataAt(b), end - 1)]
                   /\ buffer' = [buffer EXCEPT ![e] = <<>>]
                   /\ readLength' = [readLength EXCEPT ![e] = Len(Header)]
                   /\ Goto(e, "parse")
              ELSE /\ Goto(e, "thrown")
                   /\ UNCHANGED <<rest, buffer, readLength>>
    /\ UNCHANGED <<received, lock, sendVars, inbox>>

\* a header that holds at least itself
AtPart(e) == Len(rest[e]) >= HeaderSize /\ rest[e][2] >= HeaderSize

\* Mutant: lower_bound for find, and the name it stops at is not looked at
HandOverToNext(e, part) ==
    LET map == HeaderModuleMap[e]
        after == {name \in DOMAIN map : name >= part.name}
    IN  IF after = {} THEN inbox
        ELSE [inbox EXCEPT ![e][map[Min(after)]] = Append(@, part)]

\* The part is pushed to the module registered for its name. The loop around
\* this goes on while the next entry has the same name, which in a std::map it
\* never has. Without an entry the part is dropped.
HandOver(e, part) ==
    LET map == HeaderModuleMap[e]
    IN  IF part.name \in DOMAIN map
        THEN [inbox EXCEPT ![e][map[part.name]] = Append(@, part)]
        ELSE inbox

\* ParseReceivedData hands the next part over ...
ParsePart(e) ==
    /\ pc[e] = "parse"
    /\ AtPart(e)
    /\ LET size == rest[e][2]
           part == [name |-> rest[e][1],
                    data |-> SubSeq(rest[e], HeaderSize + 1, size)]
       IN  IF size > Len(rest[e])
           THEN /\ Goto(e, "thrown")
                /\ UNCHANGED <<rest, inbox>>
           ELSE /\ inbox' = HandOver(e, part)
                /\ rest' = [rest EXCEPT ![e] = SubSeq(@, size + 1, Len(@))]
                /\ UNCHANGED pc
    /\ UNCHANGED <<received, lock, sendVars, buffer, readLength>>

\* ... until no header is left
ParseEnd(e) ==
    /\ pc[e] = "parse"
    /\ ~AtPart(e)
    /\ rest' = [rest EXCEPT ![e] = <<>>]
    /\ Goto(e, "idle")
    /\ UNCHANGED <<received, lock, sendVars, buffer, readLength, inbox>>

Receive(e) == \/ ReceiveHeader(e)
              \/ ReceiveLength(e)
              \/ ReceiveRest(e)
              \/ ReceiveFrame(e)
              \/ ParsePart(e)
              \/ ParseEnd(e)

Write(e) == WriteLock(e) \/ WriteCopy(e)

Thread(e) == SendData(e) \/ Write(e) \/ Receive(e)

Next == \E e \in Sides : Thread(e)

Spec == Init /\ [][Next]_vars

\* Each end's thread runs as long as it has something to do.
FairSpec == Spec /\ \A e \in Sides : WF_vars(Thread(e))
-------------------------------------------------------------------------------
TypeOK ==
    /\ received \in [Sides -> Seq(Octets)]
    /\ lock \in [Sides -> Sides \cup {None}]
    /\ pc \in [Sides -> {"idle", "write", "copy", "length", "data", "parse", "thrown"}]
    /\ next \in [Sides -> Nat]
    /\ pieces \in [Sides -> Seq(Seq(Octets))]
    /\ buffer \in [Sides -> Seq(Octets)]
    /\ readLength \in [Sides -> Nat]
    /\ rest \in [Sides -> Seq(Octets)]
    /\ inbox \in [Sides -> [Modules -> Seq(Part)]]

\* ReceiveData and ParseReceivedData throw when header, length, start, end or
\* size are wrong. However the stream of bytes is cut by the reads, what the
\* other end sends is never taken for malformed.
NeverThrows == \A e \in Sides : pc[e] # "thrown"

\* Every module gets the packets whose name is registered for it, each once,
\* whole and in the order in which the other end sent them, and no other packet.
Names(e, m) == {name \in DOMAIN HeaderModuleMap[e] : HeaderModuleMap[e][name] = m}
Unheard(e, m) == {p \in Part : p.name \notin Names(e, m)}
PacketsInOrder ==
    \A e \in Sides, m \in Modules :
        IsPrefix(inbox[e][m], Without(Packets[Partner(e)], Unheard(e, m)))

\* ReceiveData empties its buffer after a frame: nothing of the next frame may
\* be in it. What an end has sent is a number of whole frames the other end has
\* taken, then the part of one frame that is in the buffer, then what is on its
\* way, byte for byte.
Frames == [e \in Sides |-> [n \in 0..Len(Packets[e]) |->
              FlattenSeq([i \in 1..n |-> Frame(Packets[e][i])])]]
Written(e) == LET sending == Frames[e][IF pieces[e] = <<>> THEN next[e] - 1 ELSE next[e]]
           IN  SubSeq(sending, 1, Len(sending) - Len(FlattenSeq(pieces[e])))
NoByteLost ==
    \A e \in Sides : \E n \in 0..Len(Packets[Partner(e)]) :
        /\ Written(Partner(e)) = Frames[Partner(e)][n] \o buffer[e] \o received[e]
        /\ buffer[e] # <<>> =>
               n < Len(Packets[Partner(e)])
               /\ IsPrefix(Frames[Partner(e)][n] \o buffer[e], Frames[Partner(e)][n + 1])

\* A call that stops for want of data leaves the number of missing bytes in
\* _ReadLength for the next call, and reads no further than the frame.
Resumes ==
    \A e \in Sides :
        pc[e] = "idle" /\ Len(buffer[e]) >= Len(Header) /\ HasLength(buffer[e])
        /\ ColonAt(buffer[e]) < Len(buffer[e])
            => readLength[e] = Missing(buffer[e])

\* The stream of bytes survives being cut anywhere: nothing in it is lost or
\* taken for malformed, and every call goes on where the last one stopped.
StreamIntact == NeverThrows /\ NoByteLost /\ Resumes

\* What is on its way to an end: the packets whose frames the other has written,
\* but for those handed on, which are the frames taken from the stream so far
\* without the one that ParseReceivedData has still to look at.
FramesTaken(e) ==
    CHOOSE n \in 0..Len(Packets[Partner(e)]) :
        Len(Frames[Partner(e)][n]) = Len(Written(Partner(e))) - Len(buffer[e] \o received[e])
HandedOn(e) == IF rest[e] = <<>> THEN FramesTaken(e) ELSE FramesTaken(e) - 1
OnTheWay(e) == SubSeq(Packets[Partner(e)], HandedOn(e) + 1, next[Partner(e)] - 1)

\* For the modules the connection is a channel of whole packets: in one step a
\* packet goes to the module registered for its name, or is dropped when there is
\* none, not before the other end has written the last of it, and none before one
\* that was sent earlier.
Wire == INSTANCE Channel WITH
            Packet <- UNION {Range(Packets[e]) : e \in Sides},
            line <- [e \in Sides |-> OnTheWay(e)]
ImplementsChannel == Wire!Spec

\* Unless both ends wait for each other's mutex, every packet reaches the module
\* registered for its name at the receiving end.
Embraced == \A e \in Sides : pc[e] = "copy"
AllArrive ==
    []~Embraced =>
        \A e \in Sides, m \in Modules :
            <>(inbox[e][m] = Without(Packets[Partner(e)], Unheard(e, m)))
===============================================================================
