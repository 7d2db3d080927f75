--------------------------- MODULE NetworkConnection ---------------------------
(***************************************************************************)
(* What NetworkConnection (network_connection.cpp) makes of the two calls  *)
(* every connection has, Read and Write, which give and take as many bytes *)
(* as they can: WriteTimeout, WriteString, ReadTimeout and ReadString.     *)
(* One end writes and the other reads.  A dummy connection takes every     *)
(* piece whole; a socket or a TLS connection may take a part of it         *)
(* (gnutls_record_send takes a record of 16 KiB at most), or fail.         *)
(*                                                                         *)
(* A call with a time limit looks at the clock between two calls of Read   *)
(* or Write, never inside one.  The clock is the processor time of the     *)
(* program: it may say that the time is up at any of these places.         *)
(***************************************************************************)
EXTENDS Naturals, Sequences, SequencesExt, FiniteSetsExt

CONSTANTS Bytes, End,         \* bytes, and the zero byte that ends a string
          Writes,             \* calls of the writing end
          Reads,              \* calls of the reading end
          MaxWrites, MaxReads \* bounds on their numbers

WriteCall == [op : {"WriteTimeout", "WriteString"}, data : Seq(Bytes), limited : BOOLEAN]
ReadCall  == [op : {"ReadTimeout", "ReadString"}, size : Nat, limited : BOOLEAN]

ASSUME CallsAssumption  == Writes \subseteq WriteCall /\ Reads \subseteq ReadCall
ASSUME EndAssumption    == End \notin Bytes
ASSUME BoundsAssumption == MaxWrites \in Nat /\ MaxReads \in Nat

NoCall == [op |-> "none"]

VARIABLES
  wire,     \* bytes on their way
  writing,  \* the call the writing end is in, or NoCall
  left,     \* what it has still to write: InputSize - totalWriteSize, dataToWrite
  meant,    \* the bytes of all calls of the writing end
  partial,  \* a Write has taken a part of its piece, or failed
  reading,  \* the call the reading end is in, or NoCall
  got,      \* what it has read: NetOutput, retString
  given,    \* what all calls of the reading end have given their callers
  torn,     \* a call has thrown with bytes in its hands
  writes, reads  \* numbers of calls

writerVars == <<writing, left, meant, partial, writes>>
readerVars == <<reading, got, given, torn, reads>>
callsVars == <<wire, writerVars, readerVars>>

CallsInit ==
  /\ wire = <<>>
  /\ writing = NoCall /\ left = 0 /\ meant = <<>> /\ partial = FALSE /\ writes = 0
  /\ reading = NoCall /\ got = <<>> /\ given = <<>> /\ torn = FALSE /\ reads = 0
--------------------------------------------------------------------------------
(* The writing end. *)

\* WriteString writes S.length()+1 bytes: the zero byte is one of them.
PieceNoEnd(w) == w.data
Piece(w) == IF w.op = "WriteString" THEN Append(w.data, End) ELSE w.data

StartWrite(w) ==
  /\ writing = NoCall /\ writes < MaxWrites
  /\ writing' = w
  /\ left' = Len(Piece(w))
  /\ meant' = meant \o Piece(w)
  /\ writes' = writes + 1
  /\ UNCHANGED <<wire, partial, readerVars>>

\* A call of Write that takes k of the bytes that are left.  Each call is given
\* the first bytes of the data again.
Take(k) ==
  /\ wire' = wire \o SubSeq(Piece(writing), 1, k)
  /\ left' = left - k
  /\ partial' = (partial \/ k < left)

\* A call returns when nothing is left, and returns or throws when the time is
\* up; WriteString throws then also if nothing is left.
AfterWrite == \/ /\ left' = 0 \/ writing.limited
                 /\ writing' = NoCall
              \/ /\ left' > 0
                 /\ UNCHANGED writing

WriteStep ==
  /\ writing # NoCall
  /\ \E k \in Min({1, left})..left : Take(k)
  /\ AfterWrite
  /\ UNCHANGED <<meant, writes, readerVars>>

WriteFails ==
  /\ writing # NoCall
  /\ writing' = NoCall
  /\ partial' = TRUE
  /\ UNCHANGED <<wire, left, meant, writes, readerVars>>
--------------------------------------------------------------------------------
(* The reading end. *)

StartRead(r) ==
  /\ reading = NoCall /\ reads < MaxReads
  /\ reading' = r
  /\ got' = <<>>
  /\ reads' = reads + 1
  /\ UNCHANGED <<wire, writerVars, given, torn>>

\* STRING_READ_LENGTH: a string is read byte by byte
StringReadLengthTwo == 2
StringReadLength == 1
Wanted == IF reading.op = "ReadString" THEN StringReadLength ELSE reading.size - Len(got)

\* what the loop of ReadString appends of the bytes it has read
UpToEnd(bytes) ==
  IF Contains(bytes, End) THEN SubSeq(bytes, 1, SelectInSeq(bytes, LAMBDA b : b = End)) ELSE bytes
Kept(bytes) == IF reading.op = "ReadString" THEN UpToEnd(bytes) ELSE bytes

Complete(bytes) ==
  IF reading.op = "ReadString" THEN Contains(bytes, End) ELSE Len(bytes) >= reading.size

\* the call gives its caller what it has read
Returns == reading' = NoCall /\ given' = given \o got' /\ UNCHANGED torn
\* the call throws, and what it has read is lost
Throws == reading' = NoCall /\ torn' = (torn \/ got' # <<>>) /\ UNCHANGED given

\* When the time is up, ReadTimeout returns what it has and ReadString throws.
AfterRead ==
  \/ Complete(got') /\ Returns
  \/ ~Complete(got') /\ reading.limited /\ IF reading.op = "ReadString" THEN Throws ELSE Returns
  \/ ~Complete(got') /\ UNCHANGED <<reading, given, torn>>

\* A call of Read gives what there is, or less; of nothing, nothing.
ReadStep ==
  /\ reading # NoCall
  /\ \E k \in Min({1, Wanted, Len(wire)})..Min({Wanted, Len(wire)}) :
       /\ wire' = SubSeq(wire, k + 1, Len(wire))
       /\ got' = got \o Kept(SubSeq(wire, 1, k))
  /\ AfterRead
  /\ UNCHANGED <<writerVars, reads>>

ReadFails ==
  /\ reading # NoCall
  /\ UNCHANGED got
  /\ Throws
  /\ UNCHANGED <<wire, writerVars, reads>>
--------------------------------------------------------------------------------
CallsNext ==
  \/ \E w \in Writes : StartWrite(w)
  \/ WriteStep \/ WriteFails
  \/ \E r \in Reads : StartRead(r)
  \/ ReadStep \/ ReadFails

\* A call that has begun goes on: the loops wait for nothing.
CallsFairness == WF_callsVars(WriteStep) /\ WF_callsVars(ReadStep)

CallsSpec == CallsInit /\ [][CallsNext]_callsVars /\ CallsFairness
--------------------------------------------------------------------------------
(* Properties *)

\* Types of the variables.
AllBytes == Bytes \cup {End}
CallsTypeOK ==
  /\ writing \in WriteCall \cup {NoCall} /\ reading \in ReadCall \cup {NoCall}
  /\ wire \in Seq(AllBytes) /\ meant \in Seq(AllBytes) /\ got \in Seq(AllBytes) /\ given \in Seq(AllBytes)
  /\ left \in Nat /\ partial \in BOOLEAN /\ torn \in BOOLEAN
  /\ writes \in 0..MaxWrites /\ reads \in 0..MaxReads

\* The callers of the reading end are given the bytes the callers of the writing
\* end handed over, all and in order, however strings and plain bytes are mixed
\* and wherever time limits cut the reading (network_connection.cpp:32-134): what
\* was given, what a call has in its hands and what is on the wire is what was
\* written so far, and nothing of it is left behind between two calls.  It holds
\* as long as every Write takes its piece whole and no ReadString gives up a string.
InHand == IF reading = NoCall THEN <<>> ELSE got

BytesArrive ==
  ~partial /\ ~torn => given \o InHand \o wire = SubSeq(meant, 1, Len(meant) - left)

\* A ReadString without a limit returns once its string is written, by a writer
\* without a limit, in one piece (network_connection.cpp:72-134).
StringsReturn ==
  (/\ writing # NoCall /\ writing.op = "WriteString"
   /\ reading # NoCall /\ reading.op = "ReadString")
    ~> (reading = NoCall \/ partial)
================================================================================
