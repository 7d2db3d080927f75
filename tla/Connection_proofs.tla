--------------------------- MODULE Connection_proofs ---------------------------
(***************************************************************************)
(* Proofs about a connection: the calls its ends read and write with       *)
(* (NetworkConnection), the state they negotiate (ConnectionState) and the *)
(* packets they exchange (ProtocolConnection).                             *)
(*                                                                         *)
(* The calls, for any strings, pieces, limits and numbers of calls: what is*)
(* read is what was written, in order, up to the first Write that takes a  *)
(* part of its piece and the first call that throws away what it has read. *)
(*                                                                         *)
(* The negotiation, whatever restarts and ends may be asked for later: as  *)
(* long as nobody asks for one, no end meets what it takes for impossible; *)
(* and until somebody asks for the end, however many restarts there are,   *)
(* two ends with nothing left to handle agree.                             *)
(*                                                                         *)
(* The packets, for any that fit their headers and any registration of     *)
(* modules: however the stream of bytes is cut, nothing in it is lost or   *)
(* taken for malformed, and the packets arrive whole and in order.  With   *)
(* the bytes hidden the two ends are a Channel: one line of packets each   *)
(* way, from which a packet goes to all the modules it is for in one step. *)
(***************************************************************************)
EXTENDS NetworkConnection, ConnectionState, ProtocolConnection, Lemmas,
        SequenceTheorems, TLAPS

\* The types; calls are those of the two ends.
Types ==
  /\ writing \in Writes \cup {NoCall} /\ reading \in Reads \cup {NoCall}
  /\ wire \in Seq(AllBytes) /\ meant \in Seq(AllBytes)
  /\ got \in Seq(AllBytes) /\ given \in Seq(AllBytes)
  /\ left \in Nat /\ partial \in BOOLEAN /\ torn \in BOOLEAN

\* Until a Write takes a part, a call has all of its piece still to write, and
\* the piece is the last of what was meant to be written.
Whole ==
  ~partial =>
    IF writing = NoCall THEN left = 0
    ELSE /\ left = Len(Piece(writing))
         /\ left <= Len(meant)
         /\ meant = SubSeq(meant, 1, Len(meant) - left) \o Piece(writing)

\* A write never has more left than its piece, nor a read more than it asked for.
Room ==
  /\ writing # NoCall => left <= Len(Piece(writing))
  /\ reading # NoCall /\ reading.op = "ReadTimeout" => Len(got) <= reading.size

CallsInv == Types /\ Whole /\ Room /\ BytesArrive
--------------------------------------------------------------------------------
(* Numbers and sequences. *)

\* The least of two numbers, and of three.
LEMMA MinOfTwo ==
  ASSUME NEW a \in Int, NEW b \in Int
  PROVE  Min({a, b}) \in {a, b} /\ Min({a, b}) <= a /\ Min({a, b}) <= b
<1>1. \E x \in {a, b} : \A y \in {a, b} : x =< y
  OBVIOUS
<1>2. QED
  BY <1>1 DEF Min

LEMMA MinOfThree ==
  ASSUME NEW a \in Int, NEW b \in Int, NEW c \in Int
  PROVE  Min({a, b, c}) \in {a, b, c}
<1>1. \E x \in {a, b, c} : \A y \in {a, b, c} : x =< y
  OBVIOUS
<1>2. QED
  BY <1>1 DEF Min

\* A sequence without what was added to it
LEMMA WithoutRest ==
  ASSUME NEW s \in Seq(AllBytes), NEW t \in Seq(AllBytes)
  PROVE  SubSeq(s \o t, 1, Len(s)) = s
<1>1. SubSeq(s \o t, 1, Len(s)) \in Seq(AllBytes) /\ Len(SubSeq(s \o t, 1, Len(s))) = Len(s)
  OBVIOUS
<1>2. \A i \in 1..Len(s) : SubSeq(s \o t, 1, Len(s))[i] = s[i]
  OBVIOUS
<1>3. QED
  BY <1>1, <1>2, SeqEqual

\* Two parts that agree with a sequence make it up ...
LEMMA Joined ==
  ASSUME NEW s \in Seq(AllBytes), NEW a \in Seq(AllBytes), NEW b \in Seq(AllBytes),
         Len(b) = Len(s) - Len(a),
         \A i \in 1..Len(a) : a[i] = s[i],
         \A i \in 1..Len(b) : b[i] = s[Len(a) + i]
  PROVE  a \o b = s
<1>1. a \o b \in Seq(AllBytes) /\ Len(a \o b) = Len(s)
  OBVIOUS
<1>2. ASSUME NEW i \in 1..Len(s)
      PROVE  (a \o b)[i] = s[i]
  <2>1. CASE i <= Len(a)
    BY <2>1
  <2>2. CASE i > Len(a)
    <3>1. i - Len(a) \in 1..Len(b) /\ Len(a) + (i - Len(a)) = i
      BY <2>2
    <3>2. (a \o b)[i] = b[i - Len(a)]
      BY <2>2
    <3>3. QED
      BY <3>1, <3>2
  <2>3. QED
    BY <2>1, <2>2
<1>3. QED
  BY <1>1, <1>2, SeqEqual

\* ... and so do what is taken off its front and what remains.
LEMMA Cut ==
  ASSUME NEW s \in Seq(AllBytes), NEW k \in 0..Len(s)
  PROVE  /\ SubSeq(s, 1, k) \in Seq(AllBytes)
         /\ SubSeq(s, k + 1, Len(s)) \in Seq(AllBytes)
         /\ Len(SubSeq(s, 1, k)) = k
         /\ SubSeq(s, 1, k) \o SubSeq(s, k + 1, Len(s)) = s
<1>1. SubSeq(s, 1, k) \in Seq(AllBytes) /\ Len(SubSeq(s, 1, k)) = k
  OBVIOUS
<1>2. /\ SubSeq(s, k + 1, Len(s)) \in Seq(AllBytes)
      /\ Len(SubSeq(s, k + 1, Len(s))) = Len(s) - k
      /\ \A i \in 1..Len(s) - k : SubSeq(s, k + 1, Len(s))[i] = s[k + i]
  <2>1. k + 1 \in Int /\ Len(s) \in Int /\ \A i \in k + 1..Len(s) : s[i] \in AllBytes
    OBVIOUS
  <2>2. \A i \in 1..Len(s) - k : k + 1 + i - 1 = k + i
    OBVIOUS
  <2>3. QED
    BY <2>1, <2>2, SubSeqProperties
<1>3. \A i \in 1..k : SubSeq(s, 1, k)[i] = s[i]
  OBVIOUS
<1>4. QED
  <2>1. Len(SubSeq(s, k + 1, Len(s))) = Len(s) - Len(SubSeq(s, 1, k))
    BY <1>1, <1>2
  <2>2. \A i \in 1..Len(SubSeq(s, 1, k)) : SubSeq(s, 1, k)[i] = s[i]
    BY <1>1, <1>3
  <2>3. \A i \in 1..Len(SubSeq(s, k + 1, Len(s))) :
           SubSeq(s, k + 1, Len(s))[i] = s[Len(SubSeq(s, 1, k)) + i]
    BY <1>1, <1>2
  <2>4. SubSeq(s, 1, k) \o SubSeq(s, k + 1, Len(s)) = s
    BY <1>1, <1>2, <2>1, <2>2, <2>3, Joined
  <2>5. QED
    BY <1>1, <1>2, <2>4

\* Nothing follows the end of a string in a piece of one byte.
LEMMA OneByte ==
  ASSUME NEW s \in Seq(AllBytes), Len(s) <= 1
  PROVE  UpToEnd(s) = s
<1>1. CASE ~Contains(s, End)
  BY <1>1 DEF UpToEnd
<1>2. CASE Contains(s, End)
  <2>1. Len(s) = 1 /\ s[1] = End
    <3>1. PICK i \in 1..Len(s) : s[i] = End
      BY <1>2 DEF Contains
    <3>2. Len(s) \in Nat /\ i \in Nat /\ 1 <= i /\ i <= Len(s)
      BY <3>1
    <3>3. Len(s) = 1 /\ i = 1
      BY <3>2
    <3>4. QED
      BY <3>1, <3>3
  <2>2. {i \in 1..Len(s) : s[i] = End} = {1}
    BY <2>1
  <2>3. Min({1}) = 1
    BY DEF Min
  <2>4. SelectInSeq(s, LAMBDA b : b = End) = 1
    BY <2>2, <2>3 DEF SelectInSeq
  <2>5. SubSeq(s, 1, 1) = s
    BY <2>1
  <2>6. QED
    BY <1>2, <2>4, <2>5 DEF UpToEnd
<1>3. QED
  BY <1>1, <1>2

\* The order of joining does not matter.
LEMMA Regroup ==
  ASSUME NEW s \in Seq(AllBytes), NEW t \in Seq(AllBytes), NEW u \in Seq(AllBytes)
  PROVE  (s \o t) \o u = s \o (t \o u)
BY ConcatAssociative

\* What a call of the writing end has to write
LEMMA PieceType == \A w \in Writes : Piece(w) \in Seq(AllBytes)
<1>1. SUFFICES ASSUME NEW w \in Writes PROVE Piece(w) \in Seq(AllBytes)
  OBVIOUS
<1>2. w.data \in Seq(Bytes)
  BY CallsAssumption DEF WriteCall
<1>3. w.data \in Seq(AllBytes) /\ End \in AllBytes
  BY <1>2 DEF AllBytes
<1>4. QED
  BY <1>3 DEF Piece

\* A call is not the lack of one.
LEMMA CallsAreCalls == NoCall \notin Writes /\ NoCall \notin Reads
BY CallsAssumption DEF NoCall, WriteCall, ReadCall
--------------------------------------------------------------------------------
(* The actions. *)

LEMMA CallsInitInv == CallsInit => CallsInv
<1>1. SUFFICES ASSUME CallsInit PROVE CallsInv
  OBVIOUS
<1>2. Types
  <2>1. /\ wire \in Seq(AllBytes) /\ meant \in Seq(AllBytes)
        /\ got \in Seq(AllBytes) /\ given \in Seq(AllBytes)
    BY <1>1 DEF CallsInit
  <2>2. QED
    BY <1>1, <2>1 DEF CallsInit, Types
<1>3. SubSeq(meant, 1, Len(meant) - left) = <<>>
  BY <1>1 DEF CallsInit
<1>4. given \o InHand \o wire = <<>>
  BY <1>1 DEF CallsInit, InHand
<1>5. QED
  BY <1>1, <1>2, <1>3, <1>4 DEF CallsInit, CallsInv, Whole, Room, BytesArrive

\* A call brings its piece; what is written so far stays what it was.
LEMMA StartWriteInv ==
  ASSUME CallsInv, NEW w \in Writes, StartWrite(w)
  PROVE  CallsInv'
<1>1. /\ Piece(w) \in Seq(AllBytes) /\ Len(Piece(w)) \in Nat /\ w # NoCall
      /\ writing = NoCall /\ writing' = w /\ left' = Len(Piece(w))
      /\ meant \in Seq(AllBytes) /\ meant' = meant \o Piece(w)
  BY PieceType, CallsAreCalls DEF CallsInv, Types, StartWrite
<1>2. SubSeq(meant', 1, Len(meant') - left') = meant
  <2>1. meant \in Seq(AllBytes) /\ Piece(w) \in Seq(AllBytes)
    BY <1>1
  <2>2. Len(meant \o Piece(w)) - Len(Piece(w)) = Len(meant)
    BY <2>1
  <2>3. SubSeq(meant \o Piece(w), 1, Len(meant)) = meant
    BY <2>1, WithoutRest
  <2>4. QED
    BY <1>1, <2>2, <2>3
<1>3. meant' \in Seq(AllBytes) /\ left' <= Len(meant')
  BY <1>1
<1>4. UNCHANGED <<wire, partial, reading, got, given, torn>>
  BY DEF StartWrite, readerVars
<1>5. Types' /\ Room'
  BY <1>1, <1>3, <1>4 DEF CallsInv, Types, Room
<1>6. Whole'
  BY <1>1, <1>2, <1>3 DEF Whole
<1>7. BytesArrive'
  <2>1. SUFFICES ASSUME ~partial, ~torn
                 PROVE  given \o InHand \o wire = meant
    BY <1>2, <1>4 DEF BytesArrive, InHand
  <2>2. left = 0 /\ Len(meant) - left = Len(meant)
    BY <1>1, <2>1 DEF CallsInv, Whole
  <2>3. SubSeq(meant, 1, Len(meant)) = meant
    BY <1>1, SubSeqFull
  <2>4. QED
    BY <2>1, <2>2, <2>3 DEF CallsInv, BytesArrive
<1>8. QED
  BY <1>5, <1>6, <1>7 DEF CallsInv

\* A piece that is taken whole completes what was meant to be written.
LEMMA WriteStepInv ==
  ASSUME CallsInv, WriteStep
  PROVE  CallsInv'
<1>1. writing \in Writes /\ Piece(writing) \in Seq(AllBytes) /\ Len(Piece(writing)) \in Nat
  BY PieceType DEF CallsInv, Types, WriteStep
<1>2. PICK k \in Min({1, left})..left : Take(k)
  BY DEF WriteStep
<1>3. left \in Nat /\ left <= Len(Piece(writing)) /\ k \in 0..left
  <2>1. left \in Nat /\ left <= Len(Piece(writing))
    BY DEF CallsInv, Types, Room, WriteStep
  <2>2. Min({1, left}) \in {1, left}
    BY <2>1, MinOfTwo
  <2>3. QED
    BY <1>2, <2>1, <2>2
<1>4. /\ wire' = wire \o SubSeq(Piece(writing), 1, k)
      /\ left' = left - k /\ left' \in Nat
      /\ partial' \in BOOLEAN /\ (~partial' => ~partial /\ ~(k < left))
  <2>1. partial \in BOOLEAN /\ partial' = (partial \/ k < left)
    BY <1>2 DEF Take, CallsInv, Types
  <2>2. partial' \in BOOLEAN /\ (~partial' => ~partial /\ ~(k < left))
    BY <2>1
  <2>3. wire' = wire \o SubSeq(Piece(writing), 1, k) /\ left' = left - k
    BY <1>2 DEF Take
  <2>4. QED
    BY <1>3, <2>2, <2>3
<1>5. UNCHANGED <<meant, reading, got, given, torn>>
  BY DEF WriteStep, readerVars
<1>6. writing' \in {writing, NoCall} /\ (left' = 0 => writing' = NoCall)
  BY <1>3, <1>4 DEF WriteStep, AfterWrite
<1>7. ASSUME ~partial'
      PROVE  /\ left' = 0 /\ k = Len(Piece(writing)) /\ left = k
             /\ SubSeq(Piece(writing), 1, k) = Piece(writing)
             /\ meant = SubSeq(meant, 1, Len(meant) - left) \o Piece(writing)
  <2>1. ~partial /\ k = left
    BY <1>3, <1>4, <1>7
  <2>2. k = Len(Piece(writing)) /\ meant = SubSeq(meant, 1, Len(meant) - left) \o Piece(writing)
    BY <2>1 DEF CallsInv, Whole, WriteStep
  <2>3. QED
    BY <1>1, <1>4, <2>1, <2>2, SubSeqFull
<1>8. Types'
  <2>1. k \in 0..Len(Piece(writing)) /\ SubSeq(Piece(writing), 1, k) \in Seq(AllBytes)
    BY <1>1, <1>3, Cut
  <2>2. wire' \in Seq(AllBytes)
    BY <1>4, <2>1 DEF CallsInv, Types
  <2>3. QED
    BY <1>4, <1>5, <1>6, <2>2 DEF CallsInv, Types
<1>9. Whole' /\ Room'
  BY <1>1, <1>3, <1>4, <1>5, <1>6, <1>7 DEF CallsInv, Whole, Room
<1>10. BytesArrive'
  <2>1. SUFFICES ASSUME ~partial', ~torn
                 PROVE  given \o InHand \o wire' = SubSeq(meant, 1, Len(meant) - left')
    BY <1>5 DEF BytesArrive, InHand
  <2>2. meant \in Seq(AllBytes) /\ left' = 0 /\ Len(meant) - left' = Len(meant)
    <3>1. left' = 0
      BY <1>7, <2>1
    <3>2. meant \in Seq(AllBytes) /\ Len(meant) \in Nat
      BY DEF CallsInv, Types
    <3>3. QED
      BY <3>1, <3>2
  <2>3. SubSeq(meant, 1, Len(meant) - left') = meant
    BY <2>2, SubSeqFull
  <2>4. wire' = wire \o Piece(writing)
    BY <1>4, <1>7, <2>1
  <2>5. given \o InHand \o wire = SubSeq(meant, 1, Len(meant) - left)
    BY <1>4, <2>1 DEF CallsInv, Types, BytesArrive
  <2>6. given \o InHand \in Seq(AllBytes) /\ wire \in Seq(AllBytes)
    BY DEF CallsInv, Types, InHand
  <2>7. given \o InHand \o wire' = (given \o InHand \o wire) \o Piece(writing)
    <3>1. (given \o InHand) \o (wire \o Piece(writing))
             = ((given \o InHand) \o wire) \o Piece(writing)
      BY <1>1, <2>6, Regroup
    <3>2. QED
      BY <2>4, <3>1
  <2>8. QED
    BY <1>7, <2>1, <2>3, <2>5, <2>7
<1>11. QED
  BY <1>8, <1>9, <1>10 DEF CallsInv

\* From here on nothing is said of the bytes.
LEMMA WriteFailsInv ==
  ASSUME CallsInv, WriteFails
  PROVE  CallsInv'
BY DEF CallsInv, Types, Whole, Room, BytesArrive, WriteFails, readerVars

\* A read that begins has nothing in its hands.
LEMMA StartReadInv ==
  ASSUME CallsInv, NEW r \in Reads, StartRead(r)
  PROVE  CallsInv'
<1>1. /\ reading = NoCall /\ reading' = r /\ got' = <<>> /\ r \in ReadCall
      /\ UNCHANGED <<wire, writing, left, meant, partial, given, torn>>
  BY CallsAssumption DEF StartRead, writerVars
<1>2. InHand' = InHand
  BY <1>1 DEF InHand
<1>3. r.size \in Nat
  BY <1>1 DEF ReadCall
<1>4. Types'
  BY <1>1 DEF CallsInv, Types
<1>5. Whole'
  BY <1>1 DEF CallsInv, Whole
<1>6. Room'
  BY <1>1, <1>3 DEF CallsInv, Room
<1>7. BytesArrive'
  BY <1>1, <1>2 DEF CallsInv, BytesArrive
<1>8. QED
  BY <1>4, <1>5, <1>6, <1>7 DEF CallsInv

\* What comes off the wire is in the hands of the call, or given, or the call
\* throws with nothing in its hands.
LEMMA ReadStepInv ==
  ASSUME CallsInv, ReadStep
  PROVE  CallsInv'
<1>1. /\ reading \in ReadCall /\ reading \in Reads /\ reading # NoCall
      /\ wire \in Seq(AllBytes) /\ got \in Seq(AllBytes) /\ given \in Seq(AllBytes)
  BY CallsAssumption DEF CallsInv, Types, ReadStep
<1>2. /\ reading.size \in Nat /\ reading.op \in {"ReadTimeout", "ReadString"}
      /\ Len(wire) \in Nat /\ Len(got) \in Nat
  BY <1>1 DEF ReadCall
<1>3. Wanted \in Nat /\ (reading.op = "ReadString" => Wanted = 1)
  BY <1>1, <1>2 DEF Wanted, StringReadLength, CallsInv, Room
<1>4. PICK k \in Min({1, Wanted, Len(wire)})..Min({Wanted, Len(wire)}) :
               /\ wire' = SubSeq(wire, k + 1, Len(wire))
               /\ got' = got \o Kept(SubSeq(wire, 1, k))
  BY DEF ReadStep
<1>5. k \in 0..Len(wire) /\ k <= Wanted
  <2>1. Min({1, Wanted, Len(wire)}) \in {1, Wanted, Len(wire)}
    BY <1>2, <1>3, MinOfThree
  <2>2. /\ Min({Wanted, Len(wire)}) \in {Wanted, Len(wire)}
        /\ Min({Wanted, Len(wire)}) <= Wanted /\ Min({Wanted, Len(wire)}) <= Len(wire)
    <3>1. Wanted \in Int /\ Len(wire) \in Int
      BY <1>2, <1>3
    <3>2. QED
      BY <3>1, MinOfTwo
  <2>3. QED
    BY <1>2, <1>3, <2>1, <2>2
<1> DEFINE front == SubSeq(wire, 1, k)
<1>6. /\ front \in Seq(AllBytes) /\ Len(front) = k
      /\ wire' \in Seq(AllBytes) /\ front \o wire' = wire
  BY <1>1, <1>4, <1>5, Cut
<1>7. Kept(front) = front
  <2>1. CASE reading.op = "ReadString"
    BY <1>3, <1>5, <1>6, <2>1, OneByte DEF Kept
  <2>2. CASE reading.op # "ReadString"
    BY <2>2 DEF Kept
  <2>3. QED
    BY <2>1, <2>2
<1>8. got' = got \o front /\ got' \in Seq(AllBytes) /\ Len(got') = Len(got) + k
  <2>1. got' = got \o front
    BY <1>4, <1>7
  <2>2. QED
    BY <1>1, <1>6, <2>1
<1>9. UNCHANGED <<writing, left, meant, partial>>
  BY DEF ReadStep, writerVars
<1>10. \/ reading' = NoCall /\ given' = given \o got' /\ torn' = torn
       \/ reading' = NoCall /\ given' = given /\ torn' = (torn \/ got' # <<>>)
       \/ reading' = reading /\ given' = given /\ torn' = torn
  BY DEF ReadStep, AfterRead, Returns, Throws
<1>11. given \o got' \o wire' = given \o got \o wire
  <2>1. got \o wire = (got \o front) \o wire'
    <3>1. (got \o front) \o wire' = got \o (front \o wire')
      BY <1>1, <1>6, Regroup
    <3>2. QED
      BY <1>6, <3>1
  <2>2. given \o (got \o wire) = given \o (got' \o wire')
    BY <1>8, <2>1
  <2>3. QED
    <3>1. (given \o got) \o wire = given \o (got \o wire)
      BY <1>1, Regroup
    <3>2. (given \o got') \o wire' = given \o (got' \o wire')
      BY ZenonT(60), <1>1, <1>6, <1>8, Regroup
    <3>3. QED
      BY <2>2, <3>1, <3>2
<1>12. Types'
  <2>1. reading' \in Reads \cup {NoCall} /\ torn' \in BOOLEAN
    <3>1. torn \in BOOLEAN
      BY DEF CallsInv, Types
    <3>2. QED
      BY <1>1, <1>10, <3>1
  <2>2. given' \in Seq(AllBytes)
    <3>1. given \o got' \in Seq(AllBytes)
      BY <1>1, <1>8
    <3>2. given' \in {given, given \o got'}
      BY <1>10
    <3>3. QED
      BY <1>1, <3>1, <3>2
  <2>3. QED
    BY <1>6, <1>8, <1>9, <2>1, <2>2 DEF CallsInv, Types
<1>13. Whole' /\ Room'
  <2>1. reading.op = "ReadTimeout" => Len(got') <= reading.size
    BY <1>1, <1>2, <1>5, <1>8 DEF Wanted, CallsInv, Room
  <2>2. QED
    BY <1>9, <1>10, <2>1 DEF CallsInv, Whole, Room
<1>14. BytesArrive'
  <2>1. SUFFICES ASSUME ~partial, ~torn'
                 PROVE  given' \o InHand' \o wire' = given \o got \o wire
    BY <1>1, <1>9, <1>10 DEF CallsInv, BytesArrive, InHand
  <2>2. CASE reading' = NoCall /\ given' = given \o got'
    <3>1. InHand' = <<>> /\ given' \in Seq(AllBytes)
      BY <1>1, <1>8, <2>2 DEF InHand
    <3>2. given' \o <<>> = given'
      BY <3>1
    <3>3. QED
      BY <1>11, <2>2, <3>1, <3>2
  <2>3. CASE reading' = NoCall /\ given' = given /\ torn' = (torn \/ got' # <<>>)
    <3>1. got' = <<>>
      BY <2>1, <2>3
    <3>2. InHand' = <<>>
      BY <2>3 DEF InHand
    <3>3. QED
      BY <1>11, <2>3, <3>1, <3>2
  <2>4. CASE reading' = reading /\ given' = given
    BY <1>1, <1>11, <2>4 DEF InHand
  <2>5. QED
    BY <1>10, <2>2, <2>3, <2>4
<1>15. QED
  BY <1>12, <1>13, <1>14 DEF CallsInv

\* A call that fails with nothing in its hands loses nothing.
LEMMA ReadFailsInv ==
  ASSUME CallsInv, ReadFails
  PROVE  CallsInv'
<1>1. /\ reading # NoCall /\ reading' = NoCall /\ got' = got /\ given' = given
      /\ UNCHANGED <<wire, writing, left, meant, partial>>
  BY DEF ReadFails, Throws, writerVars
<1>2. torn \in BOOLEAN /\ torn' = (torn \/ got # <<>>)
  BY DEF CallsInv, Types, ReadFails, Throws
<1>3. torn' \in BOOLEAN /\ (~torn' => ~torn /\ got = <<>>)
  BY <1>2
<1>4. Types' /\ Whole' /\ Room'
  BY <1>1, <1>3 DEF CallsInv, Types, Whole, Room
<1>5. InHand = got /\ InHand' = <<>>
  BY <1>1 DEF InHand
<1>6. BytesArrive'
  BY <1>1, <1>3, <1>5 DEF CallsInv, BytesArrive
<1>7. QED
  BY <1>4, <1>6 DEF CallsInv

\* Every step preserves the invariant.
LEMMA CallsNextInv == CallsInv /\ [CallsNext]_callsVars => CallsInv'
<1>1. SUFFICES ASSUME CallsInv, [CallsNext]_callsVars PROVE CallsInv'
  OBVIOUS
<1>2. CASE UNCHANGED callsVars
  BY <1>1, <1>2 DEF CallsInv, Types, Whole, Room, BytesArrive, InHand, callsVars, writerVars,
     readerVars
<1>3. QED
  BY <1>1, <1>2, StartWriteInv, WriteStepInv, WriteFailsInv, StartReadInv, ReadStepInv,
     ReadFailsInv DEF CallsNext

\* Whatever strings and plain bytes are written and read, in whatever calls and
\* with whatever limits, the callers of the reading end get them in order.
THEOREM BytesAreGiven == CallsSpec => []BytesArrive
<1>1. CallsInit => CallsInv
  BY CallsInitInv
<1>2. CallsInv /\ [CallsNext]_callsVars => CallsInv'
  BY CallsNextInv
<1>3. CallsInv => BytesArrive
  BY DEF CallsInv
<1>4. QED
  BY <1>1, <1>2, <1>3, PTL DEF CallsSpec
--------------------------------------------------------------------------------
(* The negotiation. *)

Moves == {"CRED", "REG", "CTLS", "SCRED", "STLS"}

\* The changes the certificate manager of an end answers, and what it asks for
Answered(s) == IF s = "client" THEN {"SCRED"} ELSE {"CRED", "REG", "CTLS"}
Asks(s) == IF s = "client" THEN {"STLS"} ELSE {"REG", "CTLS", "SCRED"}

\* An end that has handled nothing; one that has taken its request to start;
\* one that has heard of its peer's start before; one in the negotiation, where
\* a request is waiting in the state it is meant for only.
Fresh(s) ==
  /\ state[s] = "UNDEFINED" /\ peer[s] = "UNDEFINED" /\ news[s] = <<>>
  /\ requests[s] = IF created[s] THEN <<"STARTED">> ELSE <<>>
Called(s) == created[s] /\ state[s] = "STARTED" /\ requests[s] = <<>>
Heard(s) ==
  created[s] /\ state[s] = "STARTED" /\ requests[s] = <<"STARTED">> /\ peer[s] = "STARTED"
Past(s) ==
  /\ created[s] /\ state[s] \in Moves
  /\ \/ requests[s] = <<>>
     \/ \E r \in Asks(s) : requests[s] = <<r>> /\ state[s] \in Grants(r)

\* A change that will be answered is the last one and the state the end is in.
NewsSound(s) ==
  \A i \in DOMAIN news[s] : news[s][i] \in Answered(s) =>
     i = Len(news[s]) /\ news[s][i] = state[s] /\ requests[s] = <<>>

\* What is on its way to the client leads from the state it is in to the
\* server's, step by step; only the first message may name the state itself.
Joins(p, n) == p \in Follows("client", n) \/ (p = n /\ n \in {"STARTED", "CRED"})
Chain(p, w) ==
  \A i \in DOMAIN w : IF i = 1 THEN Joins(p, w[1]) ELSE w[i - 1] \in Follows("client", w[i])
ClientChain ==
  /\ Chain(state["client"], mail["client"])
  /\ mail["client"] # <<>> => mail["client"][Len(mail["client"])] = state["server"]

\* How far the two ends are: nothing handled; one has started; the other has
\* heard of it; both have started at the same time; one is past the start; both
\* are, and the client is behind, with nothing to hear only where both are in
\* the same state or the client is one ahead.
Start1 == Fresh("client") /\ Fresh("server") /\ mail["client"] = <<>> /\ mail["server"] = <<>>
Start2(s) == Called(s) /\ Fresh(Peer(s)) /\ mail[s] = <<>> /\ mail[Peer(s)] = <<"STARTED">>
Start3(s) == Called(s) /\ Heard(Peer(s)) /\ mail[s] = <<>> /\ mail[Peer(s)] = <<>>
Start4 == /\ Called("client") /\ Called("server")
          /\ mail["client"] = <<"STARTED">> /\ mail["server"] = <<"STARTED">>
ServerPast == /\ Called("client") /\ Past("server")
              /\ mail["server"] = <<>> /\ mail["client"] # <<>> /\ ClientChain
ClientPast == /\ Called("server") /\ Past("client") /\ state["client"] = "CRED"
              /\ mail["client"] = <<>> /\ mail["server"] \in {<<"CRED">>, <<"STARTED", "CRED">>}
Ahead == state["client"] = "STLS" /\ state["server"] = "SCRED"
Together ==
  /\ Past("client") /\ Past("server") /\ ClientChain
  /\ mail["client"] = <<>> => state["client"] = state["server"] \/ Ahead
  /\ state["client"] = "STLS" => mail["client"] = <<>>
  /\ \A i \in DOMAIN mail["server"] :
        \/ mail["server"][i] = "CRED"
        \/ mail["server"][i] = "STLS" /\ i = Len(mail["server"]) /\ Ahead
  /\ Ahead /\ status["server"] = "up" =>
        mail["server"] # <<>> /\ mail["server"][Len(mail["server"])] = "STLS"

Phases == \/ Start1
          \/ \E s \in Ends : Start2(s) \/ Start3(s)
          \/ Start4
          \/ ServerPast
          \/ ClientPast
          \/ Together

Orderly == /\ Phases
           /\ \A s \in Ends : NewsSound(s)
           /\ status["client"] = "up" /\ status["server"] \in {"up", "threw"}
           /\ status["server"] = "threw" => Together

NegotiationInv == NegotiationTypeOK /\ (Undisturbed => Orderly)
--------------------------------------------------------------------------------
(* The tables of the negotiation. *)

LEMMA FollowsTable ==
  /\ Follows("client", "CRED") = {"STARTED"} /\ Follows("client", "REG") = {"CRED"}
  /\ Follows("client", "CTLS") = {"CRED", "REG"} /\ Follows("client", "SCRED") = {"CTLS"}
  /\ Follows("client", "STLS") = {} /\ Follows("client", "SECURE") = {}
  /\ Follows("client", "STARTED") = {} /\ Follows("client", "END") = {}
  /\ Follows("server", "CRED") = {"STARTED"} /\ Follows("server", "STLS") = {"SCRED"}
  /\ \A n \in {"REG", "CTLS", "SCRED", "SECURE", "STARTED", "END"} : Follows("server", n) = {}
BY DEF Follows

LEMMA GrantsTable ==
  /\ Grants("REG") = {"CRED"} /\ Grants("CTLS") = {"CRED", "REG"}
  /\ Grants("SCRED") = {"CTLS"} /\ Grants("STLS") = {"SCRED"}
  /\ Grants("CRED") = {} /\ Grants("SECURE") = {}
BY DEF Grants

\* What is asked for after a change the manager answers is granted in that
\* state; other changes are not answered.
LEMMA AnswersTable ==
  ASSUME NEW s \in Ends, NEW n
  PROVE  /\ n \in Answered(s) =>
              \A a \in Answers(s, n) : \E r \in Asks(s) : a = <<r>> /\ n \in Grants(r)
         /\ n \notin Answered(s) => Answers(s, n) = {<<>>}
BY DEF Ends, Answers, Answered, Asks, Grants

LEMMA AnswersAreSent ==
  ASSUME NEW s \in Ends, NEW n, NEW a \in Answers(s, n)
  PROVE  a \in Seq(Sent)
<1>1. a \in {<<>>, <<"REG">>, <<"CTLS">>, <<"SCRED">>, <<"STLS">>}
  BY DEF Ends, Answers
<1>2. \A n1 \in Sent : <<n1>> \in Seq(Sent)
  OBVIOUS
<1>3. {"REG", "CTLS", "SCRED", "STLS"} \subseteq Sent /\ <<>> \in Seq(Sent)
  BY DEF Sent, Steps
<1>4. QED
  BY <1>1, <1>2, <1>3

\* Peers
LEMMA Peers == /\ Peer("client") = "server" /\ Peer("server") = "client"
               /\ \A s \in Ends : Peer(s) \in Ends /\ Peer(s) # s /\ Peer(Peer(s)) = s
BY DEF Peer, Ends
--------------------------------------------------------------------------------
(* Chains. *)

LEMMA TailIndices ==
  ASSUME NEW S, NEW w \in Seq(S), w # <<>>
  PROVE  /\ Len(w) \in Nat /\ Len(w) > 0 /\ Len(Tail(w)) = Len(w) - 1 /\ Head(w) = w[1]
         /\ Tail(w) \in Seq(S)
         /\ Tail(w) = <<>> <=> Len(Tail(w)) = 0
         /\ DOMAIN w = 1..Len(w) /\ DOMAIN Tail(w) = 1..Len(w) - 1
         /\ \A i \in 1..Len(w) - 1 : Tail(w)[i] = w[i + 1]
<1>1. Tail(w) \in Seq(S) /\ Len(Tail(w)) = Len(w) - 1 /\ Len(w) \in Nat /\ Len(w) > 0
  OBVIOUS
<1>2. \A t \in Seq(S) : t = <<>> <=> Len(t) = 0
  OBVIOUS
<1>3. Head(w) = w[1] /\ DOMAIN w = 1..Len(w) /\ DOMAIN Tail(w) = 1..Len(w) - 1
  OBVIOUS
<1>4. \A i \in 1..Len(w) - 1 : Tail(w)[i] = w[i + 1]
  OBVIOUS
<1>5. QED
  BY <1>1, <1>2, <1>3, <1>4

LEMMA ChainTail ==
  ASSUME NEW w \in Seq(Sent), w # <<>>, NEW p, Chain(p, w), NEW q,
         q = Head(w) \/ (Head(w) = "STARTED" /\ q = "CRED")
  PROVE  Chain(q, Tail(w))
<1>. DEFINE t == Tail(w)
<1>1. /\ Len(t) = Len(w) - 1 /\ Len(w) \in Nat /\ DOMAIN t = 1..Len(w) - 1
      /\ \A i \in 1..Len(w) - 1 : t[i] = w[i + 1]
  OBVIOUS
<1>2. ASSUME NEW i \in DOMAIN t
      PROVE  IF i = 1 THEN Joins(q, t[1]) ELSE t[i - 1] \in Follows("client", t[i])
  <2>1. /\ i + 1 \in DOMAIN w /\ i + 1 # 1 /\ (i + 1) - 1 = i /\ t[i] = w[i + 1] /\ i \in Nat
    BY <1>1, <1>2
  <2>2. w[i] \in Follows("client", w[i + 1])
    BY <2>1 DEF Chain
  <2>3. CASE i = 1
    <3>1. w[1] = Head(w) /\ w[2] \in Sent /\ w[2] = t[1]
      BY <2>1, <2>3
    <3>2. w[1] \in Follows("client", w[2])
      BY <2>2, <2>3
    <3>3. CASE q = Head(w)
      BY <3>1, <3>2, <3>3, <2>3 DEF Joins
    <3>4. CASE Head(w) = "STARTED" /\ q = "CRED"
      <4>1. w[2] = "CRED"
        BY <3>1, <3>2, <3>4, FollowsTable DEF Sent, Steps
      <4>2. QED
        BY <4>1, <3>1, <3>4, <2>3 DEF Joins
    <3>5. QED
      BY <3>3, <3>4
  <2>4. CASE i # 1
    <3>1. i - 1 \in 1..Len(w) - 1 /\ (i - 1) + 1 = i
      BY <1>1, <1>2, <2>4
    <3>2. t[i - 1] = w[i]
      BY <3>1, <1>1
    <3>3. QED
      BY <3>2, <2>2, <2>1, <2>4
  <2>5. QED
    BY <2>3, <2>4
<1>3. QED
  BY <1>2 DEF Chain

LEMMA ChainAppend ==
  ASSUME NEW w \in Seq(Sent), NEW n \in Sent, NEW p, Chain(p, w),
         IF w = <<>> THEN p \in Follows("client", n)
                     ELSE w[Len(w)] \in Follows("client", n)
  PROVE  Chain(p, Append(w, n))
<1>. DEFINE t == Append(w, n)
<1>1. /\ Len(t) = Len(w) + 1 /\ Len(w) \in Nat /\ DOMAIN t = 1..Len(w) + 1
      /\ DOMAIN w = 1..Len(w) /\ t[Len(w) + 1] = n
      /\ \A i \in 1..Len(w) : t[i] = w[i]
      /\ w = <<>> <=> Len(w) = 0
  OBVIOUS
<1>. HIDE DEF t
<1>2. ASSUME NEW i \in DOMAIN t
      PROVE  IF i = 1 THEN Joins(p, t[1]) ELSE t[i - 1] \in Follows("client", t[i])
  <2>1. CASE i \in DOMAIN w
    <3>1. IF i = 1 THEN Joins(p, w[1]) ELSE w[i - 1] \in Follows("client", w[i])
      BY <2>1 DEF Chain
    <3>2. t[i] = w[i] /\ (i # 1 => t[i - 1] = w[i - 1])
      BY <1>1, <2>1
    <3>3. QED
      BY <3>1, <3>2
  <2>2. CASE i = Len(w) + 1 /\ w = <<>>
    BY <1>1, <2>2 DEF Joins
  <2>3. CASE i = Len(w) + 1 /\ w # <<>>
    <3>1. i # 1 /\ i - 1 = Len(w) /\ t[i - 1] = w[Len(w)] /\ t[i] = n
      BY <1>1, <2>3
    <3>2. QED
      BY <3>1, <2>3
  <2>4. QED
    BY <1>1, <1>2, <2>1, <2>2, <2>3
<1>3. QED
  BY <1>2 DEF Chain, t

\* From a state of the negotiation proper a chain leads on in it.
LEMMA ChainMoves ==
  ASSUME NEW w \in Seq(Sent), NEW p, Chain(p, w)
  PROVE  /\ w # <<>> => Joins(p, Head(w))
         /\ p \in Moves => \A i \in DOMAIN w : w[i] \in {"CRED", "REG", "CTLS", "SCRED"}
         /\ p \in {"SCRED", "STLS"} => w = <<>>
<1>1. w # <<>> => Joins(p, Head(w)) /\ Head(w) \in Sent
  <2>1. w # <<>> => 1 \in DOMAIN w /\ Head(w) = w[1] /\ Head(w) \in Sent
    OBVIOUS
  <2>2. QED
    BY <2>1 DEF Chain
<1>2. ASSUME p \in Moves, NEW i \in DOMAIN w
      PROVE  w[i] \in {"CRED", "REG", "CTLS", "SCRED"}
  <2>1. w[i] \in Sent
    OBVIOUS
  <2>2. CASE i = 1
    <3>1. Joins(p, w[i])
      BY <2>2 DEF Chain
    <3>2. QED
      BY <3>1, <2>1, <1>2, FollowsTable DEF Joins, Sent, Steps, Moves
  <2>3. CASE i # 1
    <3>1. Follows("client", w[i]) # {}
      BY <2>3 DEF Chain
    <3>2. QED
      BY <3>1, <2>1, FollowsTable DEF Sent, Steps
  <2>4. QED
    BY <2>2, <2>3
<1>3. p \in {"SCRED", "STLS"} => w = <<>>
  BY <1>1, FollowsTable DEF Joins, Sent, Steps
<1>4. QED
  BY <1>1, <1>2, <1>3

--------------------------------------------------------------------------------
(* Types. *)

LEMMA InitTypes == NegotiationInit => NegotiationTypeOK
BY DEF NegotiationInit, NegotiationTypeOK, States, Sent, Steps

LEMMA PeerStartsTypes == ASSUME NegotiationTypeOK, NEW s \in Ends, PeerStarts(s) PROVE NegotiationTypeOK'
<1>. DEFINE r == Restart(s, "STARTED")
<1>1. r.enter \in Sent /\ r.enter \in States
  BY DEF Restart, Sent, States, Steps
<1>2. "STARTED" \in States
  BY DEF States
<1>. HIDE DEF r
<1>3. state' \in [Ends -> States] /\ peer' \in [Ends -> States]
  BY <1>1, <1>2 DEF NegotiationTypeOK, PeerStarts, Hears, Enter, r
<1>4. news' \in [Ends -> Seq(Sent)]
  <2>1. news' = [news EXCEPT ![s] = Append(@, r.enter)] \/ news' = news
    BY DEF PeerStarts, TellIfNew, Tell, r
  <2>2. CASE news' = news
    BY <2>2 DEF NegotiationTypeOK
  <2>3. CASE news' = [news EXCEPT ![s] = Append(@, r.enter)]
    BY <1>1, <2>3 DEF NegotiationTypeOK
  <2>4. QED
    BY <2>1, <2>2, <2>3
<1>5. Taken(s) \in [Ends -> Seq(Sent)]
  BY DEF NegotiationTypeOK, PeerStarts, Hears, Taken
<1>6. mail' \in [Ends -> Seq(Sent)]
  BY <1>1, <1>5, Peers DEF PeerStarts, Replied, r
<1>7. QED
  BY <1>3, <1>4, <1>6 DEF NegotiationTypeOK, PeerStarts, Hears

LEMMA StartRequestedTypes == ASSUME NegotiationTypeOK, NEW s \in Ends, StartRequested(s) PROVE NegotiationTypeOK'
<1>. DEFINE r == Restart(s, peer[s])
<1>1. r.enter \in Sent /\ r.enter \in States
  BY DEF Restart, Sent, States, Steps
<1>. HIDE DEF r
<1>3. state' \in [Ends -> States]
  BY <1>1 DEF NegotiationTypeOK, StartRequested, Enter, r
<1>4. news' \in [Ends -> Seq(Sent)]
  <2>1. news' = [news EXCEPT ![s] = Append(@, r.enter)] \/ news' = news
    BY DEF StartRequested, TellIfNew, Tell, r
  <2>2. CASE news' = news
    BY <2>2 DEF NegotiationTypeOK
  <2>3. CASE news' = [news EXCEPT ![s] = Append(@, r.enter)]
    BY <1>1, <2>3 DEF NegotiationTypeOK
  <2>4. QED
    BY <2>1, <2>2, <2>3
<1>5. requests' \in [Ends -> Seq(Sent)]
  BY DEF NegotiationTypeOK, StartRequested, Asked
<1>6. mail' \in [Ends -> Seq(Sent)]
  <2>1. mail' = [mail EXCEPT ![Peer(s)] = Append(@, r.enter)] \/ mail' = mail
    BY DEF StartRequested, Send, r
  <2>2. CASE mail' = mail
    BY <2>2 DEF NegotiationTypeOK
  <2>3. CASE mail' = [mail EXCEPT ![Peer(s)] = Append(@, r.enter)]
    BY <1>1, <2>3, Peers DEF NegotiationTypeOK
  <2>4. QED
    BY <2>1, <2>2, <2>3
<1>7. QED
  BY <1>3, <1>4, <1>5, <1>6 DEF NegotiationTypeOK, StartRequested, Asked

LEMMA ManagerHearsTypes == ASSUME NegotiationTypeOK, NEW s \in Ends, ManagerHears(s) PROVE NegotiationTypeOK'
<1>1. PICK a \in Answers(s, Head(news[s])) : requests' = [requests EXCEPT ![s] = @ \o a]
  BY DEF ManagerHears
<1>2. a \in Seq(Sent)
  BY <1>1, AnswersAreSent
<1>3. requests' \in [Ends -> Seq(Sent)]
  BY <1>1, <1>2 DEF NegotiationTypeOK
<1>4. news' \in [Ends -> Seq(Sent)]
  BY DEF NegotiationTypeOK, ManagerHears
<1>5. QED
  BY <1>3, <1>4 DEF NegotiationTypeOK, ManagerHears

LEMMA NextTypes == NegotiationTypeOK /\ [NegotiationNext]_negotiationVars => NegotiationTypeOK'
<1>. SUFFICES ASSUME NegotiationTypeOK, [NegotiationNext]_negotiationVars PROVE NegotiationTypeOK'
  OBVIOUS
<1>2. \A n \in Steps : n \in States
  BY DEF States
<1>3. ASSUME NEW s \in Ends, Create(s) PROVE NegotiationTypeOK'
  <2>1. "STARTED" \in Sent
    BY DEF Sent
  <2>2. QED
    BY <2>1, <1>3 DEF NegotiationTypeOK, Create
<1>4. ASSUME NEW s \in Ends, PeerEnds(s) PROVE NegotiationTypeOK'
  <2>1. "END" \in Sent /\ "END" \in States
    BY DEF Sent, States
  <2>2. QED
    BY <2>1, <1>4 DEF NegotiationTypeOK, PeerEnds, Hears, Enter, Tell, Taken
<1>5. ASSUME NEW s \in Ends, EndRequested(s) PROVE NegotiationTypeOK'
  <2>1. "END" \in Sent /\ "END" \in States
    BY DEF Sent, States
  <2>2. QED
    BY <2>1, <1>5, Peers DEF NegotiationTypeOK, EndRequested, Asked, Enter, Tell, Send
<1>6. ASSUME NEW s \in Ends, NEW n \in Steps, PeerMoves(s, n) PROVE NegotiationTypeOK'
  <2>1. n \in Sent
    <3>1. mail[s] \in Seq(Sent) /\ mail[s] # <<>> /\ Head(mail[s]) = n
      BY <1>6 DEF NegotiationTypeOK, PeerMoves, Hears
    <3>2. QED
      BY <3>1
  <2>2. QED
    BY <2>1, <1>2, <1>6 DEF NegotiationTypeOK, PeerMoves, Hears, Enter, Tell, Taken
<1>7. ASSUME NEW s \in Ends, NEW n \in Steps, PeerConfirms(s, n) PROVE NegotiationTypeOK'
  BY <1>2, <1>7 DEF NegotiationTypeOK, PeerConfirms, Hears, Taken
<1>8. ASSUME NEW s \in Ends, NEW n \in Steps, PeerIsIllegal(s, n) PROVE NegotiationTypeOK'
  BY <1>2, <1>8 DEF NegotiationTypeOK, PeerIsIllegal, Hears, Taken
<1>9. ASSUME NEW s \in Ends, NEW n \in Steps, StepRequested(s, n) PROVE NegotiationTypeOK'
  <2>1. n \in Sent
    <3>1. requests[s] \in Seq(Sent) /\ requests[s] # <<>> /\ Head(requests[s]) = n
      BY <1>9 DEF NegotiationTypeOK, StepRequested, Asked
    <3>2. QED
      BY <3>1
  <2>2. QED
    BY <2>1, <1>2, <1>9, Peers DEF NegotiationTypeOK, StepRequested, Asked, Enter, Tell, Send
<1>10. ASSUME NEW s \in Ends, NEW n \in Steps, StepAsserted(s, n) PROVE NegotiationTypeOK'
  BY <1>10 DEF NegotiationTypeOK, StepAsserted, Asked
<1>11. ASSUME NEW s \in Ends, AskRestart(s) \/ AskEnd(s) PROVE NegotiationTypeOK'
  <2>1. {"STARTED", "END"} \subseteq Sent
    BY DEF Sent
  <2>2. CASE AskRestart(s)
    BY <2>1, <2>2 DEF NegotiationTypeOK, AskRestart
  <2>3. CASE AskEnd(s)
    BY <2>1, <2>3 DEF NegotiationTypeOK, AskEnd
  <2>4. QED
    BY <1>11, <2>2, <2>3
<1>12. CASE UNCHANGED negotiationVars
  BY <1>12 DEF NegotiationTypeOK, negotiationVars
<1>13. QED
  BY <1>3, <1>4, <1>5, <1>6, <1>7, <1>8, <1>9, <1>10, <1>11, <1>12,
     PeerStartsTypes, StartRequestedTypes, ManagerHearsTypes DEF NegotiationNext, Handles
--------------------------------------------------------------------------------
(* What waits for an end, in good order. *)

LEMMA RequestsWaiting ==
  ASSUME Orderly, NEW s \in Ends, requests[s] # <<>>
  PROVE  \/ requests[s] = <<"STARTED">> /\ created[s] /\ (Fresh(s) \/ Heard(s))
         \/ /\ (s = "server" /\ ServerPast) \/ Together
            /\ \E r \in Asks(s) : requests[s] = <<r>> /\ state[s] \in Grants(r)
<1>1. ASSUME Fresh(s) PROVE requests[s] = <<"STARTED">> /\ created[s]
  BY <1>1 DEF Fresh
<1>2. ASSUME Past(s) PROVE \E r \in Asks(s) : requests[s] = <<r>> /\ state[s] \in Grants(r)
  BY <1>2 DEF Past
<1>3. ~Called(s)
  BY DEF Called
<1>4. s = "client" \/ s = "server"
  BY DEF Ends
<1>5. CASE Start1
  BY <1>1, <1>4, <1>5 DEF Start1
<1>6. ASSUME NEW x \in Ends, Start2(x) PROVE Fresh(s)
  BY <1>3, <1>6, Peers DEF Start2, Ends
<1>7. ASSUME NEW x \in Ends, Start3(x) PROVE Heard(s)
  BY <1>3, <1>7, Peers DEF Start3, Ends
<1>8. ~Start4
  BY <1>3, <1>4 DEF Start4
<1>9. CASE ServerPast
  BY <1>2, <1>3, <1>4, <1>9 DEF ServerPast
<1>10. CASE ClientPast
  <2>1. s = "client" /\ Past(s) /\ state[s] = "CRED"
    BY <1>3, <1>4, <1>10 DEF ClientPast
  <2>2. PICK r \in Asks(s) : state[s] \in Grants(r)
    BY <2>1, <1>2
  <2>3. QED
    BY <2>1, <2>2, GrantsTable DEF Asks
<1>11. CASE Together
  BY <1>2, <1>4, <1>11 DEF Together
<1>12. ASSUME Heard(s) PROVE requests[s] = <<"STARTED">> /\ created[s]
  BY <1>12 DEF Heard
<1>13. QED
  BY <1>1, <1>5, <1>6, <1>7, <1>8, <1>9, <1>10, <1>11, <1>12 DEF Orderly, Phases

\* A request of the certificate manager finds its state.
LEMMA StepsWaiting ==
  ASSUME NegotiationTypeOK, Orderly, NEW s \in Ends, NEW n \in Steps, Asked(s, n)
  PROVE  /\ n \in Asks(s) /\ state[s] \in Grants(n)
         /\ requests'[s] = <<>> /\ \A t \in Ends \ {s} : requests'[t] = requests[t]
         /\ (s = "server" /\ ServerPast) \/ Together
<1>1. requests[s] # <<>> /\ Head(requests[s]) = n /\ n # "STARTED"
  BY DEF Asked, Steps
<1>2. PICK r \in Asks(s) : requests[s] = <<r>> /\ state[s] \in Grants(r)
  BY <1>1, RequestsWaiting
<1>3. r = n /\ Tail(requests[s]) = <<>>
  BY <1>1, <1>2
<1>4. requests'[s] = <<>> /\ \A t \in Ends \ {s} : requests'[t] = requests[t]
  BY <1>3 DEF Asked, NegotiationTypeOK
<1>5. (s = "server" /\ ServerPast) \/ Together
  <2>1. requests[s] # <<"STARTED">>
    BY <1>1
  <2>2. QED
    BY <1>1, <2>1, RequestsWaiting
<1>6. QED
  BY <1>2, <1>3, <1>4, <1>5

\* Nobody asks for the end.
LEMMA NoEndRequested ==
  ASSUME Orderly, NEW s \in Ends PROVE ~Asked(s, "END")
<1>1. SUFFICES ASSUME Asked(s, "END") PROVE FALSE
  OBVIOUS
<1>2. requests[s] # <<>> /\ Head(requests[s]) = "END"
  BY <1>1 DEF Asked
<1>3. requests[s] # <<"STARTED">>
  BY <1>2
<1>4. PICK r \in Asks(s) : requests[s] = <<r>>
  BY <1>2, <1>3, RequestsWaiting
<1>5. r = "END"
  BY <1>2, <1>4
<1>6. QED
  BY <1>4, <1>5 DEF Asks

\* The first message to the client, and to the server
LEMMA ClientHearing ==
  ASSUME NegotiationTypeOK, Orderly, NEW n, Hears("client", n)
  PROVE  \/ n = "STARTED" /\ Start2("server") \* the server has started
         \/ n = "STARTED" /\ Start4
         \/ ServerPast /\ Joins("STARTED", n)
         \/ Together /\ Joins(state["client"], n) /\ n \in {"CRED", "REG", "CTLS", "SCRED"}
<1>1. mail["client"] # <<>> /\ Head(mail["client"]) = n /\ mail["client"] \in Seq(Sent)
  BY DEF Hears, NegotiationTypeOK, Ends
<1>2. ~Start1 /\ ~ClientPast
  BY <1>1 DEF Start1, ClientPast
<1>3. ASSUME NEW x \in Ends, Start2(x) \/ Start3(x) PROVE n = "STARTED" /\ Start2("server")
  BY <1>1, <1>3, Peers DEF Start2, Start3, Ends
<1>4. CASE Start4
  BY <1>1, <1>4 DEF Start4
<1>5. CASE ServerPast
  BY <1>1, <1>5, ChainMoves DEF ServerPast, ClientChain, Called
<1>6. CASE Together
  <2>1. Chain(state["client"], mail["client"]) /\ state["client"] \in Moves
    BY <1>6 DEF Together, ClientChain, Past
  <2>2. 1 \in DOMAIN mail["client"] /\ mail["client"][1] = n
    BY <1>1
  <2>3. QED
    BY <1>1, <1>6, <2>1, <2>2, ChainMoves
<1>7. QED
  BY <1>2, <1>3, <1>4, <1>5, <1>6 DEF Orderly, Phases

LEMMA ServerHearing ==
  ASSUME NegotiationTypeOK, Orderly, NEW n, Hears("server", n)
  PROVE  \/ n = "STARTED" /\ Start2("client")
         \/ n = "STARTED" /\ Start4
         \/ ClientPast /\ n \in {"STARTED", "CRED"} /\ mail["server"] # <<>> /\ Head(mail["server"]) = n
         \/ Together /\ (n = "CRED" \/ (n = "STLS" /\ Ahead))
<1>1. mail["server"] # <<>> /\ Head(mail["server"]) = n /\ mail["server"] \in Seq(Sent)
  BY DEF Hears, NegotiationTypeOK, Ends
<1>2. ~Start1 /\ ~ServerPast
  BY <1>1 DEF Start1, ServerPast
<1>3. ASSUME NEW x \in Ends, Start2(x) \/ Start3(x) PROVE n = "STARTED" /\ Start2("client")
  BY <1>1, <1>3, Peers DEF Start2, Start3, Ends
<1>4. CASE Start4
  BY <1>1, <1>4 DEF Start4
<1>5. CASE ClientPast
  BY <1>1, <1>5 DEF ClientPast
<1>6. CASE Together
  <2>2. 1 \in DOMAIN mail["server"] /\ mail["server"][1] = n
    BY <1>1
  <2>3. \A i \in DOMAIN mail["server"] :
           mail["server"][i] = "CRED" \/ (mail["server"][i] = "STLS" /\ Ahead)
    BY <1>6 DEF Together
  <2>4. mail["server"][1] = "CRED" \/ (mail["server"][1] = "STLS" /\ Ahead)
    BY <2>2, <2>3
  <2>5. QED
    BY <1>6, <2>2, <2>4
<1>7. QED
  BY <1>2, <1>3, <1>4, <1>5, <1>6 DEF Orderly, Phases
--------------------------------------------------------------------------------
(* News. *)

LEMMA NewsOfOther ==
  ASSUME NEW t \in Ends, NewsSound(t), news'[t] = news[t], state'[t] = state[t],
         requests'[t] = requests[t]
  PROVE  NewsSound(t)'
BY DEF NewsSound

\* A change is told that no earlier one, waiting to be answered, is before.
LEMMA NewsTold ==
  ASSUME NegotiationTypeOK, NEW s \in Ends, NEW n \in Sent, NewsSound(s), Tell(s, n), state'[s] = n,
         requests[s] # <<>> \/ state[s] \notin Answered(s),
         n \in Answered(s) => requests'[s] = <<>>
  PROVE  NewsSound(s)'
<1>. DEFINE w == news[s]
            t == news'[s]
<1>1. w \in Seq(Sent) /\ t = Append(w, n)
  BY DEF NegotiationTypeOK, Tell
<1>2. /\ Len(t) = Len(w) + 1 /\ Len(w) \in Nat /\ DOMAIN t = 1..Len(w) + 1
      /\ DOMAIN w = 1..Len(w) /\ t[Len(w) + 1] = n
      /\ \A i \in 1..Len(w) : t[i] = w[i]
  BY <1>1
<1>3. \A i \in DOMAIN w : w[i] \notin Answered(s)
  BY DEF NewsSound
<1>4. ASSUME NEW i \in DOMAIN t, t[i] \in Answered(s)
      PROVE  i = Len(t) /\ t[i] = state'[s] /\ requests'[s] = <<>>
  <2>1. i = Len(w) + 1
    BY <1>2, <1>3, <1>4
  <2>2. QED
    BY <1>2, <1>4, <2>1
<1>5. Answered(s)' = Answered(s)
  BY DEF Answered
<1>6. QED
  BY <1>4, <1>5 DEF NewsSound
--------------------------------------------------------------------------------
(* The steps. *)

LEMMA CreateOrderly ==
  ASSUME NegotiationTypeOK, Orderly, NEW s \in Ends, Create(s) PROVE Orderly'
<1>1. /\ created'[s] = TRUE /\ \A t \in Ends \ {s} : created'[t] = created[t]
      /\ requests'[s] = Append(requests[s], "STARTED")
      /\ \A t \in Ends \ {s} : requests'[t] = requests[t]
      /\ UNCHANGED <<state, peer, mail, news, status>> /\ ~created[s]
  BY DEF Create, NegotiationTypeOK
<1>2. ~Called(s) /\ ~Heard(s) /\ ~Past(s)
  BY <1>1 DEF Called, Heard, Past
<1>3. Fresh(s)
  BY <1>2, Peers DEF Orderly, Phases, Start1, Start2, Start3, Start4, ServerPast, ClientPast,
                     Together, Ends
<1>4. Fresh(s)'
  BY <1>1, <1>3 DEF Fresh
<1>5. ASSUME NEW t \in Ends \ {s} PROVE (Fresh(t) => Fresh(t)') /\ (Called(t) => Called(t)')
  BY <1>1 DEF Fresh, Called
<1>6. Start1 \/ Start2(Peer(s))
  BY <1>2, Peers DEF Orderly, Phases, Start1, Start2, Start3, Start4, ServerPast, ClientPast,
                     Together, Ends
<1>7. Phases'
  <2>1. CASE Start1
    BY <1>1, <1>4, <1>5, <2>1 DEF Start1, Ends, Phases
  <2>2. CASE Start2(Peer(s))
    <3>1. Start2(Peer(s))'
      BY <1>1, <1>4, <1>5, <2>2, Peers DEF Start2
    <3>2. QED
      BY <3>1, Peers DEF Phases
  <2>3. QED
    BY <1>6, <2>1, <2>2
<1>8. NewsSound(s)'
  BY <1>4 DEF Fresh, NewsSound
<1>9. \A t \in Ends \ {s} : NewsSound(t)'
  BY <1>1, NewsOfOther DEF Orderly
<1>10. ~Together
  BY <1>2 DEF Together, Ends
<1>11. QED
  BY <1>1, <1>7, <1>8, <1>9, <1>10 DEF Orderly

\* Both ends past the start follow no more than one another.
LEMMA ServerStarts ==
  ASSUME NegotiationTypeOK, Called("client"), created["server"], NEW w \in {<<"CRED">>, <<"STARTED", "CRED">>},
         requests'["server"] = <<>>, requests'["client"] = <<>>, created' = created,
         mail'["client"] = w, mail'["server"] = <<>>,
         state'["client"] = "STARTED", state'["server"] = "CRED"
  PROVE  ServerPast'
<1>1. Called("client")'
  BY DEF Called
<1>2. Past("server")'
  BY DEF Past, Moves
<1>3. Chain("STARTED", w)
  BY FollowsTable DEF Chain, Joins
<1>4. w # <<>> /\ w[Len(w)] = "CRED"
  <2>1. <<"CRED">> # <<>> /\ Len(<<"CRED">>) = 1 /\ <<"CRED">>[1] = "CRED"
    OBVIOUS
  <2>2. /\ <<"STARTED", "CRED">> # <<>> /\ Len(<<"STARTED", "CRED">>) = 2
        /\ <<"STARTED", "CRED">>[2] = "CRED"
    OBVIOUS
  <2>3. QED
    BY <2>1, <2>2
<1>5. Chain(state["client"], mail["client"])'
  BY <1>3 DEF Chain, Joins, Follows
<1>6. QED
  BY <1>1, <1>2, <1>4, <1>5 DEF ServerPast, ClientChain

LEMMA ClientStarts ==
  ASSUME NegotiationTypeOK, Called("server"), created["client"], NEW w \in {<<"CRED">>, <<"STARTED", "CRED">>},
         requests'["server"] = <<>>, requests'["client"] = <<>>, created' = created,
         mail'["server"] = w, mail'["client"] = <<>>,
         state'["server"] = "STARTED", state'["client"] = "CRED"
  PROVE  ClientPast'
BY DEF Called, Past, ClientPast, Moves

LEMMA StartRequestedOrderly ==
  ASSUME NegotiationTypeOK, Orderly, NEW s \in Ends, StartRequested(s) PROVE Orderly'
<1>1. requests[s] # <<>> /\ Head(requests[s]) = "STARTED" /\ created[s]
  BY DEF StartRequested, Asked, Up
<1>2. requests[s] = <<"STARTED">> /\ (Fresh(s) \/ Heard(s))
  BY <1>1, RequestsWaiting DEF Asks
<1>3. /\ requests'[s] = <<>> /\ \A t \in Ends \ {s} : requests'[t] = requests[t]
      /\ UNCHANGED <<peer, created, status>>
      /\ \A t \in Ends \ {s} : state'[t] = state[t]
  BY <1>2 DEF StartRequested, Asked, Enter, NegotiationTypeOK
<1>4. ~Together /\ ~ServerPast /\ ~Start4 /\ ~ClientPast
  <2>1. ~Past(s)
    BY <1>2 DEF Past, Moves, Fresh, Heard
  <2>2. ~Called(s)
    BY <1>2 DEF Called
  <2>3. QED
    BY <2>1, <2>2 DEF Ends, Together, ServerPast, ClientPast, Start4
<1>5. CASE Fresh(s)
  <2>1. /\ state'[s] = "STARTED" /\ Tell(s, "STARTED") /\ Send(s, "STARTED")
    BY <1>5 DEF StartRequested, Restart, Fresh, Enter, TellIfNew, NegotiationTypeOK
  <2>2. /\ mail'[s] = mail[s] /\ mail'[Peer(s)] = Append(mail[Peer(s)], "STARTED")
    BY <2>1, Peers DEF Send, NegotiationTypeOK
  <2>3. Called(s)'
    BY <1>1, <1>3, <2>1 DEF Called
  <2>4. Start1 \/ Start2(Peer(s))
    BY <1>4, <1>5, Peers DEF Orderly, Phases, Start2, Start3, Fresh, Called, Heard, Ends
  <2>5. ASSUME Start1 PROVE Phases'
    <3>1. Fresh(Peer(s))'
      <4>1. news'[Peer(s)] = news[Peer(s)]
        BY <2>1, Peers DEF Tell, NegotiationTypeOK
      <4>2. Fresh(Peer(s))
        BY <2>5, Peers DEF Start1, Ends
      <4>3. QED
        BY <1>3, <4>1, <4>2, Peers DEF Fresh
    <3>2. Start2(s)'
      <4>1. mail[s] = <<>> /\ mail[Peer(s)] = <<>>
        BY <2>5, Peers DEF Start1, Ends
      <4>2. mail'[s] = <<>> /\ mail'[Peer(s)] = <<"STARTED">>
        BY <2>2, <4>1
      <4>3. QED
        BY <2>3, <3>1, <4>2 DEF Start2
    <3>3. QED
      BY <3>2 DEF Phases
  <2>6. ASSUME Start2(Peer(s)) PROVE Phases'
    <3>1. Called(Peer(s))'
      BY <1>3, <2>6, Peers DEF Start2, Called
    <3>2. Start4'
      BY <2>2, <2>3, <2>6, <3>1, Peers DEF Start2, Start4, Ends
    <3>3. QED
      BY <3>2 DEF Phases
  <2>7. Phases'
    BY <2>4, <2>5, <2>6
  <2>8. NewsSound(s)'
    BY <1>2, <2>1, NewsTold DEF Orderly, Answered, Sent
  <2>9. \A t \in Ends \ {s} : NewsSound(t)'
    BY <1>3, <2>1, NewsOfOther DEF Orderly, Tell, NegotiationTypeOK
  <2>10. QED
    BY <1>3, <1>4, <2>7, <2>8, <2>9 DEF Orderly
<1>6. CASE Heard(s)
  <2>1. /\ state'[s] = "CRED" /\ Tell(s, "CRED") /\ Send(s, "CRED")
    BY <1>6 DEF StartRequested, Restart, Heard, Enter, TellIfNew, NegotiationTypeOK
  <2>2. /\ mail'[s] = mail[s] /\ mail'[Peer(s)] = Append(mail[Peer(s)], "CRED")
    BY <2>1, Peers DEF Send, NegotiationTypeOK
  <2>3. Start3(Peer(s))
    BY <1>4, <1>6, Peers DEF Orderly, Phases, Start1, Start2, Start3, Fresh, Called, Heard, Ends
  <2>4. /\ Called(Peer(s)) /\ mail[s] = <<>> /\ mail[Peer(s)] = <<>>
    BY <2>3, Peers DEF Start3
  <2>5. mail'[Peer(s)] = <<"CRED">> /\ mail'[s] = <<>> /\ state'[Peer(s)] = "STARTED"
        /\ requests'[Peer(s)] = <<>>
    BY <1>3, <2>2, <2>4, Peers DEF Called
  <2>6. ASSUME s = "server" PROVE Phases'
    <3>1. ServerPast'
      BY <1>1, <1>3, <2>1, <2>4, <2>5, <2>6, Peers, ServerStarts
    <3>2. QED
      BY <3>1 DEF Phases
  <2>7. ASSUME s = "client" PROVE Phases'
    <3>1. ClientPast'
      BY <1>1, <1>3, <2>1, <2>4, <2>5, <2>7, Peers, ClientStarts
    <3>2. QED
      BY <3>1 DEF Phases
  <2>8. Phases'
    BY <2>6, <2>7 DEF Ends
  <2>9. NewsSound(s)'
    BY <1>2, <1>3, <2>1, NewsTold DEF Orderly, Sent, Steps
  <2>10. \A t \in Ends \ {s} : NewsSound(t)'
    BY <1>3, <2>1, NewsOfOther DEF Orderly, Tell, NegotiationTypeOK
  <2>11. QED
    BY <1>3, <1>4, <2>8, <2>9, <2>10 DEF Orderly
<1>7. QED
  BY <1>2, <1>5, <1>6

\* The client takes the first message and enters the state it names, or the
\* first one of the negotiation.
LEMMA ChainHeard ==
  ASSUME NegotiationTypeOK, ClientChain, mail["client"] # <<>>, mail'["client"] = Tail(mail["client"]),
         state'["server"] = state["server"],
         \/ state'["client"] = Head(mail["client"])
         \/ Head(mail["client"]) = "STARTED" /\ state'["client"] = "CRED"
  PROVE  /\ ClientChain'
         /\ mail'["client"] = <<>> => state["server"] = Head(mail["client"])
<1>. DEFINE w == mail["client"]
            p == state["client"]
            q == state'["client"]
<1>1. w \in Seq(Sent) /\ Tail(w) \in Seq(Sent) /\ w # <<>> /\ Chain(p, w)
      /\ (q = Head(w) \/ (Head(w) = "STARTED" /\ q = "CRED"))
  BY DEF NegotiationTypeOK, Ends, ClientChain
<1>2. Chain(q, Tail(w))
  BY <1>1, ChainTail
<1>3. Chain(state["client"], mail["client"])'
  BY <1>2 DEF Chain, Joins, Follows
<1>4. /\ Tail(w) # <<>> => Tail(w)[Len(Tail(w))] = w[Len(w)]
      /\ Tail(w) = <<>> => w[Len(w)] = Head(w)
  <2>1. /\ Len(w) \in Nat /\ Len(w) > 0 /\ Len(Tail(w)) = Len(w) - 1 /\ Head(w) = w[1]
        /\ Tail(w) = <<>> <=> Len(Tail(w)) = 0
        /\ \A i \in 1..Len(w) - 1 : Tail(w)[i] = w[i + 1]
    BY <1>1, TailIndices
  <2>2. Len(Tail(w)) # 0 => Len(w) - 1 \in 1..Len(w) - 1 /\ (Len(w) - 1) + 1 = Len(w)
    BY <2>1
  <2>3. Len(Tail(w)) = 0 => Len(w) = 1
    BY <2>1
  <2>4. QED
    BY <2>1, <2>2, <2>3
<1>5. w[Len(w)] = state["server"]
  BY DEF ClientChain
<1>6. QED
  BY <1>3, <1>4, <1>5 DEF ClientChain

\* Both come together in the first state of the negotiation.
LEMMA TogetherFirst ==
  ASSUME Past("client")', Past("server")', ClientChain', state'["client"] = "CRED",
         mail'["client"] = <<>> => state'["server"] = "CRED",
         mail'["server"] \in {<<>>, <<"CRED">>}
  PROVE  Together'
<1>1. \A i \in DOMAIN mail'["server"] : mail'["server"][i] = "CRED"
  OBVIOUS
<1>2. ~Ahead'
  BY DEF Ahead
<1>3. QED
  BY <1>1, <1>2 DEF Together

LEMMA PeerStartsOrderly ==
  ASSUME NegotiationTypeOK, Orderly, NEW s \in Ends, PeerStarts(s) PROVE Orderly'
<1>1. /\ mail[s] # <<>> /\ Head(mail[s]) = "STARTED" /\ created[s]
      /\ peer'[s] = "STARTED" /\ \A t \in Ends \ {s} : peer'[t] = peer[t]
      /\ UNCHANGED <<requests, created, status>>
      /\ \A t \in Ends \ {s} : state'[t] = state[t]
  BY DEF PeerStarts, Hears, Up, Enter, NegotiationTypeOK
<1>2. \A t \in Ends \ {s} : news'[t] = news[t]
  BY DEF PeerStarts, TellIfNew, Tell, NegotiationTypeOK
<1>3. \A t \in Ends \ {s} : NewsSound(t)'
  BY <1>1, <1>2, NewsOfOther DEF Orderly
<1>4. Start2(Peer(s)) \/ Start4 \/ (s = "client" /\ ServerPast) \/ (s = "server" /\ ClientPast)
  <2>1. Hears(s, "STARTED")
    BY DEF PeerStarts
  <2>2. ~Joins("CRED", "STARTED")
    BY FollowsTable DEF Joins
  <2>3. s = "client" \/ s = "server"
    BY DEF Ends
  <2>4. CASE s = "client"
    BY <2>1, <2>4, ClientHearing, Peers
  <2>5. CASE s = "server"
    BY <2>1, <2>5, ServerHearing, Peers
  <2>6. QED
    BY <2>3, <2>4, <2>5
<1>5. CASE Start2(Peer(s))
  <2>1. Fresh(s) /\ mail[s] = <<"STARTED">> /\ mail[Peer(s)] = <<>> /\ Called(Peer(s))
    BY <1>5, Peers DEF Start2
  <2>2. state'[s] = "STARTED" /\ Tell(s, "STARTED") /\ mail' = Taken(s)
    BY <2>1 DEF PeerStarts, Restart, Fresh, Enter, TellIfNew, NegotiationTypeOK
  <2>3. mail'[s] = <<>> /\ mail'[Peer(s)] = <<>>
    BY <2>1, <2>2, Peers DEF Taken, NegotiationTypeOK
  <2>4. Heard(s)'
    BY <1>1, <2>1, <2>2 DEF Fresh, Heard
  <2>5. Called(Peer(s))'
    BY <1>1, <2>1, Peers DEF Called
  <2>6. Start3(Peer(s))'
    BY <2>3, <2>4, <2>5, Peers DEF Start3
  <2>7. Phases'
    BY <2>6, Peers DEF Phases
  <2>8. NewsSound(s)'
    BY <2>1, <2>2, NewsTold DEF Orderly, Fresh, Answered, Sent
  <2>9. ~Together
    BY <2>1 DEF Together, Fresh, Past, Moves, Ends
  <2>10. QED
    BY <1>1, <1>3, <2>7, <2>8, <2>9 DEF Orderly
<1>6. CASE state[s] = "STARTED" /\ requests[s] = <<>> /\ (Start4 \/ ServerPast \/ ClientPast)
  <2>1. state'[s] = "CRED" /\ Tell(s, "CRED") /\ mail' = Replied(s, "CRED")
    BY <1>6 DEF PeerStarts, Restart, Enter, TellIfNew, NegotiationTypeOK
  <2>2. mail'[s] = Tail(mail[s]) /\ mail'[Peer(s)] = Append(mail[Peer(s)], "CRED")
    BY <2>1, Peers DEF Taken, Replied, NegotiationTypeOK
  <2>3. NewsSound(s)'
    BY <1>1, <1>6, <2>1, NewsTold DEF Orderly, Answered, Sent, Steps
  <2>4. ASSUME Start4, s = "server" PROVE Phases'
    <3>1. /\ Called("client") /\ created["server"] /\ requests'["server"] = <<>>
          /\ requests'["client"] = <<>> /\ state'["client"] = "STARTED"
          /\ mail["client"] = <<"STARTED">> /\ mail["server"] = <<"STARTED">>
      BY <1>1, <2>4 DEF Start4, Called, Ends
    <3>2. mail'["client"] = <<"STARTED", "CRED">> /\ mail'["server"] = <<>>
      BY <2>2, <2>4, <3>1, Peers
    <3>3. ServerPast'
      BY <1>1, <2>1, <2>4, <3>1, <3>2, ServerStarts
    <3>4. QED
      BY <3>3 DEF Phases
  <2>5. ASSUME Start4, s = "client" PROVE Phases'
    <3>1. /\ Called("server") /\ created["client"] /\ requests'["server"] = <<>>
          /\ requests'["client"] = <<>> /\ state'["server"] = "STARTED"
          /\ mail["client"] = <<"STARTED">> /\ mail["server"] = <<"STARTED">>
      BY <1>1, <2>5 DEF Start4, Called, Ends
    <3>2. mail'["server"] = <<"STARTED", "CRED">> /\ mail'["client"] = <<>>
      BY <2>2, <2>5, <3>1, Peers
    <3>3. ClientPast'
      BY <1>1, <2>1, <2>5, <3>1, <3>2, ClientStarts
    <3>4. QED
      BY <3>3 DEF Phases
  <2>6. ASSUME ServerPast, s = "client" PROVE Together'
    <3>1. /\ ClientChain /\ state'["server"] = state["server"] /\ mail["server"] = <<>>
          /\ state["server"] \in Moves
      BY <1>1, <2>6 DEF ServerPast, Ends, Past
    <3>2. ClientChain' /\ (mail'["client"] = <<>> => state["server"] = "STARTED")
      BY <1>1, <2>1, <2>2, <2>6, <3>1, ChainHeard
    <3>3. Past("client")' /\ Past("server")'
      BY <1>1, <1>6, <2>1, <2>6, <3>1 DEF ServerPast, Past, Moves
    <3>4. mail'["server"] = <<"CRED">>
      BY <2>2, <2>6, <3>1, Peers
    <3>5. QED
      BY <2>1, <2>6, <3>1, <3>2, <3>3, <3>4, TogetherFirst DEF Moves
  <2>7. ASSUME ClientPast, s = "server" PROVE Together'
    <3>1. /\ state'["client"] = "CRED" /\ mail["client"] = <<>>
          /\ mail["server"] = <<"STARTED", "CRED">>
      BY <1>1, <2>7 DEF ClientPast, Ends
    <3>2. mail'["client"] = <<"CRED">> /\ mail'["server"] = <<"CRED">>
      BY <2>2, <2>7, <3>1, Peers
    <3>3. Past("client")' /\ Past("server")'
      BY <1>1, <1>6, <2>1, <2>7, <3>1 DEF ClientPast, Past, Moves
    <3>4. ClientChain'
      <4>1. DOMAIN <<"CRED">> = {1} /\ Len(<<"CRED">>) = 1 /\ <<"CRED">>[1] = "CRED"
        OBVIOUS
      <4>2. QED
        BY <2>1, <2>7, <3>1, <3>2, <4>1 DEF ClientChain, Chain, Joins
    <3>5. QED
      BY <2>1, <2>7, <3>1, <3>2, <3>3, <3>4, TogetherFirst
  <2>8. Phases'
    BY <1>4, <1>6, <2>4, <2>5, <2>6, <2>7, Peers DEF Phases, Ends, Start2, Fresh
  <2>9. ~Together
    BY <1>4, <1>6 DEF Together, Past, Moves, Ends
  <2>10. QED
    BY <1>1, <1>3, <2>3, <2>8, <2>9 DEF Orderly
<1>7. QED
  <2>1. ASSUME Start4 \/ (s = "client" /\ ServerPast) \/ (s = "server" /\ ClientPast)
        PROVE  state[s] = "STARTED" /\ requests[s] = <<>>
    BY <2>1 DEF Start4, ServerPast, ClientPast, Called, Ends
  <2>2. QED
    BY <1>4, <1>5, <1>6, <2>1

LEMMA ClientMovesOrderly ==
  ASSUME NegotiationTypeOK, Orderly, NEW n \in Steps, PeerMoves("client", n) PROVE Orderly'
<1>1. /\ mail["client"] # <<>> /\ Head(mail["client"]) = n /\ created["client"]
      /\ state["client"] \in Follows("client", n)
      /\ UNCHANGED <<requests, created, status>> /\ mail'["client"] = Tail(mail["client"])
      /\ mail'["server"] = mail["server"] /\ state'["server"] = state["server"]
      /\ state'["client"] = n /\ Tell("client", n) /\ news'["server"] = news["server"]
      /\ Hears("client", n) /\ n # "STARTED" /\ mail["client"] \in Seq(Sent)
  BY DEF PeerMoves, Hears, Up, Enter, Tell, Taken, NegotiationTypeOK, Ends, Steps
<1>2. ServerPast \/ Together
  BY <1>1, ClientHearing
<1>3. /\ ClientChain'
      /\ mail'["client"] = <<>> => state["server"] = n
  BY <1>1, <1>2, ChainHeard DEF ServerPast, Together
<1>4. requests["client"] = <<>>
  <2>1. state["client"] # "SCRED"
    BY <1>1, FollowsTable DEF Steps
  <2>2. ASSUME Past("client") PROVE requests["client"] = <<>>
    BY <2>1, <2>2, GrantsTable DEF Past, Asks
  <2>3. QED
    BY <1>2, <2>2 DEF ServerPast, Called, Together
<1>5. n \in {"CRED", "REG", "CTLS", "SCRED"} /\ state["client"] \notin {"SCRED", "STLS"}
  BY <1>1, FollowsTable DEF Steps
<1>6. Past("client")'
  BY <1>1, <1>4, <1>5 DEF Past, Moves
<1>7. Past("server")'
  BY <1>1, <1>2 DEF Past, ServerPast, Together
<1>8. ASSUME ServerPast PROVE Together'
  <2>1. state["client"] = "STARTED" /\ mail["server"] = <<>>
    BY <1>8 DEF ServerPast, Called
  <2>2. n = "CRED"
    BY <1>1, <2>1, FollowsTable DEF Steps
  <2>3. QED
    BY <1>1, <1>3, <1>6, <1>7, <2>1, <2>2, TogetherFirst
<1>9. ASSUME Together PROVE Together'
  <2>1. ~Ahead /\ ~Ahead'
    BY <1>1, <1>5 DEF Ahead
  <2>2. \A i \in DOMAIN mail["server"] : mail["server"][i] = "CRED"
    BY <1>9, <2>1 DEF Together
  <2>3. QED
    BY <1>1, <1>3, <1>5, <1>6, <1>7, <2>1, <2>2 DEF Together
<1>10. NewsSound("client")'
  <2>1. state["client"] \notin Answered("client") /\ n \in Sent
    BY <1>1, <1>5 DEF Answered, Sent, Steps
  <2>2. QED
    BY <1>1, <1>4, <2>1, NewsTold DEF Orderly, Ends
<1>11. NewsSound("server")'
  BY <1>1, NewsOfOther DEF Orderly, Ends
<1>12. QED
  BY <1>1, <1>2, <1>8, <1>9, <1>10, <1>11 DEF Orderly, Phases, Ends

\* What is on its way to the server, when the server takes the first message
LEMMA CourierTail ==
  ASSUME NEW w \in Seq(Sent), w # <<>>, NEW A \in BOOLEAN,
         \A i \in DOMAIN w : \/ w[i] = "CRED"
                             \/ w[i] = "STLS" /\ i = Len(w) /\ A
  PROVE  /\ \A i \in DOMAIN Tail(w) : \/ Tail(w)[i] = "CRED"
                                      \/ Tail(w)[i] = "STLS" /\ i = Len(Tail(w)) /\ A
         /\ Head(w) = "STLS" => Tail(w) = <<>>
         /\ Head(w) # w[Len(w)] => /\ Tail(w) # <<>>
                                   /\ Tail(w)[Len(Tail(w))] = w[Len(w)]
<1>1. /\ Len(w) \in Nat /\ Len(w) > 0 /\ Len(Tail(w)) = Len(w) - 1 /\ Head(w) = w[1]
      /\ Tail(w) = <<>> <=> Len(Tail(w)) = 0
      /\ DOMAIN w = 1..Len(w) /\ DOMAIN Tail(w) = 1..Len(w) - 1
      /\ \A i \in 1..Len(w) - 1 : Tail(w)[i] = w[i + 1]
  BY TailIndices
<1>2. ASSUME NEW i \in DOMAIN Tail(w)
      PROVE  \/ Tail(w)[i] = "CRED"
             \/ Tail(w)[i] = "STLS" /\ i = Len(Tail(w)) /\ A
  <2>1. i + 1 \in DOMAIN w /\ Tail(w)[i] = w[i + 1] /\ (i + 1 = Len(w) => i = Len(Tail(w)))
    BY <1>1
  <2>2. QED
    BY <2>1
<1>3. Head(w) = "STLS" => Tail(w) = <<>>
  <2>1. 1 \in DOMAIN w
    BY <1>1
  <2>2. Head(w) = "STLS" => 1 = Len(w)
    BY <1>1, <2>1
  <2>3. QED
    BY <1>1, <2>2
<1>4. ASSUME Head(w) # w[Len(w)]
      PROVE  Tail(w) # <<>> /\ Tail(w)[Len(Tail(w))] = w[Len(w)]
  <2>1. Len(w) # 1
    BY <1>1, <1>4
  <2>2. Len(w) - 1 \in 1..Len(w) - 1 /\ (Len(w) - 1) + 1 = Len(w)
    BY <1>1, <2>1
  <2>3. QED
    BY <1>1, <2>1, <2>2
<1>5. QED
  BY <1>2, <1>3, <1>4

LEMMA ServerMovesOrderly ==
  ASSUME NegotiationTypeOK, Orderly, NEW n \in Steps, PeerMoves("server", n) PROVE Orderly'
<1>1. /\ mail["server"] # <<>> /\ Head(mail["server"]) = n /\ created["server"]
      /\ state["server"] \in Follows("server", n)
      /\ UNCHANGED <<requests, created, status>> /\ mail'["server"] = Tail(mail["server"])
      /\ mail'["client"] = mail["client"] /\ state'["client"] = state["client"]
      /\ state'["server"] = n /\ Tell("server", n) /\ news'["client"] = news["client"]
      /\ Hears("server", n) /\ n # "STARTED" /\ mail["server"] \in Seq(Sent)
      /\ status["server"] = "up"
  BY DEF PeerMoves, Hears, Up, Enter, Tell, Taken, NegotiationTypeOK, Ends, Steps
<1>2. (ClientPast /\ n = "CRED") \/ (Together /\ n = "STLS" /\ Ahead)
  <2>1. Together => state["server"] # "STARTED"
    BY DEF Together, Past, Moves
  <2>2. QED
    BY <1>1, <2>1, ServerHearing, FollowsTable
<1>3. ASSUME ClientPast, n = "CRED"
      PROVE  Together' /\ NewsSound("server")'
  <2>1. mail["server"] = <<"CRED">> /\ state["client"] = "CRED" /\ mail["client"] = <<>>
        /\ Past("client") /\ requests["server"] = <<>> /\ state["server"] = "STARTED"
    BY <1>1, <1>3 DEF ClientPast, Called
  <2>2. mail'["server"] = <<>>
    BY <1>1, <2>1
  <2>3. Past("client")' /\ Past("server")' /\ ClientChain'
    BY <1>1, <1>3, <2>1 DEF Past, Moves, ClientChain, Chain
  <2>4. Together'
    BY <1>1, <1>3, <2>1, <2>2, <2>3, TogetherFirst
  <2>5. NewsSound("server")'
    BY <1>1, <1>3, <2>1, NewsTold DEF Orderly, Ends, Answered, Sent, Steps
  <2>6. QED
    BY <2>4, <2>5
<1>4. ASSUME Together, n = "STLS", Ahead
      PROVE  Together' /\ NewsSound("server")'
  <2>1. mail["client"] = <<>> /\ state["client"] = "STLS" /\ state["server"] = "SCRED"
        /\ Past("client") /\ Past("server")
    BY <1>4 DEF Together, Ahead
  <2>2. requests["server"] = <<>>
    BY <2>1, GrantsTable DEF Past, Asks
  <2>3. mail'["server"] = <<>>
    <3>1. \A i \in DOMAIN mail["server"] :
             \/ mail["server"][i] = "CRED"
             \/ mail["server"][i] = "STLS" /\ i = Len(mail["server"]) /\ Ahead
      BY <1>4 DEF Together
    <3>2. Ahead \in BOOLEAN
      BY DEF Ahead
    <3>3. QED
      BY <1>1, <1>4, <3>1, <3>2, CourierTail
  <2>4. Past("client")' /\ Past("server")' /\ ClientChain'
    BY <1>1, <1>4, <2>1, <2>2 DEF Past, Moves, ClientChain, Chain
  <2>5. ~Ahead'
    BY <1>1, <1>4 DEF Ahead
  <2>6. Together'
    BY <1>1, <1>4, <2>1, <2>3, <2>4, <2>5 DEF Together
  <2>7. NewsSound("server")'
    BY <1>1, <1>4, <2>1, <2>2, NewsTold DEF Orderly, Ends, Answered, Sent, Steps
  <2>8. QED
    BY <2>6, <2>7
<1>5. NewsSound("client")'
  BY <1>1, NewsOfOther DEF Orderly, Ends
<1>6. QED
  BY <1>1, <1>2, <1>3, <1>4, <1>5 DEF Orderly, Phases, Ends

LEMMA PeerConfirmsOrderly ==
  ASSUME NegotiationTypeOK, Orderly, NEW s \in Ends, NEW n \in Steps, PeerConfirms(s, n) PROVE Orderly'
<1>1. /\ mail[s] # <<>> /\ Head(mail[s]) = n /\ state[s] = n
      /\ UNCHANGED <<state, news, requests, created, status>>
      /\ mail'[s] = Tail(mail[s]) /\ mail'[Peer(s)] = mail[Peer(s)]
      /\ n # "STARTED" /\ Hears(s, n)
      /\ s = "client" => n \in {"CRED", "STLS", "SECURE"}
      /\ s = "server" => n \in {"CRED", "REG", "CTLS", "SCRED", "SECURE"}
  BY Peers DEF PeerConfirms, Confirms, Hears, Taken, NegotiationTypeOK, Steps, Ends
<1>2. \A t \in Ends : NewsSound(t)'
  BY <1>1, NewsOfOther DEF Orderly
<1>3. ASSUME s = "client" PROVE Together'
  <2>1. Together /\ n = "CRED"
    BY <1>1, <1>3, ClientHearing DEF ServerPast, Called
  <2>2. /\ ClientChain'
        /\ mail'["client"] = <<>> => state["server"] = n
    BY <1>1, <1>3, <2>1, ChainHeard DEF Together, Ends
  <2>3. Past("client")' /\ Past("server")'
    BY <1>1, <2>1 DEF Together, Past
  <2>4. ~Ahead /\ ~Ahead'
    BY <1>1, <1>3, <2>1 DEF Ahead
  <2>5. \A i \in DOMAIN mail["server"] : mail["server"][i] = "CRED"
    BY <2>1, <2>4 DEF Together
  <2>6. mail'["server"] = mail["server"]
    BY <1>1, <1>3, Peers
  <2>7. QED
    BY <1>1, <1>3, <2>1, <2>2, <2>3, <2>4, <2>5, <2>6 DEF Together
<1>4. ASSUME s = "server" PROVE Together'
  <2>1. Together /\ n = "CRED"
    BY <1>1, <1>4, ServerHearing DEF ClientPast, Called
  <2>2. mail'["client"] = mail["client"] /\ mail["server"] \in Seq(Sent)
    BY <1>1, <1>4, Peers DEF NegotiationTypeOK, Ends
  <2>3. Past("client")' /\ Past("server")' /\ ClientChain'
    BY <1>1, <2>1, <2>2 DEF Together, Past, ClientChain, Chain
  <2>4. ~Ahead /\ ~Ahead'
    BY <1>1, <1>4, <2>1 DEF Ahead
  <2>5. \A i \in DOMAIN mail["server"] : mail["server"][i] = "CRED"
    BY <2>1, <2>4 DEF Together
  <2>6. \A i \in DOMAIN mail'["server"] : mail'["server"][i] = "CRED"
    <3>1. \A i \in DOMAIN Tail(mail["server"]) :
             /\ i + 1 \in DOMAIN mail["server"]
             /\ Tail(mail["server"])[i] = mail["server"][i + 1]
      BY <1>1, <1>4, <2>2, TailIndices
    <3>2. QED
      BY <1>1, <1>4, <2>5, <3>1
  <2>7. QED
    BY <1>1, <2>1, <2>2, <2>3, <2>4, <2>6 DEF Together
<1>5. Together'
  BY <1>3, <1>4 DEF Ends
<1>6. QED
  BY <1>1, <1>2, <1>5 DEF Orderly, Phases

\* The client never meets an illegal message; the server only where the client
\* is behind it.
LEMMA ClientLegal ==
  ASSUME NegotiationTypeOK, Orderly, NEW n \in Steps PROVE ~PeerIsIllegal("client", n)
<1>1. SUFFICES ASSUME PeerIsIllegal("client", n) PROVE FALSE
  OBVIOUS
<1>2. /\ Hears("client", n) /\ n # "STARTED"
      /\ state["client"] \notin Follows("client", n) /\ ~Confirms("client", n)
  BY <1>1 DEF PeerIsIllegal, Steps
<1>3. (ServerPast /\ Joins("STARTED", n)) \/ (Together /\ Joins(state["client"], n))
  BY <1>2, ClientHearing
<1>4. Joins(state["client"], n)
  BY <1>3 DEF ServerPast, Called
<1>5. state["client"] = n /\ n = "CRED"
  BY <1>2, <1>4 DEF Joins
<1>6. QED
  BY <1>2, <1>5 DEF Confirms

LEMMA PeerIsIllegalOrderly ==
  ASSUME NegotiationTypeOK, Orderly, NEW s \in Ends, NEW n \in Steps, PeerIsIllegal(s, n) PROVE Orderly'
<1>1. s = "server"
  BY ClientLegal DEF Ends
<1>2. /\ mail["server"] # <<>> /\ Head(mail["server"]) = n
      /\ UNCHANGED <<state, news, requests, created>>
      /\ mail'["server"] = Tail(mail["server"]) /\ mail'["client"] = mail["client"]
      /\ status'["server"] = "threw" /\ status'["client"] = status["client"]
      /\ Hears("server", n) /\ state["server"] \notin Follows("server", n)
      /\ mail["server"] \in Seq(Sent) /\ n # "STARTED"
  BY <1>1 DEF PeerIsIllegal, Hears, Taken, NegotiationTypeOK, Ends, Steps
<1>3. Together
  <2>1. ClientPast => n # "CRED"
    BY <1>2, FollowsTable DEF ClientPast, Called
  <2>2. QED
    BY <1>2, <2>1, ServerHearing
<1>4. \A t \in Ends : NewsSound(t)'
  BY <1>2, NewsOfOther DEF Orderly
<1>5. Past("client")' /\ Past("server")' /\ ClientChain' /\ Ahead' = Ahead
  BY <1>2, <1>3 DEF Together, Past, ClientChain, Chain, Ahead
<1>6. \A i \in DOMAIN mail'["server"] :
         \/ mail'["server"][i] = "CRED"
         \/ mail'["server"][i] = "STLS" /\ i = Len(mail'["server"]) /\ Ahead'
  <2>1. \A i \in DOMAIN mail["server"] :
           \/ mail["server"][i] = "CRED"
           \/ mail["server"][i] = "STLS" /\ i = Len(mail["server"]) /\ Ahead
    BY <1>3 DEF Together
  <2>2. Ahead \in BOOLEAN
    BY DEF Ahead
  <2>3. QED
    BY <1>2, <1>5, <2>1, <2>2, CourierTail
<1>7. Together'
  BY <1>2, <1>3, <1>5, <1>6 DEF Together
<1>8. QED
  BY <1>2, <1>4, <1>7 DEF Orderly, Phases

LEMMA StepRequestedOrderly ==
  ASSUME NegotiationTypeOK, Orderly, NEW s \in Ends, NEW n \in Steps, StepRequested(s, n) PROVE Orderly'
<1>1. /\ Asked(s, n) /\ UNCHANGED <<created, status>> /\ created[s] /\ Tell(s, n) /\ Send(s, n)
      /\ state'[s] = n /\ state'[Peer(s)] = state[Peer(s)] /\ requests[s] # <<>>
      /\ mail'[s] = mail[s] /\ mail'[Peer(s)] = Append(mail[Peer(s)], n)
      /\ \A t \in Ends \ {s} : news'[t] = news[t] /\ state'[t] = state[t]
  BY Peers DEF StepRequested, Asked, Up, Enter, Tell, Send, NegotiationTypeOK
<1>2. /\ n \in Asks(s) /\ state[s] \in Grants(n)
      /\ requests'[s] = <<>> /\ \A t \in Ends \ {s} : requests'[t] = requests[t]
      /\ (s = "server" /\ ServerPast) \/ Together
  BY <1>1, StepsWaiting
<1>3. n \in Sent /\ n \in Moves
  BY <1>2 DEF Asks, Sent, Steps, Moves
<1>4. NewsSound(s)'
  BY <1>1, <1>2, <1>3, NewsTold DEF Orderly
<1>5. \A t \in Ends \ {s} : NewsSound(t)'
  BY <1>1, <1>2, NewsOfOther DEF Orderly
<1>6. mail["client"] \in Seq(Sent) /\ mail["server"] \in Seq(Sent)
  BY DEF NegotiationTypeOK, Ends
<1>7. Past(s)'
  BY <1>1, <1>2, <1>3 DEF Past
<1>8. /\ \A w \in Seq(Sent) : /\ Append(w, n) # <<>> /\ Len(Append(w, n)) = Len(w) + 1
                              /\ Append(w, n)[Len(w) + 1] = n
                              /\ DOMAIN Append(w, n) = 1..Len(w) + 1
                              /\ \A i \in 1..Len(w) : Append(w, n)[i] = w[i]
                              /\ Len(w) \in Nat /\ DOMAIN w = 1..Len(w)
  BY <1>3
<1>9. ASSUME s = "server" PROVE (ServerPast => ServerPast') /\ (Together => Together')
  <2>1. n \in {"REG", "CTLS", "SCRED"} /\ state["server"] \in Grants(n)
        /\ Grants(n) = Follows("client", n)
    BY <1>2, <1>9, GrantsTable, FollowsTable DEF Asks
  <2>2. state["server"] \notin {"SCRED", "STLS"}
    BY <2>1, GrantsTable
  <2>3. ~Ahead
    BY <2>2 DEF Ahead
  <2>4. Chain(state["client"], Append(mail["client"], n))
    <3>1. ClientChain /\ (Together /\ mail["client"] = <<>> => state["client"] = state["server"])
      BY <1>2, <1>9, <2>3 DEF ServerPast, Together
    <3>2. mail["client"] = <<>> => state["client"] \in Follows("client", n)
      BY <1>2, <1>9, <2>1, <3>1 DEF ServerPast
    <3>3. mail["client"] # <<>> => mail["client"][Len(mail["client"])] \in Follows("client", n)
      BY <2>1, <3>1 DEF ClientChain
    <3>4. QED
      BY <1>3, <1>6, <3>1, <3>2, <3>3, ChainAppend DEF ClientChain
  <2>5. /\ mail'["client"] = Append(mail["client"], n) /\ mail'["server"] = mail["server"]
        /\ state'["client"] = state["client"] /\ state'["server"] = n
        /\ requests'["client"] = requests["client"]
    BY <1>1, <1>2, <1>9, Peers DEF Ends
  <2>6. mail'["client"] # <<>> /\ mail'["client"][Len(mail'["client"])] = n
    <3>1. /\ Append(mail["client"], n) # <<>>
          /\ Append(mail["client"], n)[Len(Append(mail["client"], n))] = n
      BY <1>6, <1>8
    <3>2. QED
      BY <2>5, <3>1
  <2>7. ClientChain'
    <3>1. Chain(state["client"], mail["client"])'
      BY <2>4, <2>5 DEF Chain, Joins, Follows
    <3>2. QED
      BY <2>5, <2>6, <3>1 DEF ClientChain
  <2>8. ASSUME ServerPast PROVE ServerPast'
    BY <1>1, <1>7, <1>9, <2>5, <2>6, <2>7, <2>8 DEF ServerPast, Called
  <2>9. ASSUME Together PROVE Together'
    <3>1. state["client"] # "STLS"
      BY <2>2, <2>3, <2>9 DEF Together
    <3>2. ~Ahead'
      BY <2>5, <3>1 DEF Ahead
    <3>3. Past("client")'
      BY <1>1, <2>5, <2>9 DEF Together, Past
    <3>4. \A i \in DOMAIN mail["server"] : mail["server"][i] = "CRED"
      BY <2>3, <2>9 DEF Together
    <3>5. QED
      BY <1>7, <1>9, <2>5, <2>6, <2>7, <3>1, <3>2, <3>3, <3>4 DEF Together
  <2>10. QED
    BY <2>8, <2>9
<1>10. ASSUME s = "client" PROVE Together'
  <2>1. n = "STLS" /\ state["client"] = "SCRED" /\ Together
    BY <1>2, <1>10, GrantsTable DEF Asks
  <2>2. mail["client"] = <<>>
    BY <1>6, <2>1, ChainMoves DEF Together, ClientChain
  <2>3. ~Ahead /\ state["server"] = "SCRED"
    BY <2>1, <2>2 DEF Ahead, Together
  <2>4. /\ mail'["server"] = Append(mail["server"], n) /\ mail'["client"] = mail["client"]
        /\ state'["client"] = n /\ state'["server"] = "SCRED"
        /\ requests'["server"] = requests["server"]
    BY <1>1, <1>2, <1>10, <2>3, Peers DEF Ends
  <2>5. Ahead'
    BY <2>1, <2>4 DEF Ahead
  <2>6. Past("server")'
    BY <1>1, <2>1, <2>3, <2>4 DEF Together, Past
  <2>7. ClientChain'
    BY <2>2, <2>4 DEF ClientChain, Chain
  <2>8. \A i \in DOMAIN mail["server"] : mail["server"][i] = "CRED"
    BY <2>1, <2>3 DEF Together
  <2>9. \A i \in DOMAIN mail'["server"] :
           \/ mail'["server"][i] = "CRED"
           \/ mail'["server"][i] = "STLS" /\ i = Len(mail'["server"]) /\ Ahead'
    BY <1>6, <1>8, <2>1, <2>4, <2>5, <2>8
  <2>10. mail'["server"] # <<>> /\ mail'["server"][Len(mail'["server"])] = "STLS"
    BY <1>6, <1>8, <2>1, <2>4
  <2>11. QED
    BY <1>7, <1>10, <2>2, <2>4, <2>5, <2>6, <2>7, <2>9, <2>10 DEF Together
<1>11. Phases' /\ (Together => Together')
  BY <1>2, <1>9, <1>10 DEF Phases, Ends
<1>12. QED
  BY <1>1, <1>4, <1>5, <1>11 DEF Orderly

LEMMA ManagerHearsOrderly ==
  ASSUME NegotiationTypeOK, Orderly, NEW s \in Ends, ManagerHears(s) PROVE Orderly'
<1>. DEFINE w == news[s]
<1>1. PICK a \in Answers(s, Head(w)) : requests' = [requests EXCEPT ![s] = @ \o a]
  BY DEF ManagerHears
<1>2. /\ created[s] /\ w # <<>> /\ w \in Seq(Sent) /\ requests[s] \in Seq(Sent)
      /\ UNCHANGED <<state, peer, mail, status, created>>
      /\ news'[s] = Tail(w) /\ \A t \in Ends \ {s} : news'[t] = news[t]
      /\ requests'[s] = requests[s] \o a /\ \A t \in Ends \ {s} : requests'[t] = requests[t]
  BY <1>1 DEF ManagerHears, Up, NegotiationTypeOK
<1>3. \A t \in Ends \ {s} : NewsSound(t)'
  BY <1>2, NewsOfOther DEF Orderly
<1>4. /\ Len(w) \in Nat /\ Len(w) > 0 /\ Len(Tail(w)) = Len(w) - 1 /\ Head(w) = w[1]
      /\ DOMAIN w = 1..Len(w) /\ DOMAIN Tail(w) = 1..Len(w) - 1
      /\ \A i \in 1..Len(w) - 1 : Tail(w)[i] = w[i + 1]
      /\ Tail(w) = <<>> <=> Len(Tail(w)) = 0
  BY <1>2, TailIndices
<1>5. \A i \in DOMAIN w : w[i] \in Answered(s) =>
         i = Len(w) /\ w[i] = state[s] /\ requests[s] = <<>>
  BY DEF Orderly, NewsSound
<1>. HIDE DEF w
<1>6. ASSUME Head(w) \notin Answered(s) PROVE Orderly'
  <2>1. a = <<>>
    BY <1>1, <1>6, AnswersTable
  <2>2. requests'[s] = requests[s]
    BY <1>2, <2>1
  <2>3. \A t \in Ends : requests'[t] = requests[t]
    BY <1>2, <2>2
  <2>4. ASSUME NEW i \in DOMAIN Tail(w), Tail(w)[i] \in Answered(s)
        PROVE  i = Len(Tail(w)) /\ Tail(w)[i] = state[s] /\ requests[s] = <<>>
    <3>1. i + 1 \in DOMAIN w /\ Tail(w)[i] = w[i + 1] /\ (i + 1 = Len(w) => i = Len(Tail(w)))
      BY <1>4
    <3>2. QED
      BY <1>5, <2>4, <3>1
  <2>5. NewsSound(s)'
    <3>1. Answered(s)' = Answered(s)
      BY DEF Answered
    <3>2. QED
      BY <1>2, <2>2, <2>4, <3>1 DEF NewsSound
  <2>6. \A t \in Ends : news[t] = <<>> => news'[t] = <<>>
    <3>1. news[s] # <<>>
      BY <1>2 DEF w
    <3>2. QED
      BY <1>2, <3>1
  <2>7. ASSUME NEW t \in Ends
        PROVE  /\ Fresh(t) => Fresh(t)'
               /\ Called(t)' = Called(t) /\ Heard(t)' = Heard(t) /\ Past(t)' = Past(t)
    BY <1>2, <2>3, <2>6 DEF Fresh, Called, Heard, Past
  <2>8. ClientChain' = ClientChain /\ Ahead' = Ahead
    BY <1>2 DEF ClientChain, Chain, Ahead
  <2>9. "client" \in Ends /\ "server" \in Ends
    BY DEF Ends
  <2>10. (Together => Together') /\ (ServerPast => ServerPast') /\ (ClientPast => ClientPast')
    BY <1>2, <2>7, <2>8, <2>9 DEF Together, ServerPast, ClientPast
  <2>11. (Start1 => Start1') /\ (Start4 => Start4')
    BY <1>2, <2>7, <2>9 DEF Start1, Start4
  <2>12. \A t \in Ends : (Start2(t) => Start2(t)') /\ (Start3(t) => Start3(t)')
    BY <1>2, <2>7, Peers DEF Start2, Start3
  <2>13. Phases'
    BY <2>10, <2>11, <2>12 DEF Orderly, Phases
  <2>14. QED
    BY <1>2, <1>3, <2>5, <2>10, <2>13 DEF Orderly
<1>7. ASSUME Head(w) \in Answered(s) PROVE Orderly'
  <2>1. Len(w) = 1 /\ Head(w) = state[s] /\ requests[s] = <<>>
    <3>1. 1 \in DOMAIN w
      BY <1>4
    <3>2. QED
      BY <1>4, <1>5, <1>7, <3>1
  <2>2. PICK r \in Asks(s) : a = <<r>> /\ state[s] \in Grants(r)
    BY <1>1, <1>7, <2>1, AnswersTable
  <2>3. requests'[s] = <<r>> /\ news'[s] = <<>>
    BY <1>2, <1>4, <2>1, <2>2
  <2>4. NewsSound(s)'
    BY <2>3 DEF NewsSound
  <2>5. state[s] \in Moves /\ state[s] \notin {"STARTED", "UNDEFINED"}
    BY <1>7, <2>1 DEF Answered, Moves
  <2>6. ~Fresh(s) /\ ~Called(s) /\ ~Heard(s)
    BY <2>5 DEF Fresh, Called, Heard
  <2>7. Past(s)'
    BY <1>2, <2>2, <2>3, <2>5 DEF Past
  <2>8. \A t \in Ends \ {s} : (Past(t) => Past(t)') /\ (Called(t) => Called(t)')
    BY <1>2 DEF Past, Called
  <2>9. ClientChain' = ClientChain /\ Ahead' = Ahead
    BY <1>2 DEF ClientChain, Chain, Ahead
  <2>10. "client" \in Ends /\ "server" \in Ends
    BY DEF Ends
  <2>11. (Together => Together')
    BY <1>2, <2>7, <2>8, <2>9, <2>10 DEF Together
  <2>12. ServerPast => ServerPast'
    <3>1. ServerPast => s = "server"
      BY <2>6 DEF ServerPast, Ends
    <3>2. QED
      BY <1>2, <2>7, <2>8, <2>9, <2>10, <3>1 DEF ServerPast
  <2>13. ClientPast => ClientPast'
    <3>1. ClientPast => s = "client"
      BY <2>6 DEF ClientPast, Ends
    <3>2. QED
      BY <1>2, <2>7, <2>8, <2>9, <2>10, <3>1 DEF ClientPast
  <2>14. ~Start1 /\ ~Start4 /\ \A t \in Ends : ~Start2(t) /\ ~Start3(t)
    BY <2>6, Peers DEF Start1, Start2, Start3, Start4, Ends
  <2>15. Phases'
    BY <2>11, <2>12, <2>13, <2>14 DEF Orderly, Phases
  <2>16. QED
    BY <1>2, <1>3, <2>4, <2>11, <2>15 DEF Orderly
<1>8. QED
  BY <1>6, <1>7

LEMMA NoEndHeard ==
  ASSUME NegotiationTypeOK, Orderly, NEW s \in Ends PROVE ~Hears(s, "END")
<1>1. ~Joins("STARTED", "END")
  BY FollowsTable DEF Joins
<1>2. s = "client" \/ s = "server"
  BY DEF Ends
<1>3. ~Hears("client", "END")
  BY <1>1, ClientHearing
<1>4. ~Hears("server", "END")
  BY ServerHearing
<1>5. QED
  BY <1>2, <1>3, <1>4
--------------------------------------------------------------------------------
(* The invariant and what follows from it. *)

LEMMA NegotiationInitInv == NegotiationInit => NegotiationInv
<1>1. SUFFICES ASSUME NegotiationInit PROVE Orderly
  BY InitTypes DEF NegotiationInv
<1>2. Start1
  BY <1>1 DEF NegotiationInit, Start1, Fresh, Ends
<1>3. \A s \in Ends : NewsSound(s)
  BY <1>1 DEF NegotiationInit, NewsSound
<1>4. QED
  BY <1>1, <1>2, <1>3 DEF NegotiationInit, Orderly, Phases, Ends

LEMMA NegotiationNextInv == NegotiationInv /\ [NegotiationNext]_negotiationVars => NegotiationInv'
<1>. SUFFICES ASSUME NegotiationInv, [NegotiationNext]_negotiationVars PROVE NegotiationInv'
  OBVIOUS
<1>1. NegotiationTypeOK'
  BY NextTypes DEF NegotiationInv
<1>2. SUFFICES ASSUME Undisturbed' PROVE Orderly'
  BY <1>1 DEF NegotiationInv
<1>3. NegotiationTypeOK /\ restarts \in Nat /\ ended \in Nat
  BY DEF NegotiationInv, NegotiationTypeOK
<1>4. ASSUME NEW s \in Ends PROVE ~AskRestart(s) /\ ~AskEnd(s)
  <2>1. restarts + 1 # 0 /\ ended + 1 # 0
    BY <1>3
  <2>2. QED
    BY <1>2, <2>1 DEF AskRestart, AskEnd, Undisturbed
<1>5. restarts' = restarts /\ ended' = ended
  BY <1>4 DEF NegotiationNext, Handles, Create, PeerStarts, PeerEnds, StartRequested, EndRequested,
              ManagerHears, PeerMoves, PeerConfirms, PeerIsIllegal, StepRequested, StepAsserted,
              Hears, Asked, negotiationVars
<1>6. Orderly
  BY <1>2, <1>5 DEF NegotiationInv, Undisturbed
<1>7. ASSUME NEW s \in Ends PROVE ~PeerEnds(s) /\ ~EndRequested(s)
  BY <1>3, <1>6, NoEndHeard, NoEndRequested DEF PeerEnds, EndRequested
<1>8. ASSUME NEW s \in Ends, NEW n \in Steps PROVE ~StepAsserted(s, n)
  BY <1>3, <1>6, StepsWaiting DEF StepAsserted
<1>9. ASSUME NEW s \in Ends, NEW n \in Steps, PeerMoves(s, n) PROVE Orderly'
  BY <1>3, <1>6, <1>9, ClientMovesOrderly, ServerMovesOrderly DEF Ends
<1>10. CASE UNCHANGED negotiationVars
  <2>1. \A t \in Ends : /\ Fresh(t)' = Fresh(t) /\ Called(t)' = Called(t)
                        /\ Heard(t)' = Heard(t) /\ Past(t)' = Past(t)
                        /\ NewsSound(t)' = NewsSound(t)
    BY <1>10 DEF negotiationVars, Fresh, Called, Heard, Past, NewsSound
  <2>2. ClientChain' = ClientChain /\ Ahead' = Ahead
    BY <1>10 DEF negotiationVars, ClientChain, Chain, Ahead
  <2>3. Together' = Together
    BY <1>10, <2>1, <2>2 DEF negotiationVars, Together, Ends
  <2>4. ServerPast' = ServerPast /\ ClientPast' = ClientPast /\ Start1' = Start1 /\ Start4' = Start4
    BY <1>10, <2>1, <2>2 DEF negotiationVars, ServerPast, ClientPast, Start1, Start4, Ends
  <2>5. \A t \in Ends : Start2(t)' = Start2(t) /\ Start3(t)' = Start3(t)
    BY <1>10, <2>1, Peers DEF negotiationVars, Start2, Start3
  <2>6. Phases' = Phases
    BY <2>3, <2>4, <2>5 DEF Phases
  <2>7. QED
    BY <1>6, <1>10, <2>1, <2>3, <2>6 DEF negotiationVars, Orderly
<1>11. CASE NegotiationNext
  <2>1. PICK s \in Ends : Create(s) \/ Handles(s)
    BY <1>4, <1>11 DEF NegotiationNext
  <2>2. QED
    BY <1>3, <1>6, <1>7, <1>8, <1>9, <2>1, CreateOrderly, PeerStartsOrderly,
       StartRequestedOrderly, ManagerHearsOrderly, PeerConfirmsOrderly, PeerIsIllegalOrderly,
       StepRequestedOrderly DEF Handles
<1>12. QED
  BY <1>10, <1>11

LEMMA InvNothing == NegotiationInv => NothingImpossible
BY DEF NegotiationInv, Orderly, NothingImpossible, ClientNeverThrows, AssertionsHold, Ends

THEOREM Invariance == NegotiationSpec => []NegotiationInv
BY NegotiationInitInv, NegotiationNextInv, PTL DEF NegotiationSpec

\* For any restarts and ends allowed: as long as nobody asks for any, no
\* interleaving of the two ends makes the client meet a message it calls
\* illegal, and no assertion of a request fails.
THEOREM UndisturbedIsLegal == NegotiationSpec => []NothingImpossible
BY Invariance, InvNothing, PTL
--------------------------------------------------------------------------------
(* Restarts: two ends at rest, however often either is asked to start anew, as *)
(* long as nobody asks for the end and both stay up.                           *)

\* Is something of S in the line w?
Holds(w, S) == \E i \in DOMAIN w : w[i] \in S

\* What s will have heard of its peer once its mail is read: the last the peer said.
LastTo(s) == IF mail[s] = <<>> THEN peer[s] ELSE mail[s][Len(mail[s])]
Said(s) == LastTo(Peer(s))

\* The certificate manager has yet to ask, or its request to be handled.
Owes(s) == Holds(requests[s], Asks(s)) \/ Holds(news[s], Answered(s))

\* What an end may say
Says(s) == IF s = "client" THEN {"STARTED", "CRED", "STLS"}
                           ELSE {"STARTED", "CRED", "REG", "CTLS", "SCRED"}

\* Nobody has asked for an end, and both ends are still up.
Calm == ended = 0 /\ \A s \in Ends : status[s] = "up"

Vocabulary ==
  \A s \in Ends :
    /\ state[s] \in {"UNDEFINED", "STARTED"} \cup Moves
    /\ requests[s] \in Seq({"STARTED"} \cup Asks(s))
    /\ mail[s] \in Seq(Says(Peer(s)))
    /\ created[s] /\ state[s] = "UNDEFINED" => requests[s] # <<>>

\* What the server last heard, last said and still owes in each of its states.
\* Where it stays with what it said last, it owes nothing only if it has done so
\* at the request of the client.
ServerSide ==
  LET v == state["server"]
      p == peer["server"]
      said == Said("server")
  IN  /\ v = "UNDEFINED" => p = "UNDEFINED" /\ said = "UNDEFINED"
      /\ v \in {"REG", "CTLS", "SCRED"} => said = v
      /\ v = "STLS" => said = "SCRED" /\ p = "STLS"
      /\ p = "STLS" => v \in {"STARTED", "STLS"}
      /\ v \in {"CRED", "REG", "CTLS"} => Owes("server")
      /\ v = "STARTED" /\ said \in {"CRED", "REG", "CTLS"} => Owes("server")
      /\ v = "STARTED" /\ said = "SCRED" => Owes("server") \/ p = "STARTED"

\* The client is where the server took it last, or one further, or starts anew.
ClientSide ==
  LET c == state["client"]
      p == peer["client"]
      said == Said("client")
  IN  /\ c = "UNDEFINED" => p = "UNDEFINED"
      /\ c \in {"REG", "CTLS", "SCRED"} => p = c
      /\ c = "STLS" => p = "SCRED" /\ said = "STLS"
      /\ c = "CRED" => p = "CRED" \/ (p = "STARTED" /\ said = "CRED")
      /\ p = "SCRED" => c \in {"STARTED", "SCRED", "STLS"}
      /\ c = "SCRED" => Owes("client")
      /\ c = "STARTED" /\ p # "STARTED" => said = "STARTED"

\* The credentials of the server, until it hears that they were verified, are
\* on their way, or with the client, or the answer is.
Verification ==
  \/ state["server"] = "SCRED"
  \/ state["server"] = "STARTED" /\ peer["server"] = "CRED" /\ ~Owes("server")
  => \/ Holds(mail["client"], {"SCRED"})
     \/ Owes("client")
     \/ Holds(mail["server"], {"STLS"})

RestInv == NegotiationTypeOK /\ (Calm => Vocabulary /\ ServerSide /\ ClientSide /\ Verification)
--------------------------------------------------------------------------------
\* What a line holds when it grows at its end, and when its head is taken off
LEMMA HoldsAppend ==
  ASSUME NEW A, NEW w \in Seq(A), NEW n, NEW S
  PROVE  Holds(Append(w, n), S) <=> Holds(w, S) \/ n \in S
<1>. DEFINE t == Append(w, n)
<1>1. /\ Len(w) \in Nat /\ DOMAIN w = 1..Len(w) /\ DOMAIN t = 1..Len(w) + 1
      /\ t[Len(w) + 1] = n /\ \A i \in 1..Len(w) : t[i] = w[i]
  OBVIOUS
<1>. HIDE DEF t
<1>2. ASSUME NEW i \in DOMAIN w, w[i] \in S PROVE Holds(t, S)
  BY <1>1, <1>2 DEF Holds
<1>3. n \in S => Holds(t, S)
  BY <1>1 DEF Holds
<1>4. ASSUME NEW i \in DOMAIN t, t[i] \in S PROVE Holds(w, S) \/ n \in S
  BY <1>1, <1>4 DEF Holds
<1>5. Holds(t, S) <=> Holds(w, S) \/ n \in S
  BY <1>2, <1>3, <1>4 DEF Holds
<1>6. QED
  BY <1>5 DEF t

LEMMA HoldsTail ==
  ASSUME NEW A, NEW w \in Seq(A), w # <<>>, NEW S
  PROVE  Holds(w, S) <=> Head(w) \in S \/ Holds(Tail(w), S)
<1>. DEFINE t == Tail(w)
<1>1. /\ Len(w) \in Nat /\ Len(w) > 0 /\ Head(w) = w[1] /\ DOMAIN w = 1..Len(w)
      /\ DOMAIN t = 1..Len(w) - 1 /\ \A i \in 1..Len(w) - 1 : t[i] = w[i + 1]
  BY TailIndices
<1>. HIDE DEF t
<1>2. ASSUME NEW i \in DOMAIN w, w[i] \in S PROVE Head(w) \in S \/ Holds(t, S)
  <2>1. CASE i = 1
    BY <1>1, <1>2, <2>1
  <2>2. CASE i # 1
    <3>1. i - 1 \in 1..Len(w) - 1 /\ (i - 1) + 1 = i
      BY <1>1, <1>2, <2>2
    <3>2. t[i - 1] = w[i]
      BY <1>1, <3>1
    <3>3. QED
      BY <1>1, <1>2, <3>1, <3>2 DEF Holds
  <2>3. QED
    BY <2>1, <2>2
<1>3. ASSUME NEW i \in DOMAIN t, t[i] \in S PROVE Holds(w, S)
  <2>1. i + 1 \in DOMAIN w /\ t[i] = w[i + 1]
    BY <1>1, <1>3
  <2>2. QED
    BY <1>3, <2>1 DEF Holds
<1>4. Head(w) \in S => Holds(w, S)
  BY <1>1 DEF Holds
<1>5. Holds(w, S) <=> Head(w) \in S \/ Holds(t, S)
  BY <1>2, <1>3, <1>4 DEF Holds
<1>6. QED
  BY <1>5 DEF t

\* What s still owes, from what waits for it.
LEMMA OwesNow ==
  ASSUME NEW s, NEW r, NEW w, requests'[s] = r, news'[s] = w
  PROVE  Owes(s)' <=> Holds(r, Asks(s)) \/ Holds(w, Answered(s))
BY DEF Owes, Holds, Asks, Answered

\* ... which is the same as long as nothing new waits.
LEMMA OwesStays ==
  ASSUME NEW s, requests'[s] = requests[s], news'[s] = news[s]
  PROVE  Owes(s)' <=> Owes(s)
BY DEF Owes, Holds, Asks, Answered
--------------------------------------------------------------------------------
(* The steps of an end, by what the other depends on. *)

\* What an end takes from its mail, and what it says.
Heeds(s, n) == /\ mail[s] # <<>> /\ Head(mail[s]) = n
               /\ peer'[s] = n /\ mail'[s] = Tail(mail[s])
Ignores(s)  == peer'[s] = peer[s] /\ mail'[s] = mail[s]
Speaks(s, n) == mail'[Peer(s)] = Append(mail[Peer(s)], n)
Quiet(s) == mail'[Peer(s)] = mail[Peer(s)]
Enters(s, n) == state'[s] = n /\ (Owes(s)' <=> Owes(s) \/ n \in Answered(s))

\* The steps of an end, as far as the two ends at rest depend on them: nothing
\* that matters, a confirmation, a step behind the peer, the peer's restart in
\* the negotiation and at its start, an own restart in either, an own step.
Idles(s) == Ignores(s) /\ Quiet(s) /\ state'[s] = state[s] /\ (Owes(s)' <=> Owes(s))
IsConfirmed(s) ==
  \E n \in Moves : /\ Heeds(s, n) /\ Quiet(s) /\ Confirms(s, n)
                   /\ state'[s] = state[s] /\ (Owes(s)' <=> Owes(s))
FollowsPeer(s) ==
  \E n \in Moves : Heeds(s, n) /\ Quiet(s) /\ state[s] \in Follows(s, n) /\ Enters(s, n)
FallsBack(s) ==
  Heeds(s, "STARTED") /\ Quiet(s) /\ state[s] # "STARTED" /\ Enters(s, "STARTED")
MeetsPeer(s) ==
  Heeds(s, "STARTED") /\ Speaks(s, "CRED") /\ state[s] = "STARTED" /\ Enters(s, "CRED")
StartsAnew(s) ==
  /\ Ignores(s) /\ state[s] # "STARTED" /\ Enters(s, "STARTED")
  /\ IF peer[s] = "STARTED" THEN Quiet(s) ELSE Speaks(s, "STARTED")
StartsOff(s) ==
  /\ Ignores(s) /\ Speaks(s, "CRED")
  /\ state[s] = "STARTED" /\ peer[s] = "STARTED" /\ Enters(s, "CRED")
Leads(s) ==
  \E n \in Asks(s) : /\ Ignores(s) /\ Speaks(s, n)
                     /\ state[s] \in Grants(n) /\ state'[s] = n
                     /\ n \in Answered(s) => Owes(s)'

Turn(s) ==
  /\ LET t == Peer(s)
     IN  /\ state'[t] = state[t] /\ peer'[t] = peer[t]
         /\ requests'[t] = requests[t] /\ news'[t] = news[t]
  /\ \/ Idles(s)
     \/ IsConfirmed(s)
     \/ FollowsPeer(s)
     \/ FallsBack(s)
     \/ MeetsPeer(s)
     \/ StartsAnew(s)
     \/ StartsOff(s)
     \/ Leads(s)
--------------------------------------------------------------------------------
\* A change that the modules are told of is one the manager may have to answer.
LEMMA OwesMore ==
  ASSUME NEW s, NEW n, NEW A, news[s] \in Seq(A),
         requests'[s] = requests[s], news'[s] = Append(news[s], n)
  PROVE  Owes(s)' <=> Owes(s) \/ n \in Answered(s)
<1>1. Owes(s)' <=> Holds(requests[s], Asks(s)) \/ Holds(Append(news[s], n), Answered(s))
  BY OwesNow
<1>2. Holds(Append(news[s], n), Answered(s)) <=> Holds(news[s], Answered(s)) \/ n \in Answered(s)
  BY HoldsAppend
<1>3. QED
  BY <1>1, <1>2 DEF Owes

\* A request to start is nothing the manager owes.
LEMMA OwesStart ==
  ASSUME NEW s \in Ends, NEW A, requests[s] \in Seq(A), requests[s] # <<>>,
         Head(requests[s]) = "STARTED"
  PROVE  Owes(s) <=> Holds(Tail(requests[s]), Asks(s)) \/ Holds(news[s], Answered(s))
<1>1. "STARTED" \notin Asks(s)
  BY DEF Asks
<1>2. Holds(requests[s], Asks(s)) <=> Holds(Tail(requests[s]), Asks(s))
  BY <1>1, HoldsTail
<1>3. QED
  BY <1>2 DEF Owes

\* No manager answers a start.
LEMMA StartedAnswered == \A s : "STARTED" \notin Answered(s)
BY DEF Answered

\* A step of each kind is a turn of the end, by what the other depends on.
LEMMA CreateTurn ==
  ASSUME NegotiationTypeOK, NEW s \in Ends, Create(s)
  PROVE  Turn(s)
<1>1. requests'[s] = Append(requests[s], "STARTED") /\ news'[s] = news[s]
  BY DEF Create, NegotiationTypeOK
<1>2. requests[s] \in Seq(Sent) /\ "STARTED" \notin Asks(s)
  BY DEF NegotiationTypeOK, Asks
<1>3. Holds(Append(requests[s], "STARTED"), Asks(s)) <=> Holds(requests[s], Asks(s))
  BY <1>2, HoldsAppend
<1>4. Owes(s)' <=> Holds(Append(requests[s], "STARTED"), Asks(s)) \/ Holds(news[s], Answered(s))
  BY <1>1, OwesNow
<1>5. Owes(s)' <=> Owes(s)
  BY <1>3, <1>4 DEF Owes
<1>6. requests'[Peer(s)] = requests[Peer(s)]
  BY Peers DEF Create, NegotiationTypeOK
<1>7. QED
  BY <1>5, <1>6 DEF Create, Turn, Idles, Ignores, Quiet

LEMMA AskRestartTurn ==
  ASSUME NegotiationTypeOK, NEW s \in Ends, AskRestart(s)
  PROVE  Turn(s)
<1>1. requests'[s] = Append(requests[s], "STARTED") /\ news'[s] = news[s]
  BY DEF AskRestart, NegotiationTypeOK
<1>2. requests[s] \in Seq(Sent) /\ "STARTED" \notin Asks(s)
  BY DEF NegotiationTypeOK, Asks
<1>3. Holds(Append(requests[s], "STARTED"), Asks(s)) <=> Holds(requests[s], Asks(s))
  BY <1>2, HoldsAppend
<1>4. Owes(s)' <=> Holds(Append(requests[s], "STARTED"), Asks(s)) \/ Holds(news[s], Answered(s))
  BY <1>1, OwesNow
<1>5. Owes(s)' <=> Owes(s)
  BY <1>3, <1>4 DEF Owes
<1>6. requests'[Peer(s)] = requests[Peer(s)]
  BY Peers DEF AskRestart, NegotiationTypeOK
<1>7. QED
  BY <1>5, <1>6 DEF AskRestart, Turn, Idles, Ignores, Quiet

LEMMA ManagerHearsTurn ==
  ASSUME NegotiationTypeOK, NEW s \in Ends, ManagerHears(s)
  PROVE  Turn(s)
<1>. DEFINE n == Head(news[s])
<1>1. PICK a \in Answers(s, n) : requests' = [requests EXCEPT ![s] = @ \o a]
  BY DEF ManagerHears
<1>2. requests'[s] = requests[s] \o a /\ news'[s] = Tail(news[s])
  BY <1>1 DEF ManagerHears, NegotiationTypeOK
<1>3. requests[s] \in Seq(Sent) /\ news[s] \in Seq(Sent) /\ news[s] # <<>>
  BY DEF ManagerHears, NegotiationTypeOK
<1>4. Holds(news[s], Answered(s)) <=> n \in Answered(s) \/ Holds(Tail(news[s]), Answered(s))
  BY <1>3, HoldsTail
<1>5. Owes(s)' <=> Holds(requests[s] \o a, Asks(s)) \/ Holds(Tail(news[s]), Answered(s))
  BY <1>2, OwesNow
<1>6. Holds(requests[s] \o a, Asks(s)) <=> Holds(requests[s], Asks(s)) \/ n \in Answered(s)
  <2>1. CASE n \in Answered(s)
    <3>1. PICK r \in Asks(s) : a = <<r>>
      BY <1>1, <2>1, AnswersTable
    <3>2. requests[s] \o a = Append(requests[s], r)
      BY <1>3, <3>1
    <3>3. Holds(Append(requests[s], r), Asks(s)) <=> Holds(requests[s], Asks(s)) \/ r \in Asks(s)
      BY <1>3, HoldsAppend
    <3>4. QED
      BY <2>1, <3>1, <3>2, <3>3
  <2>2. CASE n \notin Answered(s)
    <3>1. a = <<>>
      BY <1>1, <2>2, AnswersTable
    <3>2. requests[s] \o a = requests[s]
      BY <1>3, <3>1
    <3>3. QED
      BY <2>2, <3>2
  <2>3. QED
    BY <2>1, <2>2
<1>7. Owes(s)' <=> Owes(s)
  BY <1>4, <1>5, <1>6 DEF Owes
<1>8. requests'[Peer(s)] = requests[Peer(s)] /\ news'[Peer(s)] = news[Peer(s)]
  BY <1>1, Peers DEF ManagerHears, NegotiationTypeOK
<1>9. QED
  BY <1>7, <1>8 DEF ManagerHears, Turn, Idles, Ignores, Quiet

\* A message taken, with nothing said, or n said in answer.
LEMMA HearsHeeds ==
  ASSUME NegotiationTypeOK, NEW s \in Ends, NEW n, Hears(s, n)
  PROVE  /\ mail' = Taken(s) => Heeds(s, n) /\ Quiet(s)
         /\ \A r : mail' = Replied(s, r) => Heeds(s, n) /\ Speaks(s, r)
         /\ peer'[Peer(s)] = peer[Peer(s)] /\ requests' = requests
<1>1. /\ mail[s] # <<>> /\ Head(mail[s]) = n /\ peer' = [peer EXCEPT ![s] = n]
      /\ requests' = requests /\ peer \in [Ends -> States] /\ mail \in [Ends -> Seq(Sent)]
      /\ Peer(s) \in Ends /\ Peer(s) # s
  BY Peers DEF Hears, NegotiationTypeOK
<1>2. peer'[s] = n /\ peer'[Peer(s)] = peer[Peer(s)]
  BY <1>1
<1>3. Taken(s)[s] = Tail(mail[s]) /\ Taken(s)[Peer(s)] = mail[Peer(s)]
  BY <1>1 DEF Taken
<1>4. ASSUME NEW r
      PROVE  /\ Replied(s, r)[s] = Tail(mail[s])
             /\ Replied(s, r)[Peer(s)] = Append(mail[Peer(s)], r)
  BY <1>1 DEF Replied, Taken
<1>5. QED
  BY <1>1, <1>2, <1>3, <1>4 DEF Heeds, Quiet, Speaks

\* A state entered, and told if it is another.
LEMMA EnterTells ==
  ASSUME NegotiationTypeOK, NEW s \in Ends, NEW n, Enter(s, n), requests' = requests,
         Tell(s, n)
  PROVE  /\ Enters(s, n)
         /\ state'[Peer(s)] = state[Peer(s)] /\ news'[Peer(s)] = news[Peer(s)]
<1>1. /\ state'[s] = n /\ news'[s] = Append(news[s], n) /\ news[s] \in Seq(Sent)
      /\ state'[Peer(s)] = state[Peer(s)] /\ news'[Peer(s)] = news[Peer(s)]
  BY Peers DEF NegotiationTypeOK, Enter, Tell
<1>2. Owes(s)' <=> Owes(s) \/ n \in Answered(s)
  BY <1>1, OwesMore
<1>3. QED
  BY <1>1, <1>2 DEF Enters

\* The peer starts: the end falls back, or meets it.
LEMMA PeerStartsTurn ==
  ASSUME NegotiationTypeOK, NEW s \in Ends, PeerStarts(s)
  PROVE  Turn(s)
<1>1. Hears(s, "STARTED")
  BY DEF PeerStarts
<1>2. CASE state[s] # "STARTED"
  <2>1. Enter(s, "STARTED") /\ Tell(s, "STARTED") /\ mail' = Taken(s) /\ requests' = requests
    BY <1>2, <1>1 DEF PeerStarts, Restart, TellIfNew, Hears
  <2>2. Enters(s, "STARTED") /\ state'[Peer(s)] = state[Peer(s)] /\ news'[Peer(s)] = news[Peer(s)]
    BY <2>1, EnterTells
  <2>3. Heeds(s, "STARTED") /\ Quiet(s) /\ peer'[Peer(s)] = peer[Peer(s)]
    BY <1>1, <2>1, HearsHeeds
  <2>4. QED
    BY <1>2, <2>1, <2>2, <2>3 DEF Turn, FallsBack
<1>3. CASE state[s] = "STARTED"
  <2>1. Enter(s, "CRED") /\ Tell(s, "CRED") /\ mail' = Replied(s, "CRED") /\ requests' = requests
    BY <1>3, <1>1 DEF PeerStarts, Restart, TellIfNew, Hears
  <2>2. Enters(s, "CRED") /\ state'[Peer(s)] = state[Peer(s)] /\ news'[Peer(s)] = news[Peer(s)]
    BY <2>1, EnterTells
  <2>3. Heeds(s, "STARTED") /\ Speaks(s, "CRED") /\ peer'[Peer(s)] = peer[Peer(s)]
    BY <1>1, <2>1, HearsHeeds
  <2>4. QED
    BY <1>3, <2>1, <2>2, <2>3 DEF Turn, MeetsPeer
<1>4. QED
  BY <1>2, <1>3

\* Only a state of the negotiation is followed or confirmed by what is said.
LEMMA MovesTurn ==
  ASSUME NegotiationTypeOK, NEW s \in Ends, NEW n \in Steps,
         PeerMoves(s, n) \/ PeerConfirms(s, n), Vocabulary
  PROVE  Turn(s)
<1>1. Hears(s, n) /\ mail' = Taken(s) /\ requests' = requests
  BY DEF PeerMoves, PeerConfirms, Hears
<1>2. n \in Moves
  <2>1. mail[s] \in Seq(Says(Peer(s))) /\ mail[s] # <<>> /\ Head(mail[s]) = n
    BY <1>1 DEF Vocabulary, Hears
  <2>2. n \in Says(Peer(s))
    BY <2>1
  <2>3. QED
    BY <2>2 DEF Says, Steps, Moves
<1>3. Heeds(s, n) /\ Quiet(s) /\ peer'[Peer(s)] = peer[Peer(s)]
  BY <1>1, HearsHeeds
<1>4. CASE PeerMoves(s, n)
  <2>1. Enters(s, n) /\ state'[Peer(s)] = state[Peer(s)] /\ news'[Peer(s)] = news[Peer(s)]
    BY <1>1, <1>4, EnterTells DEF PeerMoves
  <2>2. FollowsPeer(s)
    BY <1>2, <1>3, <1>4, <2>1 DEF PeerMoves, FollowsPeer
  <2>3. QED
    BY <1>1, <1>3, <2>1, <2>2 DEF Turn
<1>5. CASE PeerConfirms(s, n)
  <2>1. state' = state /\ news' = news /\ Confirms(s, n)
    BY <1>5 DEF PeerConfirms
  <2>2. Owes(s)' <=> Owes(s)
    BY <1>1, <2>1, OwesStays
  <2>3. IsConfirmed(s)
    BY <1>2, <1>3, <2>1, <2>2 DEF IsConfirmed
  <2>4. QED
    BY <1>1, <1>3, <2>1, <2>3 DEF Turn
<1>6. QED
  BY <1>4, <1>5

\* Its modules have it start: it starts anew, or off.
LEMMA StartRequestedTurn ==
  ASSUME NegotiationTypeOK, NEW s \in Ends, StartRequested(s)
  PROVE  Turn(s)
<1>1. /\ requests[s] # <<>> /\ Head(requests[s]) = "STARTED"
      /\ requests' = [requests EXCEPT ![s] = Tail(@)] /\ peer' = peer
      /\ requests[s] \in Seq(Sent) /\ news[s] \in Seq(Sent)
  BY DEF StartRequested, Asked, NegotiationTypeOK
<1>2. requests'[s] = Tail(requests[s]) /\ requests'[Peer(s)] = requests[Peer(s)]
  BY <1>1, Peers DEF NegotiationTypeOK
<1>3. Owes(s) <=> Holds(Tail(requests[s]), Asks(s)) \/ Holds(news[s], Answered(s))
  BY <1>1, OwesStart
<1>4. ASSUME NEW n, Enter(s, n), Tell(s, n)
      PROVE  /\ Enters(s, n)
             /\ state'[Peer(s)] = state[Peer(s)] /\ news'[Peer(s)] = news[Peer(s)]
  <2>1. /\ state'[s] = n /\ news'[s] = Append(news[s], n)
        /\ state'[Peer(s)] = state[Peer(s)] /\ news'[Peer(s)] = news[Peer(s)]
    BY <1>4, Peers DEF NegotiationTypeOK, Enter, Tell
  <2>2. Owes(s)' <=> Holds(Tail(requests[s]), Asks(s)) \/ Holds(Append(news[s], n), Answered(s))
    BY <1>2, <2>1, OwesNow
  <2>3. Holds(Append(news[s], n), Answered(s)) <=> Holds(news[s], Answered(s)) \/ n \in Answered(s)
    BY <1>1, HoldsAppend
  <2>4. QED
    BY <1>3, <2>1, <2>2, <2>3 DEF Enters
<1>5. ASSUME NEW n, Send(s, n)
      PROVE  mail'[s] = mail[s] /\ Speaks(s, n)
  BY <1>5, Peers DEF NegotiationTypeOK, Send, Speaks
<1>6. CASE state[s] # "STARTED"
  <2>1. /\ Enter(s, "STARTED") /\ Tell(s, "STARTED")
        /\ IF peer[s] = "STARTED" THEN mail' = mail ELSE Send(s, "STARTED")
    BY <1>6 DEF StartRequested, Restart, TellIfNew
  <2>2. StartsAnew(s)
    BY <1>1, <1>4, <1>5, <1>6, <2>1 DEF StartsAnew, Ignores, Quiet
  <2>3. QED
    BY <1>1, <1>2, <1>4, <2>1, <2>2 DEF Turn
<1>7. CASE state[s] = "STARTED" /\ peer[s] = "STARTED"
  <2>1. Enter(s, "CRED") /\ Tell(s, "CRED") /\ Send(s, "CRED")
    BY <1>7 DEF StartRequested, Restart, TellIfNew
  <2>2. StartsOff(s)
    BY <1>1, <1>4, <1>5, <1>7, <2>1 DEF StartsOff, Ignores
  <2>3. QED
    BY <1>1, <1>2, <1>4, <2>1, <2>2 DEF Turn
<1>8. CASE state[s] = "STARTED" /\ peer[s] # "STARTED"
  <2>1. Enter(s, "STARTED") /\ news' = news /\ mail' = mail
    BY <1>8 DEF StartRequested, Restart, TellIfNew
  <2>2. state'[s] = state[s] /\ state'[Peer(s)] = state[Peer(s)]
    BY <1>8, <2>1, Peers DEF NegotiationTypeOK, Enter
  <2>3. Owes(s)' <=> Holds(Tail(requests[s]), Asks(s)) \/ Holds(news[s], Answered(s))
    BY <1>2, <2>1, OwesNow
  <2>4. Idles(s)
    BY <1>1, <1>3, <2>1, <2>2, <2>3 DEF Idles, Ignores, Quiet
  <2>5. QED
    BY <1>1, <1>2, <2>1, <2>2, <2>4 DEF Turn
<1>9. QED
  BY <1>6, <1>7, <1>8

\* A request that is granted: the end leads.
LEMMA StepRequestedTurn ==
  ASSUME NegotiationTypeOK, Vocabulary, NEW s \in Ends, NEW n \in Steps, StepRequested(s, n)
  PROVE  Turn(s)
<1>1. /\ requests[s] # <<>> /\ Head(requests[s]) = n
      /\ requests' = [requests EXCEPT ![s] = Tail(@)] /\ peer' = peer
      /\ requests[s] \in Seq({"STARTED"} \cup Asks(s)) /\ news[s] \in Seq(Sent)
  BY DEF StepRequested, Asked, NegotiationTypeOK, Vocabulary
<1>2. n \in Asks(s)
  <2>1. n \in {"STARTED"} \cup Asks(s)
    BY <1>1
  <2>2. QED
    BY <2>1 DEF Steps
<1>3. /\ requests'[Peer(s)] = requests[Peer(s)]
      /\ state'[s] = n /\ state'[Peer(s)] = state[Peer(s)]
      /\ news'[s] = Append(news[s], n) /\ news'[Peer(s)] = news[Peer(s)]
      /\ requests'[s] = Tail(requests[s])
  BY <1>1, Peers DEF StepRequested, Enter, Tell, NegotiationTypeOK
<1>4. mail'[s] = mail[s] /\ Speaks(s, n) /\ state[s] \in Grants(n)
  BY Peers DEF StepRequested, Send, Speaks, NegotiationTypeOK
<1>5. ASSUME n \in Answered(s) PROVE Owes(s)'
  <2>1. Owes(s)' <=> Holds(Tail(requests[s]), Asks(s)) \/ Holds(Append(news[s], n), Answered(s))
    BY <1>3, OwesNow
  <2>2. Holds(Append(news[s], n), Answered(s))
    BY <1>1, <1>5, HoldsAppend
  <2>3. QED
    BY <2>1, <2>2
<1>6. Leads(s)
  BY <1>1, <1>2, <1>3, <1>4, <1>5 DEF Leads, Ignores
<1>7. QED
  BY <1>1, <1>3, <1>6 DEF Turn
--------------------------------------------------------------------------------
(* Both sides are kept by the steps of either. *)

\* What an end said last, after it has said nothing more, or n
LEMMA SaidAfter ==
  ASSUME NegotiationTypeOK, NEW s \in Ends, peer'[Peer(s)] = peer[Peer(s)]
  PROVE  /\ Quiet(s) => Said(s)' = Said(s)
         /\ \A n : Speaks(s, n) => Said(s)' = n
<1>1. Quiet(s) => Said(s)' = Said(s)
  BY DEF Quiet, Said, LastTo
<1>2. ASSUME NEW n, Speaks(s, n) PROVE Said(s)' = n
  <2>. DEFINE w == mail[Peer(s)]
  <2>1. w \in Seq(Sent)
    BY Peers DEF NegotiationTypeOK
  <2>2. Append(w, n) # <<>> /\ Append(w, n)[Len(Append(w, n))] = n
    BY <2>1
  <2>3. mail'[Peer(s)] = Append(w, n)
    BY <1>2 DEF Speaks
  <2>. HIDE DEF w
  <2>4. QED
    BY <2>2, <2>3 DEF Said, LastTo
<1>3. QED
  BY <1>1, <1>2

\* What an end is to hear last does not change when it reads its mail.
LEMMA LastStays ==
  ASSUME NegotiationTypeOK, NEW s \in Ends, Ignores(s) \/ \E n : Heeds(s, n)
  PROVE  LastTo(s)' = LastTo(s)
<1>1. CASE Ignores(s)
  BY <1>1 DEF Ignores, LastTo
<1>2. ASSUME NEW n, Heeds(s, n) PROVE LastTo(s)' = LastTo(s)
  <2>. DEFINE w == mail[s]
  <2>1. w \in Seq(Sent) /\ w # <<>> /\ n = Head(w) /\ peer'[s] = n /\ mail'[s] = Tail(w)
    BY <1>2 DEF NegotiationTypeOK, Heeds
  <2>. HIDE DEF w
  <2>2. CASE Tail(w) = <<>>
    <3>1. Len(w) = 1 /\ n = w[Len(w)]
      BY <2>1, <2>2, TailIndices
    <3>2. QED
      BY <2>1, <2>2, <3>1 DEF LastTo, w
  <2>3. CASE Tail(w) # <<>>
    <3>1. /\ Len(Tail(w)) = Len(w) - 1 /\ Len(Tail(w)) # 0 /\ Len(w) \in Nat /\ Len(w) > 0
          /\ \A i \in 1..Len(w) - 1 : Tail(w)[i] = w[i + 1]
      BY <2>1, <2>3, TailIndices
    <3>2. Len(Tail(w)) \in 1..Len(w) - 1 /\ Len(Tail(w)) + 1 = Len(w)
      BY ONLY <3>1
    <3>3. Tail(w)[Len(Tail(w))] = w[Len(w)]
      BY ONLY <3>1, <3>2
    <3>4. QED
      BY <2>1, <2>3, <3>3 DEF LastTo, w
  <2>4. QED
    BY <2>2, <2>3
<1>3. QED
  BY <1>1, <1>2

\* Every step of an end takes from its mail what it takes.
LEMMA TurnMail ==
  ASSUME NEW s, Turn(s)
  PROVE  Ignores(s) \/ \E n : Heeds(s, n)
BY DEF Turn, Idles, IsConfirmed, FollowsPeer, FallsBack, MeetsPeer, StartsAnew, StartsOff, Leads

\* What the other end has heard, said and owes is not for this one to change.
LEMMA OtherStays ==
  ASSUME NegotiationTypeOK, NEW s \in Ends, Turn(s)
  PROVE  LET t == Peer(s)
         IN  /\ state'[t] = state[t] /\ peer'[t] = peer[t]
             /\ Said(t)' = Said(t) /\ (Owes(t)' <=> Owes(t))
<1>1. LastTo(s)' = LastTo(s)
  BY TurnMail, LastStays
<1>2. Said(Peer(s)) = LastTo(s) /\ Said(Peer(s))' = LastTo(s)'
  BY Peers DEF Said
<1>3. Owes(Peer(s))' <=> Owes(Peer(s))
  BY OwesStays DEF Turn
<1>4. QED
  BY <1>1, <1>2, <1>3 DEF Turn

\* A turn of the server keeps what its states say of it, ...
LEMMA ServerTurnServer ==
  ASSUME NegotiationTypeOK, Vocabulary, ServerSide, Turn("server")
  PROVE  ServerSide'
<1>. DEFINE v == state["server"]
            p == peer["server"]
            m == Said("server")
<1>1. "server" \in Ends /\ v \in {"UNDEFINED", "STARTED"} \cup Moves
  BY DEF Vocabulary, Ends
<1>2. /\ Quiet("server") => m' = m
      /\ \A n : Speaks("server", n) => m' = n
  BY <1>1, SaidAfter DEF Turn
<1>3. CASE Idles("server")
  BY <1>2, <1>3 DEF Idles, Ignores, ServerSide
<1>4. ASSUME NEW n \in Moves, Heeds("server", n), Quiet("server"), Confirms("server", n),
             state'["server"] = state["server"], Owes("server")' <=> Owes("server")
      PROVE  ServerSide'
  <2>1. v = n /\ v' = n /\ p' = n /\ m' = m /\ n \in {"CRED", "REG", "CTLS", "SCRED"}
    BY <1>2, <1>4 DEF Confirms, Heeds, Moves
  <2>2. QED
    BY <1>4, <2>1 DEF ServerSide
<1>5. ASSUME NEW n \in Moves, Heeds("server", n), Quiet("server"),
             state["server"] \in Follows("server", n), Enters("server", n)
      PROVE  ServerSide'
  <2>1. v' = n /\ p' = n /\ m' = m /\ (Owes("server")' <=> Owes("server") \/ n \in Answered("server"))
    BY <1>2, <1>5 DEF Heeds, Enters
  <2>2. (n = "CRED" /\ v = "STARTED") \/ (n = "STLS" /\ v = "SCRED")
    BY <1>5, FollowsTable DEF Moves
  <2>3. QED
    BY <2>1, <2>2 DEF ServerSide, Answered
<1>6. CASE FallsBack("server")
  <2>1. /\ v' = "STARTED" /\ p' = "STARTED" /\ m' = m /\ v # "STARTED"
        /\ Owes("server")' <=> Owes("server")
    BY <1>2, <1>6, StartedAnswered DEF FallsBack, Heeds, Enters
  <2>2. QED
    BY <1>1, <2>1 DEF ServerSide, Moves
<1>7. CASE MeetsPeer("server")
  <2>1. v' = "CRED" /\ p' = "STARTED" /\ m' = "CRED" /\ Owes("server")'
    BY <1>2, <1>7 DEF MeetsPeer, Heeds, Enters, Answered
  <2>2. QED
    BY <2>1 DEF ServerSide
<1>8. CASE StartsAnew("server")
  <2>1. /\ v' = "STARTED" /\ p' = p /\ v # "STARTED" /\ (Owes("server")' <=> Owes("server"))
        /\ p = "STARTED" => m' = m
        /\ p # "STARTED" => m' = "STARTED"
    BY <1>2, <1>8, StartedAnswered DEF StartsAnew, Ignores, Enters
  <2>2. QED
    BY <1>1, <2>1 DEF ServerSide, Moves
<1>9. CASE StartsOff("server")
  <2>1. v' = "CRED" /\ p' = "STARTED" /\ m' = "CRED" /\ Owes("server")'
    BY <1>2, <1>9 DEF StartsOff, Ignores, Enters, Answered
  <2>2. QED
    BY <2>1 DEF ServerSide
<1>10. ASSUME NEW n \in Asks("server"), Ignores("server"), Speaks("server", n),
              state["server"] \in Grants(n), state'["server"] = n,
              n \in Answered("server") => Owes("server")'
       PROVE  ServerSide'
  <2>1. v' = n /\ p' = p /\ m' = n /\ n \in {"REG", "CTLS", "SCRED"}
    BY <1>2, <1>10 DEF Ignores, Asks
  <2>2. v \in {"CRED", "REG", "CTLS"}
    BY <1>10, <2>1, GrantsTable
  <2>3. n # "SCRED" => Owes("server")'
    BY <1>10, <2>1 DEF Answered
  <2>4. QED
    BY <2>1, <2>2, <2>3 DEF ServerSide
<1>11. QED
  BY <1>3, <1>4, <1>5, <1>6, <1>7, <1>8, <1>9, <1>10 DEF Turn, IsConfirmed, FollowsPeer, Leads

\* ... and a turn of the client what the states of the client say.
LEMMA ClientTurnClient ==
  ASSUME NegotiationTypeOK, Vocabulary, ClientSide, Turn("client")
  PROVE  ClientSide'
<1>. DEFINE c == state["client"]
            p == peer["client"]
            m == Said("client")
<1>1. "client" \in Ends /\ c \in {"UNDEFINED", "STARTED"} \cup Moves
  BY DEF Vocabulary, Ends
<1>2. /\ Quiet("client") => m' = m
      /\ \A n : Speaks("client", n) => m' = n
  BY <1>1, SaidAfter DEF Turn
<1>3. CASE Idles("client")
  BY <1>2, <1>3 DEF Idles, Ignores, ClientSide
<1>4. ASSUME NEW n \in Moves, Heeds("client", n), Quiet("client"), Confirms("client", n),
             state'["client"] = state["client"], Owes("client")' <=> Owes("client")
      PROVE  ClientSide'
  <2>0. n \in Says("server")
    <3>1. mail["client"] \in Seq(Says("server")) /\ mail["client"] # <<>> /\ Head(mail["client"]) = n
      BY <1>1, <1>4, Peers DEF Vocabulary, Heeds
    <3>2. QED
      BY <3>1
  <2>1. c = n /\ c' = n /\ p' = n /\ m' = m /\ n = "CRED"
    BY <1>2, <1>4, <2>0 DEF Confirms, Heeds, Moves, Says
  <2>2. QED
    BY <1>4, <2>1 DEF ClientSide
<1>5. ASSUME NEW n \in Moves, Heeds("client", n), Quiet("client"),
             state["client"] \in Follows("client", n), Enters("client", n)
      PROVE  ClientSide'
  <2>1. c' = n /\ p' = n /\ m' = m /\ (Owes("client")' <=> Owes("client") \/ n \in Answered("client"))
    BY <1>2, <1>5 DEF Heeds, Enters
  <2>2. n \in {"CRED", "REG", "CTLS", "SCRED"}
    BY <1>5, FollowsTable DEF Moves
  <2>3. QED
    BY <2>1, <2>2 DEF ClientSide, Answered
<1>6. CASE FallsBack("client")
  <2>1. c' = "STARTED" /\ p' = "STARTED"
    BY <1>6 DEF FallsBack, Heeds, Enters
  <2>2. QED
    BY <2>1 DEF ClientSide
<1>7. CASE MeetsPeer("client")
  <2>1. c' = "CRED" /\ p' = "STARTED" /\ m' = "CRED"
    BY <1>2, <1>7 DEF MeetsPeer, Heeds, Enters
  <2>2. QED
    BY <2>1 DEF ClientSide
<1>8. CASE StartsAnew("client")
  <2>1. /\ c' = "STARTED" /\ p' = p
        /\ p # "STARTED" => m' = "STARTED"
    BY <1>2, <1>8 DEF StartsAnew, Ignores, Enters
  <2>2. QED
    BY <2>1 DEF ClientSide
<1>9. CASE StartsOff("client")
  <2>1. c' = "CRED" /\ p' = "STARTED" /\ m' = "CRED"
    BY <1>2, <1>9 DEF StartsOff, Ignores, Enters
  <2>2. QED
    BY <2>1 DEF ClientSide
<1>10. ASSUME NEW n \in Asks("client"), Ignores("client"), Speaks("client", n),
              state["client"] \in Grants(n), state'["client"] = n
       PROVE  ClientSide'
  <2>1. c' = "STLS" /\ p' = p /\ m' = "STLS" /\ n = "STLS"
    BY <1>2, <1>10 DEF Ignores, Asks
  <2>2. c = "SCRED"
    BY <1>10, <2>1, GrantsTable
  <2>3. QED
    BY <2>1, <2>2 DEF ClientSide
<1>11. QED
  BY <1>3, <1>4, <1>5, <1>6, <1>7, <1>8, <1>9, <1>10 DEF Turn, IsConfirmed, FollowsPeer, Leads
--------------------------------------------------------------------------------
(* The verification of the server is kept by the steps of either. *)

\* What is on its way stays so until it is taken, and what is said joins it.
LEMMA HoldsMail ==
  ASSUME NegotiationTypeOK, NEW s \in Ends, NEW S, NEW n
  PROVE  /\ Ignores(s) => (Holds(mail[s], S)' <=> Holds(mail[s], S))
         /\ Quiet(s) => (Holds(mail[Peer(s)], S)' <=> Holds(mail[Peer(s)], S))
         /\ Heeds(s, n) /\ n \notin S => (Holds(mail[s], S)' <=> Holds(mail[s], S))
         /\ Speaks(s, n) => (Holds(mail[Peer(s)], S)' <=> Holds(mail[Peer(s)], S) \/ n \in S)
<1>1. mail[s] \in Seq(Sent) /\ mail[Peer(s)] \in Seq(Sent)
  BY Peers DEF NegotiationTypeOK
<1>2. Ignores(s) => (Holds(mail[s], S)' <=> Holds(mail[s], S))
  BY DEF Ignores, Holds
<1>3. Quiet(s) => (Holds(mail[Peer(s)], S)' <=> Holds(mail[Peer(s)], S))
  BY DEF Quiet, Holds
<1>4. ASSUME Heeds(s, n), n \notin S PROVE Holds(mail[s], S)' <=> Holds(mail[s], S)
  <2>1. Holds(mail[s], S) <=> Head(mail[s]) \in S \/ Holds(Tail(mail[s]), S)
    BY <1>1, <1>4, HoldsTail DEF Heeds
  <2>2. Holds(mail[s], S)' <=> Holds(Tail(mail[s]), S)
    BY <1>4 DEF Heeds, Holds
  <2>3. QED
    BY <1>4, <2>1, <2>2 DEF Heeds
<1>5. ASSUME Speaks(s, n)
      PROVE  Holds(mail[Peer(s)], S)' <=> Holds(mail[Peer(s)], S) \/ n \in S
  <2>1. Holds(Append(mail[Peer(s)], n), S) <=> Holds(mail[Peer(s)], S) \/ n \in S
    BY <1>1, HoldsAppend
  <2>2. Holds(mail[Peer(s)], S)' <=> Holds(Append(mail[Peer(s)], n), S)
    BY <1>5 DEF Speaks, Holds
  <2>3. QED
    BY <2>1, <2>2
<1>6. QED
  BY <1>2, <1>3, <1>4, <1>5

\* What is said to an end is only added to its mail.
LEMMA TurnSays ==
  ASSUME NegotiationTypeOK, NEW s \in Ends, Turn(s), NEW S, Holds(mail[Peer(s)], S)
  PROVE  Holds(mail[Peer(s)], S)'
<1>1. Quiet(s) \/ \E n : Speaks(s, n)
  BY DEF Turn, Idles, IsConfirmed, FollowsPeer, FallsBack, MeetsPeer, StartsAnew, StartsOff, Leads
<1>2. ASSUME NEW n, Speaks(s, n) PROVE Holds(mail[Peer(s)], S)'
  BY <1>2, HoldsMail
<1>3. CASE Quiet(s)
  BY <1>3, HoldsMail
<1>4. QED
  BY <1>1, <1>2, <1>3

\* The server sends its credentials, leaves them behind or hears of the answer.
LEMMA ServerTurnVerification ==
  ASSUME NegotiationTypeOK, Vocabulary, ServerSide, Verification, Turn("server")
  PROVE  Verification'
<1>. DEFINE v == state["server"]
            p == peer["server"]
            o == Owes("server")
            Aim == \/ Holds(mail["client"], {"SCRED"})
                   \/ Owes("client")
                   \/ Holds(mail["server"], {"STLS"})
            Bound == v = "SCRED" \/ (v = "STARTED" /\ p = "CRED" /\ ~o)
<1>1. /\ "server" \in Ends /\ v \in {"UNDEFINED", "STARTED"} \cup Moves
      /\ Peer("server") = "client"
  BY Peers DEF Vocabulary, Ends
<1>2. Verification <=> (Bound => Aim)
  BY DEF Verification
<1>3. Verification' <=> (Bound' => Aim')
  BY DEF Verification
<1>4. SUFFICES ASSUME Bound' PROVE Aim'
  BY <1>3
<1>5. Owes("client")' <=> Owes("client")
  BY <1>1, OtherStays
<1>6. Holds(mail["client"], {"SCRED"}) => Holds(mail["client"], {"SCRED"})'
  BY <1>1, TurnSays
<1>7. /\ Ignores("server") => (Holds(mail["server"], {"STLS"})' <=> Holds(mail["server"], {"STLS"}))
      /\ \A n : Heeds("server", n) /\ n \notin {"STLS"} =>
                (Holds(mail["server"], {"STLS"})' <=> Holds(mail["server"], {"STLS"}))
  BY <1>1, HoldsMail
<1>8. ASSUME Bound, Ignores("server") \/ \E n : Heeds("server", n) /\ n # "STLS"
      PROVE  Aim'
  BY <1>2, <1>5, <1>6, <1>7, <1>8
<1>. HIDE DEF Aim
<1>9. CASE Idles("server")
  <2>1. Bound
    BY <1>4, <1>9 DEF Idles, Ignores
  <2>2. QED
    BY <1>8, <1>9, <2>1 DEF Idles
<1>10. ASSUME NEW n \in Moves, Heeds("server", n), Confirms("server", n),
             state'["server"] = state["server"], Owes("server")' <=> Owes("server")
       PROVE  Aim'
  <2>1. v = n /\ v' = n /\ n \in {"CRED", "REG", "CTLS", "SCRED"}
    BY <1>10 DEF Confirms, Moves
  <2>2. Bound /\ n # "STLS"
    BY <1>4, <2>1
  <2>3. QED
    BY <1>8, <1>10, <2>2
<1>11. ASSUME NEW n \in Moves, Heeds("server", n),
              state["server"] \in Follows("server", n), Enters("server", n)
       PROVE  FALSE
  <2>1. n = "CRED" \/ n = "STLS"
    BY <1>11, FollowsTable DEF Moves
  <2>2. v' = n
    BY <1>11 DEF Enters
  <2>3. QED
    BY <1>4, <2>1, <2>2
<1>12. ~FallsBack("server")
  BY <1>4 DEF FallsBack, Enters, Heeds
<1>13. ~MeetsPeer("server") /\ ~StartsOff("server")
  BY <1>4 DEF MeetsPeer, StartsOff, Enters
<1>14. CASE StartsAnew("server")
  <2>1. v' = "STARTED" /\ p' = p /\ p = "CRED" /\ v # "STARTED" /\ ~o
    BY <1>4, <1>14, StartedAnswered DEF StartsAnew, Ignores, Enters
  <2>2. v = "SCRED"
    BY <1>1, <2>1 DEF ServerSide, Moves
  <2>3. QED
    BY <1>8, <1>14, <2>2 DEF StartsAnew
<1>15. ASSUME NEW n \in Asks("server"), Speaks("server", n), state'["server"] = n
       PROVE  Aim'
  <2>1. n = "SCRED"
    BY <1>4, <1>15 DEF Asks
  <2>2. Holds(mail["client"], {"SCRED"})'
    BY <1>1, <1>15, <2>1, HoldsMail
  <2>3. QED
    BY <2>2 DEF Aim
<1>16. QED
  BY <1>9, <1>10, <1>11, <1>12, <1>13, <1>14, <1>15 DEF Turn, IsConfirmed, FollowsPeer, Leads

\* The client reads the credentials, has them checked and answers.
LEMMA ClientTurnVerification ==
  ASSUME NegotiationTypeOK, Vocabulary, Verification, Turn("client")
  PROVE  Verification'
<1>. DEFINE S1 == Holds(mail["client"], {"SCRED"})
            S2 == Owes("client")
            S3 == Holds(mail["server"], {"STLS"})
<1>1. /\ "client" \in Ends /\ Peer("client") = "server"
  BY Peers DEF Ends
<1>2. /\ state'["server"] = state["server"] /\ peer'["server"] = peer["server"]
      /\ Owes("server")' <=> Owes("server")
  BY <1>1, OtherStays
<1>3. SUFFICES ASSUME S1 \/ S2 \/ S3 PROVE (S1 \/ S2 \/ S3)'
  BY <1>2 DEF Verification
<1>4. S3 => S3'
  BY <1>1, TurnSays
<1>5. /\ Ignores("client") => (S1' <=> S1)
      /\ \A n : Heeds("client", n) /\ n \notin {"SCRED"} => (S1' <=> S1)
  BY <1>1, HoldsMail
<1>. HIDE DEF S1, S2, S3
<1>6. CASE Idles("client")
  BY <1>3, <1>4, <1>5, <1>6 DEF Idles, S2
<1>7. ASSUME NEW n \in Moves, Heeds("client", n), Confirms("client", n),
             Owes("client")' <=> Owes("client")
      PROVE  (S1 \/ S2 \/ S3)'
  <2>1. n # "SCRED"
    BY <1>7 DEF Confirms
  <2>2. S1' <=> S1
    BY <1>5, <1>7, <2>1
  <2>3. QED
    BY <1>3, <1>4, <1>7, <2>2 DEF S2
<1>8. ASSUME NEW n \in Moves, Heeds("client", n), Enters("client", n)
      PROVE  (S1 \/ S2 \/ S3)'
  <2>1. CASE n = "SCRED"
    BY <1>8, <2>1 DEF Enters, Answered, S2
  <2>2. CASE n # "SCRED"
    <3>1. S1' <=> S1
      BY <1>5, <1>8, <2>2
    <3>2. QED
      BY <1>3, <1>4, <1>8, <3>1 DEF Enters, S2
  <2>3. QED
    BY <2>1, <2>2
<1>9. ASSUME Heeds("client", "STARTED"), S2 => S2' PROVE (S1 \/ S2 \/ S3)'
  <2>1. S1' <=> S1
    BY <1>5, <1>9
  <2>2. QED
    BY <1>3, <1>4, <1>9, <2>1
<1>10. ASSUME Ignores("client"), S2 => S2' PROVE (S1 \/ S2 \/ S3)'
  BY <1>3, <1>4, <1>5, <1>10
<1>11. CASE FallsBack("client") \/ MeetsPeer("client")
  BY <1>9, <1>11 DEF FallsBack, MeetsPeer, Enters, S2
<1>12. CASE StartsAnew("client") \/ StartsOff("client")
  BY <1>10, <1>12 DEF StartsAnew, StartsOff, Enters, S2
<1>13. ASSUME NEW n \in Asks("client"), Speaks("client", n) PROVE (S1 \/ S2 \/ S3)'
  <2>1. n = "STLS"
    BY <1>13 DEF Asks
  <2>2. Holds(mail["server"], {"STLS"})'
    BY <1>1, <1>13, <2>1, HoldsMail
  <2>3. QED
    BY <2>2 DEF S3
<1>14. QED
  BY <1>6, <1>7, <1>8, <1>11, <1>12, <1>13 DEF Turn, IsConfirmed, FollowsPeer, Leads
--------------------------------------------------------------------------------
(* What the ends may say and ask for is kept, and the invariant with it. *)

\* The requests that wait for an end, and that one that has not started has one
RequestsOK(s) ==
  /\ requests[s] \in Seq({"STARTED"} \cup Asks(s))
  /\ created[s] /\ state[s] = "UNDEFINED" => requests[s] # <<>>

\* What the ends say and the states they are in stay what they may be.
LEMMA TurnVocabulary ==
  ASSUME NegotiationTypeOK, Vocabulary, NEW s \in Ends, Turn(s), RequestsOK(s)',
         created'[Peer(s)] = created[Peer(s)]
  PROVE  Vocabulary'
<1>. DEFINE t == Peer(s)
<1>1. t \in Ends /\ Peer(t) = s /\ \A e \in Ends : e = s \/ e = t
  BY Peers DEF Ends
<1>2. state'[t] = state[t] /\ requests'[t] = requests[t]
  BY DEF Turn
<1>3. state'[s] \in {"UNDEFINED", "STARTED"} \cup Moves
  <2>1. state[s] \in {"UNDEFINED", "STARTED"} \cup Moves
    BY DEF Vocabulary
  <2>2. Asks(s) \subseteq Moves
    BY DEF Asks, Moves
  <2>3. \A n \in Moves \cup {"STARTED"} : Enters(s, n) => state'[s] \in {"UNDEFINED", "STARTED"} \cup Moves
    BY DEF Enters
  <2>4. "STARTED" \in Moves \cup {"STARTED"} /\ "CRED" \in Moves \cup {"STARTED"}
    BY DEF Moves
  <2>5. QED
    BY <2>1, <2>2, <2>3, <2>4 DEF Turn, Idles, IsConfirmed, FollowsPeer, FallsBack, MeetsPeer, StartsAnew,
       StartsOff, Leads
<1>4. mail'[s] \in Seq(Says(t))
  <2>1. mail[s] \in Seq(Says(t))
    BY DEF Vocabulary
  <2>2. mail'[s] = mail[s] \/ (mail[s] # <<>> /\ mail'[s] = Tail(mail[s]))
    BY TurnMail DEF Ignores, Heeds
  <2>3. mail[s] # <<>> => Tail(mail[s]) \in Seq(Says(t))
    BY ONLY <2>1, TailIndices
  <2>4. QED
    BY <2>1, <2>2, <2>3
<1>5. mail'[t] \in Seq(Says(s))
  <2>1. mail[t] \in Seq(Says(s))
    BY <1>1 DEF Vocabulary
  <2>2. Asks(s) \subseteq Says(s) /\ "STARTED" \in Says(s) /\ "CRED" \in Says(s)
    BY DEF Asks, Says
  <2>3. Quiet(s) \/ \E n \in Says(s) : Speaks(s, n)
    BY <2>2 DEF Turn, Idles, IsConfirmed, FollowsPeer, FallsBack, MeetsPeer, StartsAnew, StartsOff, Leads
  <2>4. \A n \in Says(s) : Append(mail[t], n) \in Seq(Says(s))
    BY <2>1
  <2>5. QED
    BY <2>1, <2>3, <2>4 DEF Quiet, Speaks
<1>6. ASSUME NEW e \in Ends
      PROVE  /\ state'[e] \in {"UNDEFINED", "STARTED"} \cup Moves
             /\ requests'[e] \in Seq({"STARTED"} \cup Asks(e))
             /\ mail'[e] \in Seq(Says(Peer(e)))
             /\ created'[e] /\ state'[e] = "UNDEFINED" => requests'[e] # <<>>
  <2>1. CASE e = s
    BY <1>3, <1>4, <2>1 DEF RequestsOK
  <2>2. CASE e = t
    BY <1>1, <1>2, <1>5, <2>2 DEF Vocabulary
  <2>3. QED
    BY <1>1, <2>1, <2>2
<1>7. QED
  BY <1>6 DEF Vocabulary

\* A request more, or what a change makes the manager ask for
LEMMA AskedRequests ==
  ASSUME NegotiationTypeOK, Vocabulary, NEW s \in Ends, Create(s) \/ AskRestart(s)
  PROVE  RequestsOK(s)' /\ created'[Peer(s)] = created[Peer(s)]
<1>1. requests'[s] = Append(requests[s], "STARTED") /\ created'[Peer(s)] = created[Peer(s)]
  BY Peers DEF Create, AskRestart, NegotiationTypeOK
<1>2. requests[s] \in Seq({"STARTED"} \cup Asks(s))
  BY DEF Vocabulary
<1>3. /\ Append(requests[s], "STARTED") \in Seq({"STARTED"} \cup Asks(s))
      /\ Append(requests[s], "STARTED") # <<>>
  BY <1>2
<1>4. QED
  BY <1>1, <1>3 DEF RequestsOK

\* What the manager asks for is for this end to ask.
LEMMA AnsweredRequests ==
  ASSUME NegotiationTypeOK, Vocabulary, NEW s \in Ends, ManagerHears(s)
  PROVE  RequestsOK(s)' /\ created'[Peer(s)] = created[Peer(s)]
<1>. DEFINE n == Head(news[s])
<1>1. PICK a \in Answers(s, n) : requests' = [requests EXCEPT ![s] = @ \o a]
  BY DEF ManagerHears
<1>2. requests'[s] = requests[s] \o a /\ created' = created /\ state' = state
  BY <1>1 DEF ManagerHears, NegotiationTypeOK
<1>3. a = <<>> \/ \E r \in Asks(s) : a = <<r>>
  BY <1>1, AnswersTable
<1>4. a \in Seq({"STARTED"} \cup Asks(s))
  <2>1. \A r \in {"STARTED"} \cup Asks(s) : <<r>> \in Seq({"STARTED"} \cup Asks(s))
    OBVIOUS
  <2>2. <<>> \in Seq({"STARTED"} \cup Asks(s))
    OBVIOUS
  <2>3. QED
    BY <1>3, <2>1, <2>2
<1>5. /\ requests[s] \in Seq({"STARTED"} \cup Asks(s))
      /\ created[s] /\ state[s] = "UNDEFINED" => requests[s] # <<>>
  BY DEF Vocabulary
<1>6. /\ requests[s] \o a \in Seq({"STARTED"} \cup Asks(s))
      /\ requests[s] # <<>> => requests[s] \o a # <<>>
  BY <1>4, <1>5
<1>7. QED
  BY <1>2, <1>5, <1>6 DEF RequestsOK

\* A request taken: an end that has not started starts with it.
LEMMA TakenRequests ==
  ASSUME NegotiationTypeOK, Vocabulary, NEW s \in Ends,
         StartRequested(s) \/ \E n \in Steps : StepRequested(s, n)
  PROVE  RequestsOK(s)' /\ created'[Peer(s)] = created[Peer(s)]
<1>1. requests'[s] = Tail(requests[s]) /\ requests[s] # <<>> /\ created' = created
  BY DEF StartRequested, StepRequested, Asked, NegotiationTypeOK
<1>2. Tail(requests[s]) \in Seq({"STARTED"} \cup Asks(s))
  BY <1>1 DEF Vocabulary
<1>3. state'[s] # "UNDEFINED"
  <2>1. Restart(s, peer[s]).enter # "UNDEFINED"
    BY DEF Restart
  <2>2. \A n \in Steps : n # "UNDEFINED"
    BY DEF Steps
  <2>3. QED
    BY <2>1, <2>2 DEF StartRequested, StepRequested, Enter, NegotiationTypeOK
<1>4. QED
  BY <1>1, <1>2, <1>3 DEF RequestsOK

\* A message handled leaves the requests, and the end in some state.
LEMMA HeardRequests ==
  ASSUME NegotiationTypeOK, Vocabulary, NEW s \in Ends,
         PeerStarts(s) \/ \E n \in Steps : PeerMoves(s, n) \/ PeerConfirms(s, n)
  PROVE  RequestsOK(s)' /\ created'[Peer(s)] = created[Peer(s)]
<1>1. requests' = requests /\ created' = created
  BY DEF PeerStarts, PeerMoves, PeerConfirms, Hears
<1>2. state'[s] = "UNDEFINED" => state[s] = "UNDEFINED"
  <2>1. Restart(s, "STARTED").enter # "UNDEFINED"
    BY DEF Restart
  <2>2. \A n \in Steps : n # "UNDEFINED"
    BY DEF Steps
  <2>3. QED
    BY <2>1, <2>2 DEF PeerStarts, PeerMoves, PeerConfirms, Enter, NegotiationTypeOK
<1>3. QED
  BY <1>1, <1>2 DEF RequestsOK, Vocabulary

\* As long as all is calm, nobody ends, and nothing fails.
LEMMA CalmSteps ==
  ASSUME NegotiationTypeOK, Calm', NEW s \in Ends
  PROVE  ~AskEnd(s) /\ \A n \in Steps : ~PeerIsIllegal(s, n) /\ ~StepAsserted(s, n)
<1>1. ended \in Nat /\ ended' = 0 /\ status'[s] = "up" /\ status \in [Ends -> {"up", "threw", "aborted"}]
  BY DEF Calm, NegotiationTypeOK
<1>2. ended + 1 # 0
  BY <1>1
<1>3. ASSUME NEW n \in Steps PROVE ~PeerIsIllegal(s, n) /\ ~StepAsserted(s, n)
  BY <1>1 DEF PeerIsIllegal, StepAsserted
<1>4. QED
  BY <1>1, <1>2, <1>3 DEF AskEnd

\* While all is calm no end is asked for or told.
LEMMA NoEndWaits ==
  ASSUME Vocabulary, NEW s \in Ends
  PROVE  ~PeerEnds(s) /\ ~EndRequested(s)
<1>1. ASSUME PeerEnds(s) PROVE FALSE
  <2>1. mail[s] \in Seq(Says(Peer(s))) /\ mail[s] # <<>> /\ Head(mail[s]) = "END"
    BY <1>1 DEF Vocabulary, PeerEnds, Hears
  <2>2. "END" \in Says(Peer(s))
    BY <2>1
  <2>3. QED
    BY <2>2 DEF Says
<1>2. ASSUME EndRequested(s) PROVE FALSE
  <2>1. /\ requests[s] \in Seq({"STARTED"} \cup Asks(s)) /\ requests[s] # <<>>
        /\ Head(requests[s]) = "END"
    BY <1>2 DEF Vocabulary, EndRequested, Asked
  <2>2. "END" \in {"STARTED"} \cup Asks(s)
    BY <2>1
  <2>3. QED
    BY <2>2 DEF Asks
<1>3. QED
  BY <1>1, <1>2

\* A step into calm comes from calm.
LEMMA CalmBefore ==
  ASSUME NegotiationTypeOK, Calm', NegotiationNext
  PROVE  Calm
<1>1. PICK s \in Ends : Create(s) \/ Handles(s) \/ AskRestart(s)
  BY CalmSteps DEF NegotiationNext
<1>2. ended' = ended /\ \A e \in Ends : status'[e] = "up" => status[e] = "up"
  BY <1>1, CalmSteps DEF Handles, Create, PeerStarts, PeerEnds, StartRequested, EndRequested,
     ManagerHears, PeerMoves, PeerConfirms, StepRequested, AskRestart, Hears, Asked
<1>3. QED
  BY <1>2 DEF Calm

\* The invariant holds at first and is kept by every step.
LEMMA RestInitInv == NegotiationInit => RestInv
<1>1. SUFFICES ASSUME NegotiationInit PROVE RestInv
  OBVIOUS
<1>2. \A s \in Ends : /\ state[s] = "UNDEFINED" /\ peer[s] = "UNDEFINED" /\ mail[s] = <<>>
                      /\ requests[s] = <<>> /\ news[s] = <<>> /\ ~created[s]
  BY <1>1 DEF NegotiationInit
<1>3. Vocabulary
  <2>1. \A S : <<>> \in Seq(S)
    OBVIOUS
  <2>2. QED
    BY <1>2, <2>1 DEF Vocabulary
<1>4. Said("server") = "UNDEFINED" /\ "server" \in Ends /\ "client" \in Ends
  BY <1>2, Peers DEF Said, LastTo, Ends
<1>5. ServerSide /\ ClientSide /\ Verification
  BY <1>2, <1>4 DEF ServerSide, ClientSide, Verification
<1>6. QED
  BY <1>1, <1>3, <1>5, InitTypes DEF RestInv

LEMMA RestNextInv == RestInv /\ [NegotiationNext]_negotiationVars => RestInv'
<1>. SUFFICES ASSUME RestInv, [NegotiationNext]_negotiationVars PROVE RestInv'
  OBVIOUS
<1>1. NegotiationTypeOK /\ NegotiationTypeOK'
  BY NextTypes DEF RestInv
<1>2. SUFFICES ASSUME Calm' PROVE (Vocabulary /\ ServerSide /\ ClientSide /\ Verification)'
  BY <1>1 DEF RestInv
<1>3. CASE NegotiationNext
  <2>1. Vocabulary /\ ServerSide /\ ClientSide /\ Verification
    BY <1>1, <1>2, <1>3, CalmBefore DEF RestInv
  <2>2. PICK s \in Ends : Create(s) \/ Handles(s) \/ AskRestart(s)
    BY <1>1, <1>2, <1>3, CalmSteps DEF NegotiationNext
  <2>3. \/ Create(s) \/ AskRestart(s)
        \/ ManagerHears(s)
        \/ StartRequested(s) \/ \E n \in Steps : StepRequested(s, n)
        \/ PeerStarts(s) \/ \E n \in Steps : PeerMoves(s, n) \/ PeerConfirms(s, n)
    BY <1>1, <1>2, <2>1, <2>2, CalmSteps, NoEndWaits DEF Handles
  <2>4. Turn(s)
    BY <1>1, <2>1, <2>3, CreateTurn, AskRestartTurn, ManagerHearsTurn, StartRequestedTurn,
       StepRequestedTurn, PeerStartsTurn, MovesTurn
  <2>5. RequestsOK(s)' /\ created'[Peer(s)] = created[Peer(s)]
    BY <1>1, <2>1, <2>3, AskedRequests, AnsweredRequests, TakenRequests, HeardRequests
  <2>6. Vocabulary'
    BY <1>1, <2>1, <2>4, <2>5, TurnVocabulary
  <2>7. CASE s = "server"
    <3>1. ClientSide'
      BY <1>1, <2>1, <2>4, <2>7, OtherStays, Peers DEF ClientSide
    <3>2. QED
      BY <1>1, <2>1, <2>4, <2>6, <2>7, <3>1, ServerTurnServer, ServerTurnVerification
  <2>8. CASE s = "client"
    <3>1. ServerSide'
      BY <1>1, <2>1, <2>4, <2>8, OtherStays, Peers DEF ServerSide
    <3>2. QED
      BY <1>1, <2>1, <2>4, <2>6, <2>8, <3>1, ClientTurnClient, ClientTurnVerification
  <2>9. QED
    BY <2>7, <2>8 DEF Ends
<1>4. CASE UNCHANGED negotiationVars
  <2>1. Vocabulary /\ ServerSide /\ ClientSide /\ Verification
    BY <1>2, <1>4 DEF RestInv, Calm, negotiationVars
  <2>2. Vocabulary'
    BY <1>4, <2>1 DEF Vocabulary, negotiationVars
  <2>3. \A s \in Ends : (Owes(s)' <=> Owes(s)) /\ Said(s)' = Said(s)
    BY <1>4 DEF negotiationVars, Owes, Holds, Said, LastTo
  <2>4. ServerSide' /\ ClientSide'
    BY <1>4, <2>1, <2>3 DEF negotiationVars, ServerSide, ClientSide, Ends
  <2>5. Verification'
    BY <1>4, <2>1, <2>3 DEF negotiationVars, Verification, Ends, Holds
  <2>6. QED
    BY <2>2, <2>4, <2>5
<1>5. QED
  BY <1>3, <1>4

\* With nothing left to handle, both ends are done, or both at their start.
LEMMA RestInvRests ==
  RestInv /\ ended = 0 /\ AtRest =>
    (\A s \in Ends : state[s] = "STLS") \/ (\A s \in Ends : state[s] = "STARTED")
<1>. SUFFICES ASSUME RestInv, ended = 0, AtRest
              PROVE  (\A s \in Ends : state[s] = "STLS") \/ (\A s \in Ends : state[s] = "STARTED")
  OBVIOUS
<1>. DEFINE v == state["server"]
            c == state["client"]
<1>1. \A s \in Ends : /\ created[s] /\ status[s] = "up" /\ mail[s] = <<>>
                      /\ requests[s] = <<>> /\ news[s] = <<>>
  BY DEF AtRest, Up
<1>2. Vocabulary /\ ServerSide /\ ClientSide /\ Verification
  BY <1>1 DEF RestInv, Calm
<1>3. ASSUME NEW s \in Ends PROVE ~Owes(s) /\ state[s] \in {"STARTED"} \cup Moves
  <2>1. \A S : ~Holds(<<>>, S)
    BY DEF Holds
  <2>2. QED
    BY <1>1, <1>2, <2>1 DEF Owes, Vocabulary
<1>4. \A s \in Ends : ~Holds(mail[s], {"SCRED"}) /\ ~Holds(mail[s], {"STLS"})
  BY <1>1 DEF Holds
<1>5. Said("server") = peer["client"] /\ Said("client") = peer["server"]
  BY <1>1, Peers DEF Said, LastTo, Ends
<1>6. "client" \in Ends /\ "server" \in Ends
  BY DEF Ends
<1>7. v \in {"STARTED", "STLS"} /\ c \in {"STARTED", "CRED", "REG", "CTLS", "STLS"}
  BY <1>2, <1>3, <1>4, <1>6 DEF ServerSide, ClientSide, Verification, Moves
<1>8. CASE v = "STLS"
  <2>1. peer["client"] = "SCRED" /\ peer["server"] = "STLS"
    BY <1>2, <1>5, <1>8 DEF ServerSide
  <2>2. c = "STLS"
    BY <1>2, <1>5, <1>7, <2>1 DEF ClientSide
  <2>3. QED
    BY <1>8, <2>2 DEF Ends
<1>9. CASE v = "STARTED"
  <2>1. peer["server"] # "CRED"
    BY <1>2, <1>3, <1>4, <1>6, <1>9 DEF Verification
  <2>2. /\ peer["client"] \notin {"CRED", "REG", "CTLS"}
        /\ peer["client"] = "SCRED" => peer["server"] = "STARTED"
    BY <1>2, <1>3, <1>5, <1>6, <1>9 DEF ServerSide
  <2>3. c = "STARTED"
    BY <1>2, <1>5, <1>7, <2>1, <2>2 DEF ClientSide
  <2>4. QED
    BY <1>9, <2>3 DEF Ends
<1>10. QED
  BY <1>7, <1>8, <1>9

\* Undisturbed, two ends at rest are in the negotiation.
LEMMA InvMoves == NegotiationInv /\ Undisturbed /\ AtRest => state["client"] \in Moves
<1>1. SUFFICES ASSUME Orderly, AtRest PROVE state["client"] \in Moves
  BY DEF NegotiationInv
<1>2. \A s \in Ends : /\ created[s] /\ status[s] = "up" /\ mail[s] = <<>>
                      /\ requests[s] = <<>> /\ news[s] = <<>>
  BY <1>1 DEF AtRest, Up
<1>3. ~Start1 /\ ~Start4 /\ ~ServerPast /\ ~ClientPast
  BY <1>2 DEF Start1, Start4, ServerPast, ClientPast, Ends, Fresh
<1>4. \A s \in Ends : ~Start2(s) /\ ~Start3(s)
  BY <1>2, Peers DEF Start2, Start3, Heard
<1>5. Together
  BY <1>1, <1>3, <1>4 DEF Orderly, Phases
<1>6. QED
  BY <1>5 DEF Together, Past

\* ... so it holds all along.
THEOREM RestInvariance == NegotiationSpec => []RestInv
BY RestInitInv, RestNextInv, PTL DEF NegotiationSpec

\* However often the modules ask for a restart, and whenever they do: two ends
\* that are up and have nothing left to handle are both at the last state that
\* is implemented or, after a restart, both at the start, as long as nobody asks
\* for the end.
THEOREM RestartsAgree == NegotiationSpec => [](ended = 0 => AgreeAtRest)
<1>1. ASSUME NegotiationInv, RestInv, ended = 0, AtRest, Undisturbed
      PROVE  \A s \in Ends : state[s] = "STLS"
  <2>1. state["client"] # "STARTED"
    BY <1>1, InvMoves DEF Moves
  <2>2. QED
    BY <1>1, <2>1, RestInvRests DEF Ends
<1>2. NegotiationInv /\ RestInv => (ended = 0 => AgreeAtRest)
  BY <1>1, RestInvRests DEF AgreeAtRest
<1>3. QED
  BY <1>2, Invariance, RestInvariance, PTL
--------------------------------------------------------------------------------
(* The packets. *)

(* Decimal numbers. *)

\* What Decimal makes of n, when h does it for smaller numbers.
Digit(h, n) == IF n < 10 THEN <<48 + n>> ELSE Append(h[n \div 10], 48 + (n % 10))

LEMMA DecimalSteps == \A n \in Nat : Decimal[n] = Digit(Decimal, n)
<1>. DEFINE F(f) == [n \in Nat |-> IF n < 10 THEN <<48 + n>>
                                   ELSE Append(f[n \div 10], 48 + (n % 10))]
            Solved(h, n) == \A k \in 0..n : h[k] = Digit(h, k)
            Q == {n \in Nat : \E h \in [0..n -> Seq(Int)] : Solved(h, n)}
<1>1. 0 \in Q
  <2>. DEFINE h == [k \in 0..0 |-> <<48 + k>>]
  <2>1. h \in [0..0 -> Seq(Int)] /\ Solved(h, 0)
    BY DEF Digit
  <2>. QED
    BY <2>1
<1>2. ASSUME NEW n \in Nat, n \in Q PROVE n + 1 \in Q
  <2>1. PICK h \in [0..n -> Seq(Int)] : Solved(h, n)
    BY <1>2
  <2>. DEFINE g == [k \in 0..n + 1 |-> IF k = n + 1 THEN Digit(h, n + 1) ELSE h[k]]
  <2>2. Digit(h, n + 1) \in Seq(Int) /\ Digit(h, n + 1) = Digit(g, n + 1)
    <3>1. CASE n + 1 < 10
      BY <3>1 DEF Digit
    <3>2. CASE n + 1 >= 10
      <4>1. (n + 1) \div 10 \in 0..n /\ (n + 1) \div 10 # n + 1
        BY <3>2, DivisionGoesDown
      <4>2. g[(n + 1) \div 10] = h[(n + 1) \div 10] /\ h[(n + 1) \div 10] \in Seq(Int)
        BY <4>1
      <4>3. 48 + ((n + 1) % 10) \in Int
        OBVIOUS
      <4>. QED
        BY <3>2, <4>2, <4>3 DEF Digit
    <3>. QED
      BY <3>1, <3>2
  <2>3. g \in [0..n + 1 -> Seq(Int)]
    BY <2>2
  <2>4. ASSUME NEW k \in 0..n PROVE g[k] = Digit(g, k)
    <3>1. g[k] = h[k] /\ h[k] = Digit(h, k)
      BY <2>1
    <3>2. CASE k < 10
      BY <3>1, <3>2 DEF Digit
    <3>3. CASE k >= 10
      <4>1. k \div 10 \in 0..n
        BY <3>3, DivisionGoesDown
      <4>2. g[k \div 10] = h[k \div 10]
        BY <4>1
      <4>. QED
        BY <3>1, <4>2 DEF Digit
    <3>. QED
      BY <3>2, <3>3
  <2>5. g[n + 1] = Digit(g, n + 1)
    BY <2>2
  <2>. HIDE DEF g
  <2>6. \A k \in 0..n + 1 : k \in 0..n \/ k = n + 1
    OBVIOUS
  <2>7. Solved(g, n + 1)
    BY <2>4, <2>5, <2>6
  <2>. HIDE DEF Solved
  <2>8. \E i \in [0..n + 1 -> Seq(Int)] : Solved(i, n + 1)
    BY <2>3, <2>7
  <2>. QED
    BY <2>8
<1>. HIDE DEF Q
<1>3. \A n \in Nat : \E h \in [0..n -> Seq(Int)] : Solved(h, n)
  <2>1. Nat \subseteq Q
    BY <1>1, <1>2, AllNumbers
  <2>. QED
    BY <2>1 DEF Q
<1>. DEFINE H(n) == CHOOSE h \in [0..n -> Seq(Int)] : Solved(h, n)
<1>4. \A n \in Nat : Solved(H(n), n)
  BY <1>3
<1>. HIDE DEF H
<1>5. ASSUME NEW n \in Nat, NEW m \in Nat
      PROVE  \A k \in Nat : k <= n /\ k <= m => H(n)[k] = H(m)[k]
  <2>. DEFINE R == {k \in Nat : k <= n /\ k <= m => H(n)[k] = H(m)[k]}
  <2>1. ASSUME NEW k \in Nat, \A l \in Nat : l < k => l \in R PROVE k \in R
    <3>. SUFFICES ASSUME k <= n, k <= m PROVE H(n)[k] = H(m)[k]
      OBVIOUS
    <3>1. H(n)[k] = Digit(H(n), k) /\ H(m)[k] = Digit(H(m), k)
      BY <1>4
    <3>2. CASE k < 10
      BY <3>1, <3>2 DEF Digit
    <3>3. CASE k >= 10
      <4>1. k \div 10 \in Nat /\ k \div 10 < k
        BY <3>3, DivisionGoesDown
      <4>2. k \div 10 \in R /\ k \div 10 <= n /\ k \div 10 <= m
        BY <2>1, <4>1
      <4>3. H(n)[k \div 10] = H(m)[k \div 10]
        BY <4>2
      <4>. QED
        BY <3>1, <4>3 DEF Digit
    <3>. QED
      BY <3>2, <3>3
  <2>. HIDE DEF R
  <2>2. Nat \subseteq R
    BY <2>1, AllFromSmaller
  <2>. QED
    BY <2>2 DEF R
<1>. DEFINE D == [n \in Nat |-> H(n)[n]]
<1>6. D = F(D)
  <2>1. ASSUME NEW n \in Nat PROVE D[n] = F(D)[n]
    <3>1. D[n] = Digit(H(n), n)
      BY <1>4
    <3>2. CASE n < 10
      BY <3>1, <3>2 DEF Digit
    <3>3. CASE n >= 10
      <4>1. n \div 10 \in Nat /\ n \div 10 <= n
        BY <3>3, DivisionGoesDown
      <4>2. H(n)[n \div 10] = D[n \div 10]
        BY <1>5, <4>1
      <4>. QED
        BY <3>1, <3>3, <4>2 DEF Digit
    <3>. QED
      BY <3>2, <3>3
  <2>. QED
    BY <2>1
<1>7. Decimal = CHOOSE f : f = F(f)
  BY DEF Decimal
<1>. HIDE DEF D
<1>8. Decimal = F(Decimal)
  BY <1>6, <1>7
<1>. QED
  BY <1>8 DEF Digit

\* What the digits before c are worth, ten times, and c.
LEMMA ValueSteps ==
  ASSUME NEW s \in Seq(Int)
  PROVE  \E v \in [0..Len(s) -> Int] :
            /\ v[0] = 0 /\ \A k \in 1..Len(s) : v[k] = 10 * v[k - 1] + (s[k] - 48)
            /\ Value(s) = v[Len(s)]
<1>. DEFINE Step(p) == IF p[1] \in 1..Len(s) THEN 10 * p[2] + (s[p[1]] - 48) ELSE 0
            F(f) == [n \in 0..Len(s) |-> IF n = 0 THEN 0 ELSE 10 * f[n - 1] + (s[n] - 48)]
<1>1. Len(s) \in Nat /\ \A k \in 1..Len(s) : s[k] \in Int
  OBVIOUS
<1>2. PICK g \in [Nat \X Int -> Int] : g = [p \in Nat \X Int |-> Step(p)]
  <2>1. \A p \in Nat \X Int : Step(p) \in Int
    BY <1>1
  <2>. QED
    BY <2>1
<1>3. PICK h \in [0..Len(s) -> Int] : Solves(h, Len(s), 0, g)
  <2>. DEFINE n == Len(s)
              A == Int
  <2>1. n \in Nat /\ 0 \in A /\ g \in [Nat \X A -> A]
    BY <1>1
  <2>. HIDE DEF n, A
  <2>2. \E h \in [0..n -> A] : Solves(h, n, 0, g)
    BY <2>1, Recursion
  <2>. QED
    BY <2>2 DEF n, A
<1>4. h[0] = 0 /\ \A k \in 1..Len(s) : h[k] = 10 * h[k - 1] + (s[k] - 48)
  <2>1. h[0] = 0
    BY <1>3 DEF Solves
  <2>2. ASSUME NEW k \in 1..Len(s) PROVE h[k] = 10 * h[k - 1] + (s[k] - 48)
    <3>1. <<k, h[k - 1]>> \in Nat \X Int
      <4>1. k \in Nat /\ k - 1 \in 0..Len(s)
        BY <1>1
      <4>. QED
        BY <4>1
    <3>2. h[k] = Step(<<k, h[k - 1]>>)
      BY <1>2, <1>3, <3>1 DEF Solves
    <3>. QED
      BY <3>2
  <2>. QED
    BY <2>1, <2>2
<1>5. h = F(h)
  <2>1. ASSUME NEW k \in 0..Len(s) PROVE h[k] = F(h)[k]
    <3>1. k = 0 \/ k \in 1..Len(s)
      BY <1>1
    <3>. QED
      BY <1>4, <3>1
  <2>. QED
    BY <2>1
<1>. DEFINE value == CHOOSE f : f = F(f)
<1>6. Value(s) = value[Len(s)]
  BY DEF Value
<1>7. value = F(value)
  BY <1>5
<1>. HIDE DEF value
<1>8. value[0] = 0 /\ \A k \in 1..Len(s) : value[k] = 10 * value[k - 1] + (s[k] - 48)
  <2>1. \A k \in 0..Len(s) : value[k] = F(value)[k]
    BY <1>7
  <2>2. 0 \in 0..Len(s) /\ \A k \in 1..Len(s) : k \in 0..Len(s) /\ k # 0
    BY <1>1
  <2>. QED
    BY <2>1, <2>2
<1>. HIDE DEF F
<1>. DEFINE R == {n \in Nat : n <= Len(s) => value[n] = h[n]}
<1>9. 0 \in R
  BY <1>4, <1>8
<1>10. ASSUME NEW n \in Nat, n \in R PROVE n + 1 \in R
  <2>. SUFFICES ASSUME n + 1 <= Len(s) PROVE value[n + 1] = h[n + 1]
    OBVIOUS
  <2>1. n + 1 \in 1..Len(s) /\ (n + 1) - 1 = n /\ value[n] = h[n]
    BY <1>1, <1>10
  <2>2. value[n + 1] = 10 * value[n] + (s[n + 1] - 48)
    BY <1>8, <2>1
  <2>3. h[n + 1] = 10 * h[n] + (s[n + 1] - 48)
    BY <1>4, <2>1
  <2>. QED
    BY <2>1, <2>2, <2>3
<1>. HIDE DEF R
<1>11. Len(s) \in R
  BY <1>1, <1>9, <1>10, AllNumbers
<1>12. value[Len(s)] = h[Len(s)]
  BY <1>1, <1>11 DEF R
<1>. QED
  BY <1>4, <1>6, <1>12

LEMMA ValueAppend ==
  ASSUME NEW s \in Seq(Int), NEW c \in Int
  PROVE  Value(Append(s, c)) = 10 * Value(s) + (c - 48) /\ Value(s) \in Int
<1>. DEFINE t == Append(s, c)
<1>1. /\ t \in Seq(Int) /\ Len(t) = Len(s) + 1 /\ Len(s) \in Nat
      /\ t[Len(s) + 1] = c /\ \A k \in 1..Len(s) : t[k] = s[k]
  OBVIOUS
<1>. HIDE DEF t
<1>2. PICK v \in [0..Len(s) -> Int] :
        /\ v[0] = 0 /\ \A k \in 1..Len(s) : v[k] = 10 * v[k - 1] + (s[k] - 48)
        /\ Value(s) = v[Len(s)]
  BY ValueSteps
<1>3. PICK w \in [0..Len(t) -> Int] :
        /\ w[0] = 0 /\ \A k \in 1..Len(t) : w[k] = 10 * w[k - 1] + (t[k] - 48)
        /\ Value(t) = w[Len(t)]
  BY <1>1, ValueSteps
<1>. DEFINE R == {n \in Nat : n <= Len(s) => v[n] = w[n]}
<1>4. 0 \in R
  BY <1>2, <1>3
<1>5. ASSUME NEW n \in Nat, n \in R PROVE n + 1 \in R
  <2>. SUFFICES ASSUME n + 1 <= Len(s) PROVE v[n + 1] = w[n + 1]
    OBVIOUS
  <2>1. /\ n + 1 \in 1..Len(s) /\ n + 1 \in 1..Len(t) /\ (n + 1) - 1 = n /\ v[n] = w[n]
        /\ t[n + 1] = s[n + 1]
    BY <1>1, <1>5
  <2>2. v[n + 1] = 10 * v[n] + (s[n + 1] - 48)
    BY <1>2, <2>1
  <2>3. w[n + 1] = 10 * w[n] + (t[n + 1] - 48)
    BY <1>3, <2>1
  <2>. QED
    BY <2>1, <2>2, <2>3
<1>. HIDE DEF R
<1>6. Len(s) \in R
  BY <1>1, <1>4, <1>5, AllNumbers
<1>7. v[Len(s)] = w[Len(s)] /\ v[Len(s)] \in Int
  BY <1>1, <1>6 DEF R
<1>8. w[Len(s) + 1] = 10 * w[Len(s)] + (c - 48)
  <2>1. Len(s) + 1 \in 1..Len(t) /\ (Len(s) + 1) - 1 = Len(s)
    BY <1>1
  <2>. QED
    BY <1>1, <1>3, <2>1
<1>. QED
  BY <1>1, <1>2, <1>3, <1>7, <1>8 DEF t

\* stoi takes back what to_string has made of a number, which is digits.
LEMMA RoundTrip ==
  \A n \in Nat : /\ Decimal[n] \in Seq(Octets) /\ Len(Decimal[n]) >= 1
               /\ \A i \in DOMAIN Decimal[n] : IsDigit(Decimal[n][i])
               /\ Value(Decimal[n]) = n
<1>. DEFINE Good(d, n) == /\ d \in Seq(48..57) /\ Len(d) >= 1 /\ Value(d) = n
            T == {n \in Nat : Good(Decimal[n], n)}
<1>1. Value(<<>>) = 0
  <2>. DEFINE e == <<>>
  <2>1. e \in Seq(Int) /\ Len(e) = 0
    OBVIOUS
  <2>. HIDE DEF e
  <2>2. Value(e) = 0
    BY <2>1, ValueSteps
  <2>. QED
    BY <2>2 DEF e
<1>2. ASSUME NEW n \in Nat, \A k \in Nat : k < n => k \in T PROVE n \in T
  <2>1. Decimal[n] = Digit(Decimal, n)
    BY DecimalSteps
  <2>2. CASE n < 10
    <3>1. Decimal[n] = <<48 + n>> /\ <<48 + n>> = Append(<<>>, 48 + n)
      BY <2>1, <2>2 DEF Digit
    <3>2. Value(Append(<<>>, 48 + n)) = 10 * Value(<<>>) + ((48 + n) - 48)
      <4>1. <<>> \in Seq(Int) /\ 48 + n \in Int
        OBVIOUS
      <4>. QED
        BY <4>1, ValueAppend
    <3>3. <<48 + n>> \in Seq(48..57) /\ Len(<<48 + n>>) = 1
      BY <2>2
    <3>4. 10 * Value(<<>>) + ((48 + n) - 48) = n
      BY <1>1
    <3>5. Good(Decimal[n], n)
      BY <3>1, <3>2, <3>3, <3>4
    <3>. QED
      BY <3>5
  <2>3. CASE n >= 10
    <3>. DEFINE m == n \div 10
                d == Decimal[m]
                c == 48 + (n % 10)
    <3>1. m \in Nat /\ m < n /\ n = 10 * m + (n % 10) /\ n % 10 \in 0..9
      BY <2>3
    <3>2. Decimal[n] = Append(d, c)
      BY <2>1, <2>3 DEF Digit
    <3>3. Good(d, m)
      BY <1>2, <3>1
    <3>4. c \in 48..57 /\ c \in Int
      BY <3>1
    <3>5. d \in Seq(Int)
      BY <3>3
    <3>. HIDE DEF d, c, m
    <3>6. Value(Append(d, c)) = 10 * Value(d) + (c - 48)
      BY <3>4, <3>5, ValueAppend
    <3>7. Append(d, c) \in Seq(48..57) /\ Len(Append(d, c)) >= 1
      BY <3>3, <3>4
    <3>8. 10 * m + (c - 48) = n
      BY <3>1 DEF c
    <3>. QED
      BY <3>2, <3>3, <3>6, <3>7, <3>8
  <2>. QED
    BY <2>2, <2>3
<1>. HIDE DEF T
<1>3. Nat \subseteq T
  BY <1>2, AllFromSmaller
<1>4. ASSUME NEW n \in Nat
      PROVE  /\ Decimal[n] \in Seq(Octets) /\ Len(Decimal[n]) >= 1
             /\ \A i \in DOMAIN Decimal[n] : IsDigit(Decimal[n][i])
             /\ Value(Decimal[n]) = n
  <2>1. Good(Decimal[n], n)
    BY <1>3 DEF T
  <2>2. 48..57 \subseteq Octets
    BY DEF Octets
  <2>3. Decimal[n] \in Seq(Octets)
    BY <2>1, <2>2
  <2>. QED
    BY <2>1, <2>3 DEF IsDigit
<1>. QED
  BY <1>4

(* Frames. *)

\* A packet the ends send
Sendable == {q \in Part : HeaderSize + Len(q.data) \in Octets}

LEMMA PacketsAreSendable ==
  \A e \in Sides : /\ Len(Packets[e]) \in Nat /\ DOMAIN Packets[e] = 1..Len(Packets[e])
                   /\ Packets[e] \in Seq(Part)
                   /\ \A i \in 1..Len(Packets[e]) : Packets[e][i] \in Sendable
BY PacketsAssumption DEF Sendable

Size(q)    == Len(PrependHeader(q))
HeadLen(q) == Len(FrameHeader(PrependHeader(q)))
\* A frame, byte by byte; d is the length of the data.
FrameBytes(q, f, d) ==
  /\ f \in Seq(Octets) /\ Len(f) = Len(d) + Size(q) + 7
  /\ \A i \in 1..4 : f[i] = Header[i]
  /\ \A i \in 1..Len(d) : f[4 + i] = d[i]
  /\ f[5 + Len(d)] = Colon /\ f[6 + Len(d)] = Open
  /\ \A i \in 1..Size(q) : f[Len(d) + 6 + i] = PrependHeader(q)[i]
  /\ f[Len(d) + Size(q) + 7] = Close

LEMMA HeaderFacts ==
  ASSUME NEW q \in Sendable
  PROVE  /\ PrependHeader(q) \in Seq(Octets) /\ Size(q) = HeaderSize + Len(q.data)
         /\ Size(q) \in Octets /\ Len(q.data) \in Nat
         /\ PrependHeader(q)[1] = q.name /\ PrependHeader(q)[2] = Size(q)
         /\ \A i \in 1..Len(q.data) : PrependHeader(q)[2 + i] = q.data[i]
<1>1. /\ q.name \in Octets /\ q.data \in Seq(Octets) /\ Len(q.data) \in Nat
      /\ HeaderSize + Len(q.data) \in Octets /\ HeaderSize = 2
  BY DEF Sendable, Part, HeaderSize
<1>2. PICK h \in Seq(Octets) : /\ h = <<q.name, HeaderSize + Len(q.data)>> /\ Len(h) = 2
                              /\ h[1] = q.name /\ h[2] = HeaderSize + Len(q.data)
  <2>. DEFINE h == <<q.name, HeaderSize + Len(q.data)>>
  <2>1. h \in Seq(Octets) /\ Len(h) = 2
    BY <1>1
  <2>. QED
    BY <2>1
<1>3. PrependHeader(q) = h \o q.data
  BY <1>2 DEF PrependHeader
<1>4. /\ h \o q.data \in Seq(Octets) /\ Len(h \o q.data) = 2 + Len(q.data)
      /\ \A i \in 1..2 : (h \o q.data)[i] = h[i]
      /\ \A i \in 1..Len(q.data) : (h \o q.data)[2 + i] = q.data[i]
  BY <1>1, <1>2, Both
<1>5. 1 \in 1..2 /\ 2 \in 1..2
  OBVIOUS
<1>. QED
  BY <1>1, <1>2, <1>3, <1>4, <1>5 DEF Size

\* The parts of the frame, in place.
LEMMA FrameFacts ==
  ASSUME NEW q \in Sendable
  PROVE  /\ FrameBytes(q, Frame(q), Decimal[Size(q)])
         /\ HeadLen(q) = Len(Decimal[Size(q)]) + 6
         /\ FrameHeader(PrependHeader(q)) \in Seq(Octets)
         /\ \A i \in 1..HeadLen(q) : FrameHeader(PrependHeader(q))[i] = Frame(q)[i]
<1>1. PICK p \in Seq(Octets) : /\ p = PrependHeader(q) /\ Len(p) = Size(q) /\ Size(q) \in Nat
  <2>1. PrependHeader(q) \in Seq(Octets)
    BY HeaderFacts
  <2>2. Size(q) = Len(PrependHeader(q))
    BY DEF Size
  <2>3. Size(q) \in Nat
    <3>1. Size(q) \in Octets
      BY HeaderFacts
    <3>. QED
      BY <3>1 DEF Octets
  <2>. QED
    BY <2>1, <2>2, <2>3
<1>2. PICK d \in Seq(Octets) : d = Decimal[Size(q)] /\ Len(d) \in Nat
  BY <1>1, RoundTrip
<1>3. PICK b \in Seq(Octets) : b = <<Colon, Open>> /\ Len(b) = 2 /\ b[1] = Colon /\ b[2] = Open
  <2>. DEFINE b == <<Colon, Open>>
  <2>1. b \in Seq(Octets) /\ Len(b) = 2 /\ b[1] = Colon /\ b[2] = Open
    BY DEF Colon, Open, Octets
  <2>. QED
    BY <2>1
<1>4. PICK c \in Seq(Octets) : c = <<Close>> /\ Len(c) = 1 /\ c[1] = Close
  <2>. DEFINE c == <<Close>>
  <2>1. c \in Seq(Octets) /\ Len(c) = 1 /\ c[1] = Close
    BY DEF Close, Octets
  <2>. QED
    BY <2>1
<1>5. PICK a \in Seq(Octets) : a = Header /\ Len(a) = 4
  <2>. DEFINE a == Header
  <2>1. a \in Seq(Octets) /\ Len(a) = 4
    BY DEF Header, Octets
  <2>. QED
    BY <2>1
<1>. DEFINE ad == a \o d
<1>6. /\ ad \in Seq(Octets) /\ Len(ad) = 4 + Len(d)
      /\ \A i \in 1..4 : ad[i] = a[i]
      /\ \A i \in 1..Len(d) : ad[4 + i] = d[i]
  <2>1. /\ ad \in Seq(Octets) /\ Len(ad) = Len(a) + Len(d)
        /\ \A i \in 1..Len(a) : ad[i] = a[i]
        /\ \A i \in 1..Len(d) : ad[Len(a) + i] = d[i]
    BY Both
  <2>. HIDE DEF ad
  <2>. QED
    BY <1>5, <2>1
<1>. HIDE DEF ad
<1>. DEFINE h == ad \o b
<1>7. /\ h \in Seq(Octets) /\ Len(h) = 6 + Len(d)
      /\ \A i \in 1..4 + Len(d) : h[i] = ad[i]
      /\ h[5 + Len(d)] = Colon /\ h[6 + Len(d)] = Open
  <2>1. /\ h \in Seq(Octets) /\ Len(h) = Len(ad) + Len(b)
        /\ \A i \in 1..Len(ad) : h[i] = ad[i]
        /\ \A i \in 1..Len(b) : h[Len(ad) + i] = b[i]
    <3>1. ad \in Seq(Octets) /\ b \in Seq(Octets)
      BY <1>6
    <3>. QED
      BY <3>1, Both
  <2>. HIDE DEF h
  <2>2. /\ 1 \in 1..Len(b) /\ 2 \in 1..Len(b)
        /\ Len(ad) + 1 = 5 + Len(d) /\ Len(ad) + 2 = 6 + Len(d)
        /\ Len(ad) + Len(b) = 6 + Len(d)
    BY <1>2, <1>3, <1>6
  <2>. QED
    BY <1>3, <1>6, <2>1, <2>2
<1>. HIDE DEF h
<1>8. FrameHeader(PrependHeader(q)) = h
  BY <1>1, <1>2, <1>3, <1>5, <1>6, <1>7 DEF FrameHeader, h, ad
<1>. DEFINE hp == h \o p
<1>9. /\ hp \in Seq(Octets) /\ Len(hp) = 6 + Len(d) + Size(q)
      /\ \A i \in 1..6 + Len(d) : hp[i] = h[i]
      /\ \A i \in 1..Size(q) : hp[Len(d) + 6 + i] = p[i]
  <2>1. /\ hp \in Seq(Octets) /\ Len(hp) = Len(h) + Len(p)
        /\ \A i \in 1..Len(h) : hp[i] = h[i]
        /\ \A i \in 1..Len(p) : hp[Len(h) + i] = p[i]
    <3>1. h \in Seq(Octets) /\ p \in Seq(Octets)
      BY <1>7
    <3>. QED
      BY <3>1, Both
  <2>. HIDE DEF hp
  <2>2. Len(h) = Len(d) + 6 /\ Len(h) = 6 + Len(d)
    BY <1>2, <1>7
  <2>. QED
    BY <1>1, <2>1, <2>2
<1>. HIDE DEF hp
<1>. DEFINE f == hp \o c
<1>10. /\ f \in Seq(Octets) /\ Len(f) = Len(d) + Size(q) + 7
       /\ \A i \in 1..6 + Len(d) + Size(q) : f[i] = hp[i]
       /\ f[Len(d) + Size(q) + 7] = Close
  <2>1. /\ f \in Seq(Octets) /\ Len(f) = Len(hp) + Len(c)
        /\ \A i \in 1..Len(hp) : f[i] = hp[i]
        /\ \A i \in 1..Len(c) : f[Len(hp) + i] = c[i]
    <3>1. hp \in Seq(Octets) /\ c \in Seq(Octets)
      BY <1>9
    <3>. QED
      BY <3>1, Both
  <2>. HIDE DEF f
  <2>2. 1 \in 1..Len(c) /\ Len(hp) + 1 = Len(d) + Size(q) + 7
    BY <1>1, <1>2, <1>4, <1>9
  <2>. QED
    BY <1>4, <1>9, <2>1, <2>2
<1>. HIDE DEF f
<1>11. Frame(q) = f
  BY <1>1, <1>4, <1>8, <1>9, <1>10 DEF Frame, f, hp
<1>12. ASSUME NEW i \in 1..6 + Len(d)
       PROVE  f[i] = h[i] /\ (i \in 1..4 + Len(d) => f[i] = ad[i])
  <2>1. i \in 1..6 + Len(d) + Size(q)
    BY <1>1, <1>2
  <2>. QED
    BY <1>7, <1>9, <1>10, <2>1
<1>13. FrameBytes(q, f, d)
  <2>1. ASSUME NEW i \in 1..4 PROVE f[i] = Header[i]
    <3>1. i \in 1..6 + Len(d) /\ i \in 1..4 + Len(d)
      BY <1>2
    <3>. QED
      BY <1>5, <1>6, <1>12, <3>1
  <2>2. ASSUME NEW i \in 1..Len(d) PROVE f[4 + i] = d[i]
    <3>1. 4 + i \in 1..6 + Len(d) /\ 4 + i \in 1..4 + Len(d)
      BY <1>2
    <3>. QED
      BY <1>6, <1>12, <3>1
  <2>3. f[5 + Len(d)] = Colon /\ f[6 + Len(d)] = Open
    <3>1. 5 + Len(d) \in 1..6 + Len(d) /\ 6 + Len(d) \in 1..6 + Len(d)
      BY <1>2
    <3>. QED
      BY <1>7, <1>12, <3>1
  <2>4. ASSUME NEW i \in 1..Size(q) PROVE f[Len(d) + 6 + i] = PrependHeader(q)[i]
    <3>1. Len(d) + 6 + i \in 1..6 + Len(d) + Size(q)
      BY <1>1, <1>2
    <3>. QED
      BY <1>1, <1>9, <1>10, <3>1
  <2>. QED
    <3>1. \A i \in 1..4 : f[i] = Header[i]
      BY <2>1
    <3>2. \A i \in 1..Len(d) : f[4 + i] = d[i]
      BY <2>2
    <3>3. \A i \in 1..Size(q) : f[Len(d) + 6 + i] = PrependHeader(q)[i]
      BY <2>4
    <3>. QED
      BY <1>10, <2>3, <3>1, <3>2, <3>3 DEF FrameBytes
<1>14. HeadLen(q) = Len(d) + 6
  BY <1>2, <1>7, <1>8 DEF HeadLen
<1>15. \A i \in 1..HeadLen(q) : FrameHeader(PrependHeader(q))[i] = Frame(q)[i]
  <2>1. Len(d) + 6 = 6 + Len(d)
    BY <1>2
  <2>. QED
    BY <1>8, <1>11, <1>12, <1>14, <2>1
<1>. QED
  BY <1>2, <1>7, <1>8, <1>11, <1>13, <1>14, <1>15

LEMMA FrameLength ==
  ASSUME NEW q \in Sendable
  PROVE  /\ Frame(q) \in Seq(Octets) /\ Len(Frame(q)) \in Nat /\ HeadLen(q) \in Nat /\ Size(q) \in Nat
         /\ HeadLen(q) >= 7 /\ Len(Frame(q)) = HeadLen(q) + Size(q) + 1
         /\ Frame(q)[Len(Frame(q))] = Close
         /\ \A i \in 1..Size(q) : Frame(q)[HeadLen(q) + i] = PrependHeader(q)[i]
<1>1. Size(q) \in Nat
  <2>1. Size(q) \in Octets
    BY HeaderFacts
  <2>. QED
    BY <2>1 DEF Octets
<1>2. PICK d \in Seq(Octets) : d = Decimal[Size(q)] /\ Len(d) \in Nat /\ Len(d) >= 1
  BY <1>1, RoundTrip
<1>3. FrameBytes(q, Frame(q), d) /\ HeadLen(q) = Len(d) + 6
  BY <1>2, FrameFacts
<1>4. /\ Frame(q) \in Seq(Octets) /\ Len(Frame(q)) = Len(d) + Size(q) + 7
      /\ Frame(q)[Len(d) + Size(q) + 7] = Close
      /\ \A i \in 1..Size(q) : Frame(q)[Len(d) + 6 + i] = PrependHeader(q)[i]
  BY <1>3 DEF FrameBytes
<1>. DEFINE f == Frame(q)
            D == Len(d)
            F == Len(f)
            h == HeadLen(q)
            z == Size(q)
<1>5. /\ z \in Nat /\ D \in Nat /\ D >= 1 /\ h = D + 6 /\ F = D + z + 7
  BY <1>1, <1>2, <1>3, <1>4
<1>. HIDE DEF f, D, F, h, z
<1>6. /\ F \in Nat /\ h \in Nat /\ h >= 7 /\ F = h + z + 1
  BY ONLY <1>5
<1>7. f \in Seq(Octets) /\ f[F] = Close /\ \A i \in 1..z : f[h + i] = PrependHeader(q)[i]
  BY <1>4, <1>5 DEF f, D, z
<1>. QED
  BY <1>5, <1>6, <1>7 DEF f, F, h, z

(* The stream of bytes of an end: all its frames, one after the other. *)

LEMMA FramesSteps ==
  ASSUME NEW e \in Sides
  PROVE  /\ Frames[e][0] = <<>>
         /\ \A n \in 0..Len(Packets[e]) : Frames[e][n] \in Seq(Octets)
         /\ \A n \in 0..Len(Packets[e]) - 1 :
               Frames[e][n + 1] = Frames[e][n] \o Frame(Packets[e][n + 1])
<1>1. Len(Packets[e]) \in Nat /\ \A i \in 1..Len(Packets[e]) : Frame(Packets[e][i]) \in Seq(Octets)
  BY PacketsAreSendable, FrameLength
<1>. DEFINE A == Seq(Octets)
            G(n) == [i \in 1..n |-> Frame(Packets[e][i])]
<1>2. \A n \in 0..Len(Packets[e]) : Frames[e][n] = FlattenSeq(G(n))
  BY DEF Frames
<1>3. \A n \in 0..Len(Packets[e]) : G(n) \in Seq(A) /\ Len(G(n)) = n
  BY <1>1
<1>4. ASSUME NEW n \in 0..Len(Packets[e]) - 1
      PROVE  G(n + 1) = Append(G(n), Frame(Packets[e][n + 1]))
  <2>1. n + 1 \in 1..Len(Packets[e]) /\ n \in 0..Len(Packets[e]) /\ n + 1 \in 0..Len(Packets[e])
    BY <1>1
  <2>2. Frame(Packets[e][n + 1]) \in A
    BY <1>1, <2>1
  <2>. DEFINE r == Append(G(n), Frame(Packets[e][n + 1]))
  <2>3. r \in Seq(A) /\ Len(r) = n + 1 /\ \A i \in 1..n : r[i] = G(n)[i]
    BY <1>3, <2>1, <2>2, AppendProperties
  <2>4. r[n + 1] = Frame(Packets[e][n + 1])
    BY <1>3, <2>1, <2>2, AppendProperties
  <2>5. ASSUME NEW i \in 1..n + 1 PROVE r[i] = G(n + 1)[i]
    <3>1. i = n + 1 \/ i \in 1..n
      BY <2>1
    <3>2. G(n + 1)[i] = Frame(Packets[e][i])
      OBVIOUS
    <3>3. i \in 1..n => G(n)[i] = Frame(Packets[e][i])
      OBVIOUS
    <3>. HIDE DEF r, G
    <3>. QED
      BY <2>3, <2>4, <3>1, <3>2, <3>3
  <2>6. G(n + 1) \in Seq(A) /\ Len(G(n + 1)) = n + 1
    BY <1>3, <2>1
  <2>. HIDE DEF r, G, A
  <2>. QED
    BY <2>3, <2>5, <2>6, SeqEqual DEF r
<1>5. FlattenSeq(G(0)) = <<>>
  <2>1. G(0) = <<>>
    OBVIOUS
  <2>. QED
    BY <2>1 DEF FlattenSeq
<1>. HIDE DEF G
<1>7. ASSUME NEW n \in 0..Len(Packets[e]) - 1
      PROVE  FlattenSeq(G(n + 1)) = FlattenSeq(G(n)) \o Frame(Packets[e][n + 1])
  <2>1. n \in 0..Len(Packets[e]) /\ n + 1 \in 1..Len(Packets[e])
    BY <1>1
  <2>2. G(n) \in Seq(A) /\ Frame(Packets[e][n + 1]) \in Seq(Octets)
    BY <1>1, <1>3, <2>1
  <2>. QED
    BY <1>4, <2>2, FlattenAppend
<1>6. ASSUME NEW n \in 0..Len(Packets[e])
      PROVE  FlattenSeq(G(n)) \in Seq(Octets)
  <2>1. G(n) \in Seq(A) /\ <<>> \in Seq(Octets)
    BY <1>3
  <2>. QED
    BY <2>1, FlattenAppend
<1>. QED
  <2>1. \A n \in 0..Len(Packets[e]) - 1 : n \in 0..Len(Packets[e]) /\ n + 1 \in 0..Len(Packets[e])
    BY <1>1
  <2>2. 0 \in 0..Len(Packets[e])
    BY <1>1
  <2>. QED
    BY <1>2, <1>5, <1>6, <1>7, <2>1, <2>2

Stream(p)  == Frames[p][Len(Packets[p])]
Upto(p, n) == Len(Frames[p][n])
\* What was sent first stays where it is.
LEMMA FramesGrow ==
  ASSUME NEW e \in Sides, NEW n \in 0..Len(Packets[e])
  PROVE  Begins(Frames[e][n], Stream(e))
<1>. DEFINE N == Len(Packets[e])
            T == {k \in Nat : n + k <= N => Begins(Frames[e][n], Frames[e][n + k])}
<1>1. N \in Nat /\ n \in Nat /\ n <= N
  BY PacketsAreSendable
<1>2. \A k \in 0..N : Frames[e][k] \in Seq(Octets) /\ Len(Frames[e][k]) \in Nat
  <2>1. \A k \in 0..N : Frames[e][k] \in Seq(Octets)
    BY FramesSteps
  <2>. QED
    BY <2>1, LenProperties
<1>3. 0 \in T
  <2>1. n + 0 = n /\ Len(Frames[e][n]) \in Nat
    BY <1>1, <1>2
  <2>. QED
    BY <2>1 DEF Begins
<1>4. ASSUME NEW k \in Nat, k \in T PROVE k + 1 \in T
  <2>. SUFFICES ASSUME n + (k + 1) <= N PROVE Begins(Frames[e][n], Frames[e][n + (k + 1)])
    OBVIOUS
  <2>1. /\ n + k \in 0..N - 1 /\ n + k \in 0..N /\ n + (k + 1) = (n + k) + 1
        /\ (n + k) + 1 \in 1..N
    BY <1>1
  <2>. DEFINE a == Frames[e][n]
              b == Frames[e][n + k]
              f == Frame(Packets[e][(n + k) + 1])
  <2>2. Begins(a, b)
    BY <1>1, <1>4, <2>1
  <2>3. f \in Seq(Octets)
    BY <2>1, PacketsAreSendable, FrameLength
  <2>4. a \in Seq(Octets) /\ b \in Seq(Octets)
    BY <1>2, <2>1
  <2>5. Frames[e][(n + k) + 1] = b \o f
    BY <2>1, FramesSteps
  <2>. HIDE DEF a, b, f
  <2>6. /\ Len(a) \in Nat /\ Len(b) \in Nat /\ Len(f) \in Nat
        /\ Len(b \o f) = Len(b) + Len(f) /\ \A i \in 1..Len(b) : (b \o f)[i] = b[i]
    BY <2>3, <2>4, Both
  <2>7. Begins(a, b \o f)
    <3>1. Len(a) <= Len(b \o f)
      BY <2>2, <2>6 DEF Begins
    <3>2. ASSUME NEW i \in 1..Len(a) PROVE a[i] = (b \o f)[i]
      <4>1. i \in 1..Len(b)
        BY <2>2, <2>6 DEF Begins
      <4>. QED
        BY <2>2, <2>6, <4>1 DEF Begins
    <3>. QED
      BY <3>1, <3>2 DEF Begins
  <2>. QED
    BY <2>1, <2>5, <2>7 DEF a
<1>. HIDE DEF T
<1>5. N - n \in T
  BY <1>1, <1>3, <1>4, AllNumbers, SMTT(30)
<1>6. n + (N - n) = N /\ n + (N - n) <= N
  BY <1>1
<1>7. Begins(Frames[e][n], Frames[e][n + (N - n)])
  BY <1>5, <1>6 DEF T
<1>. QED
  BY <1>6, <1>7 DEF Stream

LEMMA StreamFacts ==
  ASSUME NEW e \in Sides
  PROVE  /\ Len(Packets[e]) \in Nat
         /\ Stream(e) \in Seq(Octets) /\ Len(Stream(e)) \in Nat
         /\ Upto(e, 0) = 0 /\ Upto(e, Len(Packets[e])) = Len(Stream(e))
         /\ \A n \in 0..Len(Packets[e]) :
              /\ Upto(e, n) \in Nat /\ Upto(e, n) <= Len(Stream(e))
              /\ Frames[e][n] = Span(Stream(e), 0, Upto(e, n))
<1>1. Len(Packets[e]) \in Nat
  BY PacketsAreSendable
<1>2. \A k \in 0..Len(Packets[e]) : Frames[e][k] \in Seq(Octets) /\ Len(Frames[e][k]) \in Nat
  <2>1. \A k \in 0..Len(Packets[e]) : Frames[e][k] \in Seq(Octets)
    BY FramesSteps
  <2>. QED
    BY <2>1, LenProperties
<1>3. 0 \in 0..Len(Packets[e]) /\ Len(Packets[e]) \in 0..Len(Packets[e])
  BY <1>1
<1>4. Upto(e, 0) = 0
  <2>1. Frames[e][0] = <<>>
    BY FramesSteps
  <2>. QED
    BY <2>1 DEF Upto
<1>5. Stream(e) \in Seq(Octets) /\ Len(Stream(e)) \in Nat /\ Upto(e, Len(Packets[e])) = Len(Stream(e))
  BY <1>2, <1>3 DEF Stream, Upto
<1>6. ASSUME NEW n \in 0..Len(Packets[e])
      PROVE  /\ Upto(e, n) \in Nat /\ Upto(e, n) <= Len(Stream(e))
             /\ Frames[e][n] = Span(Stream(e), 0, Upto(e, n))
  <2>. DEFINE t == Frames[e][n]
              s == Stream(e)
              b == Upto(e, n)
              z == 0
  <2>1. Begins(t, s)
    BY FramesGrow
  <2>2. b = Len(t) /\ b \in Nat /\ t \in Seq(Octets) /\ s \in Seq(Octets)
    BY <1>2, <1>5 DEF Upto
  <2>3. b <= Len(s) /\ z \in Nat /\ z <= b /\ Len(t) = b - z
    BY <2>1, <2>2 DEF Begins
  <2>4. \A i \in 1..b - z : t[i] = s[z + i]
    <3>1. \A i \in 1..b - z : z + i = i /\ i \in 1..b
      BY <2>2
    <3>. QED
      BY <2>1, <2>2, <3>1 DEF Begins
  <2>. HIDE DEF t, s, b, z
  <2>5. t = Span(s, z, b)
    BY ONLY <2>2, <2>3, <2>4, SpanIs
  <2>. QED
    BY <2>2, <2>3, <2>5 DEF t, s, b, z
<1>. QED
  BY <1>1, <1>4, <1>5, <1>6

\* The next frame.
LEMMA NextFrame ==
  ASSUME NEW e \in Sides, NEW n \in 0..Len(Packets[e]) - 1
  PROVE  /\ Packets[e][n + 1] \in Sendable
         /\ Upto(e, n) \in Nat /\ Upto(e, n + 1) \in Nat /\ Upto(e, n + 1) <= Len(Stream(e))
         /\ Upto(e, n + 1) = Upto(e, n) + Len(Frame(Packets[e][n + 1]))
         /\ \A i \in 1..Len(Frame(Packets[e][n + 1])) :
              Stream(e)[Upto(e, n) + i] = Frame(Packets[e][n + 1])[i]
<1>. DEFINE q == Packets[e][n + 1]
            f == Frame(q)
            a == Frames[e][n]
            b == Frames[e][n + 1]
<1>1. /\ Len(Packets[e]) \in Nat /\ n \in 0..Len(Packets[e]) /\ n + 1 \in 0..Len(Packets[e])
      /\ n + 1 \in 1..Len(Packets[e])
  BY PacketsAreSendable
<1>2. q \in Sendable
  BY <1>1, PacketsAreSendable
<1>3. f \in Seq(Octets) /\ a \in Seq(Octets) /\ b \in Seq(Octets) /\ b = a \o f
  BY <1>1, <1>2, FramesSteps, FrameLength
<1>4. Begins(b, Stream(e))
  BY <1>1, FramesGrow
<1>5. /\ Upto(e, n) = Len(a) /\ Upto(e, n + 1) = Len(b)
      /\ Upto(e, n) \in Nat /\ Upto(e, n + 1) \in Nat /\ Upto(e, n + 1) <= Len(Stream(e))
  BY <1>1, StreamFacts DEF Upto
<1>. HIDE DEF a, b, f
<1>6. /\ Len(a) \in Nat /\ Len(f) \in Nat /\ Len(b) = Len(a) + Len(f)
      /\ \A i \in 1..Len(f) : b[Len(a) + i] = f[i]
  BY <1>3, Both
<1>7. ASSUME NEW i \in 1..Len(f) PROVE Stream(e)[Upto(e, n) + i] = f[i]
  <2>1. Len(a) + i \in 1..Len(b)
    BY <1>6
  <2>. QED
    BY <1>4, <1>5, <1>6, <2>1 DEF Begins
<1>. QED
  BY <1>2, <1>5, <1>6, <1>7 DEF f

(* What ReceiveData finds in the beginning of a frame. *)

LEMMA HeaderIs == Header \in Seq(Octets) /\ Len(Header) = 4
BY DEF Header, Octets

LEMMA Scan ==
  ASSUME NEW q \in Sendable, NEW b \in Seq(Octets), Len(b) \in 4..Len(Frame(q)),
         \A i \in 1..Len(b) : b[i] = Frame(q)[i]
  PROVE  /\ IsPrefix(Header, b)
         /\ \A i \in DOMAIN Digits(b) : IsDigit(Digits(b)[i])
         /\ Len(b) < HeadLen(q) => ColonAt(b) \in {0, Len(b)}
         /\ Len(b) >= HeadLen(q) =>
              /\ HasLength(b) /\ ColonAt(b) = HeadLen(q) - 1
              /\ Digits(b) # <<>> /\ b[ColonAt(b) + 1] = Open
              /\ DataAt(b) = HeadLen(q) + 1 /\ DataSize(b) = Size(q)
              /\ Missing(b) = Len(Frame(q)) - Len(b)
<1>. DEFINE l == Len(b)
            d == Decimal[Size(q)]
            D == Len(d)
            f == Frame(q)
            I == {i \in 5..l : b[i] = Colon}
<1>1. /\ l \in Nat /\ l >= 4 /\ l <= Len(f) /\ Len(f) \in Nat /\ Size(q) \in Nat
      /\ Len(f) = HeadLen(q) + Size(q) + 1
  BY FrameLength
<1>2. /\ d \in Seq(Octets) /\ D \in Nat /\ D >= 1 /\ Value(d) = Size(q)
      /\ \A i \in 1..D : IsDigit(d[i])
  BY <1>1, RoundTrip
<1>3. HeadLen(q) = D + 6 /\ FrameBytes(q, f, d)
  BY FrameFacts
<1>4. /\ \A i \in 1..4 : f[i] = Header[i]
      /\ \A i \in 1..D : f[4 + i] = d[i]
      /\ f[5 + D] = Colon /\ f[6 + D] = Open
  BY <1>3 DEF FrameBytes
<1>5. \A i \in 1..l : b[i] = f[i]
  OBVIOUS
<1>6. Colon = 58 /\ \A x : IsDigit(x) => x # 58
  BY DEF Colon, IsDigit
<1>. HIDE DEF f, d, D, l
<1>7. \A i \in 1..D : 4 + i <= l => b[4 + i] = d[i] /\ b[4 + i] # Colon
  <2>1. \A i \in 1..D : 4 + i <= l => 4 + i \in 1..l
    BY <1>1, <1>2
  <2>2. ASSUME NEW i \in 1..D, 4 + i <= l PROVE b[4 + i] = d[i] /\ b[4 + i] # Colon
    <3>1. b[4 + i] = f[4 + i]
      BY <1>5, <2>1, <2>2
    <3>2. f[4 + i] = d[i] /\ IsDigit(d[i])
      BY <1>2, <1>4
    <3>. QED
      BY <1>6, <3>1, <3>2
  <2>. QED
    BY <2>2
<1>8. IsPrefix(Header, b)
  <2>. DEFINE a == Header
              m == 4
              z == 0
              u == Span(a, z, m)
              w == Span(b, z, m)
  <2>1. /\ a \in Seq(Octets) /\ Len(a) = m /\ m \in Nat /\ z \in Nat /\ z <= m
        /\ m - z = m /\ m <= Len(b) /\ m <= Len(a) /\ b \in Seq(Octets)
    BY <1>1, HeaderIs DEF l
  <2>2. \A i \in 1..m : z + i = i /\ a[i] = b[i]
    <3>1. \A i \in 1..4 : i \in 1..l
      BY <1>1
    <3>. QED
      BY <1>4, <1>5, <3>1
  <2>. HIDE DEF a, m, z, u, w
  <2>3. u \in Seq(Octets) /\ Len(u) = m - z /\ \A i \in 1..m - z : u[i] = a[z + i]
    <3>1. a \in Seq(Octets) /\ m \in Nat /\ z \in Nat /\ z <= m /\ m <= Len(a)
      BY <2>1
    <3>. QED
      BY ONLY <3>1, SpanProperties DEF u
  <2>4. w \in Seq(Octets) /\ Len(w) = m - z /\ \A i \in 1..m - z : w[i] = b[z + i]
    BY ONLY <2>1, SpanProperties DEF w
  <2>5. u = w
    BY <2>1, <2>2, <2>3, <2>4, SeqEqual
  <2>6. SubSeq(a, 1, Len(a)) = SubSeq(b, 1, Len(a)) /\ Len(a) <= Len(b)
    BY <2>1, <2>5 DEF u, w, Span, z
  <2>. QED
    BY <2>6 DEF IsPrefix, a
<1>9. ColonAt(b) = IF I # {} THEN Min(I) ELSE 0
  <2>1. Len(Header) + 1 = 5
    BY HeaderIs
  <2>. QED
    BY <2>1 DEF ColonAt, SelectInSubSeq, l
<1>10. ASSUME NEW i \in I PROVE i >= 5 + D
  <2>1. i \in Nat /\ i >= 5 /\ i <= l /\ b[i] = Colon
    BY <1>1
  <2>2. ~(i - 4 \in 1..D)
    <3>. SUFFICES ASSUME i - 4 \in 1..D PROVE FALSE
      OBVIOUS
    <3>1. 4 + (i - 4) = i
      BY <2>1
    <3>. QED
      BY <1>7, <2>1, <3>1
  <2>. QED
    BY <1>2, <2>1, <2>2
<1>11. CASE l < 5 + D
  <2>1. I = {}
    BY <1>10, <1>11, <1>1, <1>2
  <2>2. ColonAt(b) = 0 /\ ~HasLength(b)
    BY <1>9, <2>1 DEF HasLength
  <2>3. Digits(b) = Span(b, 4, l)
    BY <2>2, HeaderIs DEF Digits, Span, l
  <2>5. /\ Len(Span(b, 4, l)) = l - 4 /\ \A i \in 1..l - 4 : Span(b, 4, l)[i] = b[4 + i]
        /\ Span(b, 4, l) \in Seq(Octets)
    <3>. DEFINE z == 4
    <3>1. z \in Nat /\ l \in Nat /\ z <= l /\ l <= Len(b) /\ b \in Seq(Octets)
      BY <1>1 DEF l
    <3>. HIDE DEF z
    <3>2. /\ Len(Span(b, z, l)) = l - z /\ \A i \in 1..l - z : Span(b, z, l)[i] = b[z + i]
          /\ Span(b, z, l) \in Seq(Octets)
      BY ONLY <3>1, SpanProperties
    <3>. QED
      BY <3>2 DEF z
  <2>7. DOMAIN Span(b, 4, l) = 1..l - 4
    BY <2>5
  <2>8. \A i \in 1..l - 4 : i \in 1..D /\ 4 + i <= l
    BY <1>1, <1>2, <1>11
  <2>9. \A i \in DOMAIN Digits(b) : IsDigit(Digits(b)[i])
    BY <1>2, <1>7, <2>3, <2>5, <2>7, <2>8
  <2>. QED
    BY <1>1, <1>2, <1>3, <1>8, <1>11, <2>2, <2>9 DEF l
<1>12. CASE l >= 5 + D
  <2>1. 5 + D \in I
    BY <1>1, <1>2, <1>4, <1>5, <1>12
  <2>2. I \subseteq Nat /\ I # {}
    BY <1>1, <2>1
  <2>3. Min(I) = 5 + D
    <3>1. Min(I) \in I /\ Min(I) <= 5 + D
      BY <2>1, <2>2, MinIsLeast
    <3>2. Min(I) \in Nat /\ Min(I) >= 5 + D
      BY <1>10, <2>2, <3>1
    <3>. QED
      BY <1>2, <3>1, <3>2
  <2>4. ColonAt(b) = 5 + D /\ HasLength(b)
    BY <1>2, <1>9, <2>2, <2>3 DEF HasLength
  <2>. DEFINE c == 4 + D
              z == 4
  <2>5. c \in Nat /\ z \in Nat /\ z <= c /\ c <= Len(b) /\ c - z = D /\ z = 4 /\ c = (5 + D) - 1
    BY <1>1, <1>2, <1>12 DEF l
  <2>6. Digits(b) = Span(b, z, c)
    BY <2>4, <2>5, HeaderIs DEF Digits, Span
  <2>. HIDE DEF c, z
  <2>7. d = Span(b, z, c)
    <3>1. \A i \in 1..c - z : d[i] = b[z + i]
      <4>1. \A i \in 1..D : 4 + i <= l
        BY <1>1, <1>2, <1>12
      <4>. QED
        BY <1>7, <2>5, <4>1
    <3>2. Len(d) = c - z
      BY <2>5 DEF D
    <3>3. b \in Seq(Octets) /\ d \in Seq(Octets)
      BY <1>2
    <3>4. /\ b \in Seq(Octets) /\ z \in Nat /\ c \in Nat /\ z <= c /\ c <= Len(b)
          /\ d \in Seq(Octets) /\ Len(d) = c - z /\ \A i \in 1..c - z : d[i] = b[z + i]
      BY <2>5, <3>1, <3>2, <3>3
    <3>. QED
      BY ONLY <3>4, SpanIs
  <2>8. Digits(b) = d
    BY <2>6, <2>7
  <2>9. \A i \in DOMAIN Digits(b) : IsDigit(Digits(b)[i])
    <3>1. DOMAIN d = 1..D
      BY <1>2 DEF D
    <3>. QED
      BY <1>2, <2>8, <3>1
  <2>10. Digits(b) # <<>> /\ DataSize(b) = Size(q)
    BY <1>2, <2>8 DEF DataSize, D
  <2>11. DataAt(b) = 7 + D
    BY <1>2, <2>4 DEF DataAt
  <2>12. Missing(b) = Len(f) - l
    BY <1>1, <1>2, <1>3, <2>10, <2>11 DEF Missing, l
  <2>13. l >= HeadLen(q) => b[ColonAt(b) + 1] = Open
    <3>. SUFFICES ASSUME l >= HeadLen(q) PROVE b[ColonAt(b) + 1] = Open
      OBVIOUS
    <3>1. ColonAt(b) + 1 = 6 + D /\ 6 + D \in 1..l
      BY <1>1, <1>2, <1>3, <2>4
    <3>. QED
      BY <1>4, <1>5, <3>1
  <2>14. l < HeadLen(q) => ColonAt(b) = l
    BY <1>1, <1>2, <1>3, <1>12, <2>4
  <2>15. ColonAt(b) = HeadLen(q) - 1 /\ DataAt(b) = HeadLen(q) + 1
    BY <1>2, <1>3, <2>4, <2>11
  <2>. QED
    BY <1>8, <2>4, <2>9, <2>10, <2>12, <2>13, <2>14, <2>15 DEF l, f
<1>. QED
  BY <1>1, <1>2, <1>11, <1>12

LEMMA WholeFrame ==
  ASSUME NEW q \in Sendable, NEW b \in Seq(Octets), Len(b) = Len(Frame(q)),
         \A i \in 1..Len(b) : b[i] = Frame(q)[i]
  PROVE  /\ b[DataAt(b) + DataSize(b)] = Close
         /\ SubSeq(b, DataAt(b), (DataAt(b) + DataSize(b)) - 1) = PrependHeader(q)
<1>. DEFINE h == HeadLen(q)
            n == Size(q)
            f == Frame(q)
            p == PrependHeader(q)
<1>1. /\ Len(f) \in Nat /\ h \in Nat /\ h >= 7 /\ n \in Nat /\ Len(f) = h + n + 1
      /\ f[Len(f)] = Close
      /\ \A i \in 1..n : f[h + i] = p[i]
  BY FrameLength
<1>2. p \in Seq(Octets) /\ Len(p) = n
  BY HeaderFacts DEF Size
<1>3. DataAt(b) = h + 1 /\ DataSize(b) = n
  BY <1>1, Scan
<1>. HIDE DEF h, n, p, f
<1>4. Len(b) = Len(f) /\ \A i \in 1..Len(b) : b[i] = f[i]
  BY DEF f
<1>5. b[DataAt(b) + DataSize(b)] = Close
  <2>1. (h + 1) + n = Len(f) /\ Len(f) \in 1..Len(f)
    BY <1>1
  <2>. QED
    BY <1>1, <1>3, <1>4, <2>1
<1>6. SubSeq(b, DataAt(b), (DataAt(b) + DataSize(b)) - 1) = Span(b, h, h + n)
  <2>1. ((h + 1) + n) - 1 = h + n
    BY <1>1
  <2>. QED
    BY <1>3, <2>1 DEF Span
<1>7. p = Span(b, h, h + n)
  <2>. DEFINE c == h + n
  <2>1. c \in Nat /\ h \in Nat /\ h <= c /\ c <= Len(b) /\ c - h = n
    BY <1>1, <1>4
  <2>2. \A i \in 1..n : h + i \in 1..Len(b)
    BY <1>1, <1>4
  <2>. HIDE DEF c
  <2>3. \A i \in 1..c - h : p[i] = b[h + i]
    BY <1>1, <1>4, <2>1, <2>2
  <2>4. Len(p) = c - h /\ p \in Seq(Octets) /\ b \in Seq(Octets)
    BY <1>2, <2>1
  <2>5. p = Span(b, h, c)
    BY ONLY <2>1, <2>3, <2>4, SpanIs
  <2>. QED
    BY <2>5 DEF c
<1>. QED
  BY <1>5, <1>6, <1>7 DEF p

(* The invariant: how much of the stream of an end is written, read and       *)
(* handed on.                                                                 *)

\* SendData has the rest of a frame to write, in up to three pieces; the last is
\* not empty.
Remaining(p, s, ps, u) ==
  /\ u <= Len(Stream(p))
  /\ \/ \E a, b \in Nat : /\ s <= a /\ a <= b /\ b < u
                          /\ ps = <<Span(Stream(p), s, a), Span(Stream(p), a, b),
                                    Span(Stream(p), b, u)>>
     \/ \E a \in Nat : /\ s <= a /\ a < u
                       /\ ps = <<Span(Stream(p), s, a), Span(Stream(p), a, u)>>
     \/ s < u /\ ps = <<Span(Stream(p), s, u)>>

\* p has written the first s bytes of its stream.
Gives(p, s) ==
  /\ next[p] \in 1..Len(Packets[p]) + 1
  /\ s \in Nat /\ s <= Len(Stream(p))
  /\ \/ pc[p] \notin {"write", "copy"} /\ pieces[p] = <<>> /\ s = Upto(p, next[p] - 1)
     \/ /\ pc[p] \in {"write", "copy"} /\ next[p] <= Len(Packets[p])
        /\ Remaining(p, s, pieces[p], Upto(p, next[p]))

\* e has taken n whole frames of these and read r bytes, up to the end of the
\* next frame at most.
HasRead(e, p, n, r, s) ==
  /\ n \in 0..Len(Packets[p]) /\ r \in Nat /\ s \in Nat
  /\ Upto(p, n) <= r /\ r <= s /\ s <= Len(Stream(p))
  /\ r > Upto(p, n) => n < Len(Packets[p]) /\ r <= Upto(p, n + 1)
  /\ buffer[e] = Span(Stream(p), Upto(p, n), r)
  /\ received[e] = Span(Stream(p), r, s)

\* Where ReceiveData is when l bytes of the frame of q are in the buffer
Place(e, q, l) ==
  \/ /\ pc[e] \in {"idle", "write", "copy"}
     /\ l >= 4 => readLength[e] = IF l < HeadLen(q) THEN 1 ELSE Len(Frame(q)) - l
  \/ pc[e] = "length" /\ l >= 4
  \/ pc[e] = "data" /\ l >= 4 /\ l >= HeadLen(q)
  \/ pc[e] = "parse" /\ l = 0

\* The modules of e have what is registered for them of the first n packets.
Has(e, p, n) ==
  \A m \in Modules : inbox[e][m] = Without(SubSeq(Packets[p], 1, n), Unheard(e, m))

Hands(e, p, n) ==
  \/ rest[e] = <<>> /\ Has(e, p, n)
  \/ /\ pc[e] = "parse" /\ n >= 1 /\ rest[e] = PrependHeader(Packets[p][n])
     /\ Has(e, p, n - 1)

Takes(e, p, n, r, s) == /\ HasRead(e, p, n, r, s)
                        /\ Place(e, Packets[p][n + 1], r - Upto(p, n))
                        /\ Hands(e, p, n)

Goes(e, p) == \E n, r, s \in Nat : Gives(p, s) /\ Takes(e, p, n, r, s)

PacketsInv == TypeOK /\ \A e \in Sides : Goes(e, Partner(e))

LEMMA Partners ==
  \A e \in Sides : /\ Partner(e) \in Sides /\ Partner(e) # e /\ Partner(Partner(e)) = e
                   /\ \A f \in Sides : f = e \/ f = Partner(e)
<1>1. PICK a, b \in Sides : a # b /\ Sides = {a, b}
  BY SidesAssumption
<1>2. Partner(a) = b /\ Partner(b) = a
  BY <1>1 DEF Partner
<1>. QED
  BY <1>1, <1>2

\* The part of the next frame that is in the buffer
LEMMA Begun ==
  ASSUME NEW p \in Sides, NEW n \in 0..Len(Packets[p]) - 1, NEW r \in Nat,
         Upto(p, n) <= r, r <= Upto(p, n + 1)
  PROVE  LET b == Span(Stream(p), Upto(p, n), r)
             f == Frame(Packets[p][n + 1])
         IN  /\ b \in Seq(Octets) /\ Len(b) = r - Upto(p, n) /\ Len(b) \in Nat
             /\ Len(b) <= Len(f) /\ \A i \in 1..Len(b) : b[i] = f[i]
<1>. DEFINE S == Stream(p)
            a == Upto(p, n)
            f == Frame(Packets[p][n + 1])
            b == Span(S, a, r)
<1>1. /\ a \in Nat /\ Upto(p, n + 1) = a + Len(f) /\ Upto(p, n + 1) <= Len(S)
      /\ \A i \in 1..Len(f) : S[a + i] = f[i]
  BY NextFrame
<1>2. S \in Seq(Octets) /\ Len(S) \in Nat
  BY StreamFacts
<1>3. Len(f) \in Nat
  BY NextFrame, FrameLength
<1>. HIDE DEF S, a, f
<1>4. r <= Len(S) /\ a <= r /\ r - a \in Nat /\ r - a <= Len(f)
  BY <1>1, <1>2, <1>3 DEF a
<1>5. b \in Seq(Octets) /\ Len(b) = r - a /\ \A i \in 1..r - a : b[i] = S[a + i]
  <2>1. S \in Seq(Octets) /\ a \in Nat /\ r \in Nat /\ a <= r /\ r <= Len(S)
    BY <1>1, <1>2, <1>4
  <2>. QED
    BY ONLY <2>1, SpanProperties DEF b
<1>6. \A i \in 1..r - a : i \in 1..Len(f)
  BY <1>3, <1>4
<1>. HIDE DEF b
<1>7. \A i \in 1..Len(b) : b[i] = f[i]
  BY <1>1, <1>5, <1>6
<1>. QED
  BY <1>4, <1>5, <1>7 DEF b, a, f, S

LEMMA ReadableIs ==
  ASSUME TypeOK, NEW e \in Sides, NEW len \in Nat, NEW k \in Readable(e, len)
  PROVE  k \in Nat /\ k <= len /\ k <= Len(received[e])
<1>1. received[e] \in Seq(Octets) /\ Len(received[e]) \in Nat
  BY DEF TypeOK
<1>2. CASE len = 0 \/ received[e] = <<>>
  BY <1>1, <1>2 DEF Readable
<1>3. CASE ~(len = 0 \/ received[e] = <<>>)
  <2>. DEFINE T == {len, Len(received[e])}
  <2>1. T \subseteq Nat /\ T # {}
    BY <1>1
  <2>2. Min(T) \in T /\ \A x \in T : Min(T) <= x
    BY <2>1, MinIsLeast
  <2>3. k \in 1..Min(T)
    BY <1>3 DEF Readable
  <2>. QED
    BY <1>1, <2>1, <2>2, <2>3
<1>. QED
  BY <1>2, <1>3

\* AttemptRead moves the place up to which was read.
LEMMA ReadMore ==
  ASSUME NEW e \in Sides, NEW p \in Sides, NEW n, NEW r, NEW s, HasRead(e, p, n, r, s),
         NEW k \in Nat, k <= Len(received[e]),
         k > 0 => n < Len(Packets[p]) /\ r + k <= Upto(p, n + 1),
         received'[e] = SubSeq(received[e], k + 1, Len(received[e])),
         buffer'[e] = ReadSoFar(e, k)
  PROVE  HasRead(e, p, n, r + k, s)'
<1>. DEFINE S == Stream(p)
            a == Upto(p, n)
            c == r + k
<1>1. /\ n \in 0..Len(Packets[p]) /\ r \in Nat /\ s \in Nat /\ a <= r /\ r <= s /\ s <= Len(S)
      /\ r > a => n < Len(Packets[p]) /\ r <= Upto(p, n + 1)
      /\ buffer[e] = Span(S, a, r) /\ received[e] = Span(S, r, s)
  BY DEF HasRead
<1>2. S \in Seq(Octets) /\ Len(S) \in Nat /\ a \in Nat
  BY <1>1, StreamFacts
<1>3. Len(Packets[p]) \in Nat
  BY PacketsAreSendable
<1>. HIDE DEF S, a
<1>4. Len(received[e]) = s - r
  <2>1. S \in Seq(Octets) /\ s \in Nat /\ r \in Nat /\ r <= s /\ s <= Len(S)
    BY <1>1, <1>2
  <2>2. Len(Span(S, r, s)) = s - r
    BY ONLY <2>1, SpanProperties
  <2>. QED
    BY <1>1, <2>2
<1>5. k <= s - r /\ c \in Nat /\ c <= s /\ r <= c /\ c <= Len(S) /\ a <= c
  BY <1>1, <1>2, <1>4
<1>6. /\ SubSeq(received[e], 1, k) = Span(S, r, c)
      /\ SubSeq(received[e], k + 1, Len(received[e])) = Span(S, c, s)
  <2>1. /\ S \in Seq(Octets) /\ s \in Nat /\ r \in Nat /\ r <= s /\ s <= Len(S)
        /\ c \in Nat /\ r <= c /\ c <= s
    BY <1>1, <1>2, <1>5
  <2>2. k = c - r
    BY <1>1
  <2>. HIDE DEF c
  <2>3. /\ SubSeq(Span(S, r, s), 1, c - r) = Span(S, r, c)
        /\ SubSeq(Span(S, r, s), (c - r) + 1, Len(Span(S, r, s))) = Span(S, c, s)
    BY ONLY <2>1, SpanCut
  <2>. QED
    BY <1>1, <2>2, <2>3
<1>. HIDE DEF c
<1>7. buffer[e] \o Span(S, r, c) = Span(S, a, c)
  <2>1. /\ S \in Seq(Octets) /\ a \in Nat /\ r \in Nat /\ c \in Nat /\ a <= r /\ r <= c
        /\ c <= Len(S)
    BY <1>1, <1>2, <1>5
  <2>2. Span(S, a, r) \o Span(S, r, c) = Span(S, a, c)
    BY ONLY <2>1, SpansJoin
  <2>. QED
    BY <1>1, <2>2
<1>8. buffer'[e] = Span(S, a, c) /\ received'[e] = Span(S, c, s)
  BY <1>6, <1>7 DEF ReadSoFar
<1>9. c > a => n < Len(Packets[p]) /\ c <= Upto(p, n + 1)
  <2>1. CASE k = 0
    BY <1>1, <2>1 DEF c
  <2>2. CASE k > 0
    BY <2>2 DEF c
  <2>. QED
    BY <2>1, <2>2
<1>10. HasRead(e, p, n, c, s)'
  BY <1>1, <1>5, <1>8, <1>9 DEF HasRead, S, a
<1>. QED
  BY <1>10 DEF c

LEMMA RemainingSteps ==
  ASSUME NEW p \in Sides, NEW s \in Nat, NEW u \in Nat, NEW ps, Remaining(p, s, ps, u)
  PROVE  /\ ps # <<>> /\ ps \in Seq(Seq(Octets)) /\ s < u /\ u <= Len(Stream(p))
         /\ FlattenSeq(ps) = Span(Stream(p), s, u)
         /\ \E a \in Nat : /\ s <= a /\ a <= u /\ Head(ps) = Span(Stream(p), s, a)
                           /\ Len(ps) = 1 => a = u /\ Tail(ps) = <<>>
                           /\ Len(ps) # 1 => Remaining(p, a, Tail(ps), u)
<1>. DEFINE S == Stream(p)
            A == Seq(Octets)
            Step(a) == /\ s <= a /\ a <= u /\ Head(ps) = Span(S, s, a)
                       /\ Len(ps) = 1 => a = u /\ Tail(ps) = <<>>
                       /\ Len(ps) # 1 => Remaining(p, a, Tail(ps), u)
            Goal == /\ ps # <<>> /\ ps \in Seq(A) /\ s < u /\ u <= Len(S)
                    /\ FlattenSeq(ps) = Span(S, s, u)
                    /\ \E a \in Nat : Step(a)
<1>1. S \in Seq(Octets) /\ Len(S) \in Nat /\ u <= Len(S)
  BY StreamFacts DEF Remaining
<1>2. ASSUME NEW x \in Nat, NEW y \in Nat, x <= y, y <= u
      PROVE  Span(S, x, y) \in A
  <2>1. y <= Len(S)
    BY <1>1, <1>2
  <2>. QED
    BY <1>1, <1>2, <2>1, SpanProperties
<1>3. ASSUME NEW a \in Nat, NEW b \in Nat, s <= a, a <= b, b < u,
             ps = <<Span(S, s, a), Span(S, a, b), Span(S, b, u)>>
      PROVE  Goal
  <2>. DEFINE x == Span(S, s, a)
              y == Span(S, a, b)
              z == Span(S, b, u)
  <2>1. x \in A /\ y \in A /\ z \in A
    <3>1. a <= u
      BY <1>3
    <3>. QED
      BY <1>2, <1>3, <3>1
  <2>2. (x \o y) \o z = Span(S, s, u)
    <3>1. x \o y = Span(S, s, b)
      <4>1. b <= Len(S)
        BY <1>1, <1>3
      <4>. QED
        BY <1>1, <1>3, <4>1, SpansJoin
    <3>2. Span(S, s, b) \o z = Span(S, s, u)
      <4>1. s <= b /\ b <= u
        BY <1>3
      <4>. QED
        BY <1>1, <1>3, <4>1, SpansJoin
    <3>. QED
      BY <3>1, <3>2
  <2>3. Remaining(p, a, <<y, z>>, u)
    BY <1>1, <1>3 DEF Remaining
  <2>4. ps = <<x, y, z>>
    BY <1>3
  <2>. HIDE DEF x, y, z, A
  <2>5. /\ <<x, y, z>> \in Seq(A) /\ <<x, y, z>> # <<>> /\ Len(<<x, y, z>>) = 3
        /\ Head(<<x, y, z>>) = x /\ Tail(<<x, y, z>>) = <<y, z>>
    BY <2>1, Tuples
  <2>9. <<x, y, z>>[1] = x /\ <<x, y, z>>[2] = y /\ <<x, y, z>>[3] = z
    OBVIOUS
  <2>6. FlattenSeq(<<x, y, z>>) = (x \o y) \o z
    BY <2>1, <2>5, <2>9, FlattenFew DEF A
  <2>7. Step(a)
    BY <1>3, <2>3, <2>4, <2>5 DEF x
  <2>8. s < u
    BY <1>3
  <2>. HIDE DEF Step
  <2>. QED
    BY <1>1, <2>2, <2>4, <2>5, <2>6, <2>7, <2>8
<1>4. ASSUME NEW a \in Nat, s <= a, a < u, ps = <<Span(S, s, a), Span(S, a, u)>>
      PROVE  Goal
  <2>. DEFINE x == Span(S, s, a)
              y == Span(S, a, u)
  <2>1. x \in A /\ y \in A
    BY <1>2, <1>4
  <2>2. x \o y = Span(S, s, u)
    <3>1. a <= u
      BY <1>4
    <3>. QED
      BY <1>1, <1>4, <3>1, SpansJoin
  <2>3. Remaining(p, a, <<y>>, u)
    BY <1>1, <1>4 DEF Remaining
  <2>4. ps = <<x, y>>
    BY <1>4
  <2>. HIDE DEF x, y, A
  <2>5. /\ <<x, y>> \in Seq(A) /\ <<x, y>> # <<>> /\ Len(<<x, y>>) = 2
        /\ Head(<<x, y>>) = x /\ Tail(<<x, y>>) = <<y>>
    BY <2>1, Tuples
  <2>9. <<x, y>>[1] = x /\ <<x, y>>[2] = y
    OBVIOUS
  <2>6. FlattenSeq(<<x, y>>) = x \o y
    BY <2>1, <2>5, <2>9, FlattenFew DEF A
  <2>7. Step(a)
    BY <1>4, <2>3, <2>4, <2>5 DEF x
  <2>8. s < u
    BY <1>4
  <2>. HIDE DEF Step
  <2>. QED
    BY <1>1, <2>2, <2>4, <2>5, <2>6, <2>7, <2>8
<1>5. ASSUME s < u, ps = <<Span(S, s, u)>>
      PROVE  Goal
  <2>. DEFINE x == Span(S, s, u)
  <2>1. x \in A
    BY <1>2, <1>5
  <2>4. ps = <<x>>
    BY <1>5
  <2>. HIDE DEF x, A
  <2>5. /\ <<x>> \in Seq(A) /\ <<x>> # <<>> /\ Len(<<x>>) = 1
        /\ Head(<<x>>) = x /\ Tail(<<x>>) = <<>>
    BY <2>1, Tuples
  <2>9. <<x>>[1] = x
    OBVIOUS
  <2>6. FlattenSeq(<<x>>) = x
    BY <2>1, <2>5, <2>9, FlattenFew DEF A
  <2>7. Step(u)
    BY <1>5, <2>4, <2>5 DEF x
  <2>. HIDE DEF Step
  <2>. QED
    BY <1>1, <1>5, <2>4, <2>5, <2>6, <2>7 DEF x
<1>6. \/ \E a, b \in Nat : /\ s <= a /\ a <= b /\ b < u
                           /\ ps = <<Span(S, s, a), Span(S, a, b), Span(S, b, u)>>
      \/ \E a \in Nat : /\ s <= a /\ a < u /\ ps = <<Span(S, s, a), Span(S, a, u)>>
      \/ s < u /\ ps = <<Span(S, s, u)>>
  BY DEF Remaining
<1>7. Goal
  <2>. HIDE DEF Goal, S
  <2>. QED
    BY <1>3, <1>4, <1>5, <1>6
<1>. QED
  BY <1>7

\* Nobody else moves what an end has given ...
LEMMA GivesKept ==
  ASSUME NEW p \in Sides, NEW s, Gives(p, s), next'[p] = next[p], pieces'[p] = pieces[p],
         pc'[p] \in {"write", "copy"} <=> pc[p] \in {"write", "copy"}
  PROVE  Gives(p, s)'
BY DEF Gives

\* ... or taken.
LEMMA TakesKept ==
  ASSUME NEW e \in Sides, NEW p \in Sides, NEW n, NEW r, NEW s, Takes(e, p, n, r, s),
         received'[e] = received[e], buffer'[e] = buffer[e], readLength'[e] = readLength[e],
         rest'[e] = rest[e], inbox'[e] = inbox[e],
         \/ pc'[e] = pc[e]
         \/ pc[e] \in {"idle", "write", "copy"} /\ pc'[e] \in {"idle", "write", "copy"}
  PROVE  Takes(e, p, n, r, s)'
<1>1. HasRead(e, p, n, r, s)'
  BY DEF Takes, HasRead
<1>2. Place(e, Packets[p][n + 1], r - Upto(p, n))'
  BY DEF Takes, Place
<1>3. Hands(e, p, n)'
  BY DEF Takes, Hands, Has
<1>. QED
  BY <1>1, <1>2, <1>3 DEF Takes

(* What ends write. *)

LEMMA SendDataGives ==
  ASSUME NEW p \in Sides, NEW s, Gives(p, s), SendData(p), TypeOK
  PROVE  /\ Gives(p, s)'
         /\ pieces'[p] \in Seq(Seq(Octets))
<1>. DEFINE n == next[p] - 1
            q == Packets[p][n + 1]
            S == Stream(p)
            f == Frame(q)
            data == PrependHeader(q)
            head == FrameHeader(data)
            a == s + HeadLen(q)
            b == a + Size(q)
            u == Upto(p, n + 1)
<1>1. /\ pc[p] = "idle" /\ next[p] <= Len(Packets[p]) /\ next[p] \in 1..Len(Packets[p]) + 1
      /\ s \in Nat /\ s <= Len(S) /\ s = Upto(p, n)
  BY DEF SendData, Gives
<1>2. /\ n \in 0..Len(Packets[p]) - 1 /\ n + 1 = next[p] /\ Len(Packets[p]) \in Nat
  BY <1>1, PacketsAreSendable
<1>3. /\ q \in Sendable /\ u \in Nat /\ u <= Len(S) /\ u = s + Len(f)
      /\ \A i \in 1..Len(f) : S[s + i] = f[i]
  BY <1>1, <1>2, NextFrame
<1>4. /\ Len(f) \in Nat /\ HeadLen(q) \in Nat /\ Size(q) \in Nat
      /\ Len(f) = HeadLen(q) + Size(q) + 1 /\ f[Len(f)] = Close
      /\ \A i \in 1..Size(q) : f[HeadLen(q) + i] = data[i]
  BY <1>3, FrameLength
<1>5. /\ head \in Seq(Octets) /\ Len(head) = HeadLen(q)
      /\ \A i \in 1..HeadLen(q) : head[i] = f[i]
  BY <1>3, FrameFacts DEF HeadLen
<1>6. data \in Seq(Octets) /\ Len(data) = Size(q)
  BY <1>3, HeaderFacts DEF Size
<1>7. S \in Seq(Octets) /\ Len(S) \in Nat
  BY StreamFacts
<1>8. /\ pieces' = [pieces EXCEPT ![p] = <<head, data, <<Close>>>>]
      /\ pc' = [pc EXCEPT ![p] = "write"] /\ next' = next
  BY <1>2 DEF SendData, Goto, sendVars
<1>9. pieces'[p] = <<head, data, <<Close>>>> /\ pc'[p] = "write" /\ next'[p] = n + 1
  BY <1>2, <1>8 DEF TypeOK
<1>. DEFINE end == <<Close>>
<1>10. end \in Seq(Octets) /\ Len(end) = 1 /\ end[1] = Close
  BY DEF Close, Octets
<1>. HIDE DEF n, q, S, f, head, data, u, end
<1>11. /\ a \in Nat /\ b \in Nat /\ s <= a /\ a <= b /\ b <= u /\ b < u
       /\ a <= Len(S) /\ b <= Len(S) /\ a - s = HeadLen(q) /\ b - a = Size(q) /\ u - b = 1
       /\ \A i \in 1..a - s : i \in 1..HeadLen(q) /\ i \in 1..Len(f)
       /\ \A i \in 1..b - a : /\ i \in 1..Size(q) /\ HeadLen(q) + i \in 1..Len(f)
                              /\ s + (HeadLen(q) + i) = a + i
       /\ \A i \in 1..u - b : i = 1 /\ Len(f) \in 1..Len(f) /\ s + Len(f) = b + i
  <2>. DEFINE h == HeadLen(q)
              z == Size(q)
              l == Len(f)
              N == Len(S)
  <2>1. /\ s \in Nat /\ h \in Nat /\ z \in Nat /\ u = s + l
        /\ l = h + z + 1 /\ u <= N /\ N \in Nat /\ l \in Nat
    BY <1>1, <1>3, <1>4, <1>7
  <2>. HIDE DEF h, z, l, N
  <2>2. /\ a \in Nat /\ b \in Nat /\ s <= a /\ a <= b /\ b <= u /\ b < u
        /\ a <= N /\ b <= N /\ a - s = h /\ b - a = z /\ u - b = 1
    BY <2>1 DEF h, z
  <2>3. \A i \in 1..a - s : i \in 1..h /\ i \in 1..l
    BY <2>1 DEF h
  <2>4. \A i \in 1..b - a : i \in 1..z /\ h + i \in 1..l /\ s + (h + i) = a + i
    BY <2>1 DEF h, z
  <2>5. \A i \in 1..u - b : i = 1 /\ l \in 1..l /\ s + l = b + i
    BY <2>1 DEF h, z
  <2>. QED
    BY <2>2, <2>3, <2>4, <2>5 DEF h, z, l, N
<1>12. head = Span(S, s, a)
  <2>1. ASSUME NEW i \in 1..a - s PROVE head[i] = S[s + i]
    <3>1. i \in 1..HeadLen(q) /\ i \in 1..Len(f)
      BY <1>11
    <3>. QED
      BY <1>3, <1>5, <3>1
  <2>. HIDE DEF a, b
  <2>2. /\ S \in Seq(Octets) /\ s \in Nat /\ a \in Nat /\ s <= a /\ a <= Len(S)
        /\ head \in Seq(Octets) /\ Len(head) = a - s /\ \A i \in 1..a - s : head[i] = S[s + i]
    BY <1>1, <1>5, <1>7, <1>11, <2>1
  <2>. QED
    BY ONLY <2>2, SpanIs
<1>13. data = Span(S, a, b)
  <2>1. ASSUME NEW i \in 1..b - a PROVE data[i] = S[a + i]
    <3>1. i \in 1..Size(q) /\ HeadLen(q) + i \in 1..Len(f) /\ s + (HeadLen(q) + i) = a + i
      BY <1>11
    <3>. QED
      BY <1>3, <1>4, <3>1
  <2>. HIDE DEF a, b
  <2>2. /\ S \in Seq(Octets) /\ a \in Nat /\ b \in Nat /\ a <= b /\ b <= Len(S)
        /\ data \in Seq(Octets) /\ Len(data) = b - a /\ \A i \in 1..b - a : data[i] = S[a + i]
    BY <1>1, <1>6, <1>7, <1>11, <2>1
  <2>. QED
    BY ONLY <2>2, SpanIs
<1>14. end = Span(S, b, u)
  <2>1. ASSUME NEW i \in 1..u - b PROVE end[i] = S[b + i]
    <3>1. i = 1 /\ Len(f) \in 1..Len(f) /\ s + Len(f) = b + i
      BY <1>11
    <3>. QED
      BY <1>3, <1>4, <1>10, <3>1
  <2>. HIDE DEF a, b
  <2>2. /\ S \in Seq(Octets) /\ b \in Nat /\ u \in Nat /\ b <= u /\ u <= Len(S)
        /\ end \in Seq(Octets) /\ Len(end) = u - b /\ \A i \in 1..u - b : end[i] = S[b + i]
    BY <1>3, <1>7, <1>10, <1>11, <2>1
  <2>. QED
    BY ONLY <2>2, SpanIs
<1>15. pieces'[p] = <<Span(S, s, a), Span(S, a, b), Span(S, b, u)>>
  BY <1>9, <1>12, <1>13, <1>14 DEF end
<1>. HIDE DEF a, b
<1>19. Remaining(p, s, pieces'[p], u)
  BY <1>3, <1>11, <1>15 DEF Remaining, S
<1>17. Gives(p, s)'
  <2>1. next'[p] \in 1..Len(Packets[p]) + 1 /\ next'[p] <= Len(Packets[p])
    BY <1>2, <1>9
  <2>2. Remaining(p, s, pieces'[p], Upto(p, next'[p]))
    BY <1>9, <1>19 DEF u
  <2>. QED
    BY <1>1, <1>9, <2>1, <2>2 DEF Gives, S
<1>18. pieces'[p] \in Seq(Seq(Octets))
  <2>. DEFINE A == Seq(Octets)
  <2>1. head \in A /\ data \in A /\ end \in A
    BY <1>5, <1>6, <1>10
  <2>. HIDE DEF A
  <2>2. <<head, data, end>> \in Seq(A)
    BY <2>1
  <2>. QED
    BY <1>9, <2>2 DEF A, end
<1>. QED
  BY <1>17, <1>18

LEMMA WriteCopyGives ==
  ASSUME NEW p \in Sides, NEW e \in Sides, e = Partner(p), NEW n, NEW r, NEW s,
         Gives(p, s), HasRead(e, p, n, r, s), WriteCopy(p), TypeOK
  PROVE  /\ \E t \in Nat : Gives(p, t)' /\ HasRead(e, p, n, r, t)'
         /\ pieces'[p] \in Seq(Seq(Octets)) /\ next'[p] \in Nat
         /\ received'[e] \in Seq(Octets)
<1>. DEFINE S == Stream(p)
            ps == pieces[p]
            u == Upto(p, next[p])
<1>1. /\ pc[p] = "copy"
      /\ received' = [received EXCEPT ![e] = @ \o Head(ps)]
      /\ pieces' = [pieces EXCEPT ![p] = Tail(@)]
      /\ next' = [next EXCEPT ![p] = IF Len(ps) = 1 THEN @ + 1 ELSE @]
      /\ pc' = [pc EXCEPT ![p] = IF Len(ps) = 1 THEN "idle" ELSE "write"]
      /\ buffer' = buffer
  BY DEF WriteCopy, Goto, receiveVars
<1>2. /\ received'[e] = received[e] \o Head(ps) /\ pieces'[p] = Tail(ps)
      /\ next'[p] = (IF Len(ps) = 1 THEN next[p] + 1 ELSE next[p])
      /\ pc'[p] = (IF Len(ps) = 1 THEN "idle" ELSE "write")
      /\ buffer'[e] = buffer[e]
  BY <1>1 DEF TypeOK
<1>3. /\ next[p] \in 1..Len(Packets[p]) + 1 /\ next[p] <= Len(Packets[p]) /\ s \in Nat
      /\ Remaining(p, s, ps, u)
  BY <1>1 DEF Gives
<1>4. Len(Packets[p]) \in Nat /\ next[p] \in 0..Len(Packets[p]) /\ next[p] \in Nat
  BY <1>3, PacketsAreSendable
<1>5. S \in Seq(Octets) /\ Len(S) \in Nat /\ u \in Nat
  BY <1>4, StreamFacts
<1>6. /\ ps # <<>> /\ ps \in Seq(Seq(Octets)) /\ u <= Len(S)
  BY <1>3, <1>5, RemainingSteps
<1>7. PICK a \in Nat : /\ s <= a /\ a <= u /\ Head(ps) = Span(S, s, a)
                       /\ Len(ps) = 1 => a = u /\ Tail(ps) = <<>>
                       /\ Len(ps) # 1 => Remaining(p, a, Tail(ps), u)
  BY <1>3, <1>5, RemainingSteps
<1>8. /\ n \in 0..Len(Packets[p]) /\ r \in Nat /\ Upto(p, n) <= r /\ r <= s /\ s <= Len(S)
      /\ r > Upto(p, n) => n < Len(Packets[p]) /\ r <= Upto(p, n + 1)
      /\ buffer[e] = Span(S, Upto(p, n), r) /\ received[e] = Span(S, r, s)
  BY DEF HasRead
<1>. HIDE DEF S, u, ps
<1>9. r <= a /\ a <= Len(S)
  BY <1>3, <1>5, <1>6, <1>7, <1>8
<1>10. received'[e] = Span(S, r, a)
  <2>1. /\ S \in Seq(Octets) /\ r \in Nat /\ s \in Nat /\ a \in Nat /\ r <= s /\ s <= a
        /\ a <= Len(S)
    BY <1>3, <1>5, <1>7, <1>8, <1>9
  <2>2. Span(S, r, s) \o Span(S, s, a) = Span(S, r, a)
    BY ONLY <2>1, SpansJoin
  <2>. QED
    BY <1>2, <1>7, <1>8, <2>2
<1>11. HasRead(e, p, n, r, a)'
  BY <1>2, <1>8, <1>9, <1>10 DEF HasRead, S
<1>12. Gives(p, a)'
  <2>1. CASE Len(ps) = 1
    <3>1. next'[p] = next[p] + 1 /\ next'[p] - 1 = next[p] /\ next'[p] \in 1..Len(Packets[p]) + 1
      BY <1>2, <1>3, <1>4, <2>1
    <3>2. pieces'[p] = <<>> /\ pc'[p] = "idle" /\ a = Upto(p, next[p])
      BY <1>2, <1>7, <2>1 DEF u
    <3>. QED
      BY <1>9, <3>1, <3>2 DEF Gives, S
  <2>2. CASE Len(ps) # 1
    <3>1. next'[p] = next[p] /\ pc'[p] = "write" /\ Remaining(p, a, pieces'[p], Upto(p, next[p]))
      BY <1>2, <1>7, <2>2 DEF u
    <3>. QED
      BY <1>3, <1>9, <3>1 DEF Gives, S
  <2>. QED
    BY <2>1, <2>2
<1>13. pieces'[p] \in Seq(Seq(Octets)) /\ next'[p] \in Nat
  <2>1. Tail(ps) \in Seq(Seq(Octets))
    BY <1>6
  <2>. QED
    BY <1>2, <1>4, <2>1
<1>14. received'[e] \in Seq(Octets)
  <2>1. S \in Seq(Octets) /\ r \in Nat /\ a \in Nat /\ r <= a /\ a <= Len(S)
    BY <1>5, <1>8, <1>9
  <2>2. Span(S, r, a) \in Seq(Octets)
    BY ONLY <2>1, SpanProperties
  <2>. QED
    BY <1>10, <2>2
<1>. QED
  BY <1>11, <1>12, <1>13, <1>14

(* What ends read. *)

\* The buffer of an end holds the beginning of the next frame, and is empty when
\* there is none.
LEMMA Buffered ==
  ASSUME NEW p \in Sides, NEW n, NEW r, NEW s, NEW e \in Sides, HasRead(e, p, n, r, s)
  PROVE  /\ n \in 0..Len(Packets[p]) /\ n \in Nat /\ Len(Packets[p]) \in Nat
         /\ r \in Nat /\ s \in Nat /\ Upto(p, n) \in Nat
         /\ buffer[e] \in Seq(Octets) /\ Len(buffer[e]) = r - Upto(p, n) /\ Len(buffer[e]) \in Nat
         /\ Len(received[e]) = s - r /\ Len(received[e]) \in Nat
         /\ buffer[e] = Span(Stream(p), Upto(p, n), r)
         /\ Len(buffer[e]) > 0 => n < Len(Packets[p])
         /\ n < Len(Packets[p]) =>
              /\ n \in 0..Len(Packets[p]) - 1 /\ Packets[p][n + 1] \in Sendable
              /\ Upto(p, n + 1) = Upto(p, n) + Len(Frame(Packets[p][n + 1]))
              /\ r <= Upto(p, n + 1) /\ Len(buffer[e]) <= Len(Frame(Packets[p][n + 1]))
              /\ \A i \in 1..Len(buffer[e]) : buffer[e][i] = Frame(Packets[p][n + 1])[i]
         /\ n = Len(Packets[p]) => Len(buffer[e]) = 0 /\ Len(received[e]) = 0
<1>. DEFINE S == Stream(p)
            a == Upto(p, n)
            N == Len(Packets[p])
            b == buffer[e]
            w == received[e]
<1>1. /\ n \in 0..N /\ r \in Nat /\ s \in Nat /\ a <= r /\ r <= s /\ s <= Len(S)
      /\ r > a => n < N /\ r <= Upto(p, n + 1)
      /\ b = Span(S, a, r) /\ w = Span(S, r, s)
  BY DEF HasRead
<1>2. S \in Seq(Octets) /\ Len(S) \in Nat /\ a \in Nat /\ Upto(p, N) = Len(S) /\ N \in Nat
  BY <1>1, StreamFacts
<1>3. n \in Nat
  BY <1>1, <1>2
<1>. HIDE DEF S, a, N, b, w
<1>4. b \in Seq(Octets) /\ Len(b) = r - a /\ Len(b) \in Nat
  <2>1. S \in Seq(Octets) /\ a \in Nat /\ r \in Nat /\ a <= r /\ r <= Len(S)
    BY <1>1, <1>2
  <2>2. Span(S, a, r) \in Seq(Octets) /\ Len(Span(S, a, r)) = r - a
    BY ONLY <2>1, SpanProperties
  <2>. QED
    BY <1>1, <2>1, <2>2
<1>5. Len(w) = s - r /\ Len(w) \in Nat
  <2>1. S \in Seq(Octets) /\ r \in Nat /\ s \in Nat /\ r <= s /\ s <= Len(S)
    BY <1>1, <1>2
  <2>2. Len(Span(S, r, s)) = s - r
    BY ONLY <2>1, SpanProperties
  <2>. QED
    BY <1>1, <2>1, <2>2
<1>6. Len(b) > 0 => n < N
  BY <1>1, <1>2, <1>4
<1>7. ASSUME n < N
      PROVE  /\ n \in 0..N - 1 /\ Packets[p][n + 1] \in Sendable
             /\ Upto(p, n + 1) = a + Len(Frame(Packets[p][n + 1]))
             /\ r <= Upto(p, n + 1) /\ Len(b) <= Len(Frame(Packets[p][n + 1]))
             /\ \A i \in 1..Len(b) : b[i] = Frame(Packets[p][n + 1])[i]
  <2>1. n \in 0..N - 1
    BY <1>2, <1>3, <1>7
  <2>2. /\ Packets[p][n + 1] \in Sendable /\ Upto(p, n + 1) \in Nat
        /\ Upto(p, n + 1) = a + Len(Frame(Packets[p][n + 1]))
    BY <2>1, NextFrame DEF N, a
  <2>3. Len(Frame(Packets[p][n + 1])) \in Nat
    BY <2>2, FrameLength
  <2>4. r <= Upto(p, n + 1) /\ a <= r
    BY <1>1, <1>2, <2>2, <2>3
  <2>5. Len(b) <= Len(Frame(Packets[p][n + 1])) /\ \A i \in 1..Len(b) : b[i] = Frame(Packets[p][n + 1])[i]
    BY <1>1, <2>1, <2>4, Begun DEF N, a, S
  <2>. QED
    BY <2>1, <2>2, <2>4, <2>5
<1>8. ASSUME n = N PROVE Len(b) = 0 /\ Len(w) = 0
  <2>1. a = Len(S)
    BY <1>2, <1>8 DEF a
  <2>2. /\ r \in Nat /\ s \in Nat /\ a \in Nat /\ a <= r /\ r <= s /\ s <= a
        /\ Len(b) = r - a /\ Len(w) = s - r
    BY <1>1, <1>2, <1>4, <1>5, <2>1
  <2>. QED
    BY ONLY <2>2
<1>. QED
  BY <1>1, <1>2, <1>3, <1>4, <1>5, <1>6, <1>7, <1>8 DEF S, a, N, b, w

\* The same after a read.
LEMMA Grown ==
  ASSUME TypeOK, NEW e \in Sides, NEW p \in Sides, NEW n, NEW r, NEW s, HasRead(e, p, n, r, s),
         n < Len(Packets[p]), NEW len \in Nat, NEW k \in Readable(e, len),
         Len(buffer[e]) + len <= Len(Frame(Packets[p][n + 1])),
         AttemptRead(e, len, k)
  PROVE  /\ HasRead(e, p, n, r + k, s)' /\ k \in Nat /\ k <= len /\ r + k \in Nat
         /\ (r + k) - Upto(p, n) = Len(buffer[e]) + k
         /\ ReadSoFar(e, k) \in Seq(Octets) /\ Len(ReadSoFar(e, k)) = Len(buffer[e]) + k
         /\ Begins(ReadSoFar(e, k), Frame(Packets[p][n + 1]))
<1>. DEFINE a == Upto(p, n)
            f == Frame(Packets[p][n + 1])
            c == r + k
            b == ReadSoFar(e, k)
<1>1. /\ received'[e] = SubSeq(received[e], k + 1, Len(received[e]))
      /\ buffer'[e] = ReadSoFar(e, k)
  BY DEF AttemptRead, TypeOK
<1>2. k \in Nat /\ k <= len /\ k <= Len(received[e])
  BY ReadableIs
<1>3. /\ n \in 0..Len(Packets[p]) - 1 /\ r \in Nat /\ a \in Nat /\ Upto(p, n + 1) = a + Len(f)
      /\ Len(buffer[e]) = r - a /\ Len(buffer[e]) \in Nat /\ Packets[p][n + 1] \in Sendable
  BY Buffered
<1>4. Len(f) \in Nat
  BY <1>3, FrameLength
<1>5. a <= r
  BY <1>3
<1>. HIDE DEF f, a
<1>6. c \in Nat /\ a <= c /\ c <= Upto(p, n + 1) /\ c - a = Len(buffer[e]) + k
  <2>. DEFINE l == Len(buffer[e])
              F == Len(f)
  <2>1. /\ k \in Nat /\ r \in Nat /\ a \in Nat /\ l \in Nat /\ F \in Nat /\ a <= r /\ l = r - a
        /\ l + k <= F
    <3>1. l + len <= F
      BY DEF f
    <3>. QED
      BY <1>2, <1>3, <1>4, <1>5, <3>1
  <2>2. Upto(p, n + 1) = a + F
    BY <1>3
  <2>. HIDE DEF l, F
  <2>3. r + k \in Nat /\ a <= r + k /\ r + k <= a + F /\ (r + k) - a = l + k
    BY ONLY <2>1
  <2>. QED
    BY <2>2, <2>3 DEF l
<1>7. HasRead(e, p, n, c, s)'
  BY <1>1, <1>2, <1>6, ReadMore
<1>8. b = Span(Stream(p), a, c)
  BY <1>1, <1>7 DEF HasRead, a
<1>. HIDE DEF c, b
<1>9. /\ b \in Seq(Octets) /\ Len(b) = c - a /\ Len(b) <= Len(f) /\ \A i \in 1..Len(b) : b[i] = f[i]
  BY <1>3, <1>6, <1>8, Begun DEF a, f
<1>10. Begins(b, f)
  BY <1>9 DEF Begins
<1>. QED
  BY <1>2, <1>6, <1>7, <1>9, <1>10 DEF a, b, c, f

LEMMA ReceiveHeaderTakes ==
  ASSUME TypeOK, NEW e \in Sides, NEW p \in Sides, NEW n \in Nat, NEW r \in Nat, NEW s \in Nat,
         Takes(e, p, n, r, s), ReceiveHeader(e)
  PROVE  (\E t \in Nat : Takes(e, p, n, t, s)') /\ readLength'[e] \in Nat
<1>. DEFINE q == Packets[p][n + 1]
            l == Len(buffer[e])
            len == IF Len(buffer[e]) < Len(Header) THEN Len(Header) - Len(buffer[e])
                   ELSE readLength[e]
<1>1. pc[e] = "idle" /\ rest' = rest /\ inbox' = inbox
  BY DEF ReceiveHeader
<1>2. PICK k \in Readable(e, len) :
        /\ AttemptRead(e, len, k)
        /\ Goto(e, IF Len(ReadSoFar(e, k)) < Len(Header) THEN "idle"
                   ELSE IF IsPrefix(Header, ReadSoFar(e, k)) THEN "length" ELSE "thrown")
  BY DEF ReceiveHeader
<1>3. pc'[e] = IF Len(ReadSoFar(e, k)) < 4 THEN "idle"
               ELSE IF IsPrefix(Header, ReadSoFar(e, k)) THEN "length" ELSE "thrown"
  BY <1>2, HeaderIs DEF Goto, TypeOK
<1>4. HasRead(e, p, n, r, s) /\ Place(e, q, r - Upto(p, n)) /\ Hands(e, p, n)
  BY DEF Takes
<1>5. /\ l = r - Upto(p, n) /\ l \in Nat
      /\ l > 0 => n < Len(Packets[p])
      /\ n \in 0..Len(Packets[p]) /\ Len(Packets[p]) \in Nat /\ Upto(p, n) \in Nat
  BY <1>4, Buffered
<1>6. l >= 4 => readLength[e] = IF l < HeadLen(q) THEN 1 ELSE Len(Frame(q)) - l
  <2>1. Place(e, q, l)
    BY <1>4, <1>5
  <2>. HIDE DEF q, l
  <2>. QED
    BY <1>1, <2>1 DEF Place
<1>7. len = IF l < 4 THEN 4 - l ELSE readLength[e]
  BY HeaderIs
<1>8. rest[e] = <<>> /\ Has(e, p, n)
  BY <1>1, <1>4 DEF Hands
<1>9. Hands(e, p, n)'
  BY <1>1, <1>8 DEF Hands, Has
<1>10. readLength'[e] = len - k
  BY <1>2 DEF AttemptRead, TypeOK
<1>. HIDE DEF len, q
<1>11. len \in Nat
  <2>1. readLength[e] \in Nat
    BY DEF TypeOK
  <2>. HIDE DEF l
  <2>. QED
    BY <1>5, <1>7, <2>1
<1>12. k \in Nat /\ k <= len /\ k <= Len(received[e])
  BY <1>11, ReadableIs
<1>13. readLength'[e] \in Nat
  BY <1>10, <1>11, <1>12
<1>14. CASE n < Len(Packets[p])
  <2>1. q \in Sendable /\ l <= Len(Frame(q))
    BY <1>4, <1>14, Buffered DEF q
  <2>2. Len(Frame(q)) \in Nat /\ HeadLen(q) >= 7 /\ HeadLen(q) \in Nat /\ Len(Frame(q)) >= HeadLen(q)
    BY <2>1, FrameLength
  <2>3. l + len <= Len(Frame(q))
    <3>1. CASE l < 4
      BY <1>5, <1>7, <2>2, <3>1
    <3>2. CASE l >= 4
      BY <1>5, <1>6, <1>7, <2>1, <2>2, <3>2
    <3>. QED
      BY <1>5, <3>1, <3>2
  <2>4. /\ HasRead(e, p, n, r + k, s)' /\ r + k \in Nat /\ (r + k) - Upto(p, n) = l + k
        /\ ReadSoFar(e, k) \in Seq(Octets) /\ Len(ReadSoFar(e, k)) = l + k
        /\ Len(ReadSoFar(e, k)) <= Len(Frame(q))
        /\ \A i \in 1..Len(ReadSoFar(e, k)) : ReadSoFar(e, k)[i] = Frame(q)[i]
    <3>1. PICK L \in Nat : L = len
      BY <1>11
    <3>2. AttemptRead(e, L, k)
      <4>. HIDE DEF len
      <4>. QED
        BY <1>2, <3>1 DEF AttemptRead
    <3>3. k \in Readable(e, L) /\ Len(buffer[e]) + L <= Len(Frame(Packets[p][n + 1]))
      <4>. HIDE DEF len
      <4>. QED
        BY <1>2, <2>3, <3>1 DEF q, l
    <3>4. /\ HasRead(e, p, n, r + k, s)' /\ r + k \in Nat
          /\ (r + k) - Upto(p, n) = Len(buffer[e]) + k
          /\ ReadSoFar(e, k) \in Seq(Octets) /\ Len(ReadSoFar(e, k)) = Len(buffer[e]) + k
          /\ Begins(ReadSoFar(e, k), Frame(Packets[p][n + 1]))
      <4>. HIDE DEF q, l, len
      <4>. QED
        BY <1>4, <1>14, <3>2, <3>3, Grown
    <3>. QED
      BY <3>4 DEF q, l, Begins
  <2>5. Place(e, q, (r + k) - Upto(p, n))'
    <3>1. CASE l + k < 4
      BY <1>3, <2>4, <3>1 DEF Place
    <3>2. CASE l + k >= 4
      <4>1. IsPrefix(Header, ReadSoFar(e, k))
        <5>1. Len(ReadSoFar(e, k)) \in 4..Len(Frame(q))
          BY <1>5, <1>12, <2>2, <2>4, <3>2
        <5>. QED
          BY <2>1, <2>4, <5>1, Scan
      <4>. QED
        BY <1>3, <1>5, <1>12, <2>4, <3>2, <4>1 DEF Place
    <3>. QED
      BY <1>5, <1>12, <3>1, <3>2
  <2>6. Takes(e, p, n, r + k, s)'
    BY <1>9, <2>4, <2>5 DEF Takes, q
  <2>. QED
    BY <1>13, <2>4, <2>6
<1>15. CASE n = Len(Packets[p])
  <2>1. l = 0 /\ Len(received[e]) = 0
    BY <1>4, <1>15, Buffered
  <2>2. k = 0
    BY <1>12, <2>1
  <2>3. HasRead(e, p, n, r + k, s)' /\ r + k = r
    <3>1. /\ received'[e] = SubSeq(received[e], k + 1, Len(received[e]))
          /\ buffer'[e] = ReadSoFar(e, k)
      BY <1>2 DEF AttemptRead, TypeOK
    <3>. QED
      BY <1>4, <1>12, <2>2, <3>1, ReadMore
  <2>4. Len(ReadSoFar(e, k)) = 0
    <3>1. buffer[e] \in Seq(Octets) /\ SubSeq(received[e], 1, 0) = <<>>
      BY DEF TypeOK
    <3>. QED
      BY <2>1, <2>2, <3>1 DEF ReadSoFar
  <2>5. Place(e, q, r - Upto(p, n))'
    <3>1. pc'[e] = "idle" /\ r - Upto(p, n) = 0
      BY <1>3, <1>5, <2>1, <2>4
    <3>. QED
      BY <3>1 DEF Place
  <2>6. Takes(e, p, n, r, s)'
    BY <1>9, <2>3, <2>5 DEF Takes, q
  <2>. QED
    BY <1>13, <2>6
<1>. QED
  BY <1>5, <1>14, <1>15

\* Inside a frame the buffer holds its beginning, the header at least.
LEMMA Inside ==
  ASSUME TypeOK, NEW e \in Sides, NEW p \in Sides, NEW n, NEW r, NEW s, Takes(e, p, n, r, s),
         pc[e] \in {"length", "data"}
  PROVE  /\ HasRead(e, p, n, r, s) /\ n \in 0..Len(Packets[p]) - 1 /\ n < Len(Packets[p])
         /\ Len(Packets[p]) \in Nat /\ n \in Nat /\ r \in Nat /\ s \in Nat /\ Upto(p, n) \in Nat
         /\ Packets[p][n + 1] \in Sendable
         /\ Len(buffer[e]) = r - Upto(p, n) /\ buffer[e] \in Seq(Octets)
         /\ Len(buffer[e]) \in 4..Len(Frame(Packets[p][n + 1]))
         /\ Begins(buffer[e], Frame(Packets[p][n + 1]))
         /\ Upto(p, n + 1) = Upto(p, n) + Len(Frame(Packets[p][n + 1]))
         /\ pc[e] = "data" => Len(buffer[e]) >= HeadLen(Packets[p][n + 1])
         /\ rest[e] = <<>> /\ Has(e, p, n)
<1>. DEFINE q == Packets[p][n + 1]
            l == Len(buffer[e])
            F == Len(Frame(q))
<1>1. HasRead(e, p, n, r, s) /\ Place(e, q, r - Upto(p, n)) /\ Hands(e, p, n)
  BY DEF Takes
<1>2. /\ n \in 0..Len(Packets[p]) /\ n \in Nat /\ Len(Packets[p]) \in Nat
      /\ r \in Nat /\ s \in Nat /\ Upto(p, n) \in Nat
      /\ buffer[e] \in Seq(Octets) /\ l = r - Upto(p, n) /\ l \in Nat
      /\ l > 0 => n < Len(Packets[p])
  BY <1>1, Buffered
<1>3. Place(e, q, l)
  BY <1>1, <1>2
<1>. HIDE DEF q, l
<1>4. l >= 4 /\ (pc[e] = "data" => l >= HeadLen(q))
  BY <1>3 DEF Place
<1>5. n < Len(Packets[p])
  BY <1>2, <1>4
<1>6. /\ n \in 0..Len(Packets[p]) - 1 /\ q \in Sendable /\ l <= F
      /\ Upto(p, n + 1) = Upto(p, n) + F
      /\ \A i \in 1..l : buffer[e][i] = Frame(q)[i]
  BY <1>1, <1>5, Buffered DEF q, l
<1>7. F \in Nat
  BY <1>6, FrameLength
<1>8. Begins(buffer[e], Frame(q))
  BY <1>6 DEF Begins, l
<1>9. l \in 4..F
  <2>. HIDE DEF F
  <2>. QED
    BY <1>2, <1>4, <1>6, <1>7
<1>10. rest[e] = <<>> /\ Has(e, p, n)
  BY <1>1 DEF Hands
<1>. QED
  BY <1>1, <1>2, <1>4, <1>5, <1>6, <1>8, <1>9, <1>10 DEF q, l

LEMMA ReceiveLengthTakes ==
  ASSUME TypeOK, NEW e \in Sides, NEW p \in Sides, NEW n \in Nat, NEW r \in Nat, NEW s \in Nat,
         Takes(e, p, n, r, s), ReceiveLength(e)
  PROVE  (\E t \in Nat : Takes(e, p, n, t, s)') /\ readLength'[e] \in Nat
<1>. DEFINE q == Packets[p][n + 1]
            b == buffer[e]
            l == Len(buffer[e])
            F == Len(Frame(q))
            H == HeadLen(q)
            wellFormed == \A i \in DOMAIN Digits(b) : IsDigit(Digits(b)[i])
            atEnd == wellFormed /\ ColonAt(b) \in {0, Len(b)}
<1>1. pc[e] = "length" /\ rest' = rest /\ inbox' = inbox
  BY DEF ReceiveLength
<1>2. \/ /\ atEnd
         /\ \E k \in Readable(e, 1) : /\ AttemptRead(e, 1, k)
                                      /\ Goto(e, IF k = 0 THEN "idle" ELSE "length")
      \/ /\ ~atEnd
         /\ Goto(e, IF wellFormed /\ Digits(b) # <<>> /\ b[ColonAt(b) + 1] = Open
                    THEN "data" ELSE "thrown")
         /\ UNCHANGED <<received, buffer, readLength>>
  BY DEF ReceiveLength
<1>3. /\ HasRead(e, p, n, r, s) /\ n < Len(Packets[p]) /\ Upto(p, n) \in Nat
      /\ q \in Sendable /\ l = r - Upto(p, n) /\ b \in Seq(Octets) /\ l \in 4..F
      /\ Begins(b, Frame(q)) /\ rest[e] = <<>> /\ Has(e, p, n)
  <2>1. pc[e] \in {"length", "data"}
    BY <1>1
  <2>. QED
    BY <2>1, Inside, SMTT(30)
<1>4. Hands(e, p, n)'
  BY <1>1, <1>3 DEF Hands, Has
<1>5. F \in Nat /\ H \in Nat /\ H >= 7 /\ F > H /\ l \in Nat
  <2>1. F \in Nat /\ H \in Nat /\ H >= 7 /\ Size(q) \in Nat /\ F = H + Size(q) + 1
    BY <1>3, FrameLength
  <2>2. l \in 4..F
    BY <1>3
  <2>. HIDE DEF F, H, q, l
  <2>. QED
    BY <2>1, <2>2
<1>6. /\ wellFormed
      /\ l < H => ColonAt(b) \in {0, l}
      /\ l >= H => /\ ColonAt(b) = H - 1
                   /\ Digits(b) # <<>> /\ b[ColonAt(b) + 1] = Open
  <2>1. \A i \in 1..Len(b) : b[i] = Frame(q)[i]
    BY <1>3 DEF Begins
  <2>. QED
    BY <1>3, <2>1, Scan
<1>. HIDE DEF F, H, wellFormed, q
<1>7. atEnd <=> l < H
  <2>1. CASE l < H
    BY <1>6, <2>1
  <2>2. CASE l >= H
    <3>1. ColonAt(b) = H - 1
      BY <1>6, <2>2
    <3>2. H - 1 # 0 /\ H - 1 # l
      <4>. HIDE DEF l
      <4>. QED
        BY <1>5, <2>2
    <3>. QED
      BY <1>5, <2>2, <3>1, <3>2
  <2>. QED
    BY <1>5, <2>1, <2>2
<1>8. CASE l < H
  <2>1. PICK k \in Readable(e, 1) : /\ AttemptRead(e, 1, k)
                                    /\ Goto(e, IF k = 0 THEN "idle" ELSE "length")
    BY <1>2, <1>7, <1>8
  <2>2. k \in Nat /\ k <= 1
    BY ReadableIs
  <2>3. l + 1 <= F
    BY <1>5, <1>8
  <2>4. HasRead(e, p, n, r + k, s)' /\ r + k \in Nat /\ (r + k) - Upto(p, n) = l + k
    <3>. DEFINE one == 1
    <3>1. one \in Nat /\ k \in Readable(e, one) /\ AttemptRead(e, one, k)
      BY <2>1
    <3>2. Len(buffer[e]) + one <= Len(Frame(Packets[p][n + 1]))
      BY <2>3 DEF F, q
    <3>. HIDE DEF one, l
    <3>3. /\ HasRead(e, p, n, r + k, s)' /\ r + k \in Nat
          /\ (r + k) - Upto(p, n) = Len(buffer[e]) + k
      <4>1. /\ e \in Sides /\ p \in Sides /\ HasRead(e, p, n, r, s) /\ n < Len(Packets[p])
            /\ TypeOK
        BY <1>3
      <4>. QED
        BY ONLY <3>1, <3>2, <4>1, Grown
    <3>. QED
      BY <3>3 DEF l
  <2>5. readLength'[e] = 1 - k /\ pc'[e] = (IF k = 0 THEN "idle" ELSE "length")
    BY <2>1 DEF AttemptRead, Goto, TypeOK
  <2>6. readLength'[e] \in Nat
    BY <2>2, <2>5
  <2>. DEFINE c == (r + k) - Upto(p, n)
  <2>7. Place(e, q, c)'
    <3>1. c = l + k
      BY <2>4
    <3>. HIDE DEF l, c
    <3>2. CASE k = 0
      <4>1. c < H /\ pc'[e] = "idle" /\ readLength'[e] = 1
        BY <1>5, <1>8, <2>5, <3>1, <3>2
      <4>. QED
        BY <4>1 DEF Place, H
    <3>3. CASE k = 1
      <4>1. c >= 4 /\ pc'[e] = "length"
        BY <1>3, <1>5, <2>5, <3>1, <3>3
      <4>. QED
        BY <4>1 DEF Place
    <3>. QED
      BY <2>2, <3>2, <3>3
  <2>8. Takes(e, p, n, r + k, s)'
    BY <1>4, <2>4, <2>7 DEF Takes, q
  <2>. QED
    BY <2>4, <2>6, <2>8
<1>9. CASE l >= H
  <2>1. /\ pc' = [pc EXCEPT ![e] = "data"]
        /\ received' = received /\ buffer' = buffer /\ readLength' = readLength
    <3>1. ~atEnd
      BY <1>5, <1>7, <1>9
    <3>2. wellFormed /\ Digits(b) # <<>> /\ b[ColonAt(b) + 1] = Open
      BY <1>6, <1>9
    <3>. HIDE DEF b
    <3>. QED
      BY <1>2, <3>1, <3>2 DEF Goto
  <2>2. pc'[e] = "data" /\ readLength'[e] \in Nat
    BY <2>1 DEF TypeOK
  <2>3. HasRead(e, p, n, r, s)'
    BY <1>3, <2>1 DEF HasRead
  <2>5. Place(e, q, r - Upto(p, n))'
    BY <1>3, <1>5, <1>9, <2>2 DEF Place, H
  <2>6. Takes(e, p, n, r, s)'
    BY <1>4, <2>3, <2>5 DEF Takes, q
  <2>. QED
    BY <2>2, <2>6
<1>. QED
  BY <1>5, <1>8, <1>9

LEMMA ReceiveRestTakes ==
  ASSUME TypeOK, NEW e \in Sides, NEW p \in Sides, NEW n \in Nat, NEW r \in Nat, NEW s \in Nat,
         Takes(e, p, n, r, s), ReceiveRest(e)
  PROVE  (\E t \in Nat : Takes(e, p, n, t, s)') /\ readLength'[e] \in Nat
<1>. DEFINE q == Packets[p][n + 1]
            b == buffer[e]
            l == Len(buffer[e])
            F == Len(Frame(q))
            H == HeadLen(q)
<1>1. pc[e] = "data" /\ rest' = rest /\ inbox' = inbox /\ Missing(b) > 0
  BY DEF ReceiveRest
<1>2. PICK k \in Readable(e, Missing(b)) :
        AttemptRead(e, Missing(b), k) /\ Goto(e, IF k < Missing(b) THEN "idle" ELSE "data")
  BY DEF ReceiveRest
<1>3. /\ HasRead(e, p, n, r, s) /\ n < Len(Packets[p]) /\ Upto(p, n) \in Nat
      /\ q \in Sendable /\ l = r - Upto(p, n) /\ b \in Seq(Octets) /\ l \in 4..F
      /\ Begins(b, Frame(q)) /\ rest[e] = <<>> /\ Has(e, p, n)
      /\ pc[e] = "data" => l >= H
  <2>1. pc[e] \in {"length", "data"}
    BY <1>1
  <2>. QED
    BY <2>1, Inside, SMTT(30)
<1>4. Hands(e, p, n)'
  BY <1>1, <1>3 DEF Hands, Has
<1>5. F \in Nat /\ H \in Nat /\ H >= 7 /\ l \in Nat /\ l >= H /\ F - l \in Nat
  <2>1. F \in Nat /\ H \in Nat /\ H >= 7
    BY <1>3, FrameLength
  <2>2. l \in 4..F /\ l >= H
    BY <1>1, <1>3
  <2>. HIDE DEF l, F, H
  <2>. QED
    BY <2>1, <2>2
<1>6. Missing(b) = F - l
  <2>1. \A i \in 1..Len(b) : b[i] = Frame(q)[i]
    BY <1>3 DEF Begins
  <2>. QED
    BY <1>3, <1>5, <2>1, Scan
<1>7. PICK L \in Nat : L = F - l
  BY <1>5
<1>. HIDE DEF F, H, q
<1>8. /\ k \in Readable(e, L) /\ pc'[e] = (IF k < L THEN "idle" ELSE "data")
      /\ readLength'[e] = L - k
  BY <1>2, <1>6, <1>7 DEF AttemptRead, Goto, TypeOK
<1>9. AttemptRead(e, L, k)
  BY <1>2, <1>6, <1>7 DEF AttemptRead
<1>10. k \in Nat /\ k <= L
  BY <1>8, ReadableIs
<1>11. l + L = F
  <2>. HIDE DEF l
  <2>. QED
    BY <1>5, <1>7
<1>12. HasRead(e, p, n, r + k, s)' /\ r + k \in Nat /\ (r + k) - Upto(p, n) = l + k
  <2>1. Len(buffer[e]) + L <= Len(Frame(Packets[p][n + 1]))
    BY <1>5, <1>11 DEF F, q
  <2>. HIDE DEF l
  <2>2. /\ HasRead(e, p, n, r + k, s)' /\ r + k \in Nat
        /\ (r + k) - Upto(p, n) = Len(buffer[e]) + k
    <3>1. /\ e \in Sides /\ p \in Sides /\ HasRead(e, p, n, r, s) /\ n < Len(Packets[p])
          /\ L \in Nat /\ k \in Readable(e, L) /\ AttemptRead(e, L, k) /\ TypeOK
      BY <1>3, <1>8, <1>9
    <3>. QED
      BY ONLY <2>1, <3>1, Grown
  <2>. QED
    BY <2>2 DEF l
<1>. DEFINE c == (r + k) - Upto(p, n)
<1>13. Place(e, q, c)'
  <2>1. c = l + k
    BY <1>12
  <2>. HIDE DEF l, c
  <2>2. c >= 4 /\ c >= H /\ c \in Nat /\ readLength'[e] = F - c
    <3>1. /\ F \in Nat /\ H \in Nat /\ l \in Nat /\ l >= H /\ l >= 4 /\ L \in Nat /\ k \in Nat
          /\ k <= L /\ l + L = F /\ c = l + k
      BY <1>3, <1>5, <1>10, <1>11, <2>1
    <3>2. c >= 4 /\ c >= H /\ c \in Nat /\ L - k = F - c
      BY ONLY <3>1
    <3>. QED
      BY <1>8, <3>2
  <2>3. pc'[e] = "idle" \/ pc'[e] = "data"
    BY <1>8
  <2>. QED
    BY <1>5, <2>2, <2>3 DEF Place, H, F
<1>14. Takes(e, p, n, r + k, s)'
  BY <1>4, <1>12, <1>13 DEF Takes, q
<1>15. readLength'[e] \in Nat
  BY <1>8, <1>10
<1>. QED
  BY <1>12, <1>14, <1>15

LEMMA ReceiveFrameTakes ==
  ASSUME TypeOK, NEW e \in Sides, NEW p \in Sides, NEW n \in Nat, NEW r \in Nat, NEW s \in Nat,
         Takes(e, p, n, r, s), ReceiveFrame(e)
  PROVE  /\ Takes(e, p, n + 1, r, s)' /\ rest[e] = <<>> /\ rest'[e] # <<>>
         /\ readLength'[e] \in Nat /\ rest'[e] \in Seq(Octets) /\ buffer'[e] \in Seq(Octets)
<1>. DEFINE q == Packets[p][n + 1]
            b == buffer[e]
            l == Len(buffer[e])
            F == Len(Frame(q))
            H == HeadLen(q)
            S == Stream(p)
            end == DataAt(b) + DataSize(b)
<1>1. pc[e] = "data" /\ received' = received /\ inbox' = inbox /\ Missing(b) <= 0
  BY DEF ReceiveFrame
<1>2. IF b[end] = Close
      THEN /\ rest' = [rest EXCEPT ![e] = SubSeq(b, DataAt(b), end - 1)]
           /\ buffer' = [buffer EXCEPT ![e] = <<>>]
           /\ readLength' = [readLength EXCEPT ![e] = Len(Header)]
           /\ Goto(e, "parse")
      ELSE /\ Goto(e, "thrown")
           /\ UNCHANGED <<rest, buffer, readLength>>
  BY DEF ReceiveFrame
<1>3. /\ HasRead(e, p, n, r, s) /\ n \in 0..Len(Packets[p]) - 1 /\ n < Len(Packets[p])
      /\ Len(Packets[p]) \in Nat /\ Upto(p, n) \in Nat
      /\ Upto(p, n + 1) = Upto(p, n) + F
      /\ q \in Sendable /\ l = r - Upto(p, n) /\ b \in Seq(Octets) /\ l \in 4..F
      /\ Begins(b, Frame(q)) /\ rest[e] = <<>> /\ Has(e, p, n)
      /\ pc[e] = "data" => l >= H
  <2>1. pc[e] \in {"length", "data"}
    BY <1>1
  <2>. QED
    BY <2>1, Inside, SMTT(30)
<1>4. F \in Nat /\ H \in Nat /\ l \in Nat /\ l >= H
  <2>1. F \in Nat /\ H \in Nat
    BY <1>3, FrameLength
  <2>2. l \in 4..F /\ l >= H
    BY <1>1, <1>3
  <2>. HIDE DEF l, F, H
  <2>. QED
    BY <2>1, <2>2
<1>5. \A i \in 1..Len(b) : b[i] = Frame(q)[i]
  BY <1>3 DEF Begins
<1>6. Missing(b) = F - l
  BY <1>3, <1>4, <1>5, Scan
<1>7. l = F
  <2>. HIDE DEF l, F
  <2>. QED
    BY <1>1, <1>3, <1>4, <1>6
<1>8. b[end] = Close /\ SubSeq(b, DataAt(b), end - 1) = PrependHeader(q)
  BY <1>3, <1>5, <1>7, WholeFrame
<1>9. PrependHeader(q) \in Seq(Octets) /\ PrependHeader(q) # <<>>
  <2>1. q \in Sendable
    BY <1>3
  <2>2. /\ PrependHeader(q) \in Seq(Octets) /\ Size(q) = HeaderSize + Len(q.data)
        /\ Len(q.data) \in Nat
    BY ONLY <2>1, HeaderFacts
  <2>3. Len(PrependHeader(q)) = HeaderSize + Len(q.data)
    BY <2>2 DEF Size
  <2>. HIDE DEF q
  <2>4. HeaderSize + Len(q.data) # 0
    BY ONLY <2>2 DEF HeaderSize
  <2>5. Len(PrependHeader(q)) # 0
    BY ONLY <2>3, <2>4
  <2>6. PrependHeader(q) # <<>>
    BY <2>5
  <2>. QED
    BY ONLY <2>2, <2>6
<1>. HIDE DEF q, F, H, end
<1>10. /\ rest' = [rest EXCEPT ![e] = PrependHeader(q)]
       /\ buffer' = [buffer EXCEPT ![e] = <<>>]
       /\ readLength' = [readLength EXCEPT ![e] = 4] /\ pc' = [pc EXCEPT ![e] = "parse"]
  <2>. HIDE DEF b
  <2>. QED
    BY <1>2, <1>8, HeaderIs DEF Goto
<1>11. /\ rest'[e] = PrependHeader(q) /\ buffer'[e] = <<>>
       /\ readLength'[e] = 4 /\ pc'[e] = "parse"
  BY <1>10 DEF TypeOK
<1>12. Upto(p, n + 1) = r /\ n + 1 \in 0..Len(Packets[p]) /\ n + 1 \in Nat
  <2>. HIDE DEF l
  <2>. QED
    BY <1>3, <1>4, <1>7
<1>13. S \in Seq(Octets) /\ Len(S) \in Nat
  BY StreamFacts
<1>14. r <= s /\ s <= Len(S) /\ received[e] = Span(S, r, s)
  BY <1>3 DEF HasRead
<1>15. Span(S, r, r) = <<>>
  <2>. HIDE DEF S
  <2>1. r <= Len(S) /\ r <= r /\ r - r = 0
    BY <1>13, <1>14
  <2>2. Span(S, r, r) \in Seq(Octets) /\ Len(Span(S, r, r)) = r - r
    BY <1>13, <2>1, SpanProperties
  <2>. QED
    BY <2>1, <2>2
<1>16. HasRead(e, p, n + 1, r, s)'
  BY <1>1, <1>11, <1>12, <1>14, <1>15 DEF HasRead, S
<1>17. Place(e, Packets[p][(n + 1) + 1], r - Upto(p, n + 1))'
  <2>1. r - Upto(p, n + 1) = 0
    BY <1>12
  <2>. QED
    BY <1>11, <2>1 DEF Place
<1>18. Hands(e, p, n + 1)'
  <2>1. n + 1 >= 1 /\ (n + 1) - 1 = n
    OBVIOUS
  <2>2. Has(e, p, n)'
    BY <1>1, <1>3 DEF Has
  <2>. QED
    BY <1>11, <2>1, <2>2 DEF Hands, q
<1>19. Takes(e, p, n + 1, r, s)'
  BY <1>16, <1>17, <1>18 DEF Takes
<1>. QED
  BY <1>3, <1>9, <1>11, <1>19

\* What the modules of an end have after a part is handed over
LEMMA HandOverGives ==
  ASSUME TypeOK, NEW e \in Sides, NEW q
  PROVE  HandOver(e, q) =
           [inbox EXCEPT ![e] = [m \in Modules |-> IF q.name \in Names(e, m)
                                                  THEN Append(inbox[e][m], q) ELSE inbox[e][m]]]
<1>. DEFINE map == HeaderModuleMap[e]
            box == inbox[e]
            more == [m \in Modules |-> IF q.name \in Names(e, m) THEN Append(box[m], q) ELSE box[m]]
<1>1. PICK names : map \in [names -> Modules]
  BY MapAssumption
<1>2. /\ box \in [Modules -> Seq(Part)]
      /\ \A b : [inbox EXCEPT ![e] = b] = [f \in Sides |-> IF f = e THEN b ELSE inbox[f]]
      /\ inbox = [f \in Sides |-> inbox[f]]
  BY DEF TypeOK
<1>3. \A m \in Modules : q.name \in Names(e, m) <=> q.name \in DOMAIN map /\ map[q.name] = m
  BY DEF Names
<1>4. HandOver(e, q) = IF q.name \in DOMAIN map
                       THEN [inbox EXCEPT ![e] = [box EXCEPT ![map[q.name]] = Append(box[map[q.name]], q)]]
                       ELSE inbox
  BY DEF HandOver
<1>. HIDE DEF map, box
<1>5. CASE q.name \in DOMAIN map
  <2>1. [box EXCEPT ![map[q.name]] = Append(box[map[q.name]], q)] = more
    BY <1>2, <1>3, <1>5
  <2>. QED
    BY <1>4, <1>5, <2>1 DEF box
<1>6. CASE q.name \notin DOMAIN map
  <2>1. box = more
    BY <1>2, <1>3, <1>6
  <2>. HIDE DEF more
  <2>2. inbox = [inbox EXCEPT ![e] = more]
    BY <1>2, <2>1 DEF box
  <2>. QED
    BY <1>4, <1>6, <2>2 DEF more, box
<1>. QED
  BY <1>5, <1>6

LEMMA ParsePartTakes ==
  ASSUME TypeOK, NEW e \in Sides, NEW p \in Sides, NEW n \in Nat, NEW r \in Nat, NEW s \in Nat,
         Takes(e, p, n, r, s), ParsePart(e)
  PROVE  /\ Takes(e, p, n, r, s)'
         /\ rest'[e] \in Seq(Octets) /\ inbox'[e] \in [Modules -> Seq(Part)]
         /\ rest[e] # <<>> /\ rest'[e] = <<>> /\ n \in 1..Len(Packets[p])
         /\ LET q == Packets[p][n]
            IN  inbox' = HandOver(e, q)
<1>. DEFINE q == Packets[p][n]
            h == rest[e]
            size == h[2]
            part == [name |-> h[1], data |-> SubSeq(h, HeaderSize + 1, size)]
<1>1. /\ pc[e] = "parse" /\ AtPart(e)
      /\ received' = received /\ buffer' = buffer /\ readLength' = readLength
  BY DEF ParsePart
<1>2. IF size > Len(h)
      THEN Goto(e, "thrown") /\ UNCHANGED <<rest, inbox>>
      ELSE /\ inbox' = HandOver(e, part)
           /\ rest' = [rest EXCEPT ![e] = SubSeq(@, size + 1, Len(@))]
           /\ UNCHANGED pc
  BY DEF ParsePart
<1>3. HasRead(e, p, n, r, s) /\ Place(e, Packets[p][n + 1], r - Upto(p, n)) /\ Hands(e, p, n)
  BY DEF Takes
<1>4. n \in 0..Len(Packets[p]) /\ Len(Packets[p]) \in Nat
  BY <1>3, PacketsAreSendable DEF HasRead
<1>5. h # <<>> /\ n >= 1 /\ h = PrependHeader(q) /\ Has(e, p, n - 1)
  <2>1. h # <<>>
    BY <1>1 DEF AtPart, HeaderSize
  <2>. QED
    BY <1>3, <2>1 DEF Hands
<1>6. n \in 1..Len(Packets[p]) /\ q \in Sendable /\ q \in Part
  <2>1. n \in 1..Len(Packets[p])
    BY <1>4, <1>5
  <2>. QED
    BY <2>1, PacketsAreSendable DEF Sendable
<1>7. /\ h \in Seq(Octets) /\ Len(h) = size /\ size \in Nat /\ size = 2 + Len(q.data) /\ h[1] = q.name
      /\ Len(q.data) \in Nat /\ \A i \in 1..Len(q.data) : h[2 + i] = q.data[i]
  <2>1. /\ PrependHeader(q) \in Seq(Octets) /\ Size(q) = 2 + Len(q.data) /\ Len(q.data) \in Nat
        /\ PrependHeader(q)[1] = q.name /\ PrependHeader(q)[2] = Size(q)
        /\ \A i \in 1..Len(q.data) : PrependHeader(q)[2 + i] = q.data[i]
    BY <1>6, HeaderFacts DEF HeaderSize
  <2>2. Size(q) = Len(PrependHeader(q))
    BY DEF Size
  <2>. HIDE DEF q, h
  <2>3. h = PrependHeader(q)
    BY <1>5
  <2>. QED
    BY <2>1, <2>2, <2>3
<1>. HIDE DEF h, q
<1>8. SubSeq(h, HeaderSize + 1, size) = q.data
  <2>. DEFINE two == 2
              d == q.data
  <2>1. d \in Seq(Octets)
    BY <1>6 DEF Part
  <2>2. /\ two \in Nat /\ two <= size /\ size <= Len(h) /\ Len(d) = size - two
        /\ \A i \in 1..size - two : i \in 1..Len(d)
    BY <1>7
  <2>3. \A i \in 1..size - two : d[i] = h[two + i]
    BY <1>7, <2>2
  <2>. HIDE DEF two, d, size
  <2>4. d = Span(h, two, size)
    BY <1>7, <2>1, <2>2, <2>3, SpanIs, SMTT(30)
  <2>. QED
    BY <2>4 DEF Span, two, d, HeaderSize
<1>9. part = q
  <2>1. q = [name |-> q.name, data |-> q.data]
    BY <1>6 DEF Part
  <2>. QED
    BY <1>7, <1>8, <2>1
<1>10. SubSeq(h, size + 1, Len(h)) = <<>>
  BY <1>7
<1>. HIDE DEF part
<1>11. /\ inbox' = HandOver(e, q)
       /\ rest' = [rest EXCEPT ![e] = <<>>] /\ pc' = pc
  <2>1. ~(size > Len(h))
    BY <1>7
  <2>2. /\ inbox' = HandOver(e, part)
        /\ rest' = [rest EXCEPT ![e] = SubSeq(rest[e], size + 1, Len(rest[e]))] /\ pc' = pc
    BY <1>2, <2>1
  <2>. QED
    BY <1>9, <1>10, <2>2 DEF h
<1>. DEFINE box == [m \in Modules |-> IF q.name \in Names(e, m)
                                      THEN Append(inbox[e][m], q) ELSE inbox[e][m]]
<1>12. /\ rest'[e] = <<>>
       /\ \A m \in Modules : inbox'[e][m] = IF q.name \in Names(e, m)
                                            THEN Append(inbox[e][m], q) ELSE inbox[e][m]
  <2>1. inbox' = [inbox EXCEPT ![e] = box]
    BY <1>11, HandOverGives
  <2>. QED
    BY <1>11, <2>1 DEF TypeOK
<1>13. /\ inbox[e] \in [Modules -> Seq(Part)]
       /\ inbox'[e] = box
  <2>1. inbox' = [inbox EXCEPT ![e] = box]
    BY <1>11, HandOverGives
  <2>. QED
    BY <2>1 DEF TypeOK
<1>14. inbox'[e] \in [Modules -> Seq(Part)]
  <2>1. ASSUME NEW m \in Modules
        PROVE  (IF q.name \in Names(e, m) THEN Append(inbox[e][m], q) ELSE inbox[e][m]) \in Seq(Part)
    <3>. HIDE DEF q
    <3>1. inbox[e][m] \in Seq(Part)
      BY <1>13
    <3>2. Append(inbox[e][m], q) \in Seq(Part)
      BY <1>6, <3>1, AppendProperties
    <3>. QED
      BY <3>1, <3>2
  <2>. QED
    BY <1>13, <2>1
<1>15. Has(e, p, n)'
  <2>. DEFINE P == Packets[p]
              a == SubSeq(P, 1, n - 1)
  <2>1. /\ P \in Seq(Part) /\ Len(P) \in Nat /\ n \in 1..Len(P) /\ n \in Nat /\ n - 1 \in Nat
    BY <1>6, PacketsAreSendable
  <2>2. a \in Seq(Part) /\ SubSeq(P, 1, n) = Append(a, q)
    <3>. DEFINE z == 0
                c == n - 1
    <3>1. /\ z \in Nat /\ c \in Nat /\ z <= c /\ c <= Len(P) /\ c - z = n - 1 /\ n - z = n
          /\ z <= n /\ n <= Len(P) /\ \A i \in 1..c - z : i \in 1..n /\ z + i = i
          /\ \A i \in 1..n - z : z + i = i
          /\ (n - 1) + 1 = n
      BY <2>1
    <3>. HIDE DEF P, z, c
    <3>2. /\ Span(P, z, c) \in Seq(Part) /\ Len(Span(P, z, c)) = c - z
          /\ \A i \in 1..c - z : Span(P, z, c)[i] = P[z + i]
      BY <2>1, <3>1, SpanProperties
    <3>3. a = Span(P, z, c)
      BY DEF Span, z, c
    <3>. HIDE DEF a
    <3>4. /\ Append(a, q) \in Seq(Part) /\ Len(Append(a, q)) = Len(a) + 1
          /\ \A i \in 1..Len(a) : Append(a, q)[i] = a[i]
          /\ Append(a, q)[Len(a) + 1] = q
      BY <1>6, <3>2, <3>3, AppendProperties
    <3>5. Len(Append(a, q)) = n - z /\ Append(a, q)[n] = q /\ \A i \in 1..n - 1 : Append(a, q)[i] = P[i]
      BY <3>1, <3>2, <3>3, <3>4
    <3>6. P[n] = q
      BY DEF P, q
    <3>7. \A i \in 1..n - z : Append(a, q)[i] = P[z + i]
      <4>1. ASSUME NEW i \in 1..n - z PROVE Append(a, q)[i] = P[z + i]
        <5>1. z + i = i /\ (i = n \/ i \in 1..n - 1)
          BY <2>1, <3>1
        <5>. QED
          BY <3>5, <3>6, <5>1
      <4>. QED
        BY <4>1
    <3>. DEFINE t == Append(a, q)
    <3>. HIDE DEF t
    <3>8. t = Span(P, z, n)
      <4>1. /\ P \in Seq(Part) /\ z \in Nat /\ n \in Nat /\ z <= n /\ n <= Len(P)
            /\ t \in Seq(Part) /\ Len(t) = n - z /\ \A i \in 1..n - z : t[i] = P[z + i]
        BY <2>1, <3>1, <3>4, <3>5, <3>7 DEF t
      <4>. QED
        BY ONLY <4>1, SpanIs
    <3>. QED
      BY <3>2, <3>3, <3>8 DEF Span, z, t
  <2>3. ASSUME NEW m \in Modules
        PROVE  inbox'[e][m] = Without(SubSeq(P, 1, n), Unheard(e, m))
    <3>1. inbox[e][m] = Without(a, Unheard(e, m))
      BY <1>5 DEF Has
    <3>2. q \in Unheard(e, m) <=> q.name \notin Names(e, m)
      BY <1>6 DEF Unheard
    <3>. DEFINE U == Unheard(e, m)
    <3>. HIDE DEF U, a, P
    <3>3. Without(Append(a, q), U) = IF q \in U THEN Without(a, U) ELSE Append(Without(a, U), q)
      BY <1>6, <2>2, WithoutAppend
    <3>. QED
      BY <1>12, <2>2, <3>1, <3>2, <3>3 DEF U
  <2>. QED
    BY <2>3 DEF Has
<1>16. Hands(e, p, n)'
  BY <1>12, <1>15 DEF Hands
<1>17. HasRead(e, p, n, r, s)'
  BY <1>1, <1>3 DEF HasRead
<1>18. Place(e, Packets[p][n + 1], r - Upto(p, n))'
  BY <1>1, <1>3, <1>11 DEF Place
<1>19. Takes(e, p, n, r, s)'
  BY <1>16, <1>17, <1>18 DEF Takes
<1>. QED
  BY <1>5, <1>6, <1>11, <1>12, <1>14, <1>19 DEF q, h

LEMMA ParseEndTakes ==
  ASSUME TypeOK, NEW e \in Sides, NEW p \in Sides, NEW n \in Nat, NEW r \in Nat, NEW s \in Nat,
         Takes(e, p, n, r, s), ParseEnd(e)
  PROVE  Takes(e, p, n, r, s)' /\ rest[e] = <<>> /\ rest'[e] = <<>>
<1>1. /\ pc[e] = "parse" /\ ~AtPart(e)
      /\ rest' = [rest EXCEPT ![e] = <<>>] /\ pc' = [pc EXCEPT ![e] = "idle"]
      /\ received' = received /\ buffer' = buffer /\ readLength' = readLength /\ inbox' = inbox
  BY DEF ParseEnd, Goto
<1>2. rest'[e] = <<>> /\ pc'[e] = "idle"
  BY <1>1 DEF TypeOK
<1>3. HasRead(e, p, n, r, s) /\ Place(e, Packets[p][n + 1], r - Upto(p, n)) /\ Hands(e, p, n)
  BY DEF Takes
<1>4. n \in 0..Len(Packets[p]) /\ Len(Packets[p]) \in Nat
  BY <1>3, PacketsAreSendable DEF HasRead
<1>5. rest[e] = <<>> /\ Has(e, p, n)
  <2>1. SUFFICES ASSUME n >= 1, rest[e] = PrependHeader(Packets[p][n]) PROVE FALSE
    BY <1>3 DEF Hands
  <2>2. Packets[p][n] \in Sendable
    <3>1. n \in 1..Len(Packets[p])
      BY <1>4, <2>1
    <3>. QED
      BY <3>1, PacketsAreSendable
  <2>. DEFINE h == PrependHeader(Packets[p][n])
  <2>3. Len(h) >= HeaderSize /\ h[2] >= HeaderSize
    BY <2>2, HeaderFacts DEF Size, HeaderSize
  <2>. HIDE DEF h
  <2>. QED
    BY <1>1, <2>1, <2>3 DEF AtPart, h
<1>6. Hands(e, p, n)'
  BY <1>1, <1>2, <1>5 DEF Hands, Has
<1>7. HasRead(e, p, n, r, s)'
  BY <1>1, <1>3 DEF HasRead
<1>8. Place(e, Packets[p][n + 1], r - Upto(p, n))'
  <2>1. r - Upto(p, n) = 0
    BY <1>1, <1>3 DEF Place
  <2>. QED
    BY <1>2, <2>1 DEF Place
<1>. QED
  BY <1>2, <1>5, <1>6, <1>7, <1>8 DEF Takes

LEMMA ParsePartFrames ==
  ASSUME TypeOK, NEW x \in Sides, ParsePart(x)
  PROVE  /\ pc' = [pc EXCEPT ![x] = pc'[x]] /\ pc'[x] \in {"parse", "thrown"}
         /\ rest' = [rest EXCEPT ![x] = rest'[x]]
         /\ inbox' = [inbox EXCEPT ![x] = inbox'[x]]
<1>. DEFINE size == rest[x][2]
            part == [name |-> rest[x][1], data |-> SubSeq(rest[x], HeaderSize + 1, size)]
            more == [m \in Modules |-> IF part.name \in Names(x, m)
                                       THEN Append(inbox[x][m], part) ELSE inbox[x][m]]
            less == SubSeq(rest[x], size + 1, Len(rest[x]))
<1>1. \/ pc' = [pc EXCEPT ![x] = "thrown"] /\ rest' = rest /\ inbox' = inbox
      \/ /\ inbox' = [inbox EXCEPT ![x] = more]
         /\ rest' = [rest EXCEPT ![x] = less] /\ pc' = pc
  <2>1. HandOver(x, part) = [inbox EXCEPT ![x] = more]
    BY HandOverGives
  <2>. QED
    BY <2>1 DEF ParsePart, Goto
<1>2. pc[x] = "parse"
  BY DEF ParsePart
<1>. HIDE DEF size, part, more, less
<1>3. CASE pc' = [pc EXCEPT ![x] = "thrown"] /\ rest' = rest /\ inbox' = inbox
  BY <1>3 DEF TypeOK
<1>4. CASE /\ inbox' = [inbox EXCEPT ![x] = more]
           /\ rest' = [rest EXCEPT ![x] = less] /\ pc' = pc
  BY <1>2, <1>4 DEF TypeOK
<1>. QED
  BY <1>1, <1>3, <1>4

\* Nobody but x is changed when x receives.
LEMMA ReceiveFrames ==
  ASSUME TypeOK, NEW x \in Sides, Receive(x)
  PROVE  /\ lock' = lock /\ next' = next /\ pieces' = pieces
         /\ pc[x] \in {"idle", "length", "data", "parse"}
         /\ pc'[x] \in {"idle", "length", "data", "parse", "thrown"}
         /\ pc' = [pc EXCEPT ![x] = pc'[x]]
         /\ received' = [received EXCEPT ![x] = received'[x]]
         /\ buffer' = [buffer EXCEPT ![x] = buffer'[x]]
         /\ readLength' = [readLength EXCEPT ![x] = readLength'[x]]
         /\ rest' = [rest EXCEPT ![x] = rest'[x]]
         /\ inbox' = [inbox EXCEPT ![x] = inbox'[x]]
<1>1. CASE ReceiveHeader(x)
  <2>1. PICK len, k : /\ AttemptRead(x, len, k)
                      /\ \E w \in {"idle", "length", "thrown"} : Goto(x, w)
    <3>. DEFINE len == IF Len(buffer[x]) < Len(Header) THEN Len(Header) - Len(buffer[x])
                       ELSE readLength[x]
    <3>1. PICK k \in Readable(x, len) :
            /\ AttemptRead(x, len, k)
            /\ Goto(x, IF Len(ReadSoFar(x, k)) < Len(Header) THEN "idle"
                       ELSE IF IsPrefix(Header, ReadSoFar(x, k)) THEN "length" ELSE "thrown")
      BY <1>1 DEF ReceiveHeader
    <3>. HIDE DEF len
    <3>2. PICK L : L = len
      OBVIOUS
    <3>3. AttemptRead(x, L, k)
      BY <3>1, <3>2 DEF AttemptRead
    <3>4. \E w \in {"idle", "length", "thrown"} : Goto(x, w)
      BY <3>1
    <3>. QED
      BY <3>3, <3>4
  <2>2. UNCHANGED <<lock, sendVars, rest, inbox>> /\ pc[x] = "idle"
    BY <1>1 DEF ReceiveHeader
  <2>. QED
    BY <2>1, <2>2 DEF AttemptRead, Goto, TypeOK, sendVars
<1>2. CASE ReceiveLength(x)
  <2>1. UNCHANGED <<lock, sendVars, rest, inbox>> /\ pc[x] = "length"
    BY <1>2 DEF ReceiveLength
  <2>2. \/ \E k \in Readable(x, 1) : AttemptRead(x, 1, k)
        \/ UNCHANGED <<received, buffer, readLength>>
    BY <1>2 DEF ReceiveLength
  <2>3. \E w \in {"idle", "length", "data", "thrown"} : Goto(x, w)
    BY <1>2 DEF ReceiveLength
  <2>4. CASE UNCHANGED <<received, buffer, readLength>>
    BY <2>1, <2>3, <2>4 DEF Goto, TypeOK, sendVars
  <2>5. CASE \E k \in Readable(x, 1) : AttemptRead(x, 1, k)
    BY <2>1, <2>3, <2>5 DEF AttemptRead, Goto, TypeOK, sendVars
  <2>. QED
    BY <2>2, <2>4, <2>5
<1>3. CASE ReceiveRest(x)
  <2>1. UNCHANGED <<lock, sendVars, rest, inbox>> /\ pc[x] = "data"
    BY <1>3 DEF ReceiveRest
  <2>2. PICK k : /\ AttemptRead(x, Missing(buffer[x]), k)
                 /\ \E w \in {"idle", "data"} : Goto(x, w)
    BY <1>3 DEF ReceiveRest
  <2>. QED
    BY <2>1, <2>2 DEF AttemptRead, Goto, TypeOK, sendVars
<1>4. CASE ReceiveFrame(x)
  <2>. DEFINE b == buffer[x]
              end == DataAt(b) + DataSize(b)
              data == SubSeq(b, DataAt(b), end - 1)
  <2>1. UNCHANGED <<received, lock, sendVars, inbox>> /\ pc[x] = "data"
    BY <1>4 DEF ReceiveFrame
  <2>2. \/ /\ rest' = [rest EXCEPT ![x] = data]
           /\ buffer' = [buffer EXCEPT ![x] = <<>>]
           /\ readLength' = [readLength EXCEPT ![x] = Len(Header)]
           /\ Goto(x, "parse")
        \/ Goto(x, "thrown") /\ UNCHANGED <<rest, buffer, readLength>>
    BY <1>4 DEF ReceiveFrame
  <2>. HIDE DEF b, data
  <2>. QED
    BY <2>1, <2>2 DEF Goto, TypeOK, sendVars
<1>5. CASE ParsePart(x)
  <2>1. UNCHANGED <<received, lock, sendVars, buffer, readLength>> /\ pc[x] = "parse"
    BY <1>5 DEF ParsePart
  <2>2. /\ pc' = [pc EXCEPT ![x] = pc'[x]] /\ pc'[x] \in {"parse", "thrown"}
        /\ rest' = [rest EXCEPT ![x] = rest'[x]]
        /\ inbox' = [inbox EXCEPT ![x] = inbox'[x]]
    BY <1>5, ParsePartFrames
  <2>3. /\ received' = [received EXCEPT ![x] = received'[x]]
        /\ buffer' = [buffer EXCEPT ![x] = buffer'[x]]
        /\ readLength' = [readLength EXCEPT ![x] = readLength'[x]]
    BY <2>1 DEF TypeOK
  <2>. QED
    BY <2>1, <2>2, <2>3 DEF sendVars
<1>6. CASE ParseEnd(x)
  BY <1>6 DEF ParseEnd, Goto, TypeOK, sendVars
<1>. QED
  BY <1>1, <1>2, <1>3, <1>4, <1>5, <1>6 DEF Receive

LEMMA ReceiveTakes ==
  ASSUME TypeOK, NEW x \in Sides, NEW p \in Sides, NEW n \in Nat, NEW r \in Nat, NEW s \in Nat,
         Takes(x, p, n, r, s), Receive(x)
  PROVE  /\ \E m, t \in Nat : Takes(x, p, m, t, s)'
         /\ readLength'[x] \in Nat /\ rest'[x] \in Seq(Octets)
         /\ inbox'[x] \in [Modules -> Seq(Part)]
<1>0. /\ readLength[x] \in Nat /\ rest[x] \in Seq(Octets)
      /\ inbox[x] \in [Modules -> Seq(Part)]
  BY DEF TypeOK
<1>1. CASE ReceiveHeader(x)
  <2>1. rest' = rest /\ inbox' = inbox
    BY <1>1 DEF ReceiveHeader
  <2>2. (\E m, t \in Nat : Takes(x, p, m, t, s)') /\ readLength'[x] \in Nat
    BY <1>1, ReceiveHeaderTakes
  <2>. QED
    BY <1>0, <2>1, <2>2
<1>2. CASE ReceiveLength(x)
  <2>1. rest' = rest /\ inbox' = inbox
    BY <1>2 DEF ReceiveLength
  <2>2. (\E m, t \in Nat : Takes(x, p, m, t, s)') /\ readLength'[x] \in Nat
    BY <1>2, ReceiveLengthTakes
  <2>. QED
    BY <1>0, <2>1, <2>2
<1>3. CASE ReceiveRest(x)
  <2>1. rest' = rest /\ inbox' = inbox
    BY <1>3 DEF ReceiveRest
  <2>2. (\E m, t \in Nat : Takes(x, p, m, t, s)') /\ readLength'[x] \in Nat
    BY <1>3, ReceiveRestTakes
  <2>. QED
    BY <1>0, <2>1, <2>2
<1>4. CASE ReceiveFrame(x)
  <2>1. inbox' = inbox
    BY <1>4 DEF ReceiveFrame
  <2>2. /\ \E m, t \in Nat : Takes(x, p, m, t, s)'
        /\ readLength'[x] \in Nat /\ rest'[x] \in Seq(Octets)
    BY <1>4, ReceiveFrameTakes
  <2>. QED
    BY <1>0, <2>1, <2>2
<1>5. CASE ParsePart(x)
  <2>1. readLength' = readLength
    BY <1>5 DEF ParsePart
  <2>2. /\ Takes(x, p, n, r, s)'
        /\ rest'[x] \in Seq(Octets) /\ inbox'[x] \in [Modules -> Seq(Part)]
    BY <1>5, ParsePartTakes
  <2>. QED
    BY <1>0, <2>1, <2>2
<1>6. CASE ParseEnd(x)
  <2>1. readLength' = readLength /\ inbox' = inbox
    BY <1>6 DEF ParseEnd
  <2>2. Takes(x, p, n, r, s)' /\ rest'[x] = <<>>
    BY <1>6, ParseEndTakes
  <2>3. rest'[x] \in Seq(Octets)
    BY <2>2
  <2>. QED
    BY <1>0, <2>1, <2>2, <2>3
<1>. QED
  BY <1>1, <1>2, <1>3, <1>4, <1>5, <1>6 DEF Receive

LEMMA InitGoes == Init => PacketsInv
<1>. SUFFICES ASSUME Init PROVE PacketsInv
  OBVIOUS
<1>1. TypeOK
  <2>1. [e \in Sides |-> 0] \in [Sides -> Nat] /\ [e \in Sides |-> 1] \in [Sides -> Nat]
    OBVIOUS
  <2>2. <<>> \in Seq(Octets) /\ <<>> \in Seq(Seq(Octets)) /\ <<>> \in Seq(Part)
    OBVIOUS
  <2>. QED
    BY <2>1, <2>2 DEF Init, TypeOK
<1>2. ASSUME NEW e \in Sides PROVE Goes(e, Partner(e))
  <2>. DEFINE p == Partner(e)
              zero == 0
              one == 1
              S == Stream(p)
  <2>1. p \in Sides
    BY Partners
  <2>. HIDE DEF p
  <2>2. S \in Seq(Octets) /\ Len(S) \in Nat /\ Len(Packets[p]) \in Nat /\ Upto(p, 0) = 0
    BY <2>1, StreamFacts
  <2>3. /\ next[p] = 1 /\ pc[p] = "idle" /\ pc[e] = "idle" /\ pieces[p] = <<>> /\ buffer[e] = <<>>
        /\ received[e] = <<>> /\ rest[e] = <<>> /\ \A m \in Modules : inbox[e][m] = <<>>
    BY <2>1 DEF Init
  <2>4. Gives(p, 0)
    BY <2>2, <2>3 DEF Gives
  <2>5. Span(S, 0, 0) = <<>>
    BY <2>2 DEF Span
  <2>6. HasRead(e, p, 0, 0, 0)
    BY <2>2, <2>3, <2>5 DEF HasRead
  <2>7. Place(e, Packets[p][0 + 1], 0 - Upto(p, 0))
    <3>1. 0 - Upto(p, 0) = 0
      BY <2>2
    <3>. QED
      BY <2>3, <3>1 DEF Place
  <2>8. Hands(e, p, 0)
    <3>1. SubSeq(Packets[p], 1, 0) = <<>>
      BY <2>1, PacketsAreSendable
    <3>2. ASSUME NEW m \in Modules PROVE inbox[e][m] = Without(<<>>, Unheard(e, m))
      <4>1. Without(<<>>, Unheard(e, m)) = <<>>
        BY NothingLeft
      <4>. QED
        BY <2>3, <4>1
    <3>. QED
      BY <2>3, <3>1, <3>2 DEF Hands, Has
  <2>9. Takes(e, p, 0, 0, 0)
    BY <2>6, <2>7, <2>8 DEF Takes
  <2>10. Goes(e, p)
    BY <2>4, <2>9 DEF Goes
  <2>. QED
    BY <2>10 DEF p
<1>. QED
  BY <1>1, <1>2 DEF PacketsInv

LEMMA SendDataGoes ==
  ASSUME PacketsInv, NEW x \in Sides, SendData(x)
  PROVE  PacketsInv'
<1>. DEFINE y == Partner(x)
<1>1. y \in Sides /\ y # x /\ Partner(y) = x /\ \A f \in Sides : f = x \/ f = y
  BY Partners
<1>. HIDE DEF y
<1>2. TypeOK /\ Goes(x, y) /\ Goes(y, x)
  BY <1>1 DEF PacketsInv, y
<1>3. /\ received' = received /\ lock' = lock /\ next' = next /\ buffer' = buffer
      /\ readLength' = readLength /\ rest' = rest /\ inbox' = inbox
      /\ pc[x] = "idle" /\ pc' = [pc EXCEPT ![x] = "write"]
  BY DEF SendData, Goto, receiveVars
<1>4. pc'[x] = "write" /\ pc'[y] = pc[y]
  BY <1>1, <1>2, <1>3 DEF TypeOK
<1>5. PICK v : pieces' = [pieces EXCEPT ![x] = v]
  BY DEF SendData
<1>6. PICK n, r, s \in Nat : Gives(x, s) /\ Takes(y, x, n, r, s)
  BY <1>2 DEF Goes
<1>7. PICK m, t, u \in Nat : Gives(y, u) /\ Takes(x, y, m, t, u)
  BY <1>2 DEF Goes
<1>8. Gives(x, s)' /\ pieces'[x] \in Seq(Seq(Octets))
  BY <1>2, <1>6, SendDataGives
<1>9. Takes(y, x, n, r, s)'
  BY <1>1, <1>3, <1>4, <1>6, TakesKept
<1>10. Gives(y, u)'
  <2>1. pieces'[y] = pieces[y]
    BY <1>1, <1>2, <1>5 DEF TypeOK
  <2>. QED
    BY <1>1, <1>3, <1>4, <1>7, <2>1, GivesKept
<1>11. Takes(x, y, m, t, u)'
  BY <1>1, <1>3, <1>4, <1>7, TakesKept
<1>12. Goes(y, x)' /\ Goes(x, y)'
  BY <1>8, <1>9, <1>10, <1>11 DEF Goes
<1>13. TypeOK'
  <2>1. pieces' \in [Sides -> Seq(Seq(Octets))]
    BY <1>2, <1>5, <1>8 DEF TypeOK
  <2>. QED
    BY <1>2, <1>3, <2>1 DEF TypeOK
<1>. QED
  BY <1>1, <1>12, <1>13 DEF PacketsInv, y

LEMMA WriteLockGoes ==
  ASSUME PacketsInv, NEW x \in Sides, WriteLock(x)
  PROVE  PacketsInv'
<1>. DEFINE y == Partner(x)
<1>1. y \in Sides /\ y # x /\ Partner(y) = x /\ \A f \in Sides : f = x \/ f = y
  BY Partners
<1>. HIDE DEF y
<1>2. TypeOK /\ Goes(x, y) /\ Goes(y, x)
  BY <1>1 DEF PacketsInv, y
<1>3. /\ received' = received /\ next' = next /\ pieces' = pieces /\ buffer' = buffer
      /\ readLength' = readLength /\ rest' = rest /\ inbox' = inbox
      /\ lock' = [lock EXCEPT ![x] = x]
      /\ pc[x] = "write" /\ pc' = [pc EXCEPT ![x] = "copy"]
  BY DEF WriteLock, Goto, sendVars, receiveVars
<1>4. pc'[x] = "copy" /\ pc'[y] = pc[y]
  BY <1>1, <1>2, <1>3 DEF TypeOK
<1>6. PICK n, r, s \in Nat : Gives(x, s) /\ Takes(y, x, n, r, s)
  BY <1>2 DEF Goes
<1>7. PICK m, t, u \in Nat : Gives(y, u) /\ Takes(x, y, m, t, u)
  BY <1>2 DEF Goes
<1>8. Gives(x, s)'
  BY <1>3, <1>4, <1>6, GivesKept
<1>9. Takes(y, x, n, r, s)'
  BY <1>1, <1>3, <1>4, <1>6, TakesKept
<1>10. Gives(y, u)'
  BY <1>1, <1>3, <1>4, <1>7, GivesKept
<1>11. Takes(x, y, m, t, u)'
  BY <1>1, <1>3, <1>4, <1>7, TakesKept
<1>12. Goes(y, x)' /\ Goes(x, y)'
  BY <1>8, <1>9, <1>10, <1>11 DEF Goes
<1>13. TypeOK'
  BY <1>2, <1>3 DEF TypeOK
<1>. QED
  BY <1>1, <1>12, <1>13 DEF PacketsInv, y

LEMMA WriteCopyGoes ==
  ASSUME PacketsInv, NEW x \in Sides, WriteCopy(x)
  PROVE  PacketsInv'
<1>. DEFINE y == Partner(x)
<1>1. y \in Sides /\ y # x /\ Partner(y) = x /\ \A f \in Sides : f = x \/ f = y
  BY Partners
<1>2. TypeOK /\ Goes(x, y) /\ Goes(y, x)
  BY <1>1 DEF PacketsInv
<1>3. /\ buffer' = buffer /\ readLength' = readLength /\ rest' = rest /\ inbox' = inbox
      /\ lock' = [lock EXCEPT ![x] = None] /\ pc[x] = "copy"
      /\ \E v : received' = [received EXCEPT ![y] = v]
      /\ \E v : pieces' = [pieces EXCEPT ![x] = v]
      /\ \E v : next' = [next EXCEPT ![x] = v]
      /\ \E w \in {"idle", "write"} : pc' = [pc EXCEPT ![x] = w]
  BY DEF WriteCopy, Goto, receiveVars
<1>. HIDE DEF y
<1>4. /\ pc'[x] \in {"idle", "write"} /\ pc'[y] = pc[y] /\ received'[x] = received[x]
      /\ pieces'[y] = pieces[y] /\ next'[y] = next[y]
  BY <1>1, <1>2, <1>3 DEF TypeOK
<1>6. PICK n, r, s \in Nat : Gives(x, s) /\ Takes(y, x, n, r, s)
  BY <1>2 DEF Goes
<1>7. PICK m, t, u \in Nat : Gives(y, u) /\ Takes(x, y, m, t, u)
  BY <1>2 DEF Goes
<1>8. /\ \E v \in Nat : Gives(x, v)' /\ HasRead(y, x, n, r, v)'
      /\ pieces'[x] \in Seq(Seq(Octets)) /\ next'[x] \in Nat
      /\ received'[y] \in Seq(Octets)
  <2>1. HasRead(y, x, n, r, s) /\ y = Partner(x)
    BY <1>6 DEF Takes, y
  <2>. QED
    BY <1>1, <1>2, <1>6, <2>1, WriteCopyGives
<1>5. PICK v \in Nat : Gives(x, v)' /\ HasRead(y, x, n, r, v)'
  BY <1>8
<1>9. Takes(y, x, n, r, v)'
  <2>1. Place(y, Packets[x][n + 1], r - Upto(x, n))'
    BY <1>3, <1>4, <1>6 DEF Takes, Place
  <2>2. Hands(y, x, n)'
    BY <1>3, <1>4, <1>6 DEF Takes, Hands, Has
  <2>. QED
    BY <1>5, <2>1, <2>2 DEF Takes
<1>10. Gives(y, u)'
  BY <1>1, <1>4, <1>7, GivesKept
<1>11. Takes(x, y, m, t, u)'
  BY <1>1, <1>3, <1>4, <1>7, TakesKept
<1>12. Goes(y, x)' /\ Goes(x, y)'
  BY <1>5, <1>9, <1>10, <1>11 DEF Goes
<1>13. TypeOK'
  <2>1. pieces' \in [Sides -> Seq(Seq(Octets))] /\ next' \in [Sides -> Nat]
    BY <1>2, <1>3, <1>8 DEF TypeOK
  <2>2. received' \in [Sides -> Seq(Octets)]
    BY <1>1, <1>2, <1>3, <1>8 DEF TypeOK
  <2>3. lock' \in [Sides -> Sides \cup {None}]
    BY <1>2, <1>3 DEF TypeOK
  <2>4. pc' \in [Sides -> {"idle", "write", "copy", "length", "data", "parse", "thrown"}]
    BY <1>2, <1>3 DEF TypeOK
  <2>. QED
    BY <1>2, <1>3, <2>1, <2>2, <2>3, <2>4 DEF TypeOK
<1>. QED
  BY <1>1, <1>12, <1>13 DEF PacketsInv, y

LEMMA ReceiveGoes ==
  ASSUME PacketsInv, NEW x \in Sides, Receive(x)
  PROVE  PacketsInv'
<1>. DEFINE y == Partner(x)
<1>1. y \in Sides /\ y # x /\ Partner(y) = x /\ \A f \in Sides : f = x \/ f = y
  BY Partners
<1>. HIDE DEF y
<1>2. TypeOK /\ Goes(x, y) /\ Goes(y, x)
  BY <1>1 DEF PacketsInv, y
<1>3. /\ lock' = lock /\ next' = next /\ pieces' = pieces
      /\ pc[x] \in {"idle", "length", "data", "parse"}
      /\ pc'[x] \in {"idle", "length", "data", "parse", "thrown"}
      /\ pc' = [pc EXCEPT ![x] = pc'[x]]
      /\ received' = [received EXCEPT ![x] = received'[x]]
      /\ buffer' = [buffer EXCEPT ![x] = buffer'[x]]
      /\ readLength' = [readLength EXCEPT ![x] = readLength'[x]]
      /\ rest' = [rest EXCEPT ![x] = rest'[x]]
      /\ inbox' = [inbox EXCEPT ![x] = inbox'[x]]
  BY <1>2, ReceiveFrames
<1>4. /\ pc'[y] = pc[y] /\ received'[y] = received[y] /\ buffer'[y] = buffer[y]
      /\ readLength'[y] = readLength[y] /\ rest'[y] = rest[y] /\ inbox'[y] = inbox[y]
  BY <1>1, <1>2, <1>3 DEF TypeOK
<1>6. PICK n, r, s \in Nat : Gives(x, s) /\ Takes(y, x, n, r, s)
  BY <1>2 DEF Goes
<1>7. PICK m, t, u \in Nat : Gives(y, u) /\ Takes(x, y, m, t, u)
  BY <1>2 DEF Goes
<1>8. Gives(x, s)'
  BY <1>3, <1>6, GivesKept
<1>9. Takes(y, x, n, r, s)'
  BY <1>1, <1>4, <1>6, TakesKept
<1>10. Gives(y, u)'
  BY <1>1, <1>3, <1>4, <1>7, GivesKept
<1>11. /\ \E k, v \in Nat : Takes(x, y, k, v, u)'
       /\ readLength'[x] \in Nat /\ rest'[x] \in Seq(Octets)
       /\ inbox'[x] \in [Modules -> Seq(Part)]
  BY <1>1, <1>2, <1>7, ReceiveTakes
<1>12. PICK k, v \in Nat : Takes(x, y, k, v, u)'
  BY <1>11
<1>13. Goes(y, x)' /\ Goes(x, y)'
  BY <1>8, <1>9, <1>10, <1>12 DEF Goes
<1>14. received'[x] \in Seq(Octets) /\ buffer'[x] \in Seq(Octets)
  <2>. DEFINE S == Stream(y)
              a == Upto(y, k)
  <2>1. /\ k \in 0..Len(Packets[y]) /\ a <= v /\ v <= u /\ u <= Len(S)
        /\ buffer'[x] = Span(S, a, v) /\ received'[x] = Span(S, v, u)
    BY <1>12 DEF Takes, HasRead
  <2>2. S \in Seq(Octets) /\ Len(S) \in Nat /\ a \in Nat
    BY <1>1, <2>1, StreamFacts
  <2>. HIDE DEF S, a
  <2>3. v <= Len(S)
    BY <2>1, <2>2
  <2>4. Span(S, v, u) \in Seq(Octets) /\ Span(S, a, v) \in Seq(Octets)
    BY <2>1, <2>2, <2>3, SpanProperties
  <2>. QED
    BY <2>1, <2>4
<1>15. TypeOK'
  <2>1. received' \in [Sides -> Seq(Octets)] /\ buffer' \in [Sides -> Seq(Octets)]
    BY <1>2, <1>3, <1>14 DEF TypeOK
  <2>2. readLength' \in [Sides -> Nat] /\ rest' \in [Sides -> Seq(Octets)]
    BY <1>2, <1>3, <1>11 DEF TypeOK
  <2>3. inbox' \in [Sides -> [Modules -> Seq(Part)]]
    BY <1>2, <1>3, <1>11 DEF TypeOK
  <2>4. pc' \in [Sides -> {"idle", "write", "copy", "length", "data", "parse", "thrown"}]
    <3>1. pc'[x] \in {"idle", "write", "copy", "length", "data", "parse", "thrown"}
      BY <1>3
    <3>2. pc \in [Sides -> {"idle", "write", "copy", "length", "data", "parse", "thrown"}]
      BY <1>2 DEF TypeOK
    <3>3. pc' = [pc EXCEPT ![x] = pc'[x]]
      BY <1>3
    <3>. QED
      BY ONLY <3>1, <3>2, <3>3
  <2>. QED
    BY <1>2, <1>3, <2>1, <2>2, <2>3, <2>4 DEF TypeOK
<1>. QED
  BY <1>1, <1>13, <1>15 DEF PacketsInv, y

\* However the two threads take turns and however many bytes a Read returns, what
\* an end has written is a beginning of its stream of frames; the other end has
\* read a beginning of that, is where ReceiveData left off in it, and its modules
\* have the parts of the frames read so far.
THEOREM PacketsGo == Spec => []PacketsInv
<1>1. PacketsInv /\ [Next]_vars => PacketsInv'
  <2>. SUFFICES ASSUME PacketsInv, [Next]_vars PROVE PacketsInv'
    OBVIOUS
  <2>1. CASE Next
    <3>1. PICK x \in Sides : Thread(x)
      BY <2>1 DEF Next
    <3>. QED
      BY <3>1, SendDataGoes, WriteLockGoes, WriteCopyGoes, ReceiveGoes DEF Thread, Write
  <2>2. CASE UNCHANGED vars
    <3>. USE <2>2 DEF vars, sendVars, receiveVars
    <3>1. TypeOK'
      BY DEF PacketsInv, TypeOK
    <3>2. ASSUME NEW e \in Sides PROVE Goes(e, Partner(e))'
      <4>. DEFINE p == Partner(e)
      <4>1. p \in Sides
        BY Partners
      <4>2. PICK n, r, s \in Nat : Gives(p, s) /\ Takes(e, p, n, r, s)
        BY DEF PacketsInv, Goes
      <4>. HIDE DEF p
      <4>3. Gives(p, s)' /\ Takes(e, p, n, r, s)'
        BY <4>1, <4>2, GivesKept, TakesKept
      <4>4. Goes(e, p)'
        BY <4>3 DEF Goes
      <4>. QED
        BY <4>4 DEF p
    <3>. QED
      BY <3>1, <3>2 DEF PacketsInv
  <2>. QED
    BY <2>1, <2>2
<1>. QED
  BY InitGoes, <1>1, PTL DEF Spec

LEMMA InOrder == PacketsInv => PacketsInOrder
<1>. SUFFICES ASSUME PacketsInv, NEW e \in Sides, NEW m \in Modules
              PROVE  IsPrefix(inbox[e][m], Without(Packets[Partner(e)], Unheard(e, m)))
  BY DEF PacketsInOrder
<1>. DEFINE p == Partner(e)
<1>1. p \in Sides
  BY Partners
<1>2. PICK n, r, s \in Nat : Takes(e, p, n, r, s)
  BY DEF PacketsInv, Goes
<1>. HIDE DEF p
<1>3. n \in 0..Len(Packets[p]) /\ Len(Packets[p]) \in Nat /\ Packets[p] \in Seq(Part)
  BY <1>1, <1>2, PacketsAreSendable DEF Takes, HasRead
<1>4. PICK k \in 0..Len(Packets[p]) : Has(e, p, k)
  <2>1. Has(e, p, n) \/ (n >= 1 /\ Has(e, p, n - 1))
    BY <1>2 DEF Takes, Hands
  <2>2. n >= 1 => n - 1 \in 0..Len(Packets[p])
    BY <1>3
  <2>. QED
    BY <1>3, <2>1, <2>2
<1>5. inbox[e][m] = Without(SubSeq(Packets[p], 1, k), Unheard(e, m))
  BY <1>4 DEF Has
<1>6. IsPrefix(Without(SubSeq(Packets[p], 1, k), Unheard(e, m)), Without(Packets[p], Unheard(e, m)))
  BY <1>3, WithoutPrefix
<1>. QED
  BY <1>5, <1>6 DEF p

\* What is written of the stream.
LEMMA WrittenIs ==
  ASSUME NEW p \in Sides, NEW s, Gives(p, s)
  PROVE  Written(p) = Span(Stream(p), 0, s) /\ s \in Nat /\ s <= Len(Stream(p))
<1>. DEFINE S == Stream(p)
            ps == pieces[p]
            j == IF ps = <<>> THEN next[p] - 1 ELSE next[p]
            u == Upto(p, j)
            z == 0
<1>1. /\ next[p] \in 1..Len(Packets[p]) + 1 /\ s \in Nat /\ s <= Len(S)
      /\ \/ ps = <<>> /\ s = Upto(p, next[p] - 1)
         \/ next[p] <= Len(Packets[p]) /\ Remaining(p, s, ps, Upto(p, next[p]))
  BY DEF Gives
<1>2. Len(Packets[p]) \in Nat /\ S \in Seq(Octets) /\ Len(S) \in Nat
  BY StreamFacts
<1>3. /\ j \in 0..Len(Packets[p])
      /\ s <= u /\ u \in Nat /\ u <= Len(S) /\ u - Len(FlattenSeq(ps)) = s
  <2>1. CASE ps = <<>> /\ s = Upto(p, next[p] - 1)
    <3>1. j = next[p] - 1 /\ j \in 0..Len(Packets[p])
      BY <1>1, <1>2, <2>1
    <3>. HIDE DEF j
    <3>2. u = s /\ u \in Nat /\ u <= Len(S)
      BY <1>1, <2>1, <3>1
    <3>3. Len(FlattenSeq(ps)) = 0
      <4>1. ps \in Seq(Seq(Octets)) /\ Len(ps) = 0
        BY <2>1
      <4>2. FlattenSeq(ps) = <<>>
        BY <4>1, FlattenFew
      <4>. QED
        BY <4>2
    <3>. HIDE DEF u, ps
    <3>. QED
      BY <3>1, <3>2, <3>3
  <2>2. CASE next[p] <= Len(Packets[p]) /\ Remaining(p, s, ps, Upto(p, next[p]))
    <3>. DEFINE v == Upto(p, next[p])
    <3>1. next[p] \in 0..Len(Packets[p])
      BY <1>1, <1>2, <2>2
    <3>2. v \in Nat
      BY <3>1, StreamFacts
    <3>3. ps # <<>> /\ s <= v /\ v <= Len(S) /\ FlattenSeq(ps) = Span(S, s, v)
      <4>. HIDE DEF v, ps, S
      <4>. QED
        BY <1>1, <2>2, <3>2, RemainingSteps DEF v, S
    <3>4. j = next[p]
      BY <3>3
    <3>. HIDE DEF v, ps, S, j
    <3>5. Len(Span(S, s, v)) = v - s
      <4>1. S \in Seq(Octets) /\ s \in Nat /\ v \in Nat /\ s <= v /\ v <= Len(S)
        BY <1>1, <1>2, <3>2, <3>3
      <4>. QED
        BY ONLY <4>1, SpanProperties
    <3>6. u = v
      BY <3>4 DEF v
    <3>. HIDE DEF u
    <3>. QED
      BY <1>1, <3>1, <3>2, <3>3, <3>4, <3>5, <3>6
  <2>. QED
    BY <1>1, <2>1, <2>2
<1>4. Frames[p][j] = Span(S, z, u)
  <2>. HIDE DEF j
  <2>. QED
    BY <1>3, StreamFacts
<1>5. Written(p) = SubSeq(Frames[p][j], 1, Len(Frames[p][j]) - Len(FlattenSeq(ps)))
  BY DEF Written
<1>6. Len(Frames[p][j]) - Len(FlattenSeq(ps)) = s
  BY <1>3 DEF Upto
<1>. HIDE DEF j, u, ps, S
<1>7. SubSeq(Span(S, z, u), 1, s - z) = Span(S, z, s) /\ s - z = s
  <2>1. z \in Nat /\ z <= u /\ z <= s /\ s - z = s
    BY <1>1, <1>3
  <2>. HIDE DEF z
  <2>. QED
    BY <1>1, <1>2, <1>3, <2>1, SpanCut
<1>. QED
  BY <1>1, <1>4, <1>5, <1>6, <1>7 DEF S, z

LEMMA NoneLost == PacketsInv => NoByteLost
<1>. SUFFICES ASSUME PacketsInv, NEW e \in Sides
              PROVE  \E n \in 0..Len(Packets[Partner(e)]) :
                /\ Written(Partner(e)) = Frames[Partner(e)][n] \o buffer[e] \o received[e]
                /\ buffer[e] # <<>> =>
                     /\ n < Len(Packets[Partner(e)])
                     /\ IsPrefix(Frames[Partner(e)][n] \o buffer[e], Frames[Partner(e)][n + 1])
  BY DEF NoByteLost
<1>. DEFINE p == Partner(e)
            S == Stream(p)
<1>1. p \in Sides
  BY Partners
<1>2. PICK n, r, s \in Nat : Gives(p, s) /\ Takes(e, p, n, r, s)
  BY DEF PacketsInv, Goes
<1>. HIDE DEF p
<1>3. /\ n \in 0..Len(Packets[p]) /\ Upto(p, n) <= r /\ r <= s /\ s <= Len(S)
      /\ buffer[e] = Span(S, Upto(p, n), r) /\ received[e] = Span(S, r, s)
  BY <1>2 DEF Takes, HasRead
<1>. DEFINE a == Upto(p, n)
            z == 0
<1>4. /\ S \in Seq(Octets) /\ Len(S) \in Nat /\ a \in Nat /\ Frames[p][n] = Span(S, z, a)
      /\ Len(Packets[p]) \in Nat
  BY <1>1, <1>3, StreamFacts
<1>5. Written(p) = Span(S, z, s)
  BY <1>1, <1>2, WrittenIs
<1>6. z \in Nat /\ z <= a /\ z <= r /\ r <= Len(S)
  BY <1>3, <1>4
<1>. HIDE DEF S, a
<1>7. Span(S, z, a) \o Span(S, a, r) = Span(S, z, r)
  <2>1. S \in Seq(Octets) /\ z \in Nat /\ a \in Nat /\ r \in Nat /\ z <= a /\ a <= r /\ r <= Len(S)
    BY <1>3, <1>4, <1>6 DEF a
  <2>. HIDE DEF z
  <2>. QED
    BY ONLY <2>1, SpansJoin
<1>8. Span(S, z, r) \o Span(S, r, s) = Span(S, z, s)
  <2>1. S \in Seq(Octets) /\ z \in Nat /\ r \in Nat /\ s \in Nat /\ z <= r /\ r <= s /\ s <= Len(S)
    BY <1>3, <1>4, <1>6
  <2>. HIDE DEF z
  <2>. QED
    BY ONLY <2>1, SpansJoin
<1>9. Frames[p][n] \o buffer[e] = Span(S, z, r)
  BY <1>3, <1>4, <1>7 DEF a
<1>10. Written(p) = Frames[p][n] \o buffer[e] \o received[e]
  BY <1>3, <1>5, <1>8, <1>9
<1>11. ASSUME buffer[e] # <<>>
       PROVE  n < Len(Packets[p]) /\ IsPrefix(Frames[p][n] \o buffer[e], Frames[p][n + 1])
  <2>1. HasRead(e, p, n, r, s)
    BY <1>2 DEF Takes
  <2>2. Len(buffer[e]) > 0
    <3>1. buffer[e] \in Seq(Octets)
      BY DEF PacketsInv, TypeOK
    <3>. QED
      BY <1>11, <3>1
  <2>3. n < Len(Packets[p])
    BY <1>1, <2>1, <2>2, Buffered
  <2>4. /\ n + 1 \in 0..Len(Packets[p]) /\ r <= Upto(p, n + 1)
    <3>1. n + 1 \in 0..Len(Packets[p])
      BY <1>4, <2>3
    <3>2. r <= Upto(p, n + 1)
      BY <1>1, <2>1, <2>3, Buffered
    <3>. QED
      BY <3>1, <3>2
  <2>. DEFINE c == Upto(p, n + 1)
  <2>5. c \in Nat /\ c <= Len(S) /\ Frames[p][n + 1] = Span(S, z, c)
    BY <1>1, <2>4, StreamFacts DEF S
  <2>. HIDE DEF c
  <2>6. IsPrefix(Span(S, z, r), Span(S, z, c))
    BY <1>4, <2>4, <2>5, SpansBegin DEF c
  <2>. QED
    BY <1>9, <2>3, <2>5, <2>6
<1>. QED
  BY <1>3, <1>10, <1>11 DEF p

LEMMA CallsResume == PacketsInv => Resumes
<1>. SUFFICES ASSUME PacketsInv, NEW e \in Sides, pc[e] = "idle", Len(buffer[e]) >= Len(Header),
                     HasLength(buffer[e]), ColonAt(buffer[e]) < Len(buffer[e])
              PROVE  readLength[e] = Missing(buffer[e])
  BY DEF Resumes
<1>. DEFINE p == Partner(e)
            b == buffer[e]
            l == Len(buffer[e])
<1>1. p \in Sides
  BY Partners
<1>2. PICK n, r, s \in Nat : Gives(p, s) /\ Takes(e, p, n, r, s)
  BY DEF PacketsInv, Goes
<1>. HIDE DEF p
<1>. DEFINE q == Packets[p][n + 1]
<1>3. HasRead(e, p, n, r, s) /\ Place(e, q, r - Upto(p, n))
  BY <1>2 DEF Takes
<1>4. /\ b \in Seq(Octets) /\ l = r - Upto(p, n) /\ l \in Nat
      /\ l > 0 => n < Len(Packets[p])
  BY <1>1, <1>3, Buffered
<1>5. l >= 4
  BY HeaderIs
<1>6. n < Len(Packets[p])
  BY <1>4, <1>5
<1>7. q \in Sendable /\ l <= Len(Frame(q)) /\ \A i \in 1..l : b[i] = Frame(q)[i]
  BY <1>1, <1>3, <1>6, Buffered
<1>8. Place(e, q, l)
  BY <1>3, <1>4
<1>. HIDE DEF q
<1>9. Len(Frame(q)) \in Nat /\ HeadLen(q) \in Nat
  BY <1>7, FrameLength
<1>10. l \in 4..Len(Frame(q))
  BY <1>4, <1>5, <1>7, <1>9
<1>11. /\ l < HeadLen(q) => ColonAt(b) \in {0, l}
       /\ l >= HeadLen(q) => Missing(b) = Len(Frame(q)) - l
  BY <1>4, <1>7, <1>10, Scan
<1>12. ColonAt(b) # 0 /\ ColonAt(b) # l
  <2>1. ColonAt(b) # 0
    BY DEF HasLength
  <2>2. ColonAt(b) < l
    OBVIOUS
  <2>. HIDE DEF b, l
  <2>3. ColonAt(b) = l => FALSE
    BY <1>4, <2>2
  <2>. QED
    BY <2>1, <2>3
<1>13. l >= HeadLen(q)
  BY <1>4, <1>9, <1>11, <1>12
<1>14. readLength[e] = Len(Frame(q)) - l
  <2>. HIDE DEF l
  <2>1. ~(l < HeadLen(q))
    BY <1>4, <1>9, <1>13
  <2>. QED
    BY <1>5, <1>8, <2>1 DEF Place
<1>. QED
  BY <1>11, <1>13, <1>14

LEMMA NoneThrows == PacketsInv => NeverThrows
<1>. SUFFICES ASSUME PacketsInv, NEW e \in Sides PROVE pc[e] # "thrown"
  BY DEF NeverThrows
<1>1. PICK n, r, s \in Nat : Takes(e, Partner(e), n, r, s)
  BY DEF PacketsInv, Goes
<1>. QED
  BY <1>1 DEF Takes, Place

\* The variables stay in their types: every byte in a buffer is a byte and
\* every part a module gets is a packet.
THEOREM PacketsAreTyped == Spec => []TypeOK
BY PacketsGo, PTL DEF PacketsInv

\* Every module gets, of the packets it is registered for, the first ones the
\* other end has sent, each once, whole and in order.
THEOREM PacketsArriveInOrder == Spec => []PacketsInOrder
BY PacketsGo, InOrder, PTL

\* No byte of the stream is lost or taken for malformed however it is cut by the
\* reads, and a call that stopped for want of data goes on where it stopped.
THEOREM StreamStaysIntact == Spec => []StreamIntact
<1>1. PacketsInv => StreamIntact
  BY NoneLost, CallsResume, NoneThrows DEF StreamIntact
<1>. QED
  BY <1>1, PacketsGo, PTL
--------------------------------------------------------------------------------
(* The channel. *)
\* More frames are more bytes.
LEMMA UptoGrows ==
  ASSUME NEW e \in Sides, NEW m \in 0..Len(Packets[e]), NEW n \in 0..Len(Packets[e]), m < n
  PROVE  Upto(e, m) < Upto(e, n)
<1>. DEFINE N == Len(Packets[e])
            T == {k \in Nat : m + k + 1 <= N => Upto(e, m) < Upto(e, m + k + 1)}
<1>1. N \in Nat /\ m \in Nat /\ n \in Nat /\ m < n /\ n <= N
  BY PacketsAreSendable
<1>2. ASSUME NEW k \in 0..N - 1
      PROVE  Upto(e, k) < Upto(e, k + 1) /\ Upto(e, k) \in Nat /\ Upto(e, k + 1) \in Nat
  <2>. DEFINE f == Frame(Packets[e][k + 1])
  <2>1. /\ Packets[e][k + 1] \in Sendable /\ Upto(e, k) \in Nat /\ Upto(e, k + 1) \in Nat
        /\ Upto(e, k + 1) = Upto(e, k) + Len(f)
    BY <1>2, NextFrame
  <2>2. Len(f) \in Nat /\ Len(f) > 0
    BY <2>1, FrameLength
  <2>. HIDE DEF f
  <2>. QED
    BY <2>1, <2>2
<1>. HIDE DEF N
<1>3. 0 \in T
  <2>1. m + 0 + 1 <= N => m \in 0..N - 1 /\ m + 0 + 1 = m + 1
    BY <1>1
  <2>. QED
    BY <1>2, <2>1
<1>4. ASSUME NEW k \in Nat, k \in T PROVE k + 1 \in T
  <2>. SUFFICES ASSUME m + (k + 1) + 1 <= N PROVE Upto(e, m) < Upto(e, m + (k + 1) + 1)
    OBVIOUS
  <2>1. /\ m + k + 1 <= N /\ m + k + 1 \in 0..N - 1 /\ m \in 0..N - 1
        /\ m + (k + 1) + 1 = (m + k + 1) + 1
    BY <1>1
  <2>2. Upto(e, m) < Upto(e, m + k + 1) /\ Upto(e, m) \in Nat
    BY <1>2, <1>4, <2>1
  <2>3. /\ Upto(e, m + k + 1) < Upto(e, (m + k + 1) + 1)
        /\ Upto(e, m + k + 1) \in Nat /\ Upto(e, (m + k + 1) + 1) \in Nat
    BY <1>2, <2>1
  <2>. QED
    BY <2>1, <2>2, <2>3
<1>. HIDE DEF T
<1>5. n - m - 1 \in Nat /\ m + (n - m - 1) + 1 = n
  BY <1>1
<1>6. n - m - 1 \in T
  BY <1>3, <1>4, <1>5, AllNumbers
<1>. QED
  BY <1>1, <1>5, <1>6 DEF T

\* The frames e has taken, when p has written s bytes and e has read r of them
LEMMA FramesTakenIs ==
  \A e \in Sides, n, r, s \in Nat :
    Gives(Partner(e), s) /\ HasRead(e, Partner(e), n, r, s) => FramesTaken(e) = n
<1>. SUFFICES ASSUME NEW e \in Sides, NEW n \in Nat, NEW r \in Nat, NEW s \in Nat,
                     Gives(Partner(e), s), HasRead(e, Partner(e), n, r, s)
              PROVE  FramesTaken(e) = n
  OBVIOUS
<1>. DEFINE p == Partner(e)
            S == Stream(p)
            N == Len(Packets[p])
            l == Len(Written(p)) - Len(buffer[e] \o received[e])
            zero == 0
<1>1. p \in Sides
  BY Partners
<1>2. /\ n \in 0..N /\ Upto(p, n) <= r /\ r <= s /\ s <= Len(S)
      /\ buffer[e] = Span(S, Upto(p, n), r) /\ received[e] = Span(S, r, s)
  BY DEF HasRead
<1>3. S \in Seq(Octets) /\ Len(S) \in Nat /\ N \in Nat /\ Upto(p, n) \in Nat
  BY <1>1, <1>2, StreamFacts
<1>. HIDE DEF p
<1>4. Len(buffer[e] \o received[e]) = s - Upto(p, n)
  <2>. DEFINE a == Upto(p, n)
  <2>1. /\ S \in Seq(Octets) /\ a \in Nat /\ r \in Nat /\ s \in Nat
        /\ a <= r /\ r <= s /\ s <= Len(S) /\ a <= s
    BY <1>2, <1>3
  <2>. HIDE DEF a, S
  <2>2. Span(S, a, r) \o Span(S, r, s) = Span(S, a, s)
    BY ONLY <2>1, SpansJoin
  <2>3. Len(Span(S, a, s)) = s - a
    BY ONLY <2>1, SpanProperties
  <2>. QED
    BY <1>2, <2>2, <2>3 DEF a
<1>5. Len(Written(p)) = s
  <2>1. Written(p) = Span(S, zero, s)
    BY <1>1, WrittenIs DEF p
  <2>2. /\ S \in Seq(Octets) /\ zero \in Nat /\ s \in Nat /\ zero <= s /\ s <= Len(S)
        /\ s - zero = s
    BY <1>2, <1>3
  <2>. HIDE DEF S, zero
  <2>3. Len(Span(S, zero, s)) = s - zero
    BY ONLY <2>2, SpanProperties
  <2>. QED
    BY <2>1, <2>2, <2>3
<1>6. l = Upto(p, n)
  BY <1>3, <1>4, <1>5
<1>7. ASSUME NEW k \in 0..N, Upto(p, k) = l PROVE k = n
  <2>1. k \in Nat /\ Upto(p, k) \in Nat
    BY <1>1, <1>3, StreamFacts
  <2>2. ~(k < n) /\ ~(n < k)
    <3>1. k < n => Upto(p, k) < Upto(p, n)
      BY <1>1, <1>2, UptoGrows
    <3>2. n < k => Upto(p, n) < Upto(p, k)
      BY <1>1, <1>2, UptoGrows
    <3>. HIDE DEF l
    <3>. QED
      BY <1>3, <1>6, <1>7, <3>1, <3>2
  <2>. HIDE DEF l
  <2>. QED
    BY <2>1, <2>2
<1>8. FramesTaken(e) = CHOOSE k \in 0..N : Upto(p, k) = l
  BY DEF FramesTaken, Upto, p
<1>. HIDE DEF l, N
<1>. QED
  BY <1>2, <1>6, <1>7, <1>8

\* ... in the next state, too.
LEMMA FramesTakenNext ==
  \A e \in Sides, n, r, s \in Nat :
    Gives(Partner(e), s)' /\ HasRead(e, Partner(e), n, r, s)' => FramesTaken(e)' = n
<1>1. (\A e \in Sides, n, r, s \in Nat :
         Gives(Partner(e), s) /\ HasRead(e, Partner(e), n, r, s) => FramesTaken(e) = n)'
  BY FramesTakenIs, PTL
<1>. QED
  BY <1>1

\* What is on its way to e when it has taken n frames
LEMMA OnTheWayIs ==
  ASSUME NEW e \in Sides, NEW n \in Nat, NEW r \in Nat, NEW s \in Nat,
         Gives(Partner(e), s), HasRead(e, Partner(e), n, r, s)
  PROVE  OnTheWay(e) = SubSeq(Packets[Partner(e)], (IF rest[e] = <<>> THEN n ELSE n - 1) + 1,
                              next[Partner(e)] - 1)
<1>1. FramesTaken(e) = n
  BY FramesTakenIs
<1>. QED
  BY <1>1 DEF OnTheWay, HandedOn

\* ... in the next state, too.
LEMMA OnTheWayNext ==
  ASSUME NEW e \in Sides, NEW n \in Nat, NEW r \in Nat, NEW s \in Nat,
         Gives(Partner(e), s)', HasRead(e, Partner(e), n, r, s)'
  PROVE  OnTheWay(e)' = SubSeq(Packets[Partner(e)], (IF rest'[e] = <<>> THEN n ELSE n - 1) + 1,
                               next'[Partner(e)] - 1)
<1>1. FramesTaken(e)' = n
  BY FramesTakenNext
<1>. QED
  BY <1>1 DEF OnTheWay, HandedOn

\* It stays the same as long as neither end is through with a packet.
LEMMA SameOnTheWay ==
  ASSUME NEW e \in Sides, NEW n \in Nat, NEW r \in Nat, NEW s \in Nat,
         NEW k \in Nat, NEW t \in Nat, NEW v \in Nat,
         Gives(Partner(e), s), Takes(e, Partner(e), n, r, s),
         Gives(Partner(e), v)', Takes(e, Partner(e), k, t, v)',
         next'[Partner(e)] = next[Partner(e)],
         \/ k = n /\ (rest'[e] = <<>> <=> rest[e] = <<>>)
         \/ k = n + 1 /\ rest[e] = <<>> /\ rest'[e] # <<>>
  PROVE  OnTheWay(e)' = OnTheWay(e)
<1>. DEFINE p == Partner(e)
            a == IF rest[e] = <<>> THEN n ELSE n - 1
            b == IF rest'[e] = <<>> THEN k ELSE k - 1
<1>1. OnTheWay(e) = SubSeq(Packets[p], a + 1, next[p] - 1)
  BY OnTheWayIs DEF Takes
<1>2. OnTheWay(e)' = SubSeq(Packets[p], b + 1, next'[p] - 1)
  BY OnTheWayNext DEF Takes
<1>3. b = a /\ next'[p] = next[p]
  OBVIOUS
<1>. HIDE DEF a, b, p
<1>. QED
  BY ONLY <1>1, <1>2, <1>3

\* What e has taken was written before.
LEMMA TakenIsWritten ==
  ASSUME NEW p \in Sides, NEW e \in Sides, NEW n \in Nat, NEW r \in Nat, NEW s \in Nat,
         Gives(p, s), HasRead(e, p, n, r, s)
  PROVE  n <= next[p] - 1 /\ next[p] \in 1..Len(Packets[p]) + 1 /\ Len(Packets[p]) \in Nat
<1>. DEFINE N == Len(Packets[p])
            k == next[p]
<1>1. N \in Nat /\ k \in 1..N + 1 /\ n \in 0..N
  BY PacketsAreSendable DEF Gives, HasRead
<1>2. Upto(p, n) <= r /\ r <= s
  BY DEF HasRead
<1>3. Upto(p, n) \in Nat
  BY <1>1, StreamFacts
<1>4. ASSUME s = Upto(p, k - 1) PROVE n <= k - 1
  <2>1. k - 1 \in 0..N
    BY <1>1
  <2>2. ~(k - 1 < n)
    <3>1. SUFFICES ASSUME k - 1 < n PROVE FALSE
      OBVIOUS
    <3>2. Upto(p, k - 1) < Upto(p, n)
      <4>. DEFINE j == k - 1
      <4>1. j \in 0..N /\ j < n
        BY <2>1, <3>1
      <4>. HIDE DEF j
      <4>2. Upto(p, j) < Upto(p, n)
        BY <1>1, <4>1, UptoGrows
      <4>. QED
        BY <4>2 DEF j
    <3>. HIDE DEF N, k
    <3>. QED
      BY <1>2, <1>3, <1>4, <3>2
  <2>. HIDE DEF N, k
  <2>. QED
    BY <1>1, <2>2
<1>5. ASSUME k <= N, Remaining(p, s, pieces[p], Upto(p, k)) PROVE n <= k - 1
  <2>1. k \in 0..N
    BY <1>1, <1>5
  <2>2. Upto(p, k) \in Nat
    BY <2>1, StreamFacts
  <2>3. s < Upto(p, k)
    BY <1>5, <2>2, RemainingSteps
  <2>4. ~(k <= n)
    <3>1. SUFFICES ASSUME k <= n PROVE FALSE
      OBVIOUS
    <3>2. k = n \/ Upto(p, k) < Upto(p, n)
      <4>1. k < n => Upto(p, k) < Upto(p, n)
        BY <1>1, <2>1, UptoGrows
      <4>. HIDE DEF k, N
      <4>. QED
        BY <1>1, <2>1, <3>1, <4>1
    <3>. HIDE DEF N, k
    <3>. QED
      BY <1>2, <1>3, <2>2, <2>3, <3>2
  <2>. HIDE DEF N, k
  <2>. QED
    BY <1>1, <2>4
<1>6. s = Upto(p, k - 1) \/ (k <= N /\ Remaining(p, s, pieces[p], Upto(p, k)))
  BY DEF Gives
<1>. HIDE DEF k, N
<1>7. n <= k - 1
  BY <1>4, <1>5, <1>6
<1>. QED
  BY <1>1, <1>7 DEF k, N

\* Both ends as PacketsInv has them.
LEMMA BothGo ==
  ASSUME PacketsInv, NEW x \in Sides
  PROVE  \E n, r, s \in Nat : Gives(Partner(x), s) /\ Takes(x, Partner(x), n, r, s)
BY DEF PacketsInv, Goes

\* A part of a sequence with one more at its end, and without its head
LEMMA SubSeqEnds ==
  ASSUME NEW S, NEW w \in Seq(S), NEW a \in Nat, NEW b \in Nat, a <= b, b < Len(w)
  PROVE  /\ SubSeq(w, a + 1, b + 1) = Append(SubSeq(w, a + 1, b), w[b + 1])
         /\ SubSeq(w, a + 1, b + 1) # <<>>
         /\ Head(SubSeq(w, a + 1, b + 1)) = w[a + 1]
         /\ Tail(SubSeq(w, a + 1, b + 1)) = SubSeq(w, a + 2, b + 1)
<1>. DEFINE t == Append(Span(w, a, b), w[b + 1])
            c == b + 1
            u == Span(w, a, c)
            d == a + 1
<1>1. c \in Nat /\ c <= Len(w) /\ a <= c /\ b <= Len(w) /\ Len(w) \in Nat /\ c - a = (b - a) + 1
      /\ c \in 1..Len(w) /\ d \in Nat /\ d <= c /\ c - a \in Nat /\ c - a >= 1 /\ c - d = (c - a) - 1
  BY LenProperties
<1>2. /\ Span(w, a, b) \in Seq(S) /\ Len(Span(w, a, b)) = b - a
      /\ \A i \in 1..b - a : Span(w, a, b)[i] = w[a + i]
  <2>1. w \in Seq(S) /\ a \in Nat /\ b \in Nat /\ a <= b /\ b <= Len(w)
    BY <1>1
  <2>. QED
    BY ONLY <2>1, SpanProperties
<1>3. w[c] \in S
  BY <1>1
<1>. HIDE DEF c
<1>4. t = Span(w, a, c)
  <2>1. /\ t \in Seq(S) /\ Len(t) = c - a /\ t[(b - a) + 1] = w[c]
        /\ \A i \in 1..b - a : t[i] = w[a + i]
    <3>. DEFINE v == Span(w, a, b)
    <3>. HIDE DEF v
    <3>1. /\ Append(v, w[c]) \in Seq(S) /\ Len(Append(v, w[c])) = Len(v) + 1
          /\ Append(v, w[c])[Len(v) + 1] = w[c]
          /\ \A i \in 1..Len(v) : Append(v, w[c])[i] = v[i]
      BY <1>2, <1>3, AppendProperties DEF v
    <3>2. t = Append(v, w[c])
      BY DEF v, c
    <3>. HIDE DEF t
    <3>. QED
      BY <1>1, <1>2, <3>1, <3>2 DEF v
  <2>. HIDE DEF t
  <2>2. ASSUME NEW i \in 1..c - a PROVE t[i] = w[a + i]
    <3>1. i \in 1..b - a \/ (i = (b - a) + 1 /\ a + i = c)
      BY <1>1 DEF c
    <3>. QED
      BY <2>1, <3>1
  <2>. QED
    BY <1>1, <2>1, <2>2, SpanIs
<1>. HIDE DEF t, d
<1>5. /\ u \in Seq(S) /\ Len(u) = c - a /\ \A i \in 1..c - a : u[i] = w[a + i]
  <2>1. w \in Seq(S) /\ a \in Nat /\ c \in Nat /\ a <= c /\ c <= Len(w)
    BY <1>1
  <2>. QED
    BY ONLY <2>1, SpanProperties
<1>6. u # <<>> /\ u[1] = w[a + 1]
  <2>1. 1 \in 1..c - a
    BY <1>1
  <2>. HIDE DEF u
  <2>. QED
    BY <1>1, <1>5, <2>1
<1>7. Tail(u) = Span(w, d, c)
  <2>. HIDE DEF u
  <2>1. /\ Tail(u) \in Seq(S) /\ Len(Tail(u)) = Len(u) - 1
        /\ \A i \in 1..Len(u) - 1 : Tail(u)[i] = u[i + 1]
    BY <1>5, <1>6, HeadTailProperties
  <2>2. ASSUME NEW i \in 1..c - d PROVE Tail(u)[i] = w[d + i]
    <3>1. i \in 1..Len(u) - 1 /\ i + 1 \in 1..c - a /\ a + (i + 1) = d + i
      BY <1>1, <1>5 DEF d
    <3>. QED
      BY <1>5, <2>1, <3>1
  <2>. DEFINE v == Tail(u)
  <2>. HIDE DEF v
  <2>3. Len(v) = c - d /\ v \in Seq(S)
    BY <1>1, <1>5, <2>1 DEF v
  <2>4. /\ w \in Seq(S) /\ d \in Nat /\ c \in Nat /\ d <= c /\ c <= Len(w)
        /\ \A i \in 1..c - d : v[i] = w[d + i]
    BY <1>1, <2>2 DEF v
  <2>. QED
    BY ONLY <2>3, <2>4, SpanIs DEF v
<1>8. Head(u) = u[1]
  <2>. HIDE DEF u
  <2>. QED
    BY <1>5, <1>6
<1>9. Span(w, d, c) = SubSeq(w, a + 2, b + 1)
  <2>1. d + 1 = a + 2
    BY DEF d
  <2>. QED
    BY <2>1 DEF Span, c
<1>. QED
  BY <1>4, <1>6, <1>7, <1>8, <1>9 DEF Span, c, t, u

\* Nothing to see for the modules: a packet is prepared, a mutex taken ...
LEMMA PreparesUnseen ==
  ASSUME PacketsInv, NEW x \in Sides, SendData(x) \/ WriteLock(x)
  PROVE  inbox' = inbox /\ \A e \in Sides : OnTheWay(e)' = OnTheWay(e)
<1>. DEFINE y == Partner(x)
<1>1. y \in Sides /\ y # x /\ Partner(y) = x /\ \A f \in Sides : f = x \/ f = y
  BY Partners
<1>. HIDE DEF y
<1>2. /\ next' = next /\ received' = received /\ buffer' = buffer
      /\ readLength' = readLength /\ rest' = rest /\ inbox' = inbox
      /\ pc[x] \in {"idle", "write"} /\ pc'[x] \in {"write", "copy"} /\ pc'[y] = pc[y]
      /\ pieces'[y] = pieces[y]
  BY <1>1 DEF PacketsInv, TypeOK, SendData, WriteLock, Goto, sendVars, receiveVars
<1>3. PICK n, r, s \in Nat : Gives(x, s) /\ Takes(y, x, n, r, s)
  BY <1>1, BothGo
<1>4. PICK m, t, u \in Nat : Gives(y, u) /\ Takes(x, y, m, t, u)
  BY <1>1, BothGo DEF y
<1>5. Gives(x, s)'
  <2>1. CASE SendData(x)
    BY <1>3, <2>1, SendDataGives DEF PacketsInv
  <2>2. CASE WriteLock(x)
    <3>1. pieces' = pieces /\ pc[x] \in {"write", "copy"}
      BY <2>2 DEF WriteLock, sendVars
    <3>. QED
      BY <1>2, <1>3, <3>1, GivesKept
  <2>. QED
    BY <2>1, <2>2
<1>6. Takes(y, x, n, r, s)' /\ Takes(x, y, m, t, u)'
  BY <1>1, <1>2, <1>3, <1>4, TakesKept
<1>7. Gives(y, u)'
  BY <1>1, <1>2, <1>4, GivesKept
<1>8. OnTheWay(y)' = OnTheWay(y)
  BY <1>1, <1>2, <1>3, <1>5, <1>6, SameOnTheWay
<1>9. OnTheWay(x)' = OnTheWay(x)
  BY <1>1, <1>2, <1>4, <1>6, <1>7, SameOnTheWay DEF y
<1>. QED
  BY <1>1, <1>2, <1>8, <1>9

\* The last piece of a packet sends it.
LEMMA WriteCopySends ==
  ASSUME PacketsInv, NEW x \in Sides, WriteCopy(x)
  PROVE  /\ inbox' = inbox /\ OnTheWay(x)' = OnTheWay(x)
         /\ \/ OnTheWay(Partner(x))' = OnTheWay(Partner(x))
            \/ \E i \in 1..Len(Packets[x]) :
                  OnTheWay(Partner(x))' = Append(OnTheWay(Partner(x)), Packets[x][i])
<1>. DEFINE y == Partner(x)
<1>1. y \in Sides /\ y # x /\ Partner(y) = x /\ \A f \in Sides : f = x \/ f = y
  BY Partners
<1>. HIDE DEF y
<1>2. TypeOK
  BY DEF PacketsInv
<1>3. /\ buffer' = buffer /\ readLength' = readLength /\ rest' = rest /\ inbox' = inbox
      /\ received' = [received EXCEPT ![y] = @ \o Head(pieces[x])]
      /\ pieces' = [pieces EXCEPT ![x] = Tail(@)]
      /\ next' = [next EXCEPT ![x] = IF Len(pieces[x]) = 1 THEN @ + 1 ELSE @]
      /\ pc[x] = "copy" /\ \E w \in {"idle", "write"} : pc' = [pc EXCEPT ![x] = w]
  BY DEF WriteCopy, Goto, receiveVars, y
<1>4. /\ pc'[y] = pc[y] /\ pc'[x] \in {"idle", "write"} /\ next'[y] = next[y]
      /\ pieces'[y] = pieces[y] /\ received'[x] = received[x]
      /\ next'[x] \in {next[x], next[x] + 1}
  BY <1>1, <1>2, <1>3 DEF TypeOK
<1>5. PICK n, r, s \in Nat : Gives(x, s) /\ Takes(y, x, n, r, s)
  BY <1>1, BothGo
<1>6. PICK m, t, u \in Nat : Gives(y, u) /\ Takes(x, y, m, t, u)
  BY <1>1, BothGo DEF y
<1>7. PICK v \in Nat : Gives(x, v)' /\ HasRead(y, x, n, r, v)'
  <2>1. HasRead(y, x, n, r, s) /\ y = Partner(x)
    BY <1>5 DEF Takes, y
  <2>. QED
    BY <1>1, <1>2, <1>5, <2>1, WriteCopyGives
<1>8. Takes(x, y, m, t, u)'
  BY <1>1, <1>3, <1>4, <1>6, TakesKept
<1>9. Gives(y, u)'
  BY <1>1, <1>4, <1>6, GivesKept
<1>10. OnTheWay(x)' = OnTheWay(x)
  BY <1>1, <1>3, <1>4, <1>6, <1>8, <1>9, SameOnTheWay DEF y
<1>. DEFINE P == Packets[x]
            h == IF rest[y] = <<>> THEN n ELSE n - 1
<1>11. OnTheWay(y) = SubSeq(P, h + 1, next[x] - 1)
  BY <1>1, <1>5, OnTheWayIs DEF Takes
<1>12. OnTheWay(y)' = SubSeq(P, h + 1, next'[x] - 1)
  BY <1>1, <1>3, <1>7, OnTheWayNext
<1>13. h \in Nat /\ next[x] - 1 \in Nat /\ h <= next[x] - 1 /\ next[x] - 1 < Len(P) /\ P \in Seq(Part)
       /\ next[x] \in 1..Len(P)
  <2>1. n <= next[x] - 1 /\ next[x] \in 1..Len(P) + 1 /\ Len(P) \in Nat
    BY <1>1, <1>5, TakenIsWritten DEF Takes
  <2>2. next[x] <= Len(P)
    BY <1>3, <1>5 DEF Gives
  <2>3. rest[y] = <<>> \/ n >= 1
    BY <1>5 DEF Takes, Hands
  <2>4. P \in Seq(Part)
    BY PacketsAreSendable
  <2>. HIDE DEF P
  <2>. QED
    BY <2>1, <2>2, <2>3, <2>4
<1>14. CASE next'[x] = next[x]
  BY <1>3, <1>10, <1>11, <1>12, <1>14 DEF y
<1>15. CASE next'[x] = next[x] + 1
  <2>. DEFINE b == next[x] - 1
  <2>1. b + 1 = next[x] /\ next'[x] - 1 = b + 1
    BY <1>13, <1>15
  <2>. HIDE DEF b, h, P
  <2>2. SubSeq(P, h + 1, b + 1) = Append(SubSeq(P, h + 1, b), P[b + 1])
    <3>1. P \in Seq(Part) /\ h \in Nat /\ b \in Nat /\ h <= b /\ b < Len(P)
      BY <1>13 DEF b
    <3>. QED
      BY ONLY <3>1, SubSeqEnds
  <2>3. OnTheWay(y)' = Append(OnTheWay(y), P[next[x]])
    BY <1>11, <1>12, <2>1, <2>2 DEF b
  <2>. QED
    BY <1>3, <1>10, <1>13, <2>3 DEF y, P
<1>. HIDE DEF P, h
<1>. QED
  BY <1>4, <1>14, <1>15

\* What an end reads it keeps to itself, until a packet goes to one of its modules
\* or is dropped.
LEMMA ReceiveDelivers ==
  ASSUME PacketsInv, NEW x \in Sides, Receive(x)
  PROVE  /\ OnTheWay(Partner(x))' = OnTheWay(Partner(x))
         /\ \/ inbox' = inbox /\ OnTheWay(x)' = OnTheWay(x)
            \/ LET q == Head(OnTheWay(x))
               IN  /\ OnTheWay(x) # <<>> /\ OnTheWay(x)' = Tail(OnTheWay(x))
                   /\ inbox' = HandOver(x, q)
<1>. DEFINE y == Partner(x)
<1>1. y \in Sides /\ y # x /\ Partner(y) = x /\ \A f \in Sides : f = x \/ f = y
  BY Partners
<1>. HIDE DEF y
<1>2. TypeOK
  BY DEF PacketsInv
<1>3. /\ lock' = lock /\ next' = next /\ pieces' = pieces
      /\ pc[x] \in {"idle", "length", "data", "parse"}
      /\ pc'[x] \in {"idle", "length", "data", "parse", "thrown"}
      /\ pc' = [pc EXCEPT ![x] = pc'[x]]
      /\ received' = [received EXCEPT ![x] = received'[x]]
      /\ buffer' = [buffer EXCEPT ![x] = buffer'[x]]
      /\ readLength' = [readLength EXCEPT ![x] = readLength'[x]]
      /\ rest' = [rest EXCEPT ![x] = rest'[x]]
      /\ inbox' = [inbox EXCEPT ![x] = inbox'[x]]
  BY <1>2, ReceiveFrames
<1>4. /\ pc'[y] = pc[y] /\ received'[y] = received[y] /\ buffer'[y] = buffer[y]
      /\ readLength'[y] = readLength[y] /\ rest'[y] = rest[y] /\ inbox'[y] = inbox[y]
  BY <1>1, <1>2, <1>3 DEF TypeOK
<1>5. PICK n, r, s \in Nat : Gives(x, s) /\ Takes(y, x, n, r, s)
  BY <1>1, BothGo
<1>6. PICK m, t, u \in Nat : Gives(y, u) /\ Takes(x, y, m, t, u)
  BY <1>1, BothGo DEF y
<1>7. Gives(x, s)' /\ Gives(y, u)'
  BY <1>1, <1>3, <1>4, <1>5, <1>6, GivesKept
<1>8. Takes(y, x, n, r, s)'
  BY <1>1, <1>4, <1>5, TakesKept
<1>9. OnTheWay(y)' = OnTheWay(y)
  BY <1>1, <1>3, <1>4, <1>5, <1>7, <1>8, SameOnTheWay
<1>10. ASSUME NEW k \in Nat, NEW v \in Nat, Takes(x, y, k, v, u)', inbox' = inbox,
              \/ k = m /\ (rest'[x] = <<>> <=> rest[x] = <<>>)
              \/ k = m + 1 /\ rest[x] = <<>> /\ rest'[x] # <<>>
       PROVE  inbox' = inbox /\ OnTheWay(x)' = OnTheWay(x)
  BY <1>1, <1>3, <1>6, <1>7, <1>10, SameOnTheWay DEF y
<1>11. CASE ReceiveHeader(x) \/ ReceiveLength(x) \/ ReceiveRest(x)
  <2>1. rest' = rest /\ inbox' = inbox
    BY <1>11 DEF ReceiveHeader, ReceiveLength, ReceiveRest
  <2>2. \E v \in Nat : Takes(x, y, m, v, u)'
    BY <1>1, <1>2, <1>6, <1>11, ReceiveHeaderTakes, ReceiveLengthTakes, ReceiveRestTakes
  <2>. QED
    BY <1>9, <1>10, <2>1, <2>2 DEF y
<1>12. CASE ReceiveFrame(x)
  <2>1. inbox' = inbox
    BY <1>12 DEF ReceiveFrame
  <2>2. Takes(x, y, m + 1, t, u)' /\ rest[x] = <<>> /\ rest'[x] # <<>>
    BY <1>1, <1>2, <1>6, <1>12, ReceiveFrameTakes
  <2>3. m + 1 \in Nat
    OBVIOUS
  <2>. QED
    BY <1>9, <1>10, <2>1, <2>2, <2>3 DEF y
<1>13. CASE ParseEnd(x)
  <2>1. inbox' = inbox
    BY <1>13 DEF ParseEnd
  <2>2. Takes(x, y, m, t, u)' /\ rest[x] = <<>> /\ rest'[x] = <<>>
    BY <1>1, <1>2, <1>6, <1>13, ParseEndTakes
  <2>. QED
    BY <1>9, <1>10, <2>1, <2>2 DEF y
<1>14. CASE ParsePart(x)
  <2>. DEFINE P == Packets[y]
              q == P[m]
              a == m - 1
              b == next[y] - 2
  <2>1. /\ Takes(x, y, m, t, u)' /\ rest[x] # <<>> /\ rest'[x] = <<>> /\ m \in 1..Len(P)
        /\ inbox' = HandOver(x, q)
    BY <1>1, <1>2, <1>6, <1>14, ParsePartTakes
  <2>2. OnTheWay(x) = SubSeq(P, a + 1, next[y] - 1)
    BY <1>1, <1>6, <2>1, OnTheWayIs DEF Takes, y
  <2>3. OnTheWay(x)' = SubSeq(P, m + 1, next[y] - 1)
    BY <1>1, <1>3, <1>7, <2>1, OnTheWayNext DEF Takes, y
  <2>4. m <= next[y] - 1 /\ next[y] \in 1..Len(P) + 1 /\ Len(P) \in Nat
    BY <1>1, <1>6, TakenIsWritten DEF Takes
  <2>5. P \in Seq(Part)
    BY <1>1, PacketsAreSendable
  <2>. HIDE DEF P
  <2>6. /\ a \in Nat /\ b \in Nat /\ a <= b /\ b < Len(P)
        /\ b + 1 = next[y] - 1 /\ a + 1 = m /\ a + 2 = m + 1
    BY <2>1, <2>4
  <2>. HIDE DEF a, b, q
  <2>7. /\ SubSeq(P, a + 1, b + 1) # <<>>
        /\ Head(SubSeq(P, a + 1, b + 1)) = P[a + 1]
        /\ Tail(SubSeq(P, a + 1, b + 1)) = SubSeq(P, a + 2, b + 1)
    <3>1. P \in Seq(Part) /\ a \in Nat /\ b \in Nat /\ a <= b /\ b < Len(P)
      BY <2>5, <2>6
    <3>2. /\ SubSeq(P, a + 1, b + 1) = Append(SubSeq(P, a + 1, b), P[b + 1])
          /\ SubSeq(P, a + 1, b + 1) # <<>>
          /\ Head(SubSeq(P, a + 1, b + 1)) = P[a + 1]
          /\ Tail(SubSeq(P, a + 1, b + 1)) = SubSeq(P, a + 2, b + 1)
      BY ONLY <3>1, SubSeqEnds, ZenonT(60)
    <3>. QED
      BY ONLY <3>2
  <2>8. /\ OnTheWay(x) # <<>> /\ Head(OnTheWay(x)) = q
        /\ OnTheWay(x)' = Tail(OnTheWay(x))
    <3>1. q = P[m]
      BY DEF q
    <3>. QED
      BY ONLY <2>2, <2>3, <2>6, <2>7, <3>1
  <2>. QED
    BY <1>9, <2>1, <2>8 DEF y
<1>. QED
  BY <1>11, <1>12, <1>13, <1>14 DEF Receive

\* Every step of the two ends is one of the channel, or none.
LEMMA ChannelStep == PacketsInv /\ [Next]_vars => [Wire!Next]_(Wire!channelVars)
<1>. SUFFICES ASSUME PacketsInv, [Next]_vars PROVE [Wire!Next]_(Wire!channelVars)
  OBVIOUS
<1>. DEFINE way == [e \in Sides |-> OnTheWay(e)]
<1>1. ASSUME inbox' = inbox, \A e \in Sides : OnTheWay(e)' = OnTheWay(e)
      PROVE  UNCHANGED Wire!channelVars
  <2>1. way' = way
    BY <1>1
  <2>. QED
    BY <1>1, <2>1 DEF Wire!channelVars
<1>2. ASSUME UNCHANGED vars PROVE inbox' = inbox /\ \A e \in Sides : OnTheWay(e)' = OnTheWay(e)
  BY <1>2 DEF vars, sendVars, receiveVars, OnTheWay, HandedOn, FramesTaken, Written
<1>3. ASSUME NEW x \in Sides, WriteCopy(x) PROVE [Wire!Next]_(Wire!channelVars)
  <2>. DEFINE y == Partner(x)
  <2>1. y \in Sides /\ y # x /\ \A f \in Sides : f = x \/ f = y
    BY Partners
  <2>2. /\ inbox' = inbox /\ OnTheWay(x)' = OnTheWay(x)
        /\ \/ OnTheWay(y)' = OnTheWay(y)
           \/ \E i \in 1..Len(Packets[x]) : OnTheWay(y)' = Append(OnTheWay(y), Packets[x][i])
    BY <1>3, WriteCopySends
  <2>. HIDE DEF y
  <2>3. CASE OnTheWay(y)' = OnTheWay(y)
    BY <1>1, <2>1, <2>2, <2>3
  <2>4. ASSUME NEW i \in 1..Len(Packets[x]), OnTheWay(y)' = Append(OnTheWay(y), Packets[x][i])
        PROVE  Wire!Next
    <3>. DEFINE q == Packets[x][i]
    <3>1. q \in UNION {Range(Packets[e]) : e \in Sides}
      <4>1. i \in DOMAIN Packets[x]
        BY PacketsAreSendable
      <4>. QED
        BY <4>1 DEF Range
    <3>. HIDE DEF q
    <3>2. way' = [way EXCEPT ![y] = Append(way[y], q)]
      BY <2>1, <2>2, <2>4 DEF q
    <3>3. Wire!Send(y)
      BY <2>2, <3>1, <3>2 DEF Wire!Send
    <3>. QED
      BY <2>1, <3>3 DEF Wire!Next
  <2>. QED
    BY <2>2, <2>3, <2>4
<1>4. ASSUME NEW x \in Sides, Receive(x) PROVE [Wire!Next]_(Wire!channelVars)
  <2>. DEFINE y == Partner(x)
              q == Head(OnTheWay(x))
  <2>1. y \in Sides /\ y # x /\ \A f \in Sides : f = x \/ f = y
    BY Partners
  <2>2. /\ OnTheWay(y)' = OnTheWay(y)
        /\ \/ inbox' = inbox /\ OnTheWay(x)' = OnTheWay(x)
           \/ /\ OnTheWay(x) # <<>> /\ OnTheWay(x)' = Tail(OnTheWay(x))
              /\ inbox' = HandOver(x, q)
    BY <1>4, ReceiveDelivers
  <2>. HIDE DEF y, q
  <2>3. CASE inbox' = inbox /\ OnTheWay(x)' = OnTheWay(x)
    BY <1>1, <2>1, <2>2, <2>3
  <2>4. CASE /\ OnTheWay(x) # <<>> /\ OnTheWay(x)' = Tail(OnTheWay(x))
             /\ inbox' = HandOver(x, q)
    <3>1. way' = [way EXCEPT ![x] = Tail(way[x])]
      BY <2>1, <2>2, <2>4
    <3>2. way[x] # <<>> /\ q = Head(way[x])
      BY <2>4 DEF q
    <3>3. Wire!Deliver(x)
      BY <2>4, <3>1, <3>2 DEF Wire!Deliver, HandOver
    <3>. QED
      BY <3>3 DEF Wire!Next
  <2>. QED
    BY <2>2, <2>3, <2>4
<1>5. CASE Next
  <2>1. PICK x \in Sides : Thread(x)
    BY <1>5 DEF Next
  <2>2. CASE SendData(x) \/ WriteLock(x)
    BY <1>1, <2>2, PreparesUnseen
  <2>. QED
    BY <1>3, <1>4, <2>1, <2>2 DEF Thread, Write
<1>. QED
  BY <1>1, <1>2, <1>5

\* At first nothing is on its way.
LEMMA ChannelInit == Init => Wire!Init
<1>. SUFFICES ASSUME Init PROVE Wire!Init
  OBVIOUS
<1>1. ASSUME NEW e \in Sides PROVE OnTheWay(e) = <<>>
  <2>1. PICK n, r, s \in Nat : Gives(Partner(e), s) /\ Takes(e, Partner(e), n, r, s)
    BY InitGoes, BothGo
  <2>2. rest[e] = <<>> /\ next[Partner(e)] = 1
    BY Partners DEF Init
  <2>3. OnTheWay(e) = SubSeq(Packets[Partner(e)], n + 1, next[Partner(e)] - 1)
    BY <2>1, <2>2, OnTheWayIs DEF Takes
  <2>4. OnTheWay(e) = SubSeq(Packets[Partner(e)], n + 1, 0)
    BY <2>2, <2>3
  <2>. QED
    BY <2>4
<1>. QED
  BY <1>1 DEF Init, Wire!Init

\* For any two ends, any packets that fit their headers and any header map of
\* each end, one module or none for a name, and however the bytes are cut: the
\* connection is a channel of whole packets, which hands each to the module
\* registered for its name, or drops it when there is none, after the ones sent
\* before it.
THEOREM ConnectionIsChannel == Spec => ImplementsChannel
BY ChannelInit, ChannelStep, PacketsGo, PTL DEF Spec, ImplementsChannel, Wire!Spec
================================================================================
