------------------------------- MODULE Lemmas -------------------------------
(***************************************************************************)
(* Facts about numbers and sequences that several proofs need, whatever    *)
(* the module: least numbers, induction over a set of numbers, what        *)
(* removing elements of a sequence leaves, what joining sequences makes,   *)
(* and the parts of a sequence.                                            *)
(***************************************************************************)
EXTENDS Integers, Sequences, SequencesExt, Lists,
        SequenceTheorems, FiniteSetTheorems, WellFoundedInduction, TLAPS

(* The order of the numbers, as the relation the library speaks of.         *)
LEMMA LessIsRelated == \A x, y \in Nat : y < x => <<y, x>> \in OpToRel(<, Nat)
<1>1. SUFFICES ASSUME NEW x \in Nat, NEW y \in Nat, y < x
               PROVE  <<y, x>> \in OpToRel(<, Nat)
  OBVIOUS
<1>2. <<y, x>> \in Nat \X Nat /\ <<y, x>>[1] < <<y, x>>[2]
  BY <1>1
<1>3. QED
  BY <1>2 DEF OpToRel

(* A set of numbers that is not empty has a least one.                      *)
LEMMA LeastNumber ==
  ASSUME NEW T, T \subseteq Nat, T # {}
  PROVE  \E n \in T : \A k \in T : n <= k
<1>1. \E x \in T : \A y \in T : ~ (<<y, x>> \in OpToRel(<, Nat))
  BY WFMin, NatLessThanWellFounded
<1>2. PICK x \in T : \A y \in T : ~ (<<y, x>> \in OpToRel(<, Nat))
  BY <1>1
<1>3. \A y \in T : ~(y < x)
  BY <1>2, LessIsRelated
<1>4. QED
  BY <1>3

(* It is the one Min chooses.                                               *)
LEMMA MinIsLeast ==
  ASSUME NEW T, T \subseteq Nat, T # {}
  PROVE  Min(T) \in T /\ \A k \in T : Min(T) <= k
BY LeastNumber DEF Min

(* Induction: a set with zero and with every successor has all numbers.     *)
LEMMA AllNumbers ==
  ASSUME NEW T, 0 \in T, \A n \in Nat : n \in T => n + 1 \in T
  PROVE  Nat \subseteq T
<1>1. SUFFICES ASSUME Nat \ T # {} PROVE FALSE
  OBVIOUS
<1>2. PICK n \in Nat \ T : \A k \in Nat \ T : n <= k
  BY <1>1, LeastNumber
<1>3. n - 1 \in Nat /\ n - 1 \in T
  BY <1>2
<1>4. QED
  BY <1>2, <1>3

(* What is left of a sequence when the element at k is removed.             *)
LEMMA RemoveAtProperties ==
  ASSUME NEW S, NEW s \in Seq(S), NEW k \in 1..Len(s)
  PROVE  /\ RemoveAt(s, k) \in Seq(S)
         /\ Len(RemoveAt(s, k)) = Len(s) - 1
         /\ \A i \in 1..Len(s) - 1 :
              RemoveAt(s, k)[i] = IF i < k THEN s[i] ELSE s[i + 1]
<1>. DEFINE a == SubSeq(s, 1, k - 1)
            b == SubSeq(s, k + 1, Len(s))
<1>0. Len(s) \in Nat /\ k \in Nat
  BY LenProperties
<1>1. a \in Seq(S) /\ Len(a) = k - 1 /\ \A i \in 1..k - 1 : a[i] = s[i]
  BY <1>0, ElementOfSeq, SubSeqProperties
<1>2. b \in Seq(S) /\ Len(b) = Len(s) - k /\ \A i \in 1..Len(s) - k : b[i] = s[k + i]
  BY <1>0, ElementOfSeq, SubSeqProperties
<1>3. RemoveAt(s, k) = a \o b
  BY DEF RemoveAt
<1>. HIDE DEF a, b
<1>4. /\ a \o b \in Seq(S)
      /\ Len(a \o b) = Len(s) - 1
      /\ \A i \in 1..Len(s) - 1 : (a \o b)[i] = IF i < k THEN a[i] ELSE b[i - (k - 1)]
  <2>1. /\ a \o b \in Seq(S)
        /\ Len(a \o b) = Len(a) + Len(b)
        /\ \A i \in 1..Len(a) + Len(b) :
             (a \o b)[i] = IF i <= Len(a) THEN a[i] ELSE b[i - Len(a)]
    BY <1>1, <1>2, ConcatProperties
  <2>2. Len(a) + Len(b) = Len(s) - 1
    BY <1>0, <1>1, <1>2
  <2>3. \A i \in 1..Len(s) - 1 : i <= Len(a) <=> i < k
    BY <1>0, <1>1
  <2>. QED
    BY <2>1, <2>2, <2>3, <1>1
<1>5. \A i \in 1..Len(s) - 1 : i < k => (a \o b)[i] = s[i]
  BY <1>0, <1>1, <1>4
<1>6. \A i \in 1..Len(s) - 1 : ~(i < k) => (a \o b)[i] = s[i + 1]
  <2>. SUFFICES ASSUME NEW i \in 1..Len(s) - 1, ~(i < k)
                PROVE  (a \o b)[i] = s[i + 1]
    OBVIOUS
  <2>1. i - (k - 1) \in 1..Len(s) - k /\ k + (i - (k - 1)) = i + 1
    BY <1>0
  <2>. QED
    BY <1>2, <1>4, <2>1
<1>. QED
  BY <1>3, <1>4, <1>5, <1>6

(* RemoveFirst removes one place that holds the element, if there is one.   *)
LEMMA RemoveFirstProperties ==
  ASSUME NEW S, NEW s \in Seq(S), NEW e
  PROVE  \/ /\ \A k \in 1..Len(s) : s[k] # e
            /\ RemoveFirst(s, e) = s
         \/ \E k \in 1..Len(s) : s[k] = e /\ RemoveFirst(s, e) = RemoveAt(s, k)
<1>. DEFINE I == {i \in 1..Len(s) : s[i] = e}
<1>0. I \subseteq Nat
  OBVIOUS
<1>1. I # {} => Min(I) \in I
  <2>. HIDE DEF I
  <2>. QED BY <1>0, MinIsLeast
<1>2. RemoveFirst(s, e) = IF I # {} THEN RemoveAt(s, Min(I)) ELSE s
  BY DEF RemoveFirst, SelectInSeq
<1>3. CASE I = {}
  BY <1>2, <1>3
<1>4. CASE I # {}
  <2>. DEFINE m == Min(I)
  <2>1. m \in 1..Len(s) /\ s[m] = e
    BY <1>1, <1>4
  <2>2. RemoveFirst(s, e) = RemoveAt(s, m)
    BY <1>2, <1>4
  <2>. HIDE DEF m
  <2>. QED
    BY <2>1, <2>2
<1>. QED
  BY <1>3, <1>4

(* A sequence that holds each element once holds the others when one is     *)
(* removed, and each of them once.                                          *)
LEMMA RemoveFirstOfInjective ==
  ASSUME NEW S, NEW s \in Seq(S), NEW e,
         \A k, l \in 1..Len(s) : s[k] = s[l] => k = l
  PROVE  /\ RemoveFirst(s, e) \in Seq(S)
         /\ ToSet(RemoveFirst(s, e)) = ToSet(s) \ {e}
         /\ \A k, l \in 1..Len(RemoveFirst(s, e)) :
              RemoveFirst(s, e)[k] = RemoveFirst(s, e)[l] => k = l
<1>. DEFINE r == RemoveFirst(s, e)
<1>0. Len(s) \in Nat /\ DOMAIN s = 1..Len(s)
  BY LenProperties
<1>1. CASE \A k \in 1..Len(s) : s[k] # e
  <2>1. r = s
    BY <1>1, RemoveFirstProperties
  <2>. QED
    BY <1>0, <1>1, <2>1 DEF ToSet
<1>2. ASSUME NEW m \in 1..Len(s), s[m] = e, r = RemoveAt(s, m)
      PROVE  /\ r \in Seq(S)
             /\ ToSet(r) = ToSet(s) \ {e}
             /\ \A k, l \in 1..Len(r) : r[k] = r[l] => k = l
  <2>. HIDE DEF r
  <2>1. /\ r \in Seq(S) /\ Len(r) = Len(s) - 1
        /\ \A i \in 1..Len(s) - 1 : r[i] = IF i < m THEN s[i] ELSE s[i + 1]
    BY <1>2, RemoveAtProperties
  <2>2. DOMAIN r = 1..Len(s) - 1
    BY <2>1, LenProperties
  <2>3. \A k, l \in 1..Len(r) : r[k] = r[l] => k = l
    <3>. SUFFICES ASSUME NEW k \in 1..Len(s) - 1, NEW l \in 1..Len(s) - 1, r[k] = r[l]
                  PROVE  k = l
      BY <2>1
    <3>. DEFINE at(i) == IF i < m THEN i ELSE i + 1
    <3>1. at(k) \in 1..Len(s) /\ at(l) \in 1..Len(s) /\ (at(k) = at(l) => k = l)
      BY <1>0
    <3>2. s[at(k)] = s[at(l)]
      BY <2>1
    <3>. HIDE DEF at
    <3>. QED
      BY <3>1, <3>2
  <2>4. \A i \in 1..Len(s) - 1 : r[i] \in ToSet(s) \ {e}
    BY SMTT(30), <1>0, <1>2, <2>1 DEF ToSet
  <2>5. ASSUME NEW i \in 1..Len(s), s[i] # e PROVE s[i] \in ToSet(r)
    <3>1. CASE i < m
      BY <1>0, <2>1, <2>2, <3>1 DEF ToSet
    <3>2. CASE i > m
      <4>1. i - 1 \in 1..Len(s) - 1 /\ r[i - 1] = s[i]
        BY <1>0, <2>1, <3>2
      <4>. QED
        BY <2>2, <4>1 DEF ToSet
    <3>. QED
      BY <1>0, <1>2, <2>5, <3>1, <3>2
  <2>. QED
    BY <1>0, <2>1, <2>2, <2>3, <2>4, <2>5 DEF ToSet
<1>3. \/ \A k \in 1..Len(s) : s[k] # e
      \/ \E k \in 1..Len(s) : s[k] = e /\ r = RemoveAt(s, k)
  BY RemoveFirstProperties
<1>. DEFINE Good == /\ r \in Seq(S)
                    /\ ToSet(r) = ToSet(s) \ {e}
                    /\ \A k, l \in 1..Len(r) : r[k] = r[l] => k = l
<1>4. ASSUME NEW m \in 1..Len(s), s[m] = e, r = RemoveAt(s, m) PROVE Good
  BY <1>2, <1>4
<1>5. (\A k \in 1..Len(s) : s[k] # e) => Good
  BY <1>1
<1>. HIDE DEF r, Good
<1>6. Good
  BY <1>3, <1>4, <1>5
<1>. QED
  BY <1>6 DEF r, Good

(* A sequence with a new element in front, and with a new one at the end.    *)
LEMMA PrependProperties ==
  ASSUME NEW S, NEW s \in Seq(S), NEW e \in S
  PROVE  /\ <<e>> \o s \in Seq(S)
         /\ Len(<<e>> \o s) = Len(s) + 1
         /\ (<<e>> \o s)[1] = e
         /\ \A i \in 1..Len(s) : (<<e>> \o s)[i + 1] = s[i]
         /\ ToSet(<<e>> \o s) = {e} \cup ToSet(s)
<1>. DEFINE r == <<e>> \o s
<1>0. <<e>> \in Seq(S) /\ Len(<<e>>) = 1 /\ <<e>>[1] = e /\ Len(s) \in Nat
  BY LenProperties
<1>1. /\ r \in Seq(S) /\ Len(r) = 1 + Len(s)
      /\ \A i \in 1..1 + Len(s) : r[i] = IF i <= 1 THEN <<e>>[i] ELSE s[i - 1]
  BY <1>0, ConcatProperties
<1>. HIDE DEF r
<1>2. r[1] = e /\ \A i \in 1..Len(s) : r[i + 1] = s[i]
  BY <1>0, <1>1
<1>3. DOMAIN r = 1..1 + Len(s) /\ DOMAIN s = 1..Len(s)
  BY <1>1, LenProperties
<1>4. ToSet(r) = {e} \cup ToSet(s)
  <2>1. \A i \in 1..1 + Len(s) : i = 1 \/ (i - 1 \in 1..Len(s) /\ r[i] = s[i - 1])
    BY <1>0, <1>1
  <2>2. \A i \in 1..Len(s) : i + 1 \in 1..1 + Len(s)
    BY <1>0
  <2>. QED
    BY <1>0, <1>2, <1>3, <2>1, <2>2 DEF ToSet
<1>. QED
  BY <1>0, <1>1, <1>2, <1>4 DEF r

-------------------------------------------------------------------------------
(* Recursion. *)

(* A step after the other: h is what g makes of base, up to the n-th.       *)
Solves(h, n, base, g) == h[0] = base /\ \A k \in 1..n : h[k] = g[<<k, h[k - 1]>>]

(* ... and there is one.                                                    *)
LEMMA Recursion ==
  ASSUME NEW A, NEW base \in A, NEW g \in [Nat \X A -> A], NEW n \in Nat
  PROVE  \E h \in [0..n -> A] : Solves(h, n, base, g)
<1>. DEFINE Q == {m \in Nat : \E h \in [0..m -> A] : Solves(h, m, base, g)}
<1>. USE DEF Solves
<1>1. 0 \in Q
  <2>. DEFINE h == [k \in 0..0 |-> base]
  <2>1. h \in [0..0 -> A] /\ Solves(h, 0, base, g)
    OBVIOUS
  <2>. QED
    BY <2>1
<1>2. ASSUME NEW m \in Nat, m \in Q PROVE m + 1 \in Q
  <2>1. PICK h \in [0..m -> A] : Solves(h, m, base, g)
    BY <1>2
  <2>. DEFINE e == [k \in 0..m + 1 |-> IF k = m + 1 THEN g[<<m + 1, h[m]>>] ELSE h[k]]
  <2>2. e \in [0..m + 1 -> A]
    OBVIOUS
  <2>3. Solves(e, m + 1, base, g)
    <3>1. e[0] = base
      BY <2>1
    <3>2. ASSUME NEW k \in 1..m + 1 PROVE e[k] = g[<<k, e[k - 1]>>]
      <4>1. CASE k = m + 1
        <5>1. e[m + 1] = g[<<m + 1, h[m]>>] /\ e[m] = h[m]
          OBVIOUS
        <5>2. k - 1 = m
          BY <4>1
        <5>. QED
          BY <4>1, <5>1, <5>2
      <4>2. CASE k # m + 1
        <5>1. k \in 1..m /\ k - 1 \in 0..m
          BY <4>2
        <5>. QED
          BY <2>1, <5>1
      <4>. QED
        BY <4>1, <4>2
    <3>. QED
      BY <3>1, <3>2
  <2>. HIDE DEF e, Solves
  <2>. QED
    BY <2>2, <2>3
<1>. HIDE DEF Q
<1>3. Nat \subseteq Q
  BY <1>1, <1>2, AllNumbers
<1>. QED
  BY <1>3 DEF Q

(* What is in a sequence after one more was put behind it.                  *)
LEMMA AppendSet ==
  ASSUME NEW T, NEW t \in Seq(T), NEW e \in T
  PROVE  Append(t, e) \in Seq(T) /\ ToSet(Append(t, e)) = ToSet(t) \cup {e}
<1>1. /\ Append(t, e) \in Seq(T)
      /\ DOMAIN Append(t, e) = DOMAIN t \cup {Len(t) + 1}
      /\ \A i \in DOMAIN t : Append(t, e)[i] = t[i]
      /\ Append(t, e)[Len(t) + 1] = e
  OBVIOUS
<1>2. ASSUME NEW x \in ToSet(Append(t, e)) PROVE x \in ToSet(t) \cup {e}
  BY <1>1, <1>2 DEF ToSet
<1>3. ASSUME NEW x \in ToSet(t) \cup {e} PROVE x \in ToSet(Append(t, e))
  BY <1>1, <1>3 DEF ToSet
<1>. QED
  BY <1>1, <1>2, <1>3

(* What is left of s, element after element.                                *)
Leaves(kept, s, S) ==
  /\ kept[0] = <<>>
  /\ \A k \in 1..Len(s) : kept[k] = IF s[k] \in S THEN kept[k - 1] ELSE Append(kept[k - 1], s[k])

(* Without does that.                                                       *)
LEMMA WithoutSteps ==
  ASSUME NEW T, NEW s \in Seq(T), NEW S
  PROVE  \E k \in [0..Len(s) -> Seq(T)] : Leaves(k, s, S) /\ Without(s, S) = k[Len(s)]
<1>. DEFINE Next(p) == IF p[1] \in 1..Len(s) /\ s[p[1]] \notin S
                       THEN Append(p[2], s[p[1]]) ELSE p[2]
<1>1. PICK g \in [Nat \X Seq(T) -> Seq(T)] : g = [p \in Nat \X Seq(T) |-> Next(p)]
  <2>1. \A p \in Nat \X Seq(T) : Next(p) \in Seq(T)
    OBVIOUS
  <2>. QED
    BY <2>1
<1>2. Len(s) \in Nat /\ <<>> \in Seq(T)
  OBVIOUS
<1>3. PICK h \in [0..Len(s) -> Seq(T)] :
        h[0] = <<>> /\ \A k \in 1..Len(s) : h[k] = g[<<k, h[k - 1]>>]
  <2>. DEFINE n == Len(s)
              A == Seq(T)
            base == <<>>
  <2>1. n \in Nat /\ base \in A /\ g \in [Nat \X A -> A]
    BY <1>2
  <2>. HIDE DEF n, A, base
  <2>2. \E h \in [0..n -> A] : Solves(h, n, base, g)
    BY <2>1, Recursion
  <2>. QED
    BY <2>2 DEF n, A, base, Solves
<1>4. \A k \in 1..Len(s) : h[k] = IF s[k] \in S THEN h[k - 1] ELSE Append(h[k - 1], s[k])
  <2>. TAKE k \in 1..Len(s)
  <2>1. <<k, h[k - 1]>> \in Nat \X Seq(T)
    <3>1. k \in Nat /\ k - 1 \in 0..Len(s)
      BY <1>2
    <3>. QED
      BY <3>1
  <2>2. h[k] = Next(<<k, h[k - 1]>>)
    BY <1>1, <1>3, <2>1
  <2>. QED
    BY <2>2
<1>. DEFINE F(f) == [n \in 0..Len(s) |->
                       IF n = 0 THEN <<>>
                       ELSE IF s[n] \in S THEN f[n - 1] ELSE Append(f[n - 1], s[n])]
            kept == CHOOSE f : f = F(f)
<1>5. h = F(h)
  <2>1. ASSUME NEW k \in 0..Len(s) PROVE h[k] = F(h)[k]
    <3>1. CASE k = 0
      BY <1>3, <3>1
    <3>2. CASE k # 0
      <4>1. k \in 1..Len(s)
        BY <1>2, <3>2
      <4>. QED
        BY <1>4, <3>2, <4>1
    <3>. QED
      BY <3>1, <3>2
  <2>. QED
    BY <2>1
<1>6. Without(s, S) = kept[Len(s)]
  BY DEF Without
<1>7. kept = F(kept)
  BY <1>5
<1>. HIDE DEF kept
<1>8. /\ kept[0] = <<>>
      /\ \A k \in 1..Len(s) :
            kept[k] = IF s[k] \in S THEN kept[k - 1] ELSE Append(kept[k - 1], s[k])
  <2>1. \A k \in 0..Len(s) : kept[k] = F(kept)[k]
    BY <1>7
  <2>2. kept[0] = <<>>
    BY <1>2, <2>1
  <2>3. ASSUME NEW k \in 1..Len(s)
        PROVE  kept[k] = IF s[k] \in S THEN kept[k - 1] ELSE Append(kept[k - 1], s[k])
    <3>1. k \in 0..Len(s) /\ k # 0
      BY <1>2
    <3>. QED
      BY <2>1, <3>1
  <2>. QED
    BY <2>2, <2>3
<1>. DEFINE Q == {n \in Nat : n <= Len(s) => kept[n] \in Seq(T)}
<1>9. 0 \in Q
  BY <1>2, <1>8
<1>10. ASSUME NEW n \in Nat, n \in Q PROVE n + 1 \in Q
  <2>. SUFFICES ASSUME n + 1 <= Len(s) PROVE kept[n + 1] \in Seq(T)
    OBVIOUS
  <2>1. kept[n] \in Seq(T) /\ n + 1 \in 1..Len(s) /\ (n + 1) - 1 = n
    BY <1>2, <1>10
  <2>2. s[n + 1] \in T
    BY <2>1
  <2>3. kept[n + 1] = IF s[n + 1] \in S THEN kept[n] ELSE Append(kept[n], s[n + 1])
    BY <1>8, <2>1
  <2>. QED
    BY <2>1, <2>2, <2>3
<1>. HIDE DEF Q
<1>11. ASSUME NEW n \in 0..Len(s) PROVE kept[n] \in Seq(T)
  <2>1. n \in Nat /\ n <= Len(s)
    BY <1>2
  <2>2. n \in Q
    BY <1>9, <1>10, <2>1, AllNumbers
  <2>. QED
    BY <2>1, <2>2 DEF Q
<1>12. kept \in [0..Len(s) -> Seq(T)]
  BY <1>7, <1>11
<1>13. Leaves(kept, s, S)
  BY <1>8 DEF Leaves
<1>. HIDE DEF F
<1>. QED
  BY <1>6, <1>12, <1>13

(* It leaves all but what it was to erase.                                  *)
LEMMA WithoutProperties ==
  ASSUME NEW T, NEW s \in Seq(T), NEW S
  PROVE  Without(s, S) \in Seq(T) /\ ToSet(Without(s, S)) = ToSet(s) \ S
<1>2. Len(s) \in Nat /\ <<>> \in Seq(T)
  OBVIOUS
<1>6. PICK kept \in [0..Len(s) -> Seq(T)] : Leaves(kept, s, S) /\ Without(s, S) = kept[Len(s)]
  BY WithoutSteps
<1>8. /\ kept[0] = <<>>
      /\ \A k \in 1..Len(s) :
            kept[k] = IF s[k] \in S THEN kept[k - 1] ELSE Append(kept[k - 1], s[k])
  BY <1>6 DEF Leaves
<1>. DEFINE Q == {n \in Nat : n <= Len(s) =>
                     /\ kept[n] \in Seq(T)
                     /\ ToSet(kept[n]) = {s[i] : i \in 1..n} \ S}
<1>9. 0 \in Q
  <2>1. ToSet(<<>>) = {} /\ {s[i] : i \in 1..0} \ S = {}
    BY DEF ToSet
  <2>2. 0 <= Len(s)
    BY <1>2
  <2>. QED
    BY <1>2, <1>8, <2>1, <2>2
<1>10. ASSUME NEW n \in Nat, n \in Q PROVE n + 1 \in Q
  <2>. SUFFICES ASSUME n + 1 <= Len(s)
                PROVE  /\ kept[n + 1] \in Seq(T)
                       /\ ToSet(kept[n + 1]) = {s[i] : i \in 1..n + 1} \ S
    OBVIOUS
  <2>1. kept[n] \in Seq(T) /\ ToSet(kept[n]) = {s[i] : i \in 1..n} \ S
    BY <1>2, <1>10
  <2>2. kept[n + 1] = IF s[n + 1] \in S THEN kept[n] ELSE Append(kept[n], s[n + 1])
    <3>1. n + 1 \in 1..Len(s) /\ (n + 1) - 1 = n
      BY <1>2
    <3>. QED
      BY <1>8, <3>1
  <2>3. s[n + 1] \in T
    BY <1>2
  <2>4. {s[i] : i \in 1..n + 1} = {s[i] : i \in 1..n} \cup {s[n + 1]}
    <3>1. 1..n + 1 = 1..n \cup {n + 1}
      OBVIOUS
    <3>. QED
      BY <3>1
  <2>5. CASE s[n + 1] \in S
    BY <2>1, <2>2, <2>4, <2>5
  <2>6. CASE s[n + 1] \notin S
    <3>1. /\ Append(kept[n], s[n + 1]) \in Seq(T)
          /\ ToSet(Append(kept[n], s[n + 1])) = ToSet(kept[n]) \cup {s[n + 1]}
      BY <2>1, <2>3, AppendSet
    <3>. QED
      BY <2>1, <2>2, <2>4, <2>6, <3>1
  <2>. QED
    BY <2>5, <2>6
<1>. HIDE DEF Q
<1>11. Len(s) \in Q
  BY <1>2, <1>9, <1>10, AllNumbers
<1>12. {s[i] : i \in 1..Len(s)} = ToSet(s)
  BY DEF ToSet
<1>. QED
  BY <1>2, <1>6, <1>11, <1>12 DEF Q

(* It goes through one sequence and then through the other.                 *)
LEMMA WithoutConcat ==
  ASSUME NEW T, NEW s \in Seq(T), NEW t \in Seq(T), NEW S
  PROVE  Without(s \o t, S) = Without(s, S) \o Without(t, S)
<1>. DEFINE r == s \o t
<1>1. /\ Len(s) \in Nat /\ Len(t) \in Nat /\ Len(r) = Len(s) + Len(t) /\ r \in Seq(T)
      /\ \A i \in 1..Len(s) : r[i] = s[i]
      /\ \A i \in 1..Len(t) : r[Len(s) + i] = t[i]
  <2>1. /\ Len(s) \in Nat /\ Len(t) \in Nat /\ Len(r) = Len(s) + Len(t) /\ r \in Seq(T)
        /\ \A i \in 1..Len(s) + Len(t) : r[i] = IF i <= Len(s) THEN s[i] ELSE t[i - Len(s)]
    BY LenProperties, ConcatProperties
  <2>. HIDE DEF r
  <2>2. ASSUME NEW i \in 1..Len(t) PROVE r[Len(s) + i] = t[i]
    <3>1. /\ Len(s) + i \in 1..Len(s) + Len(t) /\ ~(Len(s) + i <= Len(s))
          /\ (Len(s) + i) - Len(s) = i
      BY <2>1
    <3>. QED
      BY <2>1, <3>1
  <2>3. ASSUME NEW i \in 1..Len(s) PROVE r[i] = s[i]
    <3>1. i \in 1..Len(s) + Len(t) /\ i <= Len(s)
      BY <2>1
    <3>. QED
      BY <2>1, <3>1
  <2>. QED
    BY <2>1, <2>2, <2>3
<1>2. PICK ks \in [0..Len(s) -> Seq(T)] : Leaves(ks, s, S) /\ Without(s, S) = ks[Len(s)]
  BY WithoutSteps
<1>3. PICK kt \in [0..Len(t) -> Seq(T)] : Leaves(kt, t, S) /\ Without(t, S) = kt[Len(t)]
  BY WithoutSteps
<1>. HIDE DEF r
<1>4. PICK kr \in [0..Len(r) -> Seq(T)] : Leaves(kr, r, S) /\ Without(r, S) = kr[Len(r)]
  <2>1. r \in Seq(T)
    BY <1>1
  <2>. QED
    BY <2>1, WithoutSteps
<1>. DEFINE P == {n \in Nat : n <= Len(s) => kr[n] = ks[n]}
<1>5. 0 \in P
  BY <1>2, <1>4 DEF Leaves
<1>6. ASSUME NEW n \in Nat, n \in P PROVE n + 1 \in P
  <2>. SUFFICES ASSUME n + 1 <= Len(s) PROVE kr[n + 1] = ks[n + 1]
    OBVIOUS
  <2>1. /\ n + 1 \in 1..Len(s) /\ n + 1 \in 1..Len(r) /\ (n + 1) - 1 = n
        /\ kr[n] = ks[n] /\ r[n + 1] = s[n + 1]
    BY <1>1, <1>6
  <2>. QED
    BY <1>2, <1>4, <2>1 DEF Leaves
<1>. HIDE DEF P
<1>7. kr[Len(s)] = ks[Len(s)]
  <2>1. Len(s) \in P
    BY <1>1, <1>5, <1>6, AllNumbers
  <2>. QED
    BY <1>1, <2>1 DEF P
<1>8. ks[Len(s)] \in Seq(T)
  BY <1>1, <1>2
<1>. DEFINE G(n) == kr[Len(s) + n] = ks[Len(s)] \o kt[n]
            Q == {n \in Nat : n <= Len(t) => G(n)}
<1>9. 0 \in Q
  <2>1. ks[Len(s)] \o <<>> = ks[Len(s)]
    BY <1>8, ConcatEmptySeq
  <2>2. kt[0] = <<>> /\ Len(s) + 0 = Len(s)
    BY <1>1, <1>3 DEF Leaves
  <2>. QED
    BY <1>7, <2>1, <2>2
<1>10. ASSUME NEW n \in Nat, n \in Q PROVE n + 1 \in Q
  <2>. HIDE DEF G
  <2>. SUFFICES ASSUME n + 1 <= Len(t) PROVE G(n + 1)
    OBVIOUS
  <2>1. /\ n + 1 \in 1..Len(t) /\ Len(s) + (n + 1) \in 1..Len(r)
        /\ (n + 1) - 1 = n /\ (Len(s) + (n + 1)) - 1 = Len(s) + n /\ n \in 0..Len(t)
    <3>1. Len(s) \in Nat /\ Len(t) \in Nat /\ Len(r) = Len(s) + Len(t)
      BY <1>1
    <3>. QED
      BY <3>1
  <2>5. kr[Len(s) + n] = ks[Len(s)] \o kt[n] /\ r[Len(s) + (n + 1)] = t[n + 1]
    <3>1. G(n)
      BY <1>1, <1>10
    <3>. QED
      BY <1>1, <2>1, <3>1 DEF G
  <2>6. t[n + 1] \in T
    BY <2>1
  <2>2. t[n + 1] \in T /\ kt[n] \in Seq(T)
    BY <1>3, <2>1, <2>6
  <2>3. CASE t[n + 1] \in S
    BY <1>3, <1>4, <2>1, <2>3, <2>5 DEF Leaves, G
  <2>4. CASE t[n + 1] \notin S
    <3>1. kr[Len(s) + (n + 1)] = Append(ks[Len(s)] \o kt[n], t[n + 1])
      BY <1>4, <2>1, <2>4, <2>5 DEF Leaves
    <3>2. kt[n + 1] = Append(kt[n], t[n + 1])
      BY <1>3, <2>1, <2>4 DEF Leaves
    <3>3. \A a, b \in Seq(T) : \A e \in T : Append(a \o b, e) = a \o Append(b, e)
      <4>. TAKE a \in Seq(T), b \in Seq(T)
      <4>. TAKE e \in T
      <4>1. a \o b \in Seq(T) /\ <<e>> \in Seq(T)
        BY ConcatProperties
      <4>2. Append(a \o b, e) = (a \o b) \o <<e>> /\ Append(b, e) = b \o <<e>>
        BY <4>1, AppendIsConcat
      <4>3. (a \o b) \o <<e>> = a \o (b \o <<e>>)
        BY SMTT(30), <4>1, ConcatAssociative
      <4>. QED
        BY <4>2, <4>3
    <3>4. Append(ks[Len(s)] \o kt[n], t[n + 1]) = ks[Len(s)] \o Append(kt[n], t[n + 1])
      BY <1>8, <2>2, <3>3
    <3>. QED
      BY <3>1, <3>2, <3>4 DEF G
  <2>. QED
    BY <2>3, <2>4
<1>. HIDE DEF Q, G
<1>11. kr[Len(s) + Len(t)] = ks[Len(s)] \o kt[Len(t)]
  <2>1. Len(t) \in Q
    BY <1>1, <1>9, <1>10, AllNumbers
  <2>. QED
    BY <1>1, <2>1 DEF Q, G
<1>12. Without(r, S) = Without(s, S) \o Without(t, S)
  BY <1>1, <1>2, <1>3, <1>4, <1>11
<1>. QED
  BY <1>12 DEF r

(* One more element is erased or not.                                       *)
LEMMA WithoutOne ==
  ASSUME NEW T, NEW e \in T, NEW S
  PROVE  Without(<<e>>, S) = IF e \in S THEN <<>> ELSE <<e>>
<1>1. <<e>> \in Seq(T) /\ Len(<<e>>) = 1 /\ <<e>>[1] = e /\ Append(<<>>, e) = <<e>>
  OBVIOUS
<1>. DEFINE s == <<e>>
<1>2. s \in Seq(T)
  BY <1>1
<1>. HIDE DEF s
<1>3. PICK k \in [0..Len(s) -> Seq(T)] : Leaves(k, s, S) /\ Without(s, S) = k[Len(s)]
  BY <1>2, WithoutSteps
<1>4. Len(s) = 1 /\ s[1] = e
  BY <1>1 DEF s
<1>5. Without(s, S) = IF e \in S THEN <<>> ELSE Append(<<>>, e)
  BY <1>3, <1>4 DEF Leaves
<1>. QED
  BY <1>1, <1>5 DEF s

LEMMA WithoutAppend ==
  ASSUME NEW T, NEW s \in Seq(T), NEW e \in T, NEW S
  PROVE  Without(Append(s, e), S) = IF e \in S THEN Without(s, S) ELSE Append(Without(s, S), e)
<1>1. <<e>> \in Seq(T) /\ Append(s, e) = s \o <<e>>
  BY AppendIsConcat
<1>2. Without(s, S) \in Seq(T)
  BY WithoutProperties
<1>3. Without(s \o <<e>>, S) = Without(s, S) \o Without(<<e>>, S)
  <2>. DEFINE t == <<e>>
  <2>1. t \in Seq(T)
    BY <1>1
  <2>. HIDE DEF t
  <2>2. Without(s \o t, S) = Without(s, S) \o Without(t, S)
    BY <2>1, WithoutConcat
  <2>. QED
    BY <2>2 DEF t
<1>4. Without(s, S) \o <<>> = Without(s, S) /\ Without(s, S) \o <<e>> = Append(Without(s, S), e)
  BY <1>2, ConcatEmptySeq, AppendIsConcat
<1>5. Without(<<e>>, S) = IF e \in S THEN <<>> ELSE <<e>>
  BY WithoutOne
<1>. QED
  BY <1>1, <1>3, <1>4, <1>5

(* The first element is what is left first, or is erased.                   *)
LEMMA WithoutHead ==
  ASSUME NEW T, NEW s \in Seq(T), s # <<>>, NEW S
  PROVE  Without(s, S) = IF Head(s) \in S THEN Without(Tail(s), S)
                         ELSE <<Head(s)>> \o Without(Tail(s), S)
<1>1. Head(s) \in T /\ Tail(s) \in Seq(T) /\ <<Head(s)>> \in Seq(T) /\ s = <<Head(s)>> \o Tail(s)
  OBVIOUS
<1>2. Without(Tail(s), S) \in Seq(T)
  BY <1>1, WithoutProperties
<1>3. Without(<<Head(s)>> \o Tail(s), S) = Without(<<Head(s)>>, S) \o Without(Tail(s), S)
  <2>. DEFINE h == <<Head(s)>>
              t == Tail(s)
  <2>1. h \in Seq(T) /\ t \in Seq(T)
    BY <1>1
  <2>. HIDE DEF h, t
  <2>2. Without(h \o t, S) = Without(h, S) \o Without(t, S)
    BY <2>1, WithoutConcat
  <2>. QED
    BY <2>2 DEF h, t
<1>4. <<>> \o Without(Tail(s), S) = Without(Tail(s), S)
  BY <1>2, ConcatEmptySeq
<1>5. Without(<<Head(s)>>, S) = IF Head(s) \in S THEN <<>> ELSE <<Head(s)>>
  BY <1>1, WithoutOne
<1>. QED
  BY <1>1, <1>3, <1>4, <1>5

(* A finite set put in some order is a sequence of just its elements.        *)
LEMMA SetToSeqProperties ==
  ASSUME NEW T, IsFiniteSet(T)
  PROVE  SetToSeq(T) \in Seq(T) /\ ToSet(SetToSeq(T)) = T
<1>. DEFINE n == Cardinality(T)
            f == SetToSeq(T)
<1>1. n \in Nat /\ ExistsBijection(1..n, T)
  BY FS_CardinalityType
<1>2. PICK b \in [1..n -> T] : IsInjective(b)
  BY <1>1 DEF ExistsBijection, Bijection, Injection
<1>3. f \in [1..n -> T] /\ IsInjective(f)
  BY <1>2 DEF SetToSeq
<1>. HIDE DEF f
<1>4. f \in Injection(1..n, T)
  BY <1>3 DEF Injection
<1>5. Cardinality(1..n) = n
  BY <1>1, FS_Interval
<1>6. f \in Surjection(1..n, T)
  BY <1>4, <1>5, FS_Injection
<1>7. f \in Seq(T)
  BY <1>1, <1>3
<1>8. ToSet(f) = T
  BY <1>3, <1>6 DEF Surjection, ToSet
<1>. QED
  BY <1>7, <1>8 DEF f

\* A set that has a number whenever it has all the smaller ones has all.
LEMMA AllFromSmaller ==
  ASSUME NEW T, \A n \in Nat : (\A k \in Nat : k < n => k \in T) => n \in T
  PROVE  Nat \subseteq T
<1>1. SUFFICES ASSUME Nat \ T # {} PROVE FALSE
  OBVIOUS
<1>2. PICK n \in Nat \ T : \A k \in Nat \ T : n <= k
  BY <1>1, LeastNumber
<1>3. \A k \in Nat : k < n => k \in T
  BY <1>2
<1>4. QED
  BY <1>2, <1>3

\* A tenth is less.
LEMMA DivisionGoesDown == \A n \in Nat : n >= 10 => n \div 10 \in Nat /\ n \div 10 < n
OBVIOUS

\* Two sequences, one after the other.
LEMMA Both ==
  ASSUME NEW S, NEW s \in Seq(S), NEW t \in Seq(S)
  PROVE  /\ Len(s) \in Nat /\ Len(t) \in Nat
         /\ s \o t \in Seq(S) /\ Len(s \o t) = Len(s) + Len(t)
         /\ \A i \in 1..Len(s) : (s \o t)[i] = s[i]
         /\ \A i \in 1..Len(t) : (s \o t)[Len(s) + i] = t[i]
<1>1. /\ Len(s) \in Nat /\ Len(t) \in Nat /\ s \o t \in Seq(S)
      /\ Len(s \o t) = Len(s) + Len(t)
      /\ \A i \in 1..Len(s) + Len(t) : (s \o t)[i] = IF i <= Len(s) THEN s[i] ELSE t[i - Len(s)]
  BY ConcatProperties, LenProperties
<1>2. ASSUME NEW i \in 1..Len(s) PROVE (s \o t)[i] = s[i]
  <2>1. i \in 1..Len(s) + Len(t) /\ i <= Len(s)
    BY <1>1
  <2>. QED
    BY <1>1, <2>1
<1>3. ASSUME NEW i \in 1..Len(t) PROVE (s \o t)[Len(s) + i] = t[i]
  <2>1. /\ Len(s) + i \in 1..Len(s) + Len(t) /\ ~(Len(s) + i <= Len(s))
        /\ (Len(s) + i) - Len(s) = i
    BY <1>1
  <2>. QED
    BY <1>1, <2>1
<1>. QED
  BY <1>1, <1>2, <1>3

\* What FlattenSeq has joined after each of the sequences.
LEMMA FlattenSteps ==
  ASSUME NEW T, NEW s \in Seq(Seq(T))
  PROVE  \E v \in [0..Len(s) -> Seq(T)] :
            /\ v[0] = <<>> /\ \A k \in 1..Len(s) : v[k] = v[k - 1] \o s[k]
            /\ FlattenSeq(s) = v[Len(s)]
<1>. DEFINE Step(p) == IF p[1] \in 1..Len(s) THEN p[2] \o s[p[1]] ELSE <<>>
            F(f) == [i \in 1..Len(s) |-> IF i = 1 THEN s[i] ELSE f[i - 1] \o s[i]]
<1>1. Len(s) \in Nat /\ <<>> \in Seq(T) /\ \A k \in 1..Len(s) : s[k] \in Seq(T)
  OBVIOUS
<1>2. PICK g \in [Nat \X Seq(T) -> Seq(T)] : g = [p \in Nat \X Seq(T) |-> Step(p)]
  <2>1. \A p \in Nat \X Seq(T) : Step(p) \in Seq(T)
    BY <1>1
  <2>. QED
    BY <2>1
<1>3. PICK h \in [0..Len(s) -> Seq(T)] : Solves(h, Len(s), <<>>, g)
  <2>. DEFINE n == Len(s)
              A == Seq(T)
              base == <<>>
  <2>1. n \in Nat /\ base \in A /\ g \in [Nat \X A -> A]
    BY <1>1
  <2>. HIDE DEF n, A, base
  <2>2. \E h \in [0..n -> A] : Solves(h, n, base, g)
    BY <2>1, Recursion
  <2>. QED
    BY <2>2 DEF n, A, base
<1>4. h[0] = <<>> /\ \A k \in 1..Len(s) : h[k] = h[k - 1] \o s[k] /\ h[k - 1] \in Seq(T)
  <2>1. h[0] = <<>>
    BY <1>3 DEF Solves
  <2>2. ASSUME NEW k \in 1..Len(s) PROVE h[k] = h[k - 1] \o s[k] /\ h[k - 1] \in Seq(T)
    <3>1. k \in Nat /\ k - 1 \in 0..Len(s)
      BY <1>1
    <3>2. <<k, h[k - 1]>> \in Nat \X Seq(T)
      BY <3>1
    <3>3. h[k] = Step(<<k, h[k - 1]>>)
      BY <1>2, <1>3, <3>2 DEF Solves
    <3>. QED
      BY <3>1, <3>3
  <2>. QED
    BY <2>1, <2>2
<1>5. CASE s = <<>>
  BY <1>1, <1>4, <1>5 DEF FlattenSeq
<1>6. CASE s # <<>>
  <2>. DEFINE flatten == CHOOSE f : f = F(f)
              r == [k \in 1..Len(s) |-> h[k]]
  <2>0. Len(s) >= 1
    BY <1>6
  <2>1. FlattenSeq(s) = flatten[Len(s)]
    BY <2>0 DEF FlattenSeq
  <2>2. r = F(r)
    <3>1. ASSUME NEW k \in 1..Len(s) PROVE r[k] = F(r)[k]
      <4>1. CASE k = 1
        <5>0. 1 \in 1..Len(s) /\ 1 - 1 = 0
          BY <1>1, <2>0
        <5>1. h[1] = h[0] \o s[1]
          BY <1>4, <5>0
        <5>2. <<>> \o s[1] = s[1]
          BY <1>1, <5>0
        <5>. QED
          BY <1>4, <4>1, <5>1, <5>2
      <4>2. CASE k # 1
        <5>1. k - 1 \in 1..Len(s)
          BY <1>1, <4>2
        <5>. QED
          BY <1>4, <4>2, <5>1
      <4>. QED
        BY <4>1, <4>2
    <3>. QED
      BY <3>1
  <2>3. flatten = F(flatten)
    BY <2>2
  <2>. HIDE DEF flatten, r
  <2>4. /\ flatten[1] = s[1]
        /\ \A k \in 1..Len(s) : k # 1 => flatten[k] = flatten[k - 1] \o s[k]
    <3>1. \A k \in 1..Len(s) : flatten[k] = F(flatten)[k]
      BY <2>3
    <3>2. 1 \in 1..Len(s)
      BY <1>1, <2>0
    <3>. QED
      BY <3>1, <3>2
  <2>. HIDE DEF F
  <2>. DEFINE R == {n \in Nat : n + 1 <= Len(s) => flatten[n + 1] = h[n + 1]}
  <2>5. 0 \in R
    <3>0. 1 \in 1..Len(s) /\ 1 - 1 = 0
      BY <1>1, <2>0
    <3>1. h[1] = h[0] \o s[1] /\ s[1] \in Seq(T)
      BY <1>1, <1>4, <3>0
    <3>2. h[1] = s[1]
      BY <1>4, <3>1
    <3>. QED
      BY <2>4, <3>2
  <2>6. ASSUME NEW n \in Nat, n \in R PROVE n + 1 \in R
    <3>. SUFFICES ASSUME (n + 1) + 1 <= Len(s) PROVE flatten[(n + 1) + 1] = h[(n + 1) + 1]
      OBVIOUS
    <3>1. (n + 1) + 1 \in 1..Len(s) /\ ((n + 1) + 1) - 1 = n + 1 /\ (n + 1) + 1 # 1
      BY <1>1
    <3>2. flatten[n + 1] = h[n + 1]
      BY <1>1, <2>6
    <3>3. flatten[(n + 1) + 1] = flatten[n + 1] \o s[(n + 1) + 1]
      BY <2>4, <3>1
    <3>4. h[(n + 1) + 1] = h[n + 1] \o s[(n + 1) + 1]
      BY <1>4, <3>1
    <3>. QED
      BY <3>2, <3>3, <3>4
  <2>. HIDE DEF R
  <2>7. Len(s) - 1 \in R
    <3>1. Len(s) - 1 \in Nat
      BY <1>1, <2>0
    <3>. QED
      BY <2>5, <2>6, <3>1, AllNumbers
  <2>8. flatten[Len(s)] = h[Len(s)]
    BY <1>1, <2>7 DEF R
  <2>. QED
    BY <1>4, <2>1, <2>8
<1>. QED
  BY <1>5, <1>6

LEMMA FlattenAppend ==
  ASSUME NEW T, NEW s \in Seq(Seq(T)), NEW c \in Seq(T)
  PROVE  /\ FlattenSeq(Append(s, c)) = FlattenSeq(s) \o c
         /\ FlattenSeq(s) \in Seq(T) /\ FlattenSeq(Append(s, c)) \in Seq(T)
<1>. DEFINE t == Append(s, c)
            A == Seq(T)
<1>1. /\ t \in Seq(A) /\ Len(t) = Len(s) + 1 /\ Len(s) \in Nat
      /\ t[Len(s) + 1] = c /\ \A k \in 1..Len(s) : t[k] = s[k]
  OBVIOUS
<1>. HIDE DEF t
<1>2. PICK v \in [0..Len(s) -> Seq(T)] :
        /\ v[0] = <<>> /\ \A k \in 1..Len(s) : v[k] = v[k - 1] \o s[k]
        /\ FlattenSeq(s) = v[Len(s)]
  BY FlattenSteps
<1>3. PICK w \in [0..Len(t) -> Seq(T)] :
        /\ w[0] = <<>> /\ \A k \in 1..Len(t) : w[k] = w[k - 1] \o t[k]
        /\ FlattenSeq(t) = w[Len(t)]
  BY <1>1, FlattenSteps
<1>. DEFINE R == {n \in Nat : n <= Len(s) => v[n] = w[n]}
<1>4. 0 \in R
  BY <1>2, <1>3
<1>5. ASSUME NEW n \in Nat, n \in R PROVE n + 1 \in R
  <2>. SUFFICES ASSUME n + 1 <= Len(s) PROVE v[n + 1] = w[n + 1]
    OBVIOUS
  <2>1. /\ n + 1 \in 1..Len(s) /\ n + 1 \in 1..Len(t) /\ (n + 1) - 1 = n /\ v[n] = w[n]
        /\ t[n + 1] = s[n + 1]
    BY <1>1, <1>5
  <2>2. v[n + 1] = v[n] \o s[n + 1]
    BY <1>2, <2>1
  <2>3. w[n + 1] = w[n] \o t[n + 1]
    BY <1>3, <2>1
  <2>. QED
    BY <2>1, <2>2, <2>3
<1>. HIDE DEF R
<1>6. Len(s) \in R
  BY <1>1, <1>4, <1>5, AllNumbers
<1>7. v[Len(s)] = w[Len(s)] /\ v[Len(s)] \in Seq(T)
  BY <1>1, <1>6 DEF R
<1>8. w[Len(s) + 1] = w[Len(s)] \o c /\ w[Len(s) + 1] \in Seq(T)
  <2>1. Len(s) + 1 \in 1..Len(t) /\ (Len(s) + 1) - 1 = Len(s) /\ Len(s) + 1 \in 0..Len(t)
    BY <1>1
  <2>. QED
    BY <1>1, <1>3, <2>1
<1>. QED
  BY <1>1, <1>2, <1>3, <1>7, <1>8 DEF t

\* Nothing, one, two and three of them.
LEMMA FlattenFew ==
  ASSUME NEW T, NEW s \in Seq(Seq(T))
  PROVE  /\ Len(s) = 0 => FlattenSeq(s) = <<>>
         /\ Len(s) = 1 => FlattenSeq(s) = s[1]
         /\ Len(s) = 2 => FlattenSeq(s) = s[1] \o s[2]
         /\ Len(s) = 3 => FlattenSeq(s) = (s[1] \o s[2]) \o s[3]
<1>1. PICK v \in [0..Len(s) -> Seq(T)] :
            /\ v[0] = <<>> /\ \A k \in 1..Len(s) : v[k] = v[k - 1] \o s[k]
            /\ FlattenSeq(s) = v[Len(s)]
  BY FlattenSteps
<1>2. Len(s) >= 1 => s[1] \in Seq(T) /\ <<>> \o s[1] = s[1] /\ v[1] = v[0] \o s[1]
  <2>. SUFFICES ASSUME Len(s) >= 1 PROVE s[1] \in Seq(T) /\ <<>> \o s[1] = s[1] /\ v[1] = v[0] \o s[1]
    OBVIOUS
  <2>1. 1 \in 1..Len(s) /\ 1 - 1 = 0
    OBVIOUS
  <2>2. s[1] \in Seq(T)
    BY <2>1
  <2>3. <<>> \o s[1] = s[1]
    BY <2>2
  <2>. QED
    BY <1>1, <2>1, <2>2, <2>3
<1>3. Len(s) >= 2 => v[2] = v[1] \o s[2]
  <2>. SUFFICES ASSUME Len(s) >= 2 PROVE v[2] = v[1] \o s[2]
    OBVIOUS
  <2>1. 2 \in 1..Len(s) /\ 2 - 1 = 1
    OBVIOUS
  <2>. QED
    BY <1>1, <2>1
<1>4. Len(s) >= 3 => v[3] = v[2] \o s[3]
  <2>. SUFFICES ASSUME Len(s) >= 3 PROVE v[3] = v[2] \o s[3]
    OBVIOUS
  <2>1. 3 \in 1..Len(s) /\ 3 - 1 = 2
    OBVIOUS
  <2>. QED
    BY <1>1, <2>1
<1>5. ASSUME Len(s) = 3 PROVE FlattenSeq(s) = (s[1] \o s[2]) \o s[3]
  <2>1. Len(s) >= 1 /\ Len(s) >= 2 /\ Len(s) >= 3
    BY <1>5
  <2>2. v[1] = s[1] /\ v[2] = v[1] \o s[2] /\ v[3] = v[2] \o s[3]
    BY <1>1, <1>2, <1>3, <1>4, <2>1
  <2>. QED
    BY <1>1, <1>5, <2>2
<1>6. ASSUME Len(s) = 2 PROVE FlattenSeq(s) = s[1] \o s[2]
  <2>1. Len(s) >= 1 /\ Len(s) >= 2
    BY <1>6
  <2>2. v[1] = s[1] /\ v[2] = v[1] \o s[2]
    BY <1>1, <1>2, <1>3, <2>1
  <2>. QED
    BY <1>1, <1>6, <2>2
<1>7. ASSUME Len(s) = 1 PROVE FlattenSeq(s) = s[1]
  <2>1. Len(s) >= 1
    BY <1>7
  <2>. QED
    BY <1>1, <1>2, <1>7, <2>1
<1>8. ASSUME Len(s) = 0 PROVE FlattenSeq(s) = <<>>
  BY <1>1, <1>8
<1>. QED
  BY <1>5, <1>6, <1>7, <1>8

\* What follows the first a elements of s, up to the first b.
Span(s, a, b) == SubSeq(s, a + 1, b)

\* Its length and its elements.
LEMMA SpanProperties ==
  ASSUME NEW S, NEW s \in Seq(S), NEW a \in Nat, NEW b \in Nat, a <= b, b <= Len(s)
  PROVE  /\ Span(s, a, b) \in Seq(S) /\ Len(Span(s, a, b)) = b - a
         /\ \A i \in 1..b - a : Span(s, a, b)[i] = s[a + i]
<1>1. /\ a + 1 \in Int /\ b \in Int /\ \A i \in a + 1..b : s[i] \in S
      /\ (IF a + 1 <= b THEN b - (a + 1) + 1 ELSE 0) = b - a
      /\ b - (a + 1) + 1 = b - a
      /\ \A i \in 1..b - a : (a + 1) + i - 1 = a + i
  OBVIOUS
<1>2. /\ SubSeq(s, a + 1, b) \in Seq(S)
      /\ Len(SubSeq(s, a + 1, b)) = IF a + 1 <= b THEN b - (a + 1) + 1 ELSE 0
      /\ \A i \in 1..b - (a + 1) + 1 : SubSeq(s, a + 1, b)[i] = s[(a + 1) + i - 1]
  BY <1>1, SubSeqProperties
<1>. QED
  BY <1>1, <1>2 DEF Span

\* A sequence with the same elements is that part.
LEMMA SpanIs ==
  ASSUME NEW S, NEW s \in Seq(S), NEW a \in Nat, NEW b \in Nat, a <= b, b <= Len(s),
         NEW t \in Seq(S), Len(t) = b - a, \A i \in 1..b - a : t[i] = s[a + i]
  PROVE  t = Span(s, a, b)
<1>1. /\ Span(s, a, b) \in Seq(S) /\ Len(Span(s, a, b)) = b - a
      /\ \A i \in 1..b - a : Span(s, a, b)[i] = s[a + i]
  BY SpanProperties
<1>. QED
  BY <1>1, SeqEqual

\* Two parts that touch are one.
LEMMA SpansJoin ==
  ASSUME NEW S, NEW s \in Seq(S), NEW a \in Nat, NEW b \in Nat, NEW c \in Nat,
         a <= b, b <= c, c <= Len(s)
  PROVE  Span(s, a, b) \o Span(s, b, c) = Span(s, a, c)
<1>. DEFINE x == Span(s, a, b)
            y == Span(s, b, c)
<1>1. /\ x \in Seq(S) /\ Len(x) = b - a /\ \A i \in 1..b - a : x[i] = s[a + i]
      /\ y \in Seq(S) /\ Len(y) = c - b /\ \A i \in 1..c - b : y[i] = s[b + i]
  <2>1. b <= Len(s)
    OBVIOUS
  <2>. QED
    BY <2>1, SpanProperties
<1>. HIDE DEF x, y
<1>2. /\ x \o y \in Seq(S) /\ Len(x \o y) = Len(x) + Len(y)
      /\ \A i \in 1..Len(x) : (x \o y)[i] = x[i]
      /\ \A i \in 1..Len(y) : (x \o y)[Len(x) + i] = y[i]
  <2>1. x \in Seq(S) /\ y \in Seq(S)
    BY <1>1
  <2>. QED
    BY <2>1, Both
<1>3. Len(x \o y) = c - a
  BY <1>1, <1>2
<1>4. ASSUME NEW i \in 1..c - a PROVE (x \o y)[i] = s[a + i]
  <2>1. CASE i <= b - a
    <3>1. i \in 1..b - a
      BY <2>1
    <3>. QED
      BY <1>1, <1>2, <3>1
  <2>2. CASE ~(i <= b - a)
    <3>1. i - (b - a) \in 1..c - b /\ (b - a) + (i - (b - a)) = i /\ b + (i - (b - a)) = a + i
      BY <2>2
    <3>2. (x \o y)[(b - a) + (i - (b - a))] = y[i - (b - a)]
      BY <1>1, <1>2, <3>1
    <3>. QED
      BY <1>1, <3>1, <3>2
  <2>. QED
    BY <2>1, <2>2
<1>5. x \o y = Span(s, a, c)
  <2>1. a <= c
    OBVIOUS
  <2>. QED
    BY <1>2, <1>3, <1>4, <2>1, SpanIs
<1>. QED
  BY <1>5 DEF x, y

\* A part of a part, from the front and from the back.
LEMMA SpanCut ==
  ASSUME NEW S, NEW s \in Seq(S), NEW a \in Nat, NEW b \in Nat, a <= b, b <= Len(s),
         NEW c \in Nat, a <= c, c <= b
  PROVE  /\ SubSeq(Span(s, a, b), 1, c - a) = Span(s, a, c)
         /\ SubSeq(Span(s, a, b), (c - a) + 1, Len(Span(s, a, b))) = Span(s, c, b)
<1>. DEFINE k == c - a
<1>8. k \in Nat /\ c = a + k /\ k <= b - a
  OBVIOUS
<1>. HIDE DEF k
<1>. DEFINE x == Span(s, a, b)
<1>1. x \in Seq(S) /\ Len(x) = b - a /\ \A i \in 1..b - a : x[i] = s[a + i]
  BY SpanProperties
<1>. HIDE DEF x
<1>. DEFINE n == b - a
            z == 0
<1>0. /\ n \in Nat /\ k <= n /\ n = Len(x) /\ z \in Nat /\ z <= k /\ k <= Len(x) /\ x \in Seq(S)
      /\ n - k \in Nat /\ k - z = k /\ n <= Len(x)
  BY <1>1, <1>8
<1>10. \A i \in Nat : z + i = i
  OBVIOUS
<1>7. \A i \in 1..n : x[i] = s[a + i]
  BY <1>1
<1>9. n = b - a
  OBVIOUS
<1>. HIDE DEF z, n
<1>2. /\ Span(x, z, k) \in Seq(S) /\ Len(Span(x, z, k)) = k - z
      /\ \A i \in 1..k - z : Span(x, z, k)[i] = x[z + i]
  <2>1. k \in Nat /\ z \in Nat /\ z <= k /\ k <= Len(x) /\ x \in Seq(S)
    BY <1>0, <1>8
  <2>. QED
    BY ONLY <2>1, SpanProperties, ZenonT(30)
<1>4. Span(x, z, k) = Span(s, a, c)
  <2>1. /\ c \in Nat /\ a <= c /\ c <= Len(s) /\ c - a = k
        /\ \A i \in 1..k : i \in 1..n
    BY <1>0, <1>8, <1>9
  <2>2. ASSUME NEW i \in 1..c - a PROVE Span(x, z, k)[i] = s[a + i]
    <3>1. i \in 1..k /\ i \in 1..n /\ i \in 1..k - z /\ z + i = i
      BY <1>0, <1>10, <2>1
    <3>. QED
      BY <1>2, <1>7, <3>1
  <2>3. Len(Span(x, z, k)) = c - a
    BY <1>0, <1>2, <2>1
  <2>. DEFINE t == Span(x, z, k)
  <2>5. /\ t \in Seq(S) /\ c \in Nat /\ a <= c /\ c <= Len(s) /\ a \in Nat /\ s \in Seq(S)
        /\ Len(t) = c - a /\ \A i \in 1..c - a : t[i] = s[a + i]
    BY <1>2, <2>1, <2>2, <2>3
  <2>. HIDE DEF t
  <2>4. t = Span(s, a, c)
    BY ONLY <2>5, SpanIs
  <2>. QED
    BY <2>4 DEF t
<1>3. /\ Span(x, k, n) \in Seq(S) /\ Len(Span(x, k, n)) = n - k
      /\ \A i \in 1..n - k : Span(x, k, n)[i] = x[k + i]
  <2>1. k \in Nat /\ n \in Nat /\ k <= n /\ n <= Len(x) /\ x \in Seq(S)
    BY <1>0, <1>8
  <2>. QED
    BY ONLY <2>1, SpanProperties, ZenonT(30)
<1>5. Span(x, k, n) = Span(s, c, b)
  <2>1. /\ c \in Nat /\ c <= b /\ b - c = n - k
        /\ \A i \in 1..n - k : k + i \in 1..n /\ a + (k + i) = c + i
    BY <1>0, <1>8, <1>9
  <2>2. ASSUME NEW i \in 1..b - c PROVE Span(x, k, n)[i] = s[c + i]
    <3>1. i \in 1..n - k /\ k + i \in 1..n /\ a + (k + i) = c + i
      BY <2>1
    <3>. QED
      BY <1>3, <1>7, <3>1
  <2>3. Len(Span(x, k, n)) = b - c
    BY <1>3, <2>1
  <2>. QED
    BY <1>3, <2>1, <2>2, <2>3, SpanIs, ZenonT(30)
<1>6. Span(x, z, k) = SubSeq(x, 1, k) /\ Span(x, k, n) = SubSeq(x, k + 1, Len(x))
  BY <1>0 DEF Span, z
<1>. QED
  BY <1>4, <1>5, <1>6 DEF x, k

\* t begins with s, element by element ...
Begins(s, t) == Len(s) <= Len(t) /\ \A i \in 1..Len(s) : s[i] = t[i]

\* ... which is to say that s is a prefix.
LEMMA BeginsIsPrefix ==
  ASSUME NEW T, NEW x \in Seq(T), NEW y \in Seq(T), Begins(x, y)
  PROVE  IsPrefix(x, y)
<1>. DEFINE m == Len(x)
            z == 0
            u == Span(x, z, m)
            w == Span(y, z, m)
<1>1. /\ m \in Nat /\ z \in Nat /\ z <= m /\ m - z = m /\ m <= Len(y) /\ m <= Len(x)
      /\ \A i \in 1..m : x[i] = y[i]
  BY DEF Begins
<1>2. \A i \in 1..m - z : z + i = i
  OBVIOUS
<1>. HIDE DEF m, z, u, w
<1>3. u \in Seq(T) /\ Len(u) = m - z /\ \A i \in 1..m - z : u[i] = x[z + i]
  <2>1. x \in Seq(T) /\ z \in Nat /\ m \in Nat /\ z <= m /\ m <= Len(x)
    BY <1>1
  <2>. QED
    BY ONLY <2>1, SpanProperties, ZenonT(30) DEF u
<1>4. w \in Seq(T) /\ Len(w) = m - z /\ \A i \in 1..m - z : w[i] = y[z + i]
  <2>1. y \in Seq(T) /\ z \in Nat /\ m \in Nat /\ z <= m /\ m <= Len(y)
    BY <1>1
  <2>. QED
    BY ONLY <2>1, SpanProperties, ZenonT(30) DEF w
<1>5. \A i \in 1..m - z : u[i] = w[i]
  <2>1. ASSUME NEW i \in 1..m - z PROVE u[i] = w[i]
    <3>1. z + i = i /\ i \in 1..m
      BY <1>1, <1>2
    <3>. QED
      BY <1>1, <1>3, <1>4, <3>1
  <2>. QED
    BY <2>1
<1>6. u = w
  BY <1>3, <1>4, <1>5, SeqEqual
<1>7. SubSeq(x, 1, Len(x)) = SubSeq(y, 1, Len(x)) /\ Len(x) <= Len(y)
  BY <1>1, <1>6 DEF u, w, Span, z, m
<1>. QED
  BY <1>7 DEF IsPrefix

\* A shorter part begins the longer one.
LEMMA SpansBegin ==
  ASSUME NEW T, NEW s \in Seq(T), NEW b \in Nat, NEW c \in Nat, b <= c, c <= Len(s)
  PROVE  IsPrefix(Span(s, 0, b), Span(s, 0, c))
<1>. DEFINE z == 0
            x == Span(s, z, b)
            y == Span(s, z, c)
<1>1. /\ z \in Nat /\ z <= b /\ z <= c /\ b <= Len(s) /\ b - z = b /\ c - z = c
      /\ \A i \in 1..b : i \in 1..c
  OBVIOUS
<1>. HIDE DEF z
<1>2. x \in Seq(T) /\ Len(x) = b - z /\ \A i \in 1..b - z : x[i] = s[z + i]
  BY <1>1, SpanProperties
<1>3. y \in Seq(T) /\ Len(y) = c - z /\ \A i \in 1..c - z : y[i] = s[z + i]
  BY <1>1, SpanProperties
<1>. HIDE DEF x, y
<1>4. Begins(x, y)
  BY <1>1, <1>2, <1>3 DEF Begins
<1>5. IsPrefix(x, y)
  BY <1>2, <1>3, <1>4, BeginsIsPrefix
<1>. QED
  BY <1>5 DEF x, y, z

\* Few of them.
LEMMA Tuples ==
  ASSUME NEW T, NEW x \in T, NEW y \in T, NEW z \in T
  PROVE  /\ <<x>> \in Seq(T) /\ <<x>> # <<>> /\ Len(<<x>>) = 1
         /\ Head(<<x>>) = x /\ Tail(<<x>>) = <<>>
         /\ <<x, y>> \in Seq(T) /\ <<x, y>> # <<>> /\ Len(<<x, y>>) = 2
         /\ Head(<<x, y>>) = x /\ Tail(<<x, y>>) = <<y>>
         /\ <<x, y, z>> \in Seq(T) /\ <<x, y, z>> # <<>> /\ Len(<<x, y, z>>) = 3
         /\ Head(<<x, y, z>>) = x /\ Tail(<<x, y, z>>) = <<y, z>>
OBVIOUS

\* Nothing is left of nothing.
LEMMA NothingLeft == \A S : Without(<<>>, S) = <<>>
<1>1. SUFFICES ASSUME NEW S PROVE Without(<<>>, S) = <<>>
  OBVIOUS
<1>. DEFINE s == <<>>
<1>2. s \in Seq(Int) /\ Len(s) = 0
  OBVIOUS
<1>. HIDE DEF s
<1>3. PICK k \in [0..Len(s) -> Seq(Int)] : Leaves(k, s, S) /\ Without(s, S) = k[Len(s)]
  BY <1>2, WithoutSteps
<1>. QED
  BY <1>2, <1>3 DEF Leaves, s

\* What is left of the first elements begins what is left of all.
LEMMA WithoutPrefix ==
  ASSUME NEW T, NEW s \in Seq(T), NEW k \in 0..Len(s), NEW S
  PROVE  IsPrefix(Without(SubSeq(s, 1, k), S), Without(s, S))
<1>. DEFINE z == 0
            n == Len(s)
            a == Span(s, z, k)
            b == Span(s, k, n)
            c == Span(s, z, n)
<1>1. /\ z \in Nat /\ k \in Nat /\ n \in Nat /\ z <= k /\ k <= n /\ z <= n /\ n <= Len(s)
      /\ k <= Len(s) /\ n - z = Len(s)
      /\ \A i \in 1..n - z : z + i = i
  OBVIOUS
<1>. HIDE DEF z, n
<1>2. a \in Seq(T) /\ b \in Seq(T)
  BY <1>1, SpanProperties
<1>3. a \o b = c
  BY <1>1, SpansJoin
<1>4. c \in Seq(T) /\ Len(c) = n - z /\ \A i \in 1..n - z : c[i] = s[z + i]
  <2>1. s \in Seq(T) /\ z \in Nat /\ n \in Nat /\ z <= n /\ n <= Len(s)
    BY <1>1
  <2>. QED
    BY ONLY <2>1, SpanProperties, ZenonT(30)
<1>. HIDE DEF a, b, c
<1>5. c = s
  <2>1. ASSUME NEW i \in 1..Len(s) PROVE c[i] = s[i]
    <3>1. i \in 1..n - z /\ z + i = i
      BY <1>1
    <3>. QED
      BY <1>4, <3>1
  <2>2. Len(c) = Len(s)
    BY <1>1, <1>4
  <2>. QED
    BY <1>4, <2>1, <2>2, SeqEqual
<1>. DEFINE x == Without(a, S)
            y == Without(b, S)
<1>6. Without(s, S) = x \o y
  <2>1. Without(a \o b, S) = Without(a, S) \o Without(b, S)
    BY ONLY <1>2, WithoutConcat
  <2>. QED
    BY <1>3, <1>5, <2>1
<1>7. x \in Seq(T) /\ y \in Seq(T)
  BY <1>2, WithoutProperties
<1>. HIDE DEF x, y
<1>8. /\ x \o y \in Seq(T) /\ Len(x \o y) = Len(x) + Len(y) /\ Len(x) \in Nat /\ Len(y) \in Nat
      /\ \A i \in 1..Len(x) : (x \o y)[i] = x[i]
  BY <1>7, Both
<1>9. Begins(x, x \o y)
  <2>. DEFINE t == x \o y
  <2>1. /\ Len(t) = Len(x) + Len(y) /\ Len(x) \in Nat /\ Len(y) \in Nat
        /\ \A i \in 1..Len(x) : t[i] = x[i]
    BY <1>8
  <2>. HIDE DEF t
  <2>2. Begins(x, t)
    BY <2>1 DEF Begins
  <2>. QED
    BY <2>2 DEF t
<1>10. IsPrefix(x, x \o y)
  BY <1>7, <1>8, <1>9, BeginsIsPrefix
<1>. QED
  BY <1>6, <1>10 DEF x, a, Span, z

-------------------------------------------------------------------------------
(* Going up from an element to another one, until there is none. *)

(* What h says of an element comes from what it says of the one above.       *)
Climbs(h, S, up, base, g) ==
  \A c \in S : h[c] = IF up[c] \in S THEN g[<<c, h[up[c]]>>] ELSE base

(* If nothing is above itself, there is such a function.                     *)
LEMMA ClimbsExist ==
  ASSUME NEW S, NEW T, NEW up, NEW base \in T, NEW g \in [S \X T -> T],
         NEW n \in Nat, NEW rank \in [S -> 0..n],
         \A c \in S : up[c] \in S => rank[up[c]] < rank[c]
  PROVE  \E h \in [S -> T] : Climbs(h, S, up, base, g)
<1>. DEFINE A == [S -> T]
            Higher(f) == [c \in S |-> IF up[c] \in S THEN g[<<c, f[up[c]]>>] ELSE base]
            bottom == [c \in S |-> base]
            G == [p \in Nat \X A |-> Higher(p[2])]
<1>1. \A f \in A : Higher(f) \in A
  OBVIOUS
<1>2. bottom \in A /\ G \in [Nat \X A -> A]
  BY <1>1
<1>3. \A k \in Nat, f \in A : G[<<k, f>>] = Higher(f)
  OBVIOUS
<1>. HIDE DEF A, Higher, G, bottom
<1>4. PICK H \in [0..n + 2 -> A] : Solves(H, n + 2, bottom, G)
  <2>1. n + 2 \in Nat
    OBVIOUS
  <2>. QED
    BY <1>2, <2>1, Recursion
<1>5. \A k \in 0..n + 1 : H[k] \in A /\ H[k + 1] = Higher(H[k])
  <2>1. ASSUME NEW k \in 0..n + 1 PROVE H[k] \in A /\ H[k + 1] = Higher(H[k])
    <3>1. k \in Nat /\ k \in 0..n + 2 /\ k + 1 \in 1..n + 2 /\ (k + 1) - 1 = k
      OBVIOUS
    <3>2. H[k] \in A /\ H[k + 1] = G[<<k + 1, H[k]>>] /\ k + 1 \in Nat
      BY <1>4, <3>1 DEF Solves
    <3>. QED
      BY <1>3, <3>2
  <2>. QED
    BY <2>1
<1>6. \A f \in A, c \in S : Higher(f)[c] = IF up[c] \in S THEN g[<<c, f[up[c]]>>] ELSE base
  BY DEF Higher
<1>. DEFINE Q == {k \in Nat : k <= n + 1 => \A c \in S : rank[c] < k => H[k][c] = H[k + 1][c]}
<1>7. 0 \in Q
  OBVIOUS
<1>8. ASSUME NEW k \in Nat, k \in Q PROVE k + 1 \in Q
  <2>. SUFFICES ASSUME k + 1 <= n + 1, NEW c \in S, rank[c] < k + 1
                PROVE  H[k + 1][c] = H[(k + 1) + 1][c]
    OBVIOUS
  <2>1. k \in 0..n + 1 /\ k + 1 \in 0..n + 1
    OBVIOUS
  <2>2. H[k] \in A /\ H[k + 1] \in A /\ H[k + 1] = Higher(H[k]) /\ H[(k + 1) + 1] = Higher(H[k + 1])
    BY <1>5, <2>1
  <2>3. CASE up[c] \in S
    <3>1. rank[up[c]] < k
      BY <2>3
    <3>2. H[k][up[c]] = H[k + 1][up[c]]
      BY <1>8, <2>3, <3>1
    <3>. QED
      BY <1>6, <2>2, <2>3, <3>2
  <2>4. CASE up[c] \notin S
    BY <1>6, <2>2, <2>4
  <2>. QED
    BY <2>3, <2>4
<1>. HIDE DEF Q
<1>9. n + 1 \in Q
  <2>1. n + 1 \in Nat
    OBVIOUS
  <2>. QED
    BY <1>7, <1>8, <2>1, AllNumbers
<1>. DEFINE h == H[n + 1]
<1>10. \A c \in S : h[c] = H[(n + 1) + 1][c]
  BY <1>9 DEF Q
<1>11. h \in A /\ H[(n + 1) + 1] = Higher(h)
  BY <1>5
<1>. HIDE DEF h
<1>12. Climbs(h, S, up, base, g)
  BY <1>6, <1>10, <1>11 DEF Climbs
<1>. QED
  BY <1>11, <1>12 DEF A

(* What holds of an element when it holds of the one above holds of all.     *)
LEMMA ClimbsInduct ==
  ASSUME NEW S, NEW up, NEW G, NEW n \in Nat, NEW rank \in [S -> 0..n],
         \A c \in S : up[c] \in S => rank[up[c]] < rank[c],
         \A c \in S : (up[c] \in S => up[c] \in G) => c \in G
  PROVE  S \subseteq G
<1>. DEFINE Q == {k \in Nat : \A c \in S : rank[c] < k => c \in G}
<1>1. 0 \in Q
  OBVIOUS
<1>2. ASSUME NEW k \in Nat, k \in Q PROVE k + 1 \in Q
  <2>1. ASSUME NEW c \in S, rank[c] < k + 1 PROVE c \in G
    <3>1. up[c] \in S => rank[up[c]] < k
      BY <2>1
    <3>2. up[c] \in S => up[c] \in G
      BY <1>2, <3>1
    <3>. QED
      BY <3>2
  <2>. QED
    BY <2>1
<1>. HIDE DEF Q
<1>3. n + 1 \in Q
  <2>1. n + 1 \in Nat
    OBVIOUS
  <2>. QED
    BY <1>1, <1>2, <2>1, AllNumbers
<1>. QED
  BY <1>3 DEF Q

(* What is in joined sequences is what is in each of them.                   *)
LEMMA ConcatSet ==
  ASSUME NEW T, NEW s \in Seq(T), NEW t \in Seq(T)
  PROVE  s \o t \in Seq(T) /\ ToSet(s \o t) = ToSet(s) \cup ToSet(t)
<1>. DEFINE r == s \o t
<1>1. /\ r \in Seq(T) /\ Len(r) = Len(s) + Len(t) /\ Len(s) \in Nat /\ Len(t) \in Nat
      /\ \A i \in 1..Len(s) : r[i] = s[i]
      /\ \A i \in 1..Len(t) : r[Len(s) + i] = t[i]
      /\ DOMAIN s = 1..Len(s) /\ DOMAIN t = 1..Len(t)
  BY Both
<1>. HIDE DEF r
<1>2. DOMAIN r = 1..Len(s) + Len(t)
  BY <1>1
<1>3. ASSUME NEW x \in ToSet(r) PROVE x \in ToSet(s) \cup ToSet(t)
  <2>1. PICK i \in 1..Len(s) + Len(t) : x = r[i]
    BY <1>2 DEF ToSet
  <2>2. CASE i <= Len(s)
    <3>1. i \in 1..Len(s)
      BY <1>1, <2>2
    <3>. QED
      BY <1>1, <2>1, <3>1 DEF ToSet
  <2>3. CASE i > Len(s)
    <3>1. i - Len(s) \in 1..Len(t) /\ Len(s) + (i - Len(s)) = i
      BY <1>1, <2>3
    <3>. QED
      BY <1>1, <2>1, <3>1 DEF ToSet
  <2>. QED
    BY <1>1, <2>2, <2>3
<1>4. ASSUME NEW x \in ToSet(s) PROVE x \in ToSet(r)
  <2>1. PICK i \in 1..Len(s) : x = s[i]
    BY <1>1 DEF ToSet
  <2>2. i \in DOMAIN r
    BY <1>1, <1>2
  <2>. QED
    BY <1>1, <2>1, <2>2 DEF ToSet
<1>5. ASSUME NEW x \in ToSet(t) PROVE x \in ToSet(r)
  <2>1. PICK i \in 1..Len(t) : x = t[i]
    BY <1>1 DEF ToSet
  <2>2. Len(s) + i \in DOMAIN r
    BY <1>1, <1>2
  <2>. QED
    BY <1>1, <2>1, <2>2 DEF ToSet
<1>. QED
  BY <1>1, <1>3, <1>4, <1>5 DEF r

LEMMA FlattenedSet ==
  ASSUME NEW T, NEW s \in Seq(Seq(T))
  PROVE  /\ FlattenSeq(s) \in Seq(T)
         /\ ToSet(FlattenSeq(s)) = UNION {ToSet(s[k]) : k \in 1..Len(s)}
<1>1. PICK v \in [0..Len(s) -> Seq(T)] :
            /\ v[0] = <<>> /\ \A k \in 1..Len(s) : v[k] = v[k - 1] \o s[k]
            /\ FlattenSeq(s) = v[Len(s)]
  BY FlattenSteps
<1>2. Len(s) \in Nat /\ \A k \in 1..Len(s) : s[k] \in Seq(T)
  OBVIOUS
<1>. DEFINE Q == {n \in Nat : n <= Len(s) => ToSet(v[n]) = UNION {ToSet(s[k]) : k \in 1..n}}
<1>3. 0 \in Q
  <2>1. ToSet(<<>>) = {} /\ UNION {ToSet(s[k]) : k \in 1..0} = {}
    BY DEF ToSet
  <2>. QED
    BY <1>1, <2>1
<1>4. ASSUME NEW n \in Nat, n \in Q PROVE n + 1 \in Q
  <2>. SUFFICES ASSUME n + 1 <= Len(s)
                PROVE  ToSet(v[n + 1]) = UNION {ToSet(s[k]) : k \in 1..n + 1}
    OBVIOUS
  <2>1. /\ n + 1 \in 1..Len(s) /\ (n + 1) - 1 = n /\ n \in 0..Len(s)
        /\ 1..n + 1 = 1..n \cup {n + 1}
    BY <1>2
  <2>2. ToSet(v[n]) = UNION {ToSet(s[k]) : k \in 1..n}
    BY <1>2, <1>4
  <2>3. v[n + 1] = v[n] \o s[n + 1] /\ v[n] \in Seq(T) /\ s[n + 1] \in Seq(T)
    BY <1>1, <1>2, <2>1
  <2>4. ToSet(v[n + 1]) = ToSet(v[n]) \cup ToSet(s[n + 1])
    BY <2>3, ConcatSet
  <2>5. UNION {ToSet(s[k]) : k \in 1..n + 1} = (UNION {ToSet(s[k]) : k \in 1..n}) \cup ToSet(s[n + 1])
    BY <2>1
  <2>. QED
    BY <2>2, <2>4, <2>5
<1>. HIDE DEF Q
<1>5. Len(s) \in Q
  BY <1>2, <1>3, <1>4, AllNumbers
<1>. QED
  BY <1>1, <1>2, <1>5 DEF Q
================================================================================
