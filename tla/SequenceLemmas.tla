---------------------------- MODULE SequenceLemmas ----------------------------
(***************************************************************************)
(* Facts about sequences that the proofs about buffers, queues and lists   *)
(* of workers share: what it does to a stream when a part of it moves from *)
(* one buffer to the next, or when bytes are added at its end, and what    *)
(* becomes of a list without duplicates that loses or gains an element.    *)
(***************************************************************************)
EXTENDS Integers, Sequences, FiniteSets, SequenceTheorems, FiniteSetTheorems, FunctionTheorems,
        WellFoundedInduction, TLAPS

Elements(s) == {s[i] : i \in DOMAIN s}

\* No element is in the list twice.
Distinct(s) == \A i, j \in DOMAIN s : s[i] = s[j] => i = j

\* The bytes from m + 1 on, as many as n.
Numbered(m, n) == [k \in 1 .. n |-> m + k]

LEMMA NumberedIsSeq ==
  ASSUME NEW m \in Nat, NEW n \in Nat
  PROVE  /\ Numbered(m, n) \in Seq(Nat) /\ Len(Numbered(m, n)) = n
         /\ \A k \in 1 .. n : Numbered(m, n)[k] = m + k
BY DEF Numbered

LEMMA NumberedFromFirst ==
  ASSUME NEW n \in Nat
  PROVE  Numbered(0, n) = [k \in 1 .. n |-> k]
BY DEF Numbered

\* The byte after the last one is added.
LEMMA NumberedGrows ==
  ASSUME NEW m \in Nat, NEW n \in Nat
  PROVE  Append(Numbered(m, n), m + n + 1) = Numbered(m, n + 1)
BY NumberedIsSeq DEF Numbered

\* More bytes are added.
LEMMA NumberedConcat ==
  ASSUME NEW m \in Nat, NEW n \in Nat, NEW k \in Nat
  PROVE  Numbered(m, n) \o Numbered(m + n, k) = Numbered(m, n + k)
<1> DEFINE s == Numbered(m, n) \o Numbered(m + n, k)
<1>1. /\ Numbered(m, n) \in Seq(Nat) /\ Len(Numbered(m, n)) = n
      /\ Numbered(m + n, k) \in Seq(Nat) /\ Len(Numbered(m + n, k)) = k
      /\ Numbered(m, n + k) \in Seq(Nat) /\ Len(Numbered(m, n + k)) = n + k
  <2>1. m + n \in Nat /\ n + k \in Nat
    OBVIOUS
  <2>2. Numbered(m, n) \in Seq(Nat) /\ Len(Numbered(m, n)) = n
    BY NumberedIsSeq
  <2>3. Numbered(m + n, k) \in Seq(Nat) /\ Len(Numbered(m + n, k)) = k
    BY <2>1, NumberedIsSeq
  <2>4. Numbered(m, n + k) \in Seq(Nat) /\ Len(Numbered(m, n + k)) = n + k
    BY <2>1, NumberedIsSeq
  <2> QED BY <2>2, <2>3, <2>4
<1>2. s \in Seq(Nat) /\ Len(s) = n + k
  BY <1>1, ConcatProperties
<1>3. ASSUME NEW i \in 1 .. n + k PROVE s[i] = Numbered(m, n + k)[i]
  <2>1. s[i] = IF i <= n THEN Numbered(m, n)[i] ELSE Numbered(m + n, k)[i - n]
    BY <1>1, ConcatProperties
  <2> QED BY <2>1 DEF Numbered
<1> QED BY <1>1, <1>2, <1>3, SeqEqual

\* A part of bytes that are numbered from the first is numbered from the first.
LEMMA NumberedPrefix ==
  ASSUME NEW a \in Seq(Nat), NEW b \in Seq(Nat), NEW n \in Nat,
         a \o b = Numbered(0, n)
  PROVE  Len(a) \in 0 .. n /\ a = Numbered(0, Len(a))
<1>1. Len(a) \in Nat /\ Len(b) \in Nat /\ Len(a) + Len(b) = n
  <2>1. Len(Numbered(0, n)) = n
    BY NumberedIsSeq
  <2>2. Len(a \o b) = Len(a) + Len(b)
    BY ConcatProperties
  <2> QED BY <2>1, <2>2, LenProperties
<1>2. ASSUME NEW i \in 1 .. Len(a) PROVE a[i] = Numbered(0, Len(a))[i]
  <2>1. (a \o b)[i] = a[i]
    BY <1>1, ConcatProperties
  <2> QED BY <1>1, <2>1 DEF Numbered
<1>3. Numbered(0, Len(a)) \in Seq(Nat) /\ Len(Numbered(0, Len(a))) = Len(a)
  BY <1>1, NumberedIsSeq
<1> QED BY <1>1, <1>2, <1>3, SeqEqual

-----------------------------------------------------------------------------
\* Where the brackets are makes no difference to a stream of numbers.
LEMMA StreamBrackets ==
  ASSUME NEW a \in Seq(Nat), NEW b \in Seq(Nat), NEW c \in Seq(Nat)
  PROVE  (a \o b) \o c = a \o (b \o c)
BY ConcatAssociative

\* Adding to the end of a buffer adds to the end of the stream.
LEMMA ConcatAppend ==
  ASSUME NEW S, NEW a \in Seq(S), NEW b \in Seq(S), NEW x \in S
  PROVE  a \o Append(b, x) = Append(a \o b, x)
<1>1. <<x>> \in Seq(S)
  OBVIOUS
<1>2. Append(b, x) = b \o <<x>> /\ a \o b \in Seq(S)
  BY AppendIsConcat, ConcatProperties
<1>3. Append(a \o b, x) = (a \o b) \o <<x>>
  BY <1>2, AppendIsConcat
<1> QED BY <1>1, <1>2, <1>3, ConcatAssociative

\* The first byte of a buffer moves to the buffer before it.
LEMMA HeadMoves ==
  ASSUME NEW S, NEW a \in Seq(S), NEW b \in Seq(S), b # <<>>
  PROVE  /\ Append(a, Head(b)) \in Seq(S) /\ Tail(b) \in Seq(S)
         /\ Append(a, Head(b)) \o Tail(b) = a \o b
<1>1. Head(b) \in S /\ Tail(b) \in Seq(S)
  BY HeadTailProperties
<1>2. <<Head(b)>> \in Seq(S) /\ <<Head(b)>> \o Tail(b) = b
  BY <1>1
<1>3. Append(a, Head(b)) = a \o <<Head(b)>>
  BY <1>1, AppendIsConcat
<1> QED BY <1>1, <1>2, <1>3, ConcatAssociative, AppendProperties

\* A buffer falls into two parts.
LEMMA TwoParts ==
  ASSUME NEW S, NEW b \in Seq(S), NEW n \in 0 .. Len(b)
  PROVE  /\ SubSeq(b, 1, n) \in Seq(S) /\ Len(SubSeq(b, 1, n)) = n
         /\ SubSeq(b, n + 1, Len(b)) \in Seq(S) /\ Len(SubSeq(b, n + 1, Len(b))) = Len(b) - n
         /\ SubSeq(b, 1, n) \o SubSeq(b, n + 1, Len(b)) = b
<1>1. Len(b) \in Nat /\ \A i \in 1 .. Len(b) : b[i] \in S
  BY LenProperties, ElementOfSeq
<1>2. SubSeq(b, 1, n) \in Seq(S) /\ Len(SubSeq(b, 1, n)) = n
  BY <1>1, SubSeqProperties
<1>3. SubSeq(b, n + 1, Len(b)) \in Seq(S) /\ Len(SubSeq(b, n + 1, Len(b))) = Len(b) - n
  BY <1>1, SubSeqProperties
<1>4. SubSeq(b, 1, n) \o SubSeq(b, n + 1, Len(b)) = SubSeq(b, 1, Len(b))
  <2>1. 1 \in 1 .. Len(b) + 1 /\ n \in 1 - 1 .. Len(b) /\ Len(b) \in n .. Len(b)
    BY <1>1
  <2> QED BY <2>1, ConcatAdjacentSubSeq
<1> QED BY <1>2, <1>3, <1>4, SubSeqFull

\* Several bytes of a buffer move to the buffer before it.
LEMMA PrefixMoves ==
  ASSUME NEW S, NEW a \in Seq(S), NEW b \in Seq(S), NEW n \in 0 .. Len(b)
  PROVE  /\ a \o SubSeq(b, 1, n) \in Seq(S)
         /\ Len(a \o SubSeq(b, 1, n)) = Len(a) + n
         /\ (a \o SubSeq(b, 1, n)) \o SubSeq(b, n + 1, Len(b)) = a \o b
<1> DEFINE c == SubSeq(b, 1, n)
           d == SubSeq(b, n + 1, Len(b))
<1>1. c \in Seq(S) /\ d \in Seq(S)
  BY TwoParts
<1>2. Len(c) = n /\ c \o d = b
  BY TwoParts
<1> HIDE DEF c, d
<1>3. a \o c \in Seq(S) /\ Len(a \o c) = Len(a) + n
  BY <1>1, <1>2, ConcatProperties
<1>4. (a \o c) \o d = a \o (c \o d)
  BY <1>1, ConcatAssociative
<1>5. (a \o c) \o d = a \o b
  BY <1>2, <1>4
<1> QED BY <1>3, <1>5 DEF c, d

-----------------------------------------------------------------------------
\* What is left of a buffer after a part of it has left, and after something has
\* been added.
LEMMA RestSplits ==
  ASSUME NEW b \in Seq(Nat), NEW m \in 0 .. Len(b), NEW n \in m .. Len(b)
  PROVE  /\ SubSeq(b, m + 1, n) \in Seq(Nat) /\ Len(SubSeq(b, m + 1, n)) = n - m
         /\ SubSeq(b, n + 1, Len(b)) \in Seq(Nat)
         /\ SubSeq(b, m + 1, n) \o SubSeq(b, n + 1, Len(b)) = SubSeq(b, m + 1, Len(b))
<1>1. Len(b) \in Nat /\ \A i \in 1 .. Len(b) : b[i] \in Nat
  BY LenProperties, ElementOfSeq
<1>2. SubSeq(b, m + 1, n) \in Seq(Nat) /\ Len(SubSeq(b, m + 1, n)) = n - m
  BY <1>1, SubSeqProperties
<1>3. SubSeq(b, n + 1, Len(b)) \in Seq(Nat)
  BY <1>1, SubSeqProperties
<1>4. SubSeq(b, m + 1, n) \o SubSeq(b, n + 1, Len(b)) = SubSeq(b, m + 1, Len(b))
  <2> DEFINE j == m + 1
  <2>1. j \in 1 .. Len(b) + 1 /\ n \in j - 1 .. Len(b) /\ Len(b) \in n .. Len(b)
    BY <1>1
  <2> HIDE DEF j
  <2>2. SubSeq(b, j, n) \o SubSeq(b, n + 1, Len(b)) = SubSeq(b, j, Len(b))
    BY <2>1, ConcatAdjacentSubSeq
  <2> QED BY <2>2 DEF j
<1> QED BY <1>2, <1>3, <1>4

LEMMA RestConcat ==
  ASSUME NEW a \in Seq(Nat), NEW b \in Seq(Nat), NEW n \in 0 .. Len(a)
  PROVE  SubSeq(a \o b, n + 1, Len(a \o b)) = SubSeq(a, n + 1, Len(a)) \o b
<1> DEFINE l == SubSeq(a \o b, n + 1, Len(a \o b))
           r == SubSeq(a, n + 1, Len(a)) \o b
<1>1. /\ Len(a) \in Nat /\ Len(b) \in Nat /\ a \o b \in Seq(Nat)
      /\ Len(a \o b) = Len(a) + Len(b)
      /\ \A i \in 1 .. Len(a) + Len(b) : (a \o b)[i] = IF i <= Len(a) THEN a[i] ELSE b[i - Len(a)]
  BY LenProperties, ConcatProperties
<1>2. /\ l \in Seq(Nat) /\ Len(l) = Len(a) + Len(b) - n
      /\ \A i \in 1 .. Len(a) + Len(b) - n : l[i] = (a \o b)[n + i]
  <2>1. \A i \in 1 .. Len(a \o b) : (a \o b)[i] \in Nat
    BY <1>1, ElementOfSeq
  <2> QED BY <1>1, <2>1, SubSeqProperties
<1>3. /\ SubSeq(a, n + 1, Len(a)) \in Seq(Nat) /\ Len(SubSeq(a, n + 1, Len(a))) = Len(a) - n
      /\ \A i \in 1 .. Len(a) - n : SubSeq(a, n + 1, Len(a))[i] = a[n + i]
  <2>1. \A i \in 1 .. Len(a) : a[i] \in Nat
    BY ElementOfSeq
  <2> QED BY <1>1, <2>1, SubSeqProperties
<1>4. /\ r \in Seq(Nat) /\ Len(r) = Len(a) - n + Len(b)
      /\ \A i \in 1 .. Len(a) - n + Len(b) :
            r[i] = IF i <= Len(a) - n THEN SubSeq(a, n + 1, Len(a))[i] ELSE b[i - (Len(a) - n)]
  <2> DEFINE c == SubSeq(a, n + 1, Len(a))
  <2>1. c \in Seq(Nat) /\ Len(c) = Len(a) - n
    BY <1>3
  <2> HIDE DEF c
  <2>2. /\ c \o b \in Seq(Nat) /\ Len(c \o b) = Len(c) + Len(b)
        /\ \A i \in 1 .. Len(c) + Len(b) : (c \o b)[i] = IF i <= Len(c) THEN c[i] ELSE b[i - Len(c)]
    BY <2>1, ConcatProperties
  <2> QED BY <2>1, <2>2 DEF c
<1>5. ASSUME NEW i \in 1 .. Len(a) + Len(b) - n PROVE l[i] = r[i]
  <2>1. CASE i <= Len(a) - n
    <3>1. n + i \in 1 .. Len(a) + Len(b) /\ n + i <= Len(a) /\ i \in 1 .. Len(a) - n
      BY <1>1, <2>1
    <3>2. l[i] = a[n + i]
      BY <1>1, <1>2, <3>1
    <3>3. r[i] = a[n + i]
      BY <1>1, <1>3, <1>4, <2>1, <3>1
    <3> QED BY <3>2, <3>3
  <2>2. CASE i > Len(a) - n
    <3>1. n + i \in 1 .. Len(a) + Len(b) /\ n + i > Len(a) /\ n + i - Len(a) = i - (Len(a) - n)
      BY <1>1, <2>2
    <3>2. l[i] = b[i - (Len(a) - n)]
      BY <1>1, <1>2, <3>1
    <3>3. r[i] = b[i - (Len(a) - n)]
      BY <1>1, <1>4, <2>2
    <3> QED BY <3>2, <3>3
  <2> QED BY <1>1, <2>1, <2>2
<1> HIDE DEF l, r
<1>6. l = r
  <2>1. l \in Seq(Nat) /\ r \in Seq(Nat) /\ Len(l) = Len(r)
    BY <1>1, <1>2, <1>4
  <2>2. \A i \in 1 .. Len(l) : l[i] = r[i]
    BY <1>2, <1>5
  <2> QED BY <2>1, <2>2, SeqEqual
<1> QED BY <1>6 DEF l, r

-----------------------------------------------------------------------------
\* Of some places there is a first one.
LEMMA FirstOf ==
  ASSUME NEW T, T \subseteq Nat, T # {}
  PROVE  \E x \in T : \A y \in T : x <= y
<1>1. IsWellFoundedOn(OpToRel(<, Nat), Nat)
  BY NatLessThanWellFounded
<1>2. PICK x \in T : \A y \in T : ~(<<y, x>> \in OpToRel(<, Nat))
  BY <1>1, WFMin
<1>3. \A y \in T : y < x => <<y, x>> \in OpToRel(<, Nat)
  BY <1>2 DEF OpToRel
<1>4. ASSUME NEW y \in T PROVE x <= y
  <2>1. x \in Nat /\ y \in Nat /\ ~(y < x)
    BY <1>2, <1>3
  <2> QED BY <2>1
<1> QED BY <1>4

-----------------------------------------------------------------------------
(* Lists whose elements matter                                             *)

LEMMA ElementsIn ==
  ASSUME NEW S, NEW s \in Seq(S)
  PROVE  Elements(s) \subseteq S
BY ElementOfSeq, LenProperties DEF Elements

LEMMA ElementsAppend ==
  ASSUME NEW S, NEW s \in Seq(S), NEW x \in S
  PROVE  /\ Append(s, x) \in Seq(S)
         /\ Elements(Append(s, x)) = Elements(s) \cup {x}
         /\ Distinct(s) /\ x \notin Elements(s) => Distinct(Append(s, x))
<1> DEFINE t == Append(s, x)
<1>1. /\ t \in Seq(S) /\ Len(t) = Len(s) + 1 /\ Len(s) \in Nat
      /\ \A i \in 1 .. Len(s) : t[i] = s[i]
      /\ t[Len(s) + 1] = x
  BY AppendProperties, LenProperties
<1> HIDE DEF t
<1>2. DOMAIN t = 1 .. Len(s) + 1 /\ DOMAIN s = 1 .. Len(s)
  BY <1>1, LenProperties
<1>3. ASSUME NEW y \in Elements(t) PROVE y \in Elements(s) \cup {x}
  <2>1. PICK i \in 1 .. Len(s) + 1 : y = t[i]
    BY <1>2, <1>3 DEF Elements
  <2>2. i = Len(s) + 1 \/ i \in 1 .. Len(s)
    BY <1>1
  <2> QED BY <1>1, <1>2, <2>1, <2>2 DEF Elements
<1>4. Elements(s) \cup {x} \subseteq Elements(t)
  <2>1. \A i \in 1 .. Len(s) : i \in 1 .. Len(s) + 1
    BY <1>1
  <2>2. Len(s) + 1 \in 1 .. Len(s) + 1
    BY <1>1
  <2> QED BY <1>1, <1>2, <2>1, <2>2 DEF Elements
<1>5. ASSUME Distinct(s), x \notin Elements(s), NEW i \in DOMAIN t, NEW j \in DOMAIN t, t[i] = t[j]
      PROVE  i = j
  <2>1. (i = Len(s) + 1 \/ i \in 1 .. Len(s)) /\ (j = Len(s) + 1 \/ j \in 1 .. Len(s))
    BY <1>1, <1>2
  <2>2. \A k \in 1 .. Len(s) : s[k] # x
    BY <1>2, <1>5 DEF Elements
  <2> QED BY <1>1, <1>2, <1>5, <2>1, <2>2 DEF Distinct
<1>6. Distinct(s) /\ x \notin Elements(s) => Distinct(t)
  BY <1>5 DEF Distinct
<1> QED BY <1>1, <1>3, <1>4, <1>6 DEF t

\* What is left of a list when the first n are gone.
LEMMA ElementsRest ==
  ASSUME NEW S, NEW s \in Seq(S), NEW n \in 0 .. Len(s)
  PROVE  LET t == SubSeq(s, n + 1, Len(s))
             first == {s[i] : i \in DOMAIN s \cap 1 .. n}
         IN  /\ t \in Seq(S) /\ Len(t) = Len(s) - n
             /\ \A k \in 1 .. Len(s) - n : t[k] = s[n + k]
             /\ Elements(t) \subseteq Elements(s) /\ first \subseteq Elements(s)
             /\ Elements(s) = Elements(t) \cup first
             /\ Distinct(s) => Distinct(t) /\ Elements(t) = Elements(s) \ first
<1> DEFINE t == SubSeq(s, n + 1, Len(s))
           first == {s[i] : i \in DOMAIN s \cap 1 .. n}
<1>1. Len(s) \in Nat /\ n \in Nat /\ n <= Len(s) /\ DOMAIN s = 1 .. Len(s)
  BY LenProperties
<1>2. t \in Seq(S) /\ Len(t) = Len(s) - n
  BY <1>1, TwoParts
<1>3. ASSUME NEW k \in 1 .. Len(s) - n PROVE t[k] = s[n + k]
  <2>1. \A i \in n + 1 .. Len(s) : s[i] \in S
    BY <1>1, ElementOfSeq
  <2>2. \A i \in 1 .. Len(s) - (n + 1) + 1 : t[i] = s[n + 1 + i - 1]
    BY <1>1, SubSeqProperties
  <2>3. k \in 1 .. Len(s) - (n + 1) + 1 /\ n + 1 + k - 1 = n + k
    BY <1>1
  <2> QED BY <2>2, <2>3
<1> HIDE DEF t
<1>4. DOMAIN t = 1 .. Len(s) - n
  BY <1>2, LenProperties
<1>5. first = {s[i] : i \in 1 .. n}
  BY <1>1
<1>6. \A i \in 1 .. n : i \in 1 .. Len(s)
  BY <1>1
<1>7. \A k \in 1 .. Len(s) - n : n + k \in 1 .. Len(s) /\ n + k \notin 1 .. n
  BY <1>1
<1>8. \A i \in 1 .. Len(s) : i \notin 1 .. n => i - n \in 1 .. Len(s) - n /\ n + (i - n) = i
  BY <1>1
<1> HIDE DEF first
<1>9. first \subseteq Elements(s)
  BY <1>1, <1>5, <1>6 DEF Elements
<1>10. Elements(t) \subseteq Elements(s)
  BY <1>1, <1>3, <1>4, <1>7 DEF Elements
<1>11. ASSUME NEW x \in Elements(s), x \notin first PROVE x \in Elements(t)
  <2>1. PICK i \in 1 .. Len(s) : x = s[i]
    BY <1>1, <1>11 DEF Elements
  <2>2. i \notin 1 .. n
    BY <1>5, <1>11, <2>1
  <2>3. i - n \in 1 .. Len(s) - n /\ t[i - n] = s[i]
    BY <1>3, <1>8, <2>2
  <2> QED BY <1>4, <2>1, <2>3 DEF Elements
<1>12. ASSUME Distinct(s) PROVE Distinct(t) /\ Elements(t) \cap first = {}
  <2>1. ASSUME NEW k \in 1 .. Len(s) - n, NEW m \in 1 .. Len(s) - n, t[k] = t[m] PROVE k = m
    <3>1. s[n + k] = s[n + m] /\ n + k \in 1 .. Len(s) /\ n + m \in 1 .. Len(s)
      BY <1>3, <1>7, <2>1
    <3>2. n + k = n + m
      BY <1>1, <1>12, <3>1 DEF Distinct
    <3> QED BY <1>1, <3>2
  <2>2. ASSUME NEW x \in Elements(t), x \in first PROVE FALSE
    <3>1. PICK k \in 1 .. Len(s) - n : x = t[k]
      BY <1>4, <2>2 DEF Elements
    <3>2. PICK i \in 1 .. n : x = s[i]
      BY <1>5, <2>2
    <3>3. n + k \in 1 .. Len(s) /\ i \in 1 .. Len(s) /\ s[n + k] = s[i]
      BY <1>3, <1>6, <1>7, <3>1, <3>2
    <3>4. n + k = i
      BY <1>1, <1>12, <3>3 DEF Distinct
    <3> QED BY <1>7, <3>2, <3>4
  <2> QED BY <1>4, <2>1, <2>2 DEF Distinct
<1>13. Elements(s) = Elements(t) \cup first
  BY <1>9, <1>10, <1>11
<1>14. Distinct(s) => Distinct(t) /\ Elements(t) = Elements(s) \ first
  BY <1>12, <1>13
<1> QED BY <1>2, <1>3, <1>9, <1>10, <1>13, <1>14 DEF t, first

LEMMA ElementsTail ==
  ASSUME NEW S, NEW s \in Seq(S), s # <<>>
  PROVE  /\ Tail(s) \in Seq(S) /\ Head(s) \in S /\ Head(s) \in Elements(s)
         /\ Elements(s) = Elements(Tail(s)) \cup {Head(s)}
         /\ Distinct(s) => Distinct(Tail(s)) /\ Elements(Tail(s)) = Elements(s) \ {Head(s)}
<1>1. Len(s) \in Nat /\ Len(s) # 0 /\ DOMAIN s = 1 .. Len(s)
  BY EmptySeq, LenProperties
<1>2. 1 \in 0 .. Len(s) /\ 1 \in 1 .. Len(s) /\ DOMAIN s \cap 1 .. 1 = {1} /\ 1 + 1 = 2
  BY <1>1
<1>3. Head(s) = s[1] /\ s[1] \in S /\ Tail(s) = SubSeq(s, 2, Len(s))
  BY <1>2, HeadTailProperties, ElementOfSeq
<1>4. {s[i] : i \in {1}} = {Head(s)}
  BY <1>3
<1> DEFINE t == SubSeq(s, 1 + 1, Len(s))
<1>5. /\ t \in Seq(S) /\ Elements(s) = Elements(t) \cup {Head(s)}
      /\ Distinct(s) => Distinct(t) /\ Elements(t) = Elements(s) \ {Head(s)}
  BY <1>2, <1>4, ElementsRest
<1>6. t = Tail(s)
  BY <1>2, <1>3
<1> QED BY <1>3, <1>5, <1>6

LEMMA ElementsConcat ==
  ASSUME NEW S, NEW s \in Seq(S), NEW t \in Seq(S)
  PROVE  /\ s \o t \in Seq(S)
         /\ Elements(s \o t) = Elements(s) \cup Elements(t)
         /\ Distinct(s) /\ Distinct(t) /\ Elements(s) \cap Elements(t) = {} => Distinct(s \o t)
<1> DEFINE u == s \o t
<1>1. /\ u \in Seq(S) /\ Len(u) = Len(s) + Len(t)
      /\ \A i \in 1 .. Len(s) + Len(t) : u[i] = IF i <= Len(s) THEN s[i] ELSE t[i - Len(s)]
  BY ConcatProperties
<1> HIDE DEF u
<1>2. /\ Len(s) \in Nat /\ Len(t) \in Nat
      /\ DOMAIN s = 1 .. Len(s) /\ DOMAIN t = 1 .. Len(t) /\ DOMAIN u = 1 .. Len(s) + Len(t)
  BY <1>1, LenProperties
<1>3. ASSUME NEW i \in 1 .. Len(s) PROVE i \in 1 .. Len(s) + Len(t) /\ u[i] = s[i]
  <2>1. i \in 1 .. Len(s) + Len(t) /\ i <= Len(s)
    BY <1>2
  <2> QED BY <1>1, <2>1
<1>4. ASSUME NEW k \in 1 .. Len(t) PROVE Len(s) + k \in 1 .. Len(s) + Len(t) /\ u[Len(s) + k] = t[k]
  <2> DEFINE j == Len(s) + k
  <2>1. j \in 1 .. Len(s) + Len(t) /\ ~(j <= Len(s)) /\ j - Len(s) = k
    BY <1>2
  <2> HIDE DEF j
  <2>2. u[j] = t[j - Len(s)]
    BY <1>1, <2>1
  <2>3. u[j] = t[k]
    BY <2>1, <2>2
  <2> QED BY <2>1, <2>3 DEF j
<1>5. ASSUME NEW i \in 1 .. Len(s) + Len(t)
      PROVE  i \in 1 .. Len(s) \/ \E k \in 1 .. Len(t) : i = Len(s) + k
  <2>1. i \notin 1 .. Len(s) => i - Len(s) \in 1 .. Len(t) /\ i = Len(s) + (i - Len(s))
    BY <1>2
  <2> QED BY <2>1
<1>6. ASSUME NEW x \in Elements(u) PROVE x \in Elements(s) \cup Elements(t)
  <2>1. PICK i \in 1 .. Len(s) + Len(t) : x = u[i]
    BY <1>2, <1>6 DEF Elements
  <2> QED BY <1>2, <1>3, <1>4, <1>5, <2>1 DEF Elements
<1>7. Elements(s) \cup Elements(t) \subseteq Elements(u)
  BY <1>2, <1>3, <1>4 DEF Elements
<1>8. ASSUME Distinct(s), Distinct(t), Elements(s) \cap Elements(t) = {},
             NEW i \in 1 .. Len(s) + Len(t), NEW j \in 1 .. Len(s) + Len(t), u[i] = u[j]
      PROVE  i = j
  <2>1. \A a \in 1 .. Len(s), b \in 1 .. Len(t) : s[a] # t[b]
    BY <1>2, <1>8 DEF Elements
  <2>2. CASE i \in 1 .. Len(s) /\ j \in 1 .. Len(s)
    BY <1>2, <1>3, <1>8, <2>2 DEF Distinct
  <2>3. ASSUME NEW a \in 1 .. Len(t), i = Len(s) + a, NEW b \in 1 .. Len(t), j = Len(s) + b
        PROVE  i = j
    <3>1. t[a] = t[b]
      BY <1>4, <1>8, <2>3
    <3>2. a = b
      BY <1>2, <1>8, <3>1 DEF Distinct
    <3> QED BY <2>3, <3>2
  <2>4. ASSUME NEW a \in 1 .. Len(t), i = Len(s) + a, j \in 1 .. Len(s) PROVE FALSE
    BY <1>3, <1>4, <1>8, <2>1, <2>4
  <2>5. ASSUME NEW a \in 1 .. Len(t), j = Len(s) + a, i \in 1 .. Len(s) PROVE FALSE
    BY <1>3, <1>4, <1>8, <2>1, <2>5
  <2> QED BY <1>5, <2>2, <2>3, <2>4, <2>5
<1>9. Distinct(s) /\ Distinct(t) /\ Elements(s) \cap Elements(t) = {} => Distinct(u)
  BY <1>2, <1>8 DEF Distinct
<1> QED BY <1>1, <1>6, <1>7, <1>9 DEF u

LEMMA ElementsCount ==
  ASSUME NEW S, NEW s \in Seq(S), Distinct(s)
  PROVE  IsFiniteSet(Elements(s)) /\ Cardinality(Elements(s)) = Len(s)
<1>1. Len(s) \in Nat /\ DOMAIN s = 1 .. Len(s)
  BY LenProperties
<1>2. s \in Bijection(1 .. Len(s), Elements(s))
  <2>1. s \in [1 .. Len(s) -> Elements(s)]
    <3>1. s = [i \in 1 .. Len(s) |-> s[i]]
      BY <1>1
    <3>2. \A i \in 1 .. Len(s) : s[i] \in Elements(s)
      BY <1>1 DEF Elements
    <3> QED BY <3>1, <3>2
  <2>2. \A x \in Elements(s) : \E i \in 1 .. Len(s) : s[i] = x
    BY <1>1 DEF Elements
  <2>3. \A i, j \in 1 .. Len(s) : s[i] = s[j] => i = j
    BY <1>1 DEF Distinct
  <2> QED BY <2>1, <2>2, <2>3 DEF Bijection, Injection, Surjection, IsInjective
<1>3. ExistsBijection(1 .. Len(s), Elements(s))
  BY <1>2 DEF ExistsBijection
<1> QED BY <1>1, <1>3, FS_CountingElements, FS_NatBijection
=============================================================================
