--------------------------- MODULE SessionProofs ---------------------------
(***************************************************************************)
(* The safety properties of Session: the order of the capsules, the place  *)
(* of WT_CLOSE_SESSION, its message and the wakeup of the writer, for any  *)
(* number of goroutines and capsules and any size of the queue.            *)
(***************************************************************************)
EXTENDS Session, SequenceTheorems, WellFoundedInduction, TLAPS

-----------------------------------------------------------------------------
\* A non-empty set of natural numbers has a least element.
LEMMA Least ==
  ASSUME NEW S, S \subseteq Nat, S # {}
  PROVE  \E i \in S : \A j \in S : i <= j
<1> DEFINE R == {ss \in Nat \X Nat : ss[1] < ss[2]}
<1>1. IsWellFoundedOn(R, Nat)
  BY NatLessThanWellFounded, Zenon DEF OpToRel
<1> HIDE DEF R
<1>2. PICK i \in S : \A j \in S : <<j, i>> \notin R
  BY <1>1, WFMin, Zenon
<1>3. \A j \in S : ~(j < i)
  BY <1>2 DEF R
<1> QED
  BY <1>3

\* A byte starts a character or continues one.
Byte == {"start", "continuation"}

\* The bytes of a character of n bytes, and the ends of the characters of a message.
Char(n) == [k \in 1..n |-> IF k = 1 THEN "start" ELSE "continuation"]
Chars(msg) == [i \in 1..Len(msg) |-> Char(msg[i])]

\* f gives the bytes of the first i parts, for every i.
Flattens(f, seqs) ==
  f = [i \in 1..Len(seqs) |-> IF i = 1 THEN seqs[i] ELSE f[i - 1] \o seqs[i]]
Flattened(seqs) == CHOOSE f : Flattens(f, seqs)

\* FlattenSeq is the last value of that function.
LEMMA FlattenIs ==
  ASSUME NEW seqs, Len(seqs) # 0
  PROVE  FlattenSeq(seqs) = Flattened(seqs)[Len(seqs)]
  BY DEF FlattenSeq, Flattened, Flattens

\* The bytes of a message are those of its characters.
LEMMA BytesIs ==
  ASSUME NEW msg \in Seq(1..4)
  PROVE  Bytes(msg) = FlattenSeq(Chars(msg))
  BY DEF Bytes, Chars, Char

\* There is such a function ...
LEMMA FlattensExists ==
  ASSUME NEW seqs \in Seq(Seq(Byte))
  PROVE  Flattens(Flattened(seqs), seqs)
<1> DEFINE Step(f, n) == \A i \in 1..n : f[i] = IF i = 1 THEN seqs[i] ELSE f[i - 1] \o seqs[i]
           bad == {n \in 0..Len(seqs) : ~ \E f \in [1..n -> Seq(Byte)] : Step(f, n)}
<1>1. ASSUME bad # {} PROVE FALSE
  <2>1. PICK n \in bad : \A m \in bad : n <= m
    <3>1. bad \subseteq Nat
      OBVIOUS
    <3> QED
      BY <3>1, <1>1, Least
  <2>2. CASE n = 0
    <3>1. [i \in 1..0 |-> <<>>] \in [1..0 -> Seq(Byte)] /\ Step([i \in 1..0 |-> <<>>], 0)
      OBVIOUS
    <3> QED
      BY <2>1, <2>2, <3>1
  <2>3. CASE n # 0
    <3>0. n \in 0..Len(seqs) /\ Len(seqs) \in Nat
      OBVIOUS
    <3>1. n - 1 \in 0..Len(seqs) /\ n \in 1..Len(seqs) /\ n - 1 \notin bad
      <4>1. n - 1 \in 0..Len(seqs) /\ n \in 1..Len(seqs) /\ ~(n <= n - 1)
        BY <3>0, <2>3
      <4> HIDE DEF bad
      <4> QED
        BY <4>1, <2>1
    <3>2. PICK f \in [1..(n - 1) -> Seq(Byte)] : Step(f, n - 1)
      BY <3>1
    <3> DEFINE last == IF n = 1 THEN seqs[n] ELSE f[n - 1] \o seqs[n]
               g == [i \in 1..n |-> IF i = n THEN last ELSE f[i]]
    <3>3. last \in Seq(Byte)
      BY <3>1
    <3> HIDE DEF last
    <3>4. g \in [1..n -> Seq(Byte)]
      BY <3>1, <3>3
    <3>5. ASSUME NEW i \in 1..n
          PROVE  g[i] = IF i = 1 THEN seqs[i] ELSE g[i - 1] \o seqs[i]
      <4>1. CASE i = n
        BY <3>1, <4>1 DEF last
      <4>2. CASE i # n
        <5>1. i \in 1..(n - 1) /\ g[i] = f[i] /\ (i # 1 => i - 1 \in 1..(n - 1) /\ g[i - 1] = f[i - 1])
          BY <3>1, <4>2
        <5> QED
          BY <3>2, <5>1
      <4> QED
        BY <4>1, <4>2
    <3> HIDE DEF g
    <3>6. n \notin bad
      BY <3>4, <3>5
    <3> QED
      BY <3>6, <2>1
  <2> QED
    BY <2>2, <2>3
<1>2. PICK f \in [1..Len(seqs) -> Seq(Byte)] : Step(f, Len(seqs))
  <2>1. Len(seqs) \in 0..Len(seqs)
    OBVIOUS
  <2>2. Len(seqs) \notin bad
    BY <1>1
  <2> QED
    BY <2>1, <2>2
<1>3. Flattens(f, seqs)
  BY <1>2 DEF Flattens
<1> QED
  BY <1>3 DEF Flattened

\* ... and its values are sequences of bytes.
LEMMA FlattenedParts ==
  ASSUME NEW seqs \in Seq(Seq(Byte)), NEW i \in 1..Len(seqs)
  PROVE  /\ Flattened(seqs)[i] \in Seq(Byte)
         /\ Flattened(seqs)[i] = IF i = 1 THEN seqs[i] ELSE Flattened(seqs)[i - 1] \o seqs[i]
<1> DEFINE f == Flattened(seqs)
           bad == {n \in 1..Len(seqs) : f[n] \notin Seq(Byte)}
<1>1. \A n \in 1..Len(seqs) : f[n] = IF n = 1 THEN seqs[n] ELSE f[n - 1] \o seqs[n]
  BY FlattensExists DEF Flattens
<1> HIDE DEF f
<1>2. ASSUME bad # {} PROVE FALSE
  <2>1. PICK n \in bad : \A m \in bad : n <= m
    <3>1. bad \subseteq Nat
      OBVIOUS
    <3> QED
      BY <3>1, <1>2, Least
  <2>2. CASE n = 1
    BY <1>1, <2>1, <2>2
  <2>3. CASE n # 1
    <3>1. n - 1 \in 1..Len(seqs) /\ n - 1 \notin bad
      BY <2>1, <2>3
    <3>2. f[n - 1] \in Seq(Byte) /\ seqs[n] \in Seq(Byte)
      BY <3>1
    <3>3. f[n] = f[n - 1] \o seqs[n]
      BY <1>1, <2>3
    <3>4. f[n] \in Seq(Byte)
      BY <3>2, <3>3
    <3> QED
      BY <3>4
  <2> QED
    BY <2>2, <2>3
<1> QED
  BY <1>1, <1>2 DEF f

\* A message is a sequence of sequences of bytes.
LEMMA CharsType ==
  ASSUME NEW msg \in Seq(1..4)
  PROVE  Chars(msg) \in Seq(Seq(Byte)) /\ Len(Chars(msg)) = Len(msg)
<1>1. ASSUME NEW n \in 1..4 PROVE Char(n) \in Seq(Byte)
  BY DEF Char, Byte
<1>2. Len(msg) \in Nat /\ \A i \in 1..Len(msg) : msg[i] \in 1..4
  OBVIOUS
<1>3. Chars(msg) \in [1..Len(msg) -> Seq(Byte)]
  BY <1>1, <1>2 DEF Chars
<1> QED
  BY <1>2, <1>3

\* The ends of the characters do not depend on what follows them.
LEMMA FlattenedPrefix ==
  ASSUME NEW msg \in Seq(1..4), NEW k \in 0..Len(msg), NEW i \in 1..k
  PROVE  Flattened(Chars(SubSeq(msg, 1, k)))[i] = Flattened(Chars(msg))[i]
<1> DEFINE pre == SubSeq(msg, 1, k)
           f == Flattened(Chars(pre))
           g == Flattened(Chars(msg))
           bad == {n \in 1..k : f[n] # g[n]}
<1>1. /\ pre \in Seq(1..4) /\ Len(pre) = k /\ \A n \in 1..k : pre[n] = msg[n]
      /\ k \in Nat /\ Len(msg) \in Nat /\ k <= Len(msg)
  OBVIOUS
<1>2. \A n \in 1..k : Chars(pre)[n] = Chars(msg)[n]
  BY <1>1 DEF Chars
<1> HIDE DEF pre
<1>3. \A n \in 1..k : f[n] = IF n = 1 THEN Chars(pre)[n] ELSE f[n - 1] \o Chars(pre)[n]
  BY <1>1, CharsType, FlattenedParts
<1>4. \A n \in 1..k : g[n] = IF n = 1 THEN Chars(msg)[n] ELSE g[n - 1] \o Chars(msg)[n]
  <2>1. Chars(msg) \in Seq(Seq(Byte)) /\ \A n \in 1..k : n \in 1..Len(Chars(msg))
    BY <1>1, CharsType
  <2> QED
    BY <2>1, FlattenedParts
<1> HIDE DEF f, g
<1>5. ASSUME bad # {} PROVE FALSE
  <2>1. PICK n \in bad : \A m \in bad : n <= m
    <3>1. bad \subseteq Nat
      OBVIOUS
    <3> QED
      BY <3>1, <1>5, Least
  <2>2. CASE n = 1
    BY <1>2, <1>3, <1>4, <2>1, <2>2
  <2>3. CASE n # 1
    <3>1. n - 1 \in 1..k /\ n - 1 \notin bad
      BY <2>1, <2>3
    <3> QED
      BY <1>2, <1>3, <1>4, <2>1, <2>3, <3>1
  <2> QED
    BY <2>2, <2>3
<1> QED
  BY <1>5 DEF f, g, pre

\* The bytes of the first k characters.
UpTo(msg, k) == Bytes(SubSeq(msg, 1, k))

\* All characters, all bytes.
LEMMA UpToAll ==
  ASSUME NEW msg \in Seq(1..4)
  PROVE  UpTo(msg, Len(msg)) = Bytes(msg)
  BY SubSeqFull DEF UpTo

\* No characters, no bytes.
LEMMA UpToNone ==
  ASSUME NEW msg \in Seq(1..4)
  PROVE  UpTo(msg, 0) = <<>>
<1>1. SubSeq(msg, 1, 0) \in Seq(1..4) /\ Len(SubSeq(msg, 1, 0)) = 0
  OBVIOUS
<1>2. Len(Chars(SubSeq(msg, 1, 0))) = 0 /\ Chars(SubSeq(msg, 1, 0)) \in Seq(Seq(Byte))
  BY <1>1, CharsType
<1>3. Chars(SubSeq(msg, 1, 0)) = <<>>
  BY <1>2, EmptySeq
<1> QED
  BY <1>1, <1>2, <1>3, BytesIs DEF UpTo, FlattenSeq

\* The bytes of k characters are the k-th value of the function that FlattenSeq
\* defines on the whole message.
LEMMA UpToIs ==
  ASSUME NEW msg \in Seq(1..4), NEW k \in 1..Len(msg)
  PROVE  UpTo(msg, k) = Flattened(Chars(msg))[k]
<1>1. SubSeq(msg, 1, k) \in Seq(1..4) /\ Len(SubSeq(msg, 1, k)) = k /\ k \in 0..Len(msg) /\ k \in 1..k
      /\ k # 0
  OBVIOUS
<1>2. Len(Chars(SubSeq(msg, 1, k))) = k
  BY <1>1, CharsType
<1>3. Bytes(SubSeq(msg, 1, k)) = Flattened(Chars(SubSeq(msg, 1, k)))[k]
  BY <1>1, <1>2, BytesIs, FlattenIs
<1> QED
  BY <1>1, <1>3, FlattenedPrefix DEF UpTo

\* One character more.
LEMMA UpToNext ==
  ASSUME NEW msg \in Seq(1..4), NEW k \in 1..Len(msg)
  PROVE  /\ UpTo(msg, k - 1) \in Seq(Byte)
         /\ UpTo(msg, k) \in Seq(Byte)
         /\ UpTo(msg, k) = UpTo(msg, k - 1) \o Char(msg[k])
         /\ Char(msg[k]) \in Seq(Byte)
<1>1. Chars(msg)[k] = Char(msg[k])
  BY DEF Chars
<1>2. Chars(msg) \in Seq(Seq(Byte)) /\ Len(Chars(msg)) = Len(msg)
  BY CharsType
<1>3. Char(msg[k]) \in Seq(Byte)
  BY <1>1, <1>2
<1>4. CASE k = 1
  <2>1. UpTo(msg, k) = Char(msg[k])
    BY <1>1, <1>2, <1>4, UpToIs, FlattenedParts
  <2>2. UpTo(msg, k - 1) = <<>>
    BY <1>4, UpToNone
  <2>3. <<>> \in Seq(Byte) /\ <<>> \o Char(msg[k]) = Char(msg[k])
    BY <1>3, ConcatEmptySeq
  <2> QED
    BY <1>3, <2>1, <2>2, <2>3
<1>5. CASE k # 1
  <2>1. k - 1 \in 1..Len(msg)
    BY <1>5
  <2>2. UpTo(msg, k - 1) = Flattened(Chars(msg))[k - 1] /\ UpTo(msg, k) = Flattened(Chars(msg))[k]
    BY <2>1, UpToIs
  <2>3. /\ Flattened(Chars(msg))[k - 1] \in Seq(Byte) /\ Flattened(Chars(msg))[k] \in Seq(Byte)
        /\ Flattened(Chars(msg))[k] = Flattened(Chars(msg))[k - 1] \o Chars(msg)[k]
    BY <1>2, <1>5, <2>1, FlattenedParts
  <2> QED
    BY <1>1, <1>3, <2>2, <2>3
<1> QED
  BY <1>4, <1>5

\* The bytes of the first characters begin the bytes of more of them.
LEMMA UpToPrefix ==
  ASSUME NEW msg \in Seq(1..4), NEW k \in 0..Len(msg), NEW j \in 0..k
  PROVE  /\ UpTo(msg, k) \in Seq(Byte)
         /\ Len(UpTo(msg, j)) <= Len(UpTo(msg, k))
         /\ j < k => Len(UpTo(msg, j)) < Len(UpTo(msg, k))
         /\ \A i \in 1..Len(UpTo(msg, j)) : UpTo(msg, k)[i] = UpTo(msg, j)[i]
<1> DEFINE Good(n) == /\ UpTo(msg, n) \in Seq(Byte)
                      /\ Len(UpTo(msg, j)) <= Len(UpTo(msg, n))
                      /\ j < n => Len(UpTo(msg, j)) < Len(UpTo(msg, n))
                      /\ \A i \in 1..Len(UpTo(msg, j)) : UpTo(msg, n)[i] = UpTo(msg, j)[i]
           bad == {n \in j..Len(msg) : ~Good(n)}
<1>1. Len(msg) \in Nat /\ j \in Nat /\ k \in Nat /\ j <= k /\ k <= Len(msg)
  OBVIOUS
<1>2. Good(j)
  <2>1. UpTo(msg, j) \in Seq(Byte)
    <3>1. CASE j = 0
      BY <3>1, UpToNone, EmptySeq
    <3>2. CASE j # 0
      BY <1>1, <3>2, UpToNext
    <3> QED
      BY <3>1, <3>2
  <2> QED
    BY <1>1, <2>1
<1>3. ASSUME bad # {} PROVE FALSE
  <2>1. PICK n \in bad : \A m \in bad : n <= m
    <3>1. bad \subseteq Nat
      BY <1>1
    <3> QED
      BY <3>1, <1>3, Least
  <2>2. n # j /\ n \in j..Len(msg) /\ ~Good(n)
    BY <1>2, <2>1
  <2>3. n - 1 \in j..Len(msg) /\ n \in 1..Len(msg) /\ ~(n <= n - 1)
    BY <1>1, <2>2
  <2>4. Good(n - 1)
    <3> HIDE DEF Good
    <3> QED
      BY <2>1, <2>3
  <2>5. /\ UpTo(msg, n) = UpTo(msg, n - 1) \o Char(msg[n])
        /\ UpTo(msg, n) \in Seq(Byte) /\ UpTo(msg, n - 1) \in Seq(Byte) /\ Char(msg[n]) \in Seq(Byte)
    BY <2>3, UpToNext
  <2>6. Len(Char(msg[n])) = msg[n] /\ msg[n] \in 1..4
    BY <2>3 DEF Char
  <2>7. /\ Len(UpTo(msg, n)) = Len(UpTo(msg, n - 1)) + msg[n]
        /\ \A i \in 1..Len(UpTo(msg, n - 1)) : UpTo(msg, n)[i] = UpTo(msg, n - 1)[i]
    BY <2>5, <2>6, ConcatProperties
  <2>8. Good(n)
    <3>1. Len(UpTo(msg, j)) \in Nat /\ Len(UpTo(msg, n - 1)) \in Nat
      BY <1>2, <2>4
    <3>2. Len(UpTo(msg, j)) < Len(UpTo(msg, n))
      BY <2>4, <2>6, <2>7, <3>1
    <3>3. Len(UpTo(msg, n)) \in Nat
      BY <2>5
    <3>4. ASSUME NEW i \in 1..Len(UpTo(msg, j)) PROVE UpTo(msg, n)[i] = UpTo(msg, j)[i]
      <4>1. i \in 1..Len(UpTo(msg, n - 1))
        BY <2>4, <3>1
      <4> QED
        BY <2>4, <2>7, <4>1
    <3> QED
      BY <2>5, <3>1, <3>2, <3>3, <3>4
  <2> QED
    BY <2>2, <2>8
<1>4. k \in j..Len(msg) /\ k \notin bad
  BY <1>1, <1>3
<1> QED
  BY <1>4

\* A byte starts a character if and only if the characters before it end there.
LEMMA Starts ==
  ASSUME NEW msg \in Seq(1..4), NEW k \in 0..Len(msg), NEW p \in 1..Len(UpTo(msg, k))
  PROVE  UpTo(msg, k)[p] = "start" <=> \E j \in 0..(k - 1) : Len(UpTo(msg, j)) + 1 = p
<1> DEFINE Good(n) == \A q \in 1..Len(UpTo(msg, n)) :
             UpTo(msg, n)[q] = "start" <=> \E j \in 0..(n - 1) : Len(UpTo(msg, j)) + 1 = q
           bad == {n \in 0..Len(msg) : ~Good(n)}
<1>1. Len(msg) \in Nat
  OBVIOUS
<1>2. Good(0)
  BY UpToNone, EmptySeq
<1>3. ASSUME bad # {} PROVE FALSE
  <2>1. PICK n \in bad : \A m \in bad : n <= m
    <3>1. bad \subseteq Nat
      BY <1>1
    <3> QED
      BY <3>1, <1>3, Least
  <2>2. n # 0 /\ n \in 0..Len(msg) /\ ~Good(n)
    BY <1>2, <2>1
  <2>3. n - 1 \in 0..Len(msg) /\ n \in 1..Len(msg) /\ ~(n <= n - 1)
    BY <1>1, <2>2
  <2>4. Good(n - 1)
    <3> HIDE DEF Good
    <3> QED
      BY <2>1, <2>3
  <2> DEFINE s == UpTo(msg, n - 1)
             c == Char(msg[n])
  <2>5. UpTo(msg, n) = s \o c /\ s \in Seq(Byte) /\ c \in Seq(Byte)
    BY <2>3, UpToNext
  <2>6. /\ Len(c) = msg[n] /\ msg[n] \in 1..4
        /\ \A i \in 1..msg[n] : c[i] = "start" <=> i = 1
    BY <2>3 DEF Char
  <2>7. ASSUME NEW j \in 0..(n - 1) PROVE Len(UpTo(msg, j)) \in Nat /\ Len(UpTo(msg, j)) <= Len(s)
                                         /\ (j < n - 1 => Len(UpTo(msg, j)) < Len(s))
    <3>1. j \in 0..Len(msg) /\ j \in 0..j
      BY <2>3, <1>1
    <3>2. UpTo(msg, j) \in Seq(Byte)
      BY <3>1, UpToPrefix
    <3>3. /\ Len(UpTo(msg, j)) <= Len(UpTo(msg, n - 1))
          /\ j < n - 1 => Len(UpTo(msg, j)) < Len(UpTo(msg, n - 1))
      BY <2>3, UpToPrefix
    <3>4. Len(UpTo(msg, j)) \in Nat
      BY <3>2
    <3> QED
      BY <3>3, <3>4
  <2> HIDE DEF s, c
  <2>8. ASSUME NEW q \in 1..Len(s \o c)
        PROVE  (s \o c)[q] = "start" <=> \E j \in 0..(n - 1) : Len(UpTo(msg, j)) + 1 = q
    <3>0. Len(s \o c) = Len(s) + Len(c) /\ s \o c \in Seq(Byte)
      BY <2>5, ConcatProperties
    <3>1. Len(s) \in Nat /\ Len(s \o c) = Len(s) + msg[n] /\ q \in Nat
      BY <2>5, <2>6, <3>0
    <3>2. CASE q <= Len(s)
      <4>1. q \in 1..Len(s) /\ (s \o c)[q] = s[q]
        BY <3>1, <3>2, <2>5, ConcatProperties
      <4>2. s[q] = "start" <=> \E j \in 0..((n - 1) - 1) : Len(UpTo(msg, j)) + 1 = q
        BY <2>4, <4>1 DEF s
      <4>3. Len(UpTo(msg, n - 1)) + 1 # q
        BY <3>1, <3>2 DEF s
      <4>4. \A j \in 0..(n - 1) : j \in 0..((n - 1) - 1) \/ j = n - 1
        BY <2>3
      <4>5. \A j \in 0..((n - 1) - 1) : j \in 0..(n - 1)
        BY <2>3
      <4> QED
        BY <4>1, <4>2, <4>3, <4>4, <4>5
    <3>3. CASE q > Len(s)
      <4>0. (s \o c)[q] = IF q <= Len(s) THEN s[q] ELSE c[q - Len(s)]
        BY <3>0, <2>5, ConcatProperties
      <4>1. q - Len(s) \in 1..msg[n] /\ (s \o c)[q] = c[q - Len(s)]
        <5>1. q <= Len(s) + msg[n] /\ ~(q <= Len(s)) /\ msg[n] \in Nat
          BY <3>1, <3>3, <2>6
        <5>2. q - Len(s) \in 1..msg[n]
          <6>1. \A a, b, d \in Nat : d <= a + b /\ ~(d <= a) => d - a \in 1..b
            OBVIOUS
          <6> QED
            BY <5>1, <3>1, <6>1, Zenon
        <5> QED
          BY <4>0, <5>1, <5>2
      <4>2. (s \o c)[q] = "start" <=> q = Len(s) + 1
        BY <4>1, <2>6, <3>1
      <4>3. ASSUME NEW j \in 0..(n - 1)
            PROVE  Len(UpTo(msg, j)) + 1 = q <=> (j = n - 1 /\ q = Len(s) + 1)
        <5>1. CASE j = n - 1
          BY <5>1 DEF s
        <5>2. CASE j # n - 1
          <6>1. j < n - 1
            BY <5>2, <2>3
          <6>2. Len(UpTo(msg, j)) \in Nat /\ Len(UpTo(msg, j)) < Len(s)
            BY <6>1, <2>7
          <6> QED
            BY <5>2, <6>2, <3>1, <3>3
        <5> QED
          BY <5>1, <5>2
      <4>4. n - 1 \in 0..(n - 1)
        BY <2>3
      <4> QED
        BY <4>2, <4>3, <4>4
    <3>4. q <= Len(s) \/ q > Len(s)
      BY <3>1
    <3> QED
      BY <3>2, <3>3, <3>4
  <2>9. Good(n)
    BY <2>5, <2>8
  <2> QED
    BY <2>2, <2>9
<1>4. k \notin bad
  BY <1>3
<1> QED
  BY <1>4

\* A non-empty set of numbers with an upper bound has a greatest element.
LEMMA Greatest ==
  ASSUME NEW S, NEW n \in Nat, S \subseteq 0..n, S # {}
  PROVE  Max(S) \in S /\ \A i \in S : i <= Max(S)
<1> DEFINE gaps == {n - i : i \in S}
<1>1. gaps \subseteq Nat /\ gaps # {}
  <2>1. \A i \in S : n - i \in Nat /\ n - i \in gaps
    OBVIOUS
  <2> QED
    BY <2>1
<1> HIDE DEF gaps
<1>2. PICK g \in gaps : \A h \in gaps : g <= h
  BY <1>1, Least
<1>3. PICK i \in S : g = n - i
  BY DEF gaps
<1>4. \A j \in S : i >= j
  BY <1>2, <1>3 DEF gaps
<1>5. Max(S) \in S /\ \A y \in S : Max(S) >= y
  BY <1>4 DEF Max
<1> QED
  BY <1>5

\* capsule.go: for every message, truncateUTF8 leaves the longest prefix of whole
\* characters that fits into maxCloseMsgLen bytes.
THEOREM TruncatesAtCharacter ==
  ASSUME NEW msg \in Seq(1..4), MaxCloseMsgLen \in Nat
  PROVE  /\ CloseMessage(msg) = LongestPrefix(msg)
         /\ LongestPrefix(msg) \in Seq(Byte)
         /\ Len(LongestPrefix(msg)) <= MaxCloseMsgLen
<1> DEFINE n == Len(msg)
           s == Bytes(msg)
           fit == {k \in 0..n : Len(UpTo(msg, k)) <= MaxCloseMsgLen}
           K == Max(fit)
<1>1. n \in Nat /\ s = UpTo(msg, n)
  BY UpToAll
<1> HIDE DEF s, n
<1>2. \A k \in 0..n : UpTo(msg, k) \in Seq(Byte) /\ Len(UpTo(msg, k)) \in Nat
  <2>1. ASSUME NEW k \in 0..n PROVE UpTo(msg, k) \in Seq(Byte)
    <3>1. k \in 0..k
      BY <1>1
    <3> QED
      BY <3>1, UpToPrefix DEF n
  <2> QED
    BY <2>1
<1>3. K \in fit /\ \A k \in fit : k <= K
  <2>1. Len(UpTo(msg, 0)) = 0
    BY UpToNone
  <2>2. fit \subseteq 0..n /\ 0 \in fit
    BY <1>1, <2>1
  <2> HIDE DEF fit
  <2> QED
    BY <1>1, <2>2, Greatest
<1> HIDE DEF K
<1>4. LongestPrefix(msg) = UpTo(msg, K)
  BY DEF LongestPrefix, UpTo, K, n
<1>5. K \in 0..n /\ UpTo(msg, K) \in Seq(Byte) /\ Len(UpTo(msg, K)) <= MaxCloseMsgLen
  BY <1>2, <1>3
<1>6. CloseMessage(msg) = UpTo(msg, K)
  <2>1. CASE Len(s) <= MaxCloseMsgLen
    <3>1. n \in fit
      BY <1>1, <2>1
    <3>2. K = n
      BY <3>1, <1>3, <1>5, <1>1
    <3> QED
      BY <2>1, <3>2, <1>1 DEF CloseMessage, truncateUTF8, s
  <2>2. CASE ~(Len(s) <= MaxCloseMsgLen)
    <3> DEFINE cuts == {0} \cup {k \in 1..MaxCloseMsgLen : RuneStart(s[k + 1])}
               L == Len(UpTo(msg, K))
    <3>1. K # n /\ K + 1 \in 1..n /\ K \in 0..(n - 1)
      BY <1>1, <1>5, <2>2
    <3>2. Len(s) \in Nat /\ L \in Nat /\ s \in Seq(Byte)
      BY <1>1, <1>2, <1>5
    <3>3. \A k \in 1..MaxCloseMsgLen : k + 1 \in 1..Len(s)
      BY <2>2, <3>2
    <3>4. \A k \in 1..MaxCloseMsgLen :
            RuneStart(s[k + 1]) <=> \E j \in 0..(n - 1) : Len(UpTo(msg, j)) + 1 = k + 1
      <4>1. n \in 0..Len(msg)
        BY <1>1 DEF n
      <4> QED
        BY <4>1, <3>3, <1>1, Starts DEF RuneStart
    <3>5. L \in cuts
      BY <3>1, <3>2, <3>4, <1>5
    <3>6. ASSUME NEW k \in cuts PROVE k <= L
      <4>1. CASE k = 0
        BY <4>1, <3>2
      <4>2. CASE k # 0
        <5>1. k \in 1..MaxCloseMsgLen
          BY <4>2
        <5>2. PICK j \in 0..(n - 1) : Len(UpTo(msg, j)) + 1 = k + 1
          BY <4>2, <5>1, <3>4
        <5>3. j \in 0..n /\ Len(UpTo(msg, j)) \in Nat
          BY <1>1, <1>2
        <5>4. k = Len(UpTo(msg, j)) /\ j \in fit
          BY <5>1, <5>2, <5>3
        <5>5. j \in 0..K
          BY <5>3, <5>4, <1>3, <1>5, <1>1
        <5> QED
          BY <5>4, <5>5, <1>5, UpToPrefix DEF n
      <4> QED
        BY <4>1, <4>2
    <3>7. cuts \subseteq 0..MaxCloseMsgLen
      OBVIOUS
    <3> HIDE DEF cuts, L
    <3>8. Max(cuts) \in cuts /\ \A k \in cuts : k <= Max(cuts)
      BY <3>5, <3>7, Greatest
    <3>9. Max(cuts) = L
      <4>0. Max(cuts) \in 0..MaxCloseMsgLen
        BY <3>7, <3>8
      <4>1. Max(cuts) \in Nat
        BY <4>0
      <4>2. Max(cuts) <= L
        BY <3>6, <3>8
      <4>3. L <= Max(cuts)
        BY <3>5, <3>8
      <4> QED
        BY <4>1, <4>2, <4>3, <3>2
    <3>10. CloseMessage(msg) = SubSeq(s, 1, L)
      BY <2>2, <3>9 DEF CloseMessage, truncateUTF8, cuts, s
    <3>11. L <= Len(s) /\ \A i \in 1..L : s[i] = UpTo(msg, K)[i]
      BY <1>1, <1>5, UpToPrefix DEF L, n
    <3>12. /\ SubSeq(s, 1, L) \in Seq(Byte) /\ Len(SubSeq(s, 1, L)) = L
           /\ \A i \in 1..L : SubSeq(s, 1, L)[i] = s[i]
      BY <3>2, <3>11
    <3>13. SubSeq(s, 1, L) = UpTo(msg, K)
      BY <1>5, <3>11, <3>12, SeqEqual DEF L
    <3> QED
      BY <3>10, <3>13
  <2> QED
    BY <2>1, <2>2
<1> QED
  BY <1>4, <1>5, <1>6

\* capsule.go: the peer parses what truncateUTF8 leaves as it is.
LEMMA ParsedUnchanged ==
  ASSUME NEW msg \in Seq(1..4), MaxCloseMsgLen \in Nat
  PROVE  ParsedMessage(CloseMessage(msg)) = LongestPrefix(msg)
<1> DEFINE s == LongestPrefix(msg)
<1>1. CloseMessage(msg) = s /\ s \in Seq(Byte) /\ Len(s) <= MaxCloseMsgLen
  BY TruncatesAtCharacter
<1> HIDE DEF s
<1>2. Min({Len(s), MaxCloseMsgLen}) = Len(s)
  BY <1>1 DEF Min
<1>3. SubSeq(s, 1, Len(s)) = s
  BY <1>1, SubSeqFull
<1> QED
  BY <1>1, <1>2, <1>3 DEF ParsedMessage, s

-----------------------------------------------------------------------------
Open == stage \in {"none", "maps", "queue"}

\* What closeErr, the progress of closeWithError and the capsule it leaves to the
\* writer have to do with each other.
CloseInv ==
  /\ stage = "none" <=> closeErr = "none"
  /\ closeErr = "app" => message \in Messages
  /\ pendingClose <=> closeErr = "app" /\ ~Open
  /\ writer = "sendClose" => pendingClose

\* The capsules on the wire and in the queue are numbered without a gap; the one
\* that was written and is not popped yet is in both.
Twice == IF writer = "pop" THEN 1 ELSE 0
OrderInv ==
  Open =>
    /\ Len(wire) + Len(capsuleQueue) = queued + Twice
    /\ \A i \in 1..Len(wire) : wire[i] = i
    /\ \A i \in 1..Len(capsuleQueue) : capsuleQueue[i] + Twice = Len(wire) + i
    /\ writer = "write" => capsuleQueue # <<>> /\ current = capsuleQueue[1]
    /\ writer = "pop" => capsuleQueue # <<>>

\* The capsules on the wire, the one being written and those in the queue rise,
\* also when closeWithError has cleared the queue.
RisingInv ==
  /\ \A i \in 1..Len(capsuleQueue) : capsuleQueue[i] \in 1..queued
  /\ \A i, j \in 1..Len(capsuleQueue) : i < j => capsuleQueue[i] < capsuleQueue[j]
  /\ \A i \in 1..Len(wire) : wire[i] <= queued
  /\ \A i, j \in 1..Len(wire) : i < j /\ wire[j] # CLOSE => wire[i] < wire[j]
  /\ \A i \in 1..Len(wire), j \in 1..Len(capsuleQueue) :
       wire[i] <= capsuleQueue[j] /\ (writer # "pop" => wire[i] < capsuleQueue[j])
  /\ writer = "write" =>
       /\ current \in 1..queued
       /\ \A i \in 1..Len(wire) : wire[i] < current
       /\ \A j \in 1..Len(capsuleQueue) : current <= capsuleQueue[j]

\* A queue that was found full closes the session.
LostInv == lost => closeErr # "none" \/ \E p \in Callers : pc[p] = "full"

\* The writer has ended when the stream is closed.
LastInv ==
  /\ sendState = "closed" => writer = "exit"
  /\ CloseIsLast

\* The two things that the writer waits for, each with its notification.
WakeInv ==
  writer = "select" =>
    /\ capsuleQueue # <<>> => updated \/ ctxDone \/ \E p \in Callers : pc[p] = "notify"
    /\ pendingClose => updated \/ ctxDone \/ stage = "finish"

Inv == TypeOK /\ CloseInv

-----------------------------------------------------------------------------
\* Every action keeps the variables in their types.
LEMMA TypeStep ==
  ASSUME TypeOK, CloseInv, [Next]_vars
  PROVE  TypeOK'
<1> USE BoundsAssumption DEF TypeOK, Callers, Go, closeVars, queueVars, wireVars, connectVars
<1>1. CASE CloseMaps
  BY <1>1 DEF CloseMaps
<1>2. CASE ClearQueue
  <2>1. capsuleQueue' = <<>> /\ pendingClose' \in BOOLEAN
    BY <1>2 DEF ClearQueue, DropQueue
  <2>2. capsuleQueue' \in Seq(Nat) /\ Len(capsuleQueue') <= MaxQueued
    BY <2>1
  <2> QED
    BY <1>2, <2>1, <2>2 DEF ClearQueue
<1>3. CASE FinishClose
  <2>1. /\ sendState' \in {"open", "canceled", "closed"} /\ updated' \in BOOLEAN
        /\ readCanceled' \in BOOLEAN /\ deadline' \in BOOLEAN
        /\ peerEnded' \in BOOLEAN /\ peerCloses' \in BOOLEAN
    BY <1>3 DEF FinishClose, Finish, ResetSend
  <2> QED
    BY <1>3, <2>1 DEF FinishClose
<1>4. ASSUME NEW q \in Queuers, QueueCapsule(q) PROVE TypeOK'
  BY <1>4 DEF QueueCapsule
<1>5. ASSUME NEW q \in Queuers, CloseWithFlowControlError(q) PROVE TypeOK'
  BY <1>5 DEF CloseWithFlowControlError, FirstClose, CloseFirstWith, SetFirst
<1>6. ASSUME NEW a \in Closers, CloseWithError(a) PROVE TypeOK'
  BY <1>6 DEF CloseWithError
<1>7. ASSUME NEW o \in Openers, OpenStream(o) PROVE TypeOK'
  BY <1>7 DEF OpenStream
<1>8. ASSUME NEW p \in Callers, AppendCapsule(p) PROVE TypeOK'
  <2>1. CASE QueueFull
    BY <1>8, <2>1 DEF AppendCapsule
  <2>2. CASE ~QueueFull
    <3>1. capsuleQueue' = Append(capsuleQueue, queued + 1) /\ queued' = queued + 1
      BY <1>8, <2>2 DEF AppendCapsule
    <3>2. capsuleQueue' \in Seq(Nat) /\ Len(capsuleQueue') <= MaxQueued
      BY <3>1, <2>2, AppendProperties DEF QueueFull
    <3>3. pc' \in [Callers -> {"idle", "append", "notify", "full", "lock", "closing", "wait"}]
      BY <1>8, <2>2 DEF AppendCapsule
    <3> QED
      BY <1>8, <3>1, <3>2, <3>3 DEF AppendCapsule
  <2> QED
    BY <2>1, <2>2
<1>9. ASSUME NEW p \in Callers, NotifyWriter(p) PROVE TypeOK'
  BY <1>9 DEF NotifyWriter, Return, SendNotification
<1>10. ASSUME NEW p \in Callers, CloseQueueFull(p) PROVE TypeOK'
  <2>1. CASE FirstClose("full") /\ Go(p, "closing") /\ UNCHANGED closeMx
    BY <1>10, <2>1 DEF CloseQueueFull, FirstClose, CloseFirstWith, SetFirst
  <2>2. CASE LaterClose /\ Return(p)
    BY <1>10, <2>2 DEF CloseQueueFull, LaterClose, Return
  <2> QED
    BY <1>10, <2>1, <2>2 DEF CloseQueueFull
<1>11. ASSUME NEW p \in Callers, EndClose(p) PROVE TypeOK'
  <2>1. /\ pc' \in [Callers -> {"idle", "append", "notify", "full", "lock", "closing", "wait"}]
        /\ closeMx' \in {"free"} \cup Openers
    BY <1>11 DEF EndClose, Return
  <2> QED
    BY <1>11, <2>1 DEF EndClose
<1>22. ASSUME NEW p \in Callers, CloseByApplication(p) PROVE TypeOK'
  <2>1. CASE (\E msg \in Messages : CloseFirstWith("app", msg)) /\ Go(p, "closing") /\ UNCHANGED closeMx
    BY <1>22, <2>1 DEF CloseByApplication, CloseFirstWith, SetFirst
  <2>2. CASE LaterClose /\ Return(p)
    BY <1>22, <2>2 DEF CloseByApplication, LaterClose, Return
  <2> QED
    BY <1>22, <2>1, <2>2 DEF CloseByApplication
<1> USE DEF notWriter
<1>12. CASE WriterSelect
  <2>1. writer' \in {"exit", "lock"} /\ ctxDone' \in BOOLEAN /\ updated' \in BOOLEAN
    BY <1>12 DEF WriterSelect, WriterExit
  <2> QED
    BY <1>12, <2>1 DEF WriterSelect
<1>13. CASE WriterLock
  <2>1. writer' \in {"sendClose", "select", "write"} /\ current' \in Nat
    <3>1. CloseFirst \in {"sendClose", "select", "write"}
      BY DEF CloseFirst
    <3>2. CloseFirst = "write" => Head(capsuleQueue) \in Nat
      BY DEF CloseFirst
    <3> QED
      BY <1>13, <3>1, <3>2 DEF WriterLock
  <2> QED
    BY <1>13, <2>1 DEF WriterLock
<1>14. CASE WriterCloses
  <2>1. /\ writer' \in {"closing", "recheck", "exit", "lock"} /\ ctxDone' \in BOOLEAN
        /\ closeErr' \in {"none", "app", "remote", "fc", "full", "read", "write"}
        /\ stage' \in {"none", "maps", "queue", "finish", "done"}
        /\ message' \in {<<>>} \cup Messages
    BY <1>14 DEF WriterCloses, WriterExit, AfterFailure, FirstClose, CloseFirstWith, SetFirst, LaterClose
  <2> QED
    BY <1>14, <2>1 DEF WriterCloses
<1>15. CASE WriterPop
  <2>1. capsuleQueue' \in Seq(Nat) /\ Len(capsuleQueue') <= MaxQueued
    <3>1. CASE capsuleQueue = <<>>
      BY <1>15, <3>1 DEF WriterPop, Popped
    <3>2. CASE capsuleQueue # <<>>
      <4>1. capsuleQueue' = Tail(capsuleQueue)
        BY <1>15, <3>2 DEF WriterPop, Popped
      <4> QED
        BY <3>2, <4>1, HeadTailProperties
    <3> QED
      BY <3>1, <3>2
  <2> QED
    BY <1>15, <2>1 DEF WriterPop
<1>16. CASE SendClose
  <2>1. sendState' \in {"open", "canceled", "closed"} /\ wire' \in Seq(Nat)
    <3>1. Append(wire, CLOSE) \in Seq(Nat)
      BY AppendProperties DEF CLOSE
    <3> QED
      BY <1>16, <3>1 DEF SendClose, ResetSend
  <2>2. peerMessage' \in Seq({"start", "continuation"})
    <3>1. message \in Messages
      BY <1>16 DEF SendClose, CloseInv
    <3>2. ParsedMessage(CloseMessage(message)) \in Seq({"start", "continuation"})
      BY <3>1, MessagesAssumption, TruncatesAtCharacter, ParsedUnchanged DEF Byte
    <3> QED
      BY <1>16, <3>2 DEF SendClose
  <2> QED
    BY <1>16, <2>1, <2>2 DEF SendClose, WriterExit
<1>17. CASE WriteSucceeds
  <2>1. wire' \in Seq(Nat)
    BY <1>17, AppendProperties DEF WriteSucceeds
  <2> QED
    BY <1>17, <2>1 DEF WriteSucceeds
<1>18. CASE WriteFails
  BY <1>18 DEF WriteFails, Stopped
<1>19. CASE WriteFailsPartly
  BY <1>19 DEF WriteFailsPartly, ResetBothSides, ResetSend, Stopped
<1>20. CASE ReaderStep
  <2>1. CASE ReadsClosingCapsule
    <3>1. reader' \in {"read", "remote", "fc"}
      BY <2>1 DEF ReadsClosingCapsule, CapsuleCloses
    <3> QED
      BY <1>20, <2>1, <3>1 DEF ReaderStep, ReadsClosingCapsule
  <2>3. CASE ReadEnds
    BY <1>20, <2>3 DEF ReaderStep, ReadEnds
  <2>2. CASE ReaderCloses
    <3>1. /\ reader' \in {"closing", "exit"} /\ ctxDone' \in BOOLEAN
          /\ closeErr' \in {"none", "app", "remote", "fc", "full", "read", "write"}
          /\ stage' \in {"none", "maps", "queue", "finish", "done"}
          /\ message' \in {<<>>} \cup Messages
      BY <2>2 DEF ReaderCloses, FirstClose, CloseFirstWith, SetFirst, LaterClose
    <3> QED
      BY <1>20, <2>2, <3>1 DEF ReaderStep, ReaderCloses
  <2> QED
    BY <1>20, <2>1, <2>2, <2>3 DEF ReaderStep
<1>21. CASE UNCHANGED vars
  BY <1>21 DEF vars
<1> QED
  BY <1>1, <1>2, <1>3, <1>4, <1>5, <1>6, <1>7, <1>8, <1>9, <1>10, <1>11, <1>12, <1>13, <1>14,
     <1>15, <1>16, <1>17, <1>18, <1>19, <1>20, <1>21, <1>22
  DEF Next, ClosingStep, CallStep, WriterStep

\* The first call of closeWithError decides what follows.
LEMMA CloseStep ==
  ASSUME TypeOK, CloseInv, [Next]_vars
  PROVE  CloseInv'
<1> USE DEF TypeOK, closeVars, queueVars
<1>a. ASSUME UNCHANGED <<closeVars, pendingClose>>, writer' = "sendClose" => pendingClose
      PROVE  CloseInv'
  BY <1>a DEF CloseInv, Open
<1>b. ASSUME NEW err \in {"remote", "fc", "full", "read", "write"}, FirstClose(err),
             UNCHANGED pendingClose, writer' = "sendClose" => writer = "sendClose"
      PROVE  CloseInv'
  BY <1>b DEF CloseInv, Open, FirstClose, CloseFirstWith, SetFirst
<1>1. CASE CloseMaps
  BY <1>1 DEF CloseMaps, CloseInv, Open
<1>2. CASE ClearQueue
  BY <1>2 DEF ClearQueue, DropQueue, CloseInv, Open
<1>3. CASE FinishClose
  BY <1>3 DEF FinishClose, CloseInv, Open
<1>4. ASSUME NEW q \in Queuers, QueueCapsule(q) PROVE CloseInv'
  BY <1>4, <1>a DEF QueueCapsule, CloseInv
<1>5. ASSUME NEW q \in Queuers, CloseWithFlowControlError(q) PROVE CloseInv'
  BY <1>5, <1>b DEF CloseWithFlowControlError
<1>6. ASSUME NEW a \in Closers, CloseWithError(a) PROVE CloseInv'
  BY <1>6, <1>a DEF CloseWithError, CloseInv
<1>7. ASSUME NEW o \in Openers, OpenStream(o) PROVE CloseInv'
  BY <1>7, <1>a DEF OpenStream, CloseInv
<1>8. ASSUME NEW p \in Callers, AppendCapsule(p) PROVE CloseInv'
  BY <1>8, <1>a DEF AppendCapsule, CloseInv
<1>9. ASSUME NEW p \in Callers, NotifyWriter(p) PROVE CloseInv'
  BY <1>9, <1>a DEF NotifyWriter, CloseInv
<1>10. ASSUME NEW p \in Callers, CloseQueueFull(p) PROVE CloseInv'
  <2>1. CASE FirstClose("full")
    BY <1>10, <2>1, <1>b DEF CloseQueueFull
  <2>2. CASE LaterClose
    BY <1>10, <2>2, <1>a DEF CloseQueueFull, LaterClose, CloseInv
  <2> QED
    BY <1>10, <2>1, <2>2 DEF CloseQueueFull
<1>11. ASSUME NEW p \in Callers, EndClose(p) PROVE CloseInv'
  BY <1>11, <1>a DEF EndClose, CloseInv
<1>20. ASSUME NEW p \in Callers, CloseByApplication(p) PROVE CloseInv'
  <2>1. UNCHANGED <<pendingClose, writer>>
    BY <1>20 DEF CloseByApplication
  <2>2. ASSUME NEW msg \in Messages, CloseFirstWith("app", msg) PROVE CloseInv'
    BY <2>1, <2>2 DEF CloseFirstWith, SetFirst, CloseInv, Open
  <2>3. CASE LaterClose
    BY <2>1, <2>3, <1>a DEF LaterClose, CloseInv
  <2> QED
    BY <1>20, <2>2, <2>3 DEF CloseByApplication
<1> USE DEF notWriter
<1>12. CASE WriterSelect
  BY <1>12, <1>a DEF WriterSelect, WriterExit
<1>13. CASE WriterLock
  <2>1. CloseFirst = "sendClose" => pendingClose
    BY DEF CloseFirst
  <2> QED
    BY <1>13, <2>1, <1>a DEF WriterLock
<1>14. CASE WriterCloses
  <2>1. writer' # "sendClose"
    BY <1>14 DEF WriterCloses, WriterExit, AfterFailure
  <2>2. FirstClose("write") \/ UNCHANGED closeVars
    BY <1>14 DEF WriterCloses, LaterClose
  <2>3. UNCHANGED pendingClose
    BY <1>14 DEF WriterCloses
  <2> QED
    BY <2>1, <2>2, <2>3, <1>a, <1>b
<1>15. CASE WriterPop
  BY <1>15, <1>a DEF WriterPop
<1>16. CASE SendClose
  BY <1>16, <1>a DEF SendClose, WriterExit
<1>17. CASE WriteSucceeds \/ WriteFails \/ WriteFailsPartly
  BY <1>17, <1>a DEF WriteSucceeds, WriteFails, WriteFailsPartly
<1>18. CASE ReaderStep
  <2>1. UNCHANGED <<pendingClose, writer>>
    BY <1>18 DEF ReaderStep
  <2>2. (reader \in {"read", "remote", "fc"} /\ FirstClose(reader)) \/ UNCHANGED closeVars
    BY <1>18 DEF ReaderStep, ReadsClosingCapsule, ReadEnds, ReaderCloses, LaterClose
  <2>3. CASE reader \in {"read", "remote", "fc"} /\ FirstClose(reader)
    BY <2>1, <2>3, <1>b
  <2>4. CASE UNCHANGED closeVars
    BY <2>1, <2>4, <1>a DEF CloseInv
  <2> QED
    BY <2>2, <2>3, <2>4
<1>19. CASE UNCHANGED vars
  BY <1>19, <1>a DEF vars, CloseInv
<1> QED
  BY <1>1, <1>2, <1>3, <1>4, <1>5, <1>6, <1>7, <1>8, <1>9, <1>10, <1>11, <1>12, <1>13, <1>14,
     <1>15, <1>16, <1>17, <1>18, <1>19, <1>20
  DEF Next, ClosingStep, CallStep, WriterStep

\* The invariant holds: the variables have their types, and a capsule is pending
\* if and only if CloseWithError closed the session and got as far as the queue.
THEOREM Invariance == Spec => []Inv
<1>1. ASSUME Init PROVE Inv
  <2>1. TypeOK
    <3>1. /\ capsuleQueue \in Seq(Nat) /\ Len(capsuleQueue) <= MaxQueued /\ wire \in Seq(Nat)
          /\ peerMessage \in Seq({"start", "continuation"})
      BY <1>1, EmptySeq, BoundsAssumption DEF Init
    <3>2. pc \in [Callers -> {"idle", "append", "notify", "full", "lock", "closing", "wait"}]
      BY <1>1 DEF Init
    <3> QED
      BY <1>1, <3>1, <3>2 DEF Init, TypeOK
  <2>2. CloseInv
    BY <1>1 DEF Init, CloseInv, Open
  <2> QED
    BY <2>1, <2>2 DEF Inv
<1>2. Inv /\ [Next]_vars => Inv'
  BY TypeStep, CloseStep DEF Inv
<1> QED
  BY <1>1, <1>2, PTL DEF Spec

-----------------------------------------------------------------------------
\* closeWithError leaves the early stages and never returns to them.
LEMMA StaysClosed ==
  ASSUME TypeOK, CloseInv, [Next]_vars
  PROVE  Open' => Open
<1>1. stage' \in {"none", "maps", "queue"} => stage \in {"none", "maps", "queue"}
  <2>a. ASSUME NEW err, NEW msg, CloseFirstWith(err, msg) PROVE stage = "none"
    BY <2>a DEF CloseFirstWith, CloseInv
  <2> USE DEF closeVars
  <2>1. CASE ClosingStep
    BY <2>1 DEF ClosingStep, CloseMaps, ClearQueue, FinishClose
  <2>2. ASSUME NEW q \in Queuers, QueueCapsule(q) \/ CloseWithFlowControlError(q)
        PROVE  stage' = stage \/ stage = "none"
    BY <2>2, <2>a DEF QueueCapsule, CloseWithFlowControlError, FirstClose
  <2>3. ASSUME NEW a \in Closers, CloseWithError(a) PROVE stage' = stage
    BY <2>3 DEF CloseWithError
  <2>4. ASSUME NEW o \in Openers, OpenStream(o) PROVE stage' = stage
    BY <2>4 DEF OpenStream
  <2>5. ASSUME NEW p \in Callers, CallStep(p) PROVE stage' = stage \/ stage = "none"
    BY <2>5, <2>a DEF CallStep, AppendCapsule, NotifyWriter, CloseQueueFull, CloseByApplication,
                      EndClose, FirstClose, LaterClose
  <2>6. CASE WriterStep
    BY <2>6, <2>a DEF WriterStep, WriterSelect, WriterLock, WriterCloses, WriterPop, SendClose,
                      FirstClose, LaterClose
  <2>7. CASE WriteSucceeds \/ WriteFails \/ WriteFailsPartly \/ UNCHANGED vars
    BY <2>7 DEF WriteSucceeds, WriteFails, WriteFailsPartly, vars
  <2>8. CASE ReaderStep
    BY <2>8, <2>a DEF ReaderStep, ReadsClosingCapsule, ReadEnds, ReaderCloses, FirstClose, LaterClose
  <2> QED
    BY <2>1, <2>2, <2>3, <2>4, <2>5, <2>6, <2>7, <2>8 DEF Next
<1> QED
  BY <1>1 DEF Open

\* What closed the session first, and its message, are never replaced.
LEMMA FirstStays ==
  ASSUME CloseInv, [Next]_vars, closeErr # "none"
  PROVE  UNCHANGED <<closeErr, message>>
<1> USE DEF closeVars
<1>a. ASSUME NEW err, NEW msg PROVE ~CloseFirstWith(err, msg)
  BY DEF CloseFirstWith
<1>1. CASE ClosingStep
  BY <1>1 DEF ClosingStep, CloseMaps, ClearQueue, FinishClose
<1>2. ASSUME NEW q \in Queuers, QueueCapsule(q) \/ CloseWithFlowControlError(q)
      PROVE  UNCHANGED <<closeErr, message>>
  BY <1>2, <1>a DEF QueueCapsule, CloseWithFlowControlError, FirstClose
<1>3. ASSUME NEW a \in Closers, CloseWithError(a) PROVE UNCHANGED <<closeErr, message>>
  BY <1>3 DEF CloseWithError
<1>4. ASSUME NEW o \in Openers PROVE ~OpenStream(o)
  BY DEF OpenStream
<1>5. ASSUME NEW p \in Callers, CallStep(p) PROVE UNCHANGED <<closeErr, message>>
  BY <1>5, <1>a DEF CallStep, AppendCapsule, NotifyWriter, CloseQueueFull, CloseByApplication,
                    EndClose, FirstClose, LaterClose
<1>6. CASE WriterStep
  BY <1>6, <1>a DEF WriterStep, WriterSelect, WriterLock, WriterCloses, WriterPop, SendClose,
                    FirstClose, LaterClose
<1>7. CASE WriteSucceeds \/ WriteFails \/ WriteFailsPartly \/ UNCHANGED vars
  BY <1>7 DEF WriteSucceeds, WriteFails, WriteFailsPartly, vars
<1>8. CASE ReaderStep
  BY <1>8, <1>a DEF ReaderStep, ReadsClosingCapsule, ReadEnds, ReaderCloses, FirstClose, LaterClose
<1> QED
  BY <1>1, <1>2, <1>3, <1>4, <1>5, <1>6, <1>7, <1>8 DEF Next

\* The steps that leave the capsules alone, and those of the writer that only take
\* it elsewhere.
Same == UNCHANGED <<wire, capsuleQueue, queued, writer, current>>
Elsewhere ==
  UNCHANGED <<wire, capsuleQueue, queued>> /\ writer # "pop" /\ writer' \notin {"pop", "write"}

\* What happens to the capsules, the one being written included.
LEMMA QueueSteps ==
  ASSUME [Next]_vars
  PROVE  \/ Same \/ Elsewhere \/ ClearQueue \/ \E p \in Callers : AppendCapsule(p) /\ ~QueueFull
         \/ WriterLock \/ WriterPop \/ SendClose \/ WriteSucceeds
<1> USE DEF Same, queueVars, wireVars
<1>1. ClosingStep => Same \/ ClearQueue
  BY DEF ClosingStep, CloseMaps, FinishClose
<1>2. \A q \in Queuers : QueueCapsule(q) \/ CloseWithFlowControlError(q) => Same
  BY DEF QueueCapsule, CloseWithFlowControlError
<1>3. (\A a \in Closers : CloseWithError(a) => Same) /\ \A o \in Openers : OpenStream(o) => Same
  BY DEF CloseWithError, OpenStream
<1>4. \A p \in Callers : CallStep(p) => Same \/ (AppendCapsule(p) /\ ~QueueFull)
  BY DEF CallStep, AppendCapsule, NotifyWriter, CloseQueueFull, CloseByApplication, EndClose
<1>5. WriterStep => Elsewhere \/ WriterLock \/ WriterPop \/ SendClose
  BY DEF WriterStep, WriterSelect, WriterCloses, WriterExit, AfterFailure, Elsewhere, notWriter
<1>6. WriteFails \/ WriteFailsPartly => Elsewhere
  BY DEF WriteFails, WriteFailsPartly, Elsewhere, notWriter
<1>7. ReaderStep \/ UNCHANGED vars => Same
  BY DEF ReaderStep, vars
<1> QED
  BY <1>1, <1>2, <1>3, <1>4, <1>5, <1>6, <1>7 DEF Next

\* Every action keeps the numbering without a gap.
LEMMA OrderStep ==
  ASSUME TypeOK, CloseInv, OrderInv, [Next]_vars
  PROVE  OrderInv'
<1> USE DEF TypeOK, queueVars, wireVars
<1>0. Open' => Open
  BY StaysClosed
<1>t. Len(wire) \in Nat /\ Len(capsuleQueue) \in Nat /\ queued \in Nat
  OBVIOUS
<1>a. CASE Same
  <2>1. Twice' = Twice
    BY <1>a DEF Same, Twice
  <2> QED
    BY <1>0, <1>a, <2>1 DEF Same, OrderInv
<1>b. CASE Elsewhere
  <2>1. Twice' = Twice
    BY <1>b DEF Elsewhere, Twice
  <2> QED
    BY <1>0, <1>b, <2>1 DEF Elsewhere, OrderInv
<1>2. CASE ClearQueue
  <2>1. ~Open'
    BY <1>2 DEF ClearQueue, Open
  <2> QED
    BY <2>1 DEF OrderInv
<1>6. ASSUME NEW p \in Callers, AppendCapsule(p), ~QueueFull PROVE OrderInv'
  <2>1. /\ capsuleQueue' = Append(capsuleQueue, queued + 1) /\ queued' = queued + 1
        /\ UNCHANGED <<wire, writer, current>>
    BY <1>6 DEF AppendCapsule
  <2>2. /\ Len(capsuleQueue') = Len(capsuleQueue) + 1 /\ capsuleQueue' # <<>>
        /\ \A i \in 1..Len(capsuleQueue) : capsuleQueue'[i] = capsuleQueue[i]
        /\ capsuleQueue'[Len(capsuleQueue) + 1] = queued + 1
    BY <2>1, AppendProperties
  <2>3. Twice' = Twice /\ Twice \in Nat
    BY <2>1 DEF Twice
  <2> SUFFICES ASSUME Open PROVE OrderInv'
    BY <1>0 DEF OrderInv
  <2>4. Len(wire') + Len(capsuleQueue') = queued' + Twice'
    BY <2>1, <2>2, <2>3 DEF OrderInv
  <2>5. ASSUME NEW i \in 1..Len(capsuleQueue') PROVE capsuleQueue'[i] + Twice' = Len(wire') + i
    <3>1. CASE i \in 1..Len(capsuleQueue)
      BY <2>1, <2>2, <2>3, <3>1 DEF OrderInv
    <3>2. CASE i = Len(capsuleQueue) + 1
      <4>1. Len(wire) + Len(capsuleQueue) = queued + Twice
        BY DEF OrderInv
      <4>2. capsuleQueue'[i] = queued + 1 /\ Twice' = Twice /\ Len(wire') = Len(wire)
        BY <2>1, <2>2, <2>3, <3>2
      <4>3. (queued + 1) + Twice = Len(wire) + (Len(capsuleQueue) + 1)
        <5> HIDE DEF TypeOK
        <5> QED
          BY <1>t, <2>3, <4>1
      <4> QED
        BY <3>2, <4>2, <4>3
    <3> QED
      BY <2>2, <3>1, <3>2
  <2>6. writer' = "write" => capsuleQueue' # <<>> /\ current' = capsuleQueue'[1]
    <3>1. ASSUME writer = "write" PROVE capsuleQueue # <<>> /\ current = capsuleQueue[1]
      BY <3>1 DEF OrderInv
    <3>2. capsuleQueue # <<>> => 1 \in 1..Len(capsuleQueue)
      BY EmptySeq
    <3> QED
      BY <2>1, <2>2, <3>1, <3>2
  <2> QED
    BY <2>1, <2>2, <2>4, <2>5, <2>6 DEF OrderInv
<1> USE DEF notWriter
<1>9. CASE WriterLock
  <2>1. /\ writer = "lock" /\ writer' = CloseFirst /\ UNCHANGED <<wire, capsuleQueue, queued>>
        /\ current' = IF CloseFirst = "write" THEN Head(capsuleQueue) ELSE 0
    BY <1>9 DEF WriterLock
  <2>2. /\ CloseFirst \in {"sendClose", "select", "write"}
        /\ CloseFirst = "write" => capsuleQueue # <<>>
    BY DEF CloseFirst
  <2>3. capsuleQueue # <<>> => Head(capsuleQueue) = capsuleQueue[1]
    OBVIOUS
  <2>4. Twice' = Twice
    BY <2>1, <2>2 DEF Twice
  <2> QED
    BY <1>0, <2>1, <2>2, <2>3, <2>4 DEF OrderInv
<1>11. CASE WriterPop
  <2> SUFFICES ASSUME Open PROVE OrderInv'
    BY <1>0 DEF OrderInv
  <2>1. /\ writer = "pop" /\ writer' = "lock" /\ capsuleQueue # <<>>
        /\ capsuleQueue' = Tail(capsuleQueue) /\ UNCHANGED <<wire, queued>>
    BY <1>11 DEF WriterPop, Popped, OrderInv
  <2>2. /\ Len(capsuleQueue') = Len(capsuleQueue) - 1 /\ Len(capsuleQueue) \in Nat \ {0}
        /\ \A i \in 1..Len(capsuleQueue') : capsuleQueue'[i] = capsuleQueue[i + 1]
    BY <2>1, HeadTailProperties, EmptySeq
  <2>3. Twice = 1 /\ Twice' = 0
    BY <2>1 DEF Twice
  <2>4. Len(wire') + Len(capsuleQueue') = queued' + Twice'
    BY <2>1, <2>2, <2>3 DEF OrderInv
  <2>5. ASSUME NEW i \in 1..Len(capsuleQueue') PROVE capsuleQueue'[i] + Twice' = Len(wire') + i
    <3>1. i + 1 \in 1..Len(capsuleQueue) /\ capsuleQueue'[i] = capsuleQueue[i + 1]
      BY <2>2
    <3>2. capsuleQueue[i + 1] + 1 = Len(wire) + (i + 1)
      BY <3>1, <2>3 DEF OrderInv
    <3>3. capsuleQueue[i + 1] \in Nat
      BY <3>1
    <3> QED
      BY <2>1, <2>2, <2>3, <3>1, <3>2, <3>3
  <2> QED
    BY <2>1, <2>4, <2>5 DEF OrderInv
<1>12. CASE SendClose
  <2>1. ~Open /\ stage' = stage
    BY <1>12 DEF SendClose, CloseInv, closeVars
  <2> QED
    BY <2>1, <1>0 DEF OrderInv
<1>13. CASE WriteSucceeds
  <2> SUFFICES ASSUME Open PROVE OrderInv'
    BY <1>0 DEF OrderInv
  <2>1. /\ writer = "write" /\ writer' = "pop" /\ wire' = Append(wire, current)
        /\ UNCHANGED <<capsuleQueue, queued>>
        /\ capsuleQueue # <<>> /\ current = capsuleQueue[1]
    BY <1>13 DEF WriteSucceeds, OrderInv
  <2>2. Twice = 0 /\ Twice' = 1
    BY <2>1 DEF Twice
  <2>3. current = Len(wire) + 1
    <3>1. 1 \in 1..Len(capsuleQueue)
      BY <2>1, EmptySeq
    <3> QED
      BY <2>1, <2>2, <3>1 DEF OrderInv
  <2>4. /\ Len(wire') = Len(wire) + 1
        /\ \A i \in 1..Len(wire) : wire'[i] = wire[i]
        /\ wire'[Len(wire) + 1] = Len(wire) + 1
    BY <2>1, <2>3, AppendProperties
  <2>5. Len(wire') + Len(capsuleQueue') = queued' + Twice'
    <3>1. Len(wire) + Len(capsuleQueue) = queued
      BY <2>2 DEF OrderInv
    <3>2. Len(capsuleQueue') = Len(capsuleQueue) /\ queued' = queued
      BY <2>1
    <3>3. (Len(wire) + 1) + Len(capsuleQueue) = queued + 1
      BY <1>t, <3>1
    <3> QED
      BY <2>2, <2>4, <3>2, <3>3
  <2>6. ASSUME NEW i \in 1..Len(wire') PROVE wire'[i] = i
    <3>1. i \in 1..Len(wire) \/ i = Len(wire) + 1
      BY <2>4
    <3>2. \A j \in 1..Len(wire) : wire[j] = j
      BY DEF OrderInv
    <3> QED
      BY <2>4, <3>1, <3>2
  <2>7. ASSUME NEW i \in 1..Len(capsuleQueue') PROVE capsuleQueue'[i] + Twice' = Len(wire') + i
    BY <2>1, <2>2, <2>4 DEF OrderInv
  <2> QED
    BY <2>1, <2>5, <2>6, <2>7 DEF OrderInv
<1> QED
  BY <1>a, <1>b, <1>2, <1>6, <1>9, <1>11, <1>12, <1>13, QueueSteps

\* A capsule that is written is the last one on the wire.
LEMMA Written ==
  ASSUME TypeOK, NEW x \in Nat, wire' = Append(wire, x)
  PROVE  \A i \in 1..Len(wire') :
           (i \in 1..Len(wire) /\ wire'[i] = wire[i]) \/ (i = Len(wire') /\ wire'[i] = x)
<1>1. wire \in Seq(Nat)
  BY DEF TypeOK
<1>2. /\ Len(wire') = Len(wire) + 1 /\ wire'[Len(wire) + 1] = x
      /\ \A i \in 1..Len(wire) : wire'[i] = wire[i]
  BY <1>1, AppendProperties
<1>3. Len(wire) \in Nat
  BY <1>1
<1>4. \A i \in 1..(Len(wire) + 1) : i \in 1..Len(wire) \/ i = Len(wire) + 1
  BY <1>3
<1> QED
  BY <1>2, <1>4

\* A position before another one on the wire was there before the last write.
LEMMA Longer ==
  ASSUME wire \in Seq(Nat), NEW x \in Nat, wire' = Append(wire, x),
         NEW i \in 1..Len(wire'), NEW j \in 1..Len(wire'), i < j
  PROVE  i \in 1..Len(wire) /\ wire'[i] = wire[i]
<1>1. /\ Len(wire') = Len(wire) + 1 /\ Len(wire) \in Nat
      /\ \A k \in 1..Len(wire) : wire'[k] = wire[k]
  BY AppendProperties
<1> QED
  BY <1>1

\* The capsules keep rising, whatever closeWithError does to the queue.
LEMMA RisingStep ==
  ASSUME TypeOK, CloseInv, RisingInv, [Next]_vars
  PROVE  RisingInv'
<1> USE DEF TypeOK, queueVars, wireVars
<1>a. CASE Same
  BY <1>a DEF Same, RisingInv
<1>b. CASE Elsewhere
  BY <1>b DEF Elsewhere, RisingInv
<1>2. CASE ClearQueue
  <2>1. Len(capsuleQueue') = 0 /\ UNCHANGED <<wire, queued, writer, current>>
    BY <1>2, EmptySeq DEF ClearQueue, DropQueue
  <2>2. 1..Len(capsuleQueue') = {}
    BY <2>1
  <2> HIDE DEF TypeOK, queueVars, wireVars
  <2> QED
    BY <2>1, <2>2 DEF RisingInv
<1>6. ASSUME NEW p \in Callers, AppendCapsule(p), ~QueueFull PROVE RisingInv'
  <2>1. /\ capsuleQueue' = Append(capsuleQueue, queued + 1) /\ queued' = queued + 1
        /\ UNCHANGED <<wire, writer, current>>
    BY <1>6 DEF AppendCapsule
  <2>2. \A i \in 1..Len(capsuleQueue') :
          \/ i \in 1..Len(capsuleQueue) /\ capsuleQueue'[i] = capsuleQueue[i]
          \/ i = Len(capsuleQueue) + 1 /\ capsuleQueue'[i] = queued + 1
    <3>1. /\ Len(capsuleQueue') = Len(capsuleQueue) + 1 /\ Len(capsuleQueue) \in Nat
          /\ \A i \in 1..Len(capsuleQueue) : capsuleQueue'[i] = capsuleQueue[i]
          /\ capsuleQueue'[Len(capsuleQueue) + 1] = queued + 1
      BY <2>1, AppendProperties
    <3> QED
      BY <3>1
  <2>3. /\ \A i \in 1..Len(wire) : wire[i] \in Nat
        /\ \A i \in 1..Len(capsuleQueue) : capsuleQueue[i] \in Nat
        /\ Len(capsuleQueue) \in Nat
    OBVIOUS
  <2> HIDE DEF TypeOK
  <2>4. queued \in Nat /\ current \in Nat
    BY DEF TypeOK
  <2>5. /\ \A i \in 1..Len(capsuleQueue') : capsuleQueue'[i] \in 1..queued'
        /\ \A i, j \in 1..Len(capsuleQueue') : i < j => capsuleQueue'[i] < capsuleQueue'[j]
    BY <2>1, <2>2, <2>3, <2>4 DEF RisingInv
  <2>6. /\ \A i \in 1..Len(wire') : wire'[i] <= queued'
        /\ \A i, j \in 1..Len(wire') : i < j /\ wire'[j] # CLOSE => wire'[i] < wire'[j]
    BY <2>1, <2>3, <2>4 DEF RisingInv
  <2>7. ASSUME NEW i \in 1..Len(wire'), NEW j \in 1..Len(capsuleQueue')
        PROVE  wire'[i] <= capsuleQueue'[j] /\ (writer' # "pop" => wire'[i] < capsuleQueue'[j])
    BY <2>1, <2>2, <2>3, <2>4 DEF RisingInv
  <2>8. writer' = "write" =>
          /\ current' \in 1..queued'
          /\ \A i \in 1..Len(wire') : wire'[i] < current'
          /\ \A j \in 1..Len(capsuleQueue') : current' <= capsuleQueue'[j]
    BY <2>1, <2>2, <2>3, <2>4 DEF RisingInv
  <2> QED
    BY <2>5, <2>6, <2>7, <2>8 DEF RisingInv
<1> USE DEF notWriter
<1>9. CASE WriterLock
  <2>1. /\ writer = "lock" /\ writer' = CloseFirst /\ UNCHANGED <<wire, capsuleQueue, queued>>
        /\ current' = IF CloseFirst = "write" THEN Head(capsuleQueue) ELSE 0
    BY <1>9 DEF WriterLock
  <2>2. /\ CloseFirst \in {"sendClose", "select", "write"}
        /\ CloseFirst = "write" => capsuleQueue # <<>>
    BY DEF CloseFirst
  <2>3. CASE CloseFirst # "write"
    BY <2>1, <2>2, <2>3, <1>b DEF Elsewhere
  <2>4. CASE CloseFirst = "write"
    <3>1. /\ 1 \in 1..Len(capsuleQueue) /\ current' = capsuleQueue[1]
          /\ \A j \in 1..Len(capsuleQueue) : j = 1 \/ 1 < j
          /\ \A j \in 1..Len(capsuleQueue) : capsuleQueue[j] \in Nat
      BY <2>1, <2>2, <2>4, EmptySeq
    <3> HIDE DEF TypeOK
    <3>2. /\ current' \in 1..queued
          /\ \A i \in 1..Len(wire) : wire[i] < current'
          /\ \A j \in 1..Len(capsuleQueue) : current' <= capsuleQueue[j]
      BY <2>1, <3>1 DEF RisingInv
    <3> QED
      BY <2>1, <3>2 DEF RisingInv
  <2> QED
    BY <2>3, <2>4
<1>11. CASE WriterPop
  <2>1. writer = "pop" /\ writer' = "lock" /\ UNCHANGED <<wire, queued>>
    BY <1>11 DEF WriterPop
  <2>2. CASE capsuleQueue = <<>>
    <3>1. Len(capsuleQueue') = 0
      BY <1>11, <2>2, EmptySeq DEF WriterPop, Popped
    <3> QED
      BY <2>1, <3>1 DEF RisingInv
  <2>3. CASE capsuleQueue # <<>>
    <3>1. /\ Len(capsuleQueue') = Len(capsuleQueue) - 1 /\ Len(capsuleQueue) \in Nat \ {0}
          /\ \A i \in 1..Len(capsuleQueue') : capsuleQueue'[i] = capsuleQueue[i + 1]
      BY <1>11, <2>3, HeadTailProperties, EmptySeq DEF WriterPop, Popped
    <3>3. /\ \A i \in 1..Len(wire) : wire[i] \in Nat
          /\ \A i \in 1..Len(capsuleQueue) : capsuleQueue[i] \in Nat
      OBVIOUS
    <3> HIDE DEF TypeOK
    <3>2. /\ 1 \in 1..Len(capsuleQueue)
          /\ \A i \in 1..Len(capsuleQueue') : i + 1 \in 1..Len(capsuleQueue) /\ 1 < i + 1
      BY <3>1
    <3>4. ASSUME NEW i \in 1..Len(capsuleQueue'), NEW j \in 1..Len(capsuleQueue'), i < j
          PROVE  capsuleQueue'[i] < capsuleQueue'[j]
      <4>1. i + 1 < j + 1
        BY <3>1, <3>4
      <4>2. capsuleQueue[i + 1] < capsuleQueue[j + 1]
        BY <3>2, <4>1 DEF RisingInv
      <4> QED
        BY <3>1, <4>2
    <3>5. ASSUME NEW i \in 1..Len(wire), NEW j \in 1..Len(capsuleQueue')
          PROVE  wire[i] < capsuleQueue'[j]
      <4>1. wire[i] <= capsuleQueue[1] /\ capsuleQueue[1] < capsuleQueue[j + 1]
        BY <3>2 DEF RisingInv
      <4> QED
        BY <3>1, <3>2, <3>3, <4>1
    <3>6. \A i \in 1..Len(capsuleQueue') : capsuleQueue'[i] \in 1..queued
      BY <3>1, <3>2 DEF RisingInv
    <3>7. \A i \in 1..Len(wire), j \in 1..Len(capsuleQueue') : wire[i] <= capsuleQueue'[j]
      BY <3>1, <3>2, <3>3, <3>5
    <3> QED
      BY <2>1, <3>4, <3>5, <3>6, <3>7 DEF RisingInv
  <2> QED
    BY <2>2, <2>3
<1>12. CASE SendClose
  <2>1. writer = "sendClose" /\ writer' = "exit" /\ UNCHANGED <<capsuleQueue, queued>>
    BY <1>12 DEF SendClose, WriterExit
  <2>2. CASE wire' = wire
    BY <2>1, <2>2, <1>b DEF Elsewhere
  <2>3. CASE wire' = Append(wire, CLOSE)
    <3>1. \A i \in 1..Len(wire') :
            (i \in 1..Len(wire) /\ wire'[i] = wire[i]) \/ (i = Len(wire') /\ wire'[i] = CLOSE)
      <4>1. CLOSE \in Nat
        BY DEF CLOSE
      <4> QED
        BY <2>3, <4>1, Written
    <3>2. CLOSE = 0 /\ \A i \in 1..Len(capsuleQueue) : capsuleQueue[i] \in Nat
      BY DEF CLOSE
    <3>3. queued \in Nat
      OBVIOUS
    <3> HIDE DEF TypeOK
    <3>4. /\ \A i \in 1..Len(wire') : wire'[i] <= queued
          /\ \A i \in 1..Len(wire'), j \in 1..Len(capsuleQueue) :
               wire'[i] <= capsuleQueue[j] /\ wire'[i] < capsuleQueue[j]
      BY <2>1, <3>1, <3>2, <3>3 DEF RisingInv
    <3>5. ASSUME NEW i \in 1..Len(wire'), NEW j \in 1..Len(wire'), i < j, wire'[j] # CLOSE
          PROVE  wire'[i] < wire'[j]
      <4>1. j \in 1..Len(wire) /\ wire'[j] = wire[j]
        BY <3>1, <3>5
      <4>2. i \in 1..Len(wire) /\ wire'[i] = wire[i]
        BY <3>1, <3>5, <4>1, Longer, <2>3 DEF TypeOK
      <4> QED
        BY <3>5, <4>1, <4>2 DEF RisingInv
    <3> QED
      BY <2>1, <3>4, <3>5 DEF RisingInv
  <2> QED
    BY <1>12, <2>2, <2>3 DEF SendClose
<1>13. CASE WriteSucceeds
  <2>1. /\ writer = "write" /\ writer' = "pop" /\ wire' = Append(wire, current)
        /\ UNCHANGED <<capsuleQueue, queued>> /\ current \in Nat
    BY <1>13 DEF WriteSucceeds
  <2>2. \A i \in 1..Len(wire') :
          (i \in 1..Len(wire) /\ wire'[i] = wire[i]) \/ (i = Len(wire') /\ wire'[i] = current)
    BY <2>1, Written
  <2>3. /\ \A i \in 1..Len(wire) : wire[i] \in Nat
        /\ \A i \in 1..Len(capsuleQueue) : capsuleQueue[i] \in Nat
    OBVIOUS
  <2> HIDE DEF TypeOK
  <2>4. /\ \A i \in 1..Len(wire') : wire'[i] <= queued
        /\ \A i \in 1..Len(wire'), j \in 1..Len(capsuleQueue) : wire'[i] <= capsuleQueue[j]
    BY <2>1, <2>2, <2>3 DEF RisingInv
  <2>5. ASSUME NEW i \in 1..Len(wire'), NEW j \in 1..Len(wire'), i < j, wire'[j] # CLOSE
        PROVE  wire'[i] < wire'[j]
    <3>1. i \in 1..Len(wire) /\ wire'[i] = wire[i]
      BY <2>1, <2>2, <2>5, Longer DEF TypeOK
    <3> QED
      BY <2>1, <2>2, <2>5, <3>1 DEF RisingInv
  <2> QED
    BY <2>1, <2>4, <2>5 DEF RisingInv
<1> QED
  BY <1>a, <1>b, <1>2, <1>6, <1>9, <1>11, <1>12, <1>13, QueueSteps

\* A queue that was found full closes the session: whoever found it is still on
\* its way, or the session is closed.
LEMMA LostStep ==
  ASSUME TypeOK, CloseInv, LostInv, [Next]_vars
  PROVE  LostInv'
<1> USE DEF queueVars
<1>0. closeErr # "none" => closeErr' # "none"
  BY FirstStays
<1>a. ASSUME lost' = lost, \A p \in Callers : pc[p] = "full" => pc'[p] = "full" PROVE LostInv'
  BY <1>0, <1>a DEF LostInv
<1>b. ASSUME NEW p \in Callers, NEW position, Go(p, position), pc[p] # "full"
      PROVE  \A q \in Callers : pc[q] = "full" => pc'[q] = "full"
  BY <1>b DEF Go, TypeOK
<1>1. CASE ClosingStep
  BY <1>1, <1>a DEF ClosingStep, CloseMaps, ClearQueue, FinishClose
<1>2. ASSUME NEW q \in Queuers, QueueCapsule(q) \/ CloseWithFlowControlError(q) PROVE LostInv'
  <2>1. q \in Callers /\ (Go(q, "append") \/ Go(q, "closing")) /\ pc[q] # "full" /\ lost' = lost
    BY <1>2 DEF QueueCapsule, CloseWithFlowControlError, Callers
  <2> QED
    BY <2>1, <1>a, <1>b
<1>3. ASSUME NEW a \in Closers, CloseWithError(a) PROVE LostInv'
  <2>1. a \in Callers /\ Go(a, "lock") /\ pc[a] # "full" /\ lost' = lost
    BY <1>3 DEF CloseWithError, Callers
  <2> QED
    BY <2>1, <1>a, <1>b
<1>4. ASSUME NEW o \in Openers, OpenStream(o) PROVE LostInv'
  <2>1. o \in Callers /\ Go(o, "append") /\ pc[o] # "full" /\ lost' = lost
    BY <1>4 DEF OpenStream, Callers
  <2> QED
    BY <2>1, <1>a, <1>b
<1>5. ASSUME NEW p \in Callers, AppendCapsule(p) PROVE LostInv'
  <2>1. CASE QueueFull
    <3>1. pc'[p] = "full"
      BY <1>5, <2>1 DEF AppendCapsule, Go, TypeOK
    <3> QED
      BY <3>1 DEF LostInv
  <2>2. CASE ~QueueFull
    <3>1. Go(p, "notify") /\ pc[p] # "full" /\ lost' = lost
      BY <1>5, <2>2 DEF AppendCapsule
    <3> QED
      BY <3>1, <1>a, <1>b
  <2> QED
    BY <2>1, <2>2
<1>6. ASSUME NEW p \in Callers, NotifyWriter(p) \/ CloseByApplication(p) \/ EndClose(p) PROVE LostInv'
  <2>1. pc[p] # "full" /\ lost' = lost
    BY <1>6 DEF NotifyWriter, CloseByApplication, EndClose
  <2>2. Go(p, "idle") \/ Go(p, "closing") \/ Go(p, "wait")
    BY <1>6 DEF NotifyWriter, CloseByApplication, EndClose, Return
  <2> QED
    BY <2>1, <2>2, <1>a, <1>b
<1>7. ASSUME NEW p \in Callers, CloseQueueFull(p) PROVE LostInv'
  <2>1. closeErr' # "none"
    BY <1>7, <1>0 DEF CloseQueueFull, FirstClose, CloseFirstWith, SetFirst, LaterClose
  <2> QED
    BY <2>1 DEF LostInv
<1>8. CASE WriterStep \/ WriteSucceeds \/ WriteFails \/ WriteFailsPartly
  BY <1>8, <1>a DEF WriterStep, WriterSelect, WriterLock, WriterCloses, WriterPop, SendClose,
                    WriteSucceeds, WriteFails, WriteFailsPartly, notWriter
<1>9. CASE ReaderStep \/ UNCHANGED vars
  BY <1>9, <1>a DEF ReaderStep, vars
<1> QED
  BY <1>1, <1>2, <1>3, <1>4, <1>5, <1>6, <1>7, <1>8, <1>9 DEF Next, CallStep

\* The three invariants about the capsules.
LEMMA OrderInvariance == Spec => [](OrderInv /\ RisingInv /\ LostInv)
<1>1. Init => OrderInv /\ RisingInv /\ LostInv
  BY EmptySeq DEF Init, OrderInv, RisingInv, LostInv, Open, Twice
<1>2. Inv /\ OrderInv /\ RisingInv /\ LostInv /\ [Next]_vars => (OrderInv /\ RisingInv /\ LostInv)'
  BY OrderStep, RisingStep, LostStep DEF Inv
<1> QED
  BY <1>1, <1>2, Invariance, PTL DEF Spec

\* session.go: capsules are written once and in the order they were queued, none
\* twice or out of order when closeWithError clears the queue, and none is dropped
\* from a session that stays open.
THEOREM InOrder == Spec => []CapsulesInOrder
<1>1. ASSUME Inv, OrderInv, RisingInv, LostInv PROVE CapsulesInOrder
  <2> DEFINE rest == IF writer = "pop" THEN Tail(capsuleQueue) ELSE capsuleQueue
  <2> SUFFICES ASSUME Open PROVE wire \o rest = [i \in 1..queued |-> i]
    BY <1>1 DEF CapsulesInOrder, Open, RisingInv, LostInv
  <2>1. wire \in Seq(Nat) /\ capsuleQueue \in Seq(Nat) /\ queued \in Nat
    BY <1>1 DEF Inv, TypeOK
  <2>2. /\ rest \in Seq(Nat) /\ Len(wire) + Len(rest) = queued
        /\ \A i \in 1..Len(rest) : rest[i] = Len(wire) + i
    <3>1. CASE writer = "pop"
      <4>1. /\ capsuleQueue # <<>> /\ Len(wire) + Len(capsuleQueue) = queued + 1
            /\ \A i \in 1..Len(capsuleQueue) : capsuleQueue[i] + 1 = Len(wire) + i
        BY <1>1, <3>1 DEF OrderInv, Twice
      <4>2. /\ rest \in Seq(Nat) /\ Len(rest) = Len(capsuleQueue) - 1
            /\ Len(capsuleQueue) \in Nat \ {0}
            /\ \A i \in 1..Len(rest) : rest[i] = capsuleQueue[i + 1]
        BY <2>1, <3>1, <4>1, HeadTailProperties, EmptySeq
      <4> HIDE DEF rest
      <4>3. ASSUME NEW i \in 1..Len(rest) PROVE rest[i] = Len(wire) + i
        <5>1. i + 1 \in 1..Len(capsuleQueue) /\ capsuleQueue[i + 1] \in Nat
          BY <2>1, <4>2
        <5>2. capsuleQueue[i + 1] + 1 = Len(wire) + (i + 1) /\ rest[i] = capsuleQueue[i + 1]
          BY <4>1, <4>2, <5>1
        <5> QED
          BY <2>1, <5>1, <5>2
      <4> QED
        BY <2>1, <4>1, <4>2, <4>3
    <3>2. CASE writer # "pop"
      BY <1>1, <2>1, <3>2 DEF OrderInv, Twice
    <3> QED
      BY <3>1, <3>2
  <2> HIDE DEF rest
  <2> DEFINE numbers == [i \in 1..queued |-> i]
  <2>3. numbers \in Seq(Nat) /\ Len(numbers) = queued
    BY <2>1
  <2>4. wire \o rest \in Seq(Nat) /\ Len(wire \o rest) = queued
    BY <2>1, <2>2, ConcatProperties
  <2>5. ASSUME NEW i \in 1..queued PROVE (wire \o rest)[i] = i
    <3>1. (wire \o rest)[i] = IF i <= Len(wire) THEN wire[i] ELSE rest[i - Len(wire)]
      BY <2>1, <2>2, <2>4, ConcatProperties
    <3>2. CASE i <= Len(wire)
      BY <1>1, <2>1, <3>1, <3>2 DEF OrderInv
    <3>3. CASE ~(i <= Len(wire))
      <4>1. i - Len(wire) \in 1..Len(rest)
        BY <2>1, <2>2, <3>3
      <4>2. (wire \o rest)[i] = Len(wire) + (i - Len(wire))
        BY <2>2, <3>1, <3>3, <4>1
      <4>3. Len(wire) \in Nat
        BY <2>1
      <4> QED
        BY <4>2, <4>3
    <3> QED
      BY <3>2, <3>3
  <2>6. \A i \in 1..queued : numbers[i] = i
    OBVIOUS
  <2> HIDE DEF numbers
  <2>7. wire \o rest = numbers
    BY <2>3, <2>4, <2>5, <2>6, SeqEqual
  <2> QED
    BY <2>7 DEF numbers
<1> QED
  BY <1>1, Invariance, OrderInvariance, PTL

-----------------------------------------------------------------------------
\* Nothing is written after WT_CLOSE_SESSION or after half a capsule.
LEMMA LastStep ==
  ASSUME TypeOK, CloseInv, RisingInv, LastInv, [Next]_vars
  PROVE  LastInv'
<1> USE DEF queueVars, wireVars, connectVars
<1>0. closeErr = "app" => closeErr' = "app"
  BY FirstStays
<1>a. CASE UNCHANGED <<writer, sendState, wire, partial>>
  BY <1>a, <1>0 DEF LastInv, CloseIsLast
<1>b. CASE UNCHANGED <<sendState, wire, partial>> /\ writer # "exit"
  <2>1. sendState # "closed" /\ sendState' # "closed"
    BY <1>b DEF LastInv
  <2> QED
    BY <1>b, <2>1 DEF LastInv, CloseIsLast
<1>1. CASE FinishClose
  <2>1. UNCHANGED <<writer, wire, partial>>
    BY <1>1 DEF FinishClose
  <2>2. sendState' = sendState \/ (sendState = "open" /\ sendState' = "canceled")
    BY <1>1 DEF FinishClose, Finish, ResetSend
  <2> QED
    BY <2>1, <2>2, <1>0 DEF LastInv, CloseIsLast
<1>2. ClosingStep => FinishClose \/ UNCHANGED <<writer, sendState, wire, partial>>
  BY DEF ClosingStep, CloseMaps, ClearQueue
<1>3. /\ \A q \in Queuers : QueueCapsule(q) \/ CloseWithFlowControlError(q) =>
           UNCHANGED <<writer, sendState, wire, partial>>
      /\ \A a \in Closers : CloseWithError(a) => UNCHANGED <<writer, sendState, wire, partial>>
      /\ \A o \in Openers : OpenStream(o) => UNCHANGED <<writer, sendState, wire, partial>>
  BY DEF QueueCapsule, CloseWithFlowControlError, CloseWithError, OpenStream
<1>4. \A p \in Callers : CallStep(p) => UNCHANGED <<writer, sendState, wire, partial>>
  BY DEF CallStep, AppendCapsule, NotifyWriter, CloseQueueFull, CloseByApplication, EndClose
<1>5. ReaderStep \/ UNCHANGED vars => UNCHANGED <<writer, sendState, wire, partial>>
  BY DEF ReaderStep, vars
<1> USE DEF notWriter
<1>6. WriterStep => SendClose \/ (UNCHANGED <<sendState, wire, partial>> /\ writer # "exit")
  BY DEF WriterStep, WriterSelect, WriterLock, WriterCloses, WriterPop
<1>7. CASE SendClose
  <2>1. /\ writer = "sendClose" /\ writer' = "exit" /\ UNCHANGED partial
        /\ closeErr = "app" /\ closeErr' = "app"
    BY <1>7, <1>0 DEF SendClose, WriterExit, CloseInv
  <2>2. sendState # "closed" /\ \A i \in 1..Len(wire) : wire[i] # CLOSE
    BY <2>1 DEF LastInv, CloseIsLast
  <2>3. CASE sendState = "open" /\ sendState' = "closed" /\ wire' = Append(wire, CLOSE)
    <3>1. \A i \in 1..Len(wire') : wire'[i] = CLOSE => i = Len(wire')
      <4>1. CLOSE \in Nat
        BY DEF CLOSE
      <4> QED
        BY <2>2, <2>3, <4>1, Written
    <3>2. ~partial
      BY <2>3 DEF LastInv, CloseIsLast
    <3> QED
      BY <2>1, <2>3, <3>1, <3>2 DEF LastInv, CloseIsLast
  <2>4. CASE sendState' = ResetSend /\ wire' = wire
    BY <2>1, <2>2, <2>4 DEF ResetSend, LastInv, CloseIsLast
  <2> QED
    BY <1>7, <2>3, <2>4 DEF SendClose
<1>8. CASE WriteSucceeds
  <2>1. /\ writer = "write" /\ sendState = "open" /\ wire' = Append(wire, current)
        /\ UNCHANGED <<sendState, partial>>
    BY <1>8 DEF WriteSucceeds
  <2>2. current \in Nat /\ current # CLOSE
    BY <2>1 DEF TypeOK, RisingInv, CLOSE
  <2>3. \A i \in 1..Len(wire) : wire[i] # CLOSE
    BY <2>1 DEF LastInv, CloseIsLast
  <2>4. \A i \in 1..Len(wire') : wire'[i] # CLOSE
    BY <2>1, <2>2, <2>3, Written
  <2> QED
    BY <2>1, <2>4 DEF LastInv, CloseIsLast
<1>9. CASE WriteFails
  <2>1. /\ writer = "write" /\ UNCHANGED <<wire, partial>>
        /\ sendState' = IF Stopped THEN "canceled" ELSE sendState
    BY <1>9 DEF WriteFails
  <2>2. sendState # "closed"
    BY <2>1 DEF LastInv
  <2> QED
    BY <2>1, <2>2 DEF LastInv, CloseIsLast
<1>10. CASE WriteFailsPartly
  <2>1. writer = "write" /\ UNCHANGED wire /\ sendState' = ResetSend
    BY <1>10 DEF WriteFailsPartly, ResetBothSides
  <2>2. sendState # "closed" /\ sendState' = "canceled"
    BY <2>1 DEF LastInv, ResetSend, TypeOK
  <2> QED
    BY <2>1, <2>2 DEF LastInv, CloseIsLast
<1> QED
  BY <1>a, <1>b, <1>1, <1>2, <1>3, <1>4, <1>5, <1>6, <1>7, <1>8, <1>9, <1>10 DEF Next

\* LastInv is an invariant.
LEMMA LastInvariance == Spec => []LastInv
<1>1. Init => LastInv
  BY EmptySeq DEF Init, LastInv, CloseIsLast
<1>2. Inv /\ RisingInv /\ LastInv /\ [Next]_vars => LastInv'
  BY LastStep DEF Inv
<1> QED
  BY <1>1, <1>2, Invariance, OrderInvariance, PTL DEF Spec

\* session.go: WT_CLOSE_SESSION is the last capsule, is sent once and only when
\* CloseWithError closed the session; nothing follows half a capsule.
THEOREM LastCapsule == Spec => []CloseIsLast
  BY LastInvariance, PTL DEF LastInv

\* capsule.go, session.go: WT_CLOSE_SESSION carries the longest prefix of whole
\* characters of the message that was passed to CloseWithError.
THEOREM MessageDelivered == Spec => []PeerGetsMessage
<1>1. Init => PeerGetsMessage
  BY EmptySeq DEF Init, PeerGetsMessage
<1>2. ASSUME Inv, LastInv, LastInv', PeerGetsMessage, [Next]_vars PROVE PeerGetsMessage'
  <2> USE DEF closeVars, wireVars, notWriter
  <2>1. wire \in Seq(Nat) /\ CloseInv
    BY <1>2 DEF Inv, TypeOK
  <2>2. CASE SendClose
    <3>1. closeErr = "app" /\ message' = message /\ message \in Messages
      BY <2>1, <2>2 DEF SendClose, CloseInv
    <3>2. ParsedMessage(CloseMessage(message)) = LongestPrefix(message)
      BY <3>1, MessagesAssumption, ParsedUnchanged
    <3>3. CASE wire' = wire /\ peerMessage' = peerMessage
      BY <1>2, <3>1, <3>3 DEF PeerGetsMessage
    <3>4. CASE peerMessage' = ParsedMessage(CloseMessage(message))
      BY <3>1, <3>2, <3>4 DEF PeerGetsMessage
    <3> QED
      BY <2>2, <3>3, <3>4 DEF SendClose
  <2>3. CASE WriteSucceeds
    <3>1. sendState' # "closed"
      BY <2>3 DEF WriteSucceeds
    <3>2. \A i \in 1..Len(wire') : wire'[i] # CLOSE
      BY <1>2, <3>1 DEF LastInv, CloseIsLast
    <3> QED
      BY <3>2 DEF PeerGetsMessage
  <2>4. CASE UNCHANGED <<wire, peerMessage>>
    <3>1. ASSUME NEW i \in 1..Len(wire), wire[i] = CLOSE PROVE message' = message
      <4>1. closeErr # "none"
        BY <1>2, <3>1 DEF LastInv, CloseIsLast
      <4> QED
        BY <1>2, <2>1, <4>1, FirstStays
    <3> QED
      BY <1>2, <2>4, <3>1 DEF PeerGetsMessage
  <2>5. UNCHANGED <<wire, peerMessage>> \/ SendClose \/ WriteSucceeds
    BY <1>2 DEF Next, ClosingStep, CloseMaps, ClearQueue, FinishClose, QueueCapsule,
      CloseWithFlowControlError, CloseWithError, OpenStream, CallStep, AppendCapsule, NotifyWriter,
      CloseQueueFull, CloseByApplication, EndClose, WriterStep, WriterSelect, WriterLock, WriterCloses, WriterPop,
      WriteFails, WriteFailsPartly, ReaderStep, vars
  <2> QED
    BY <2>2, <2>3, <2>4, <2>5
<1> QED
  BY <1>1, <1>2, Invariance, LastInvariance, PTL DEF Spec

-----------------------------------------------------------------------------
\* Every action keeps the writer awake or notified.
LEMMA WakeStep ==
  ASSUME TypeOK, CloseInv, WakeInv, [Next]_vars
  PROVE  WakeInv'
<1> USE DEF queueVars, closeVars
<1>a. ASSUME UNCHANGED <<capsuleQueue, pendingClose>>, writer' = "select" => writer = "select",
             updated => updated', ctxDone => ctxDone', stage = "finish" => stage' = "finish",
             \A p \in Callers : pc[p] = "notify" => pc'[p] = "notify" \/ updated'
      PROVE  WakeInv'
  BY <1>a DEF WakeInv
<1>b. ASSUME NEW p \in Callers, NEW position, Go(p, position), pc[p] # "notify"
      PROVE  \A r \in Callers : pc[r] = "notify" => pc'[r] = "notify"
  BY <1>b DEF Go, TypeOK
<1>c. ASSUME NEW err, NEW msg, CloseFirstWith(err, msg) PROVE stage # "finish"
  BY <1>c DEF CloseFirstWith, CloseInv
<1>1. CASE CloseMaps
  BY <1>1, <1>a DEF CloseMaps
<1>2. CASE ClearQueue
  <2>1. capsuleQueue' = <<>> /\ stage' = "finish"
    BY <1>2 DEF ClearQueue, DropQueue
  <2> QED
    BY <2>1 DEF WakeInv
<1>3. CASE FinishClose
  <2>1. UNCHANGED <<capsuleQueue, pendingClose, writer, pc, ctxDone>>
    BY <1>3 DEF FinishClose
  <2>2. CASE closeErr = "app"
    <3>1. updated'
      BY <1>3, <2>2 DEF FinishClose, Finish
    <3> QED
      BY <3>1 DEF WakeInv
  <2>3. CASE closeErr # "app"
    <3>1. ~pendingClose /\ updated' = updated
      BY <1>3, <2>3 DEF FinishClose, Finish, CloseInv
    <3> QED
      BY <2>1, <3>1 DEF WakeInv
  <2> QED
    BY <2>2, <2>3
<1>4. ASSUME NEW q \in Queuers, QueueCapsule(q) PROVE WakeInv'
  BY <1>4, <1>a, <1>b DEF QueueCapsule, Callers
<1>5. ASSUME NEW q \in Queuers, CloseWithFlowControlError(q) PROVE WakeInv'
  <2>1. \A r \in Callers : pc[r] = "notify" => pc'[r] = "notify"
    BY <1>5, <1>b DEF CloseWithFlowControlError, Callers
  <2> QED
    BY <1>5, <2>1, <1>a, <1>c DEF CloseWithFlowControlError, FirstClose
<1>6. ASSUME NEW a \in Closers, CloseWithError(a) PROVE WakeInv'
  BY <1>6, <1>a, <1>b DEF CloseWithError, Callers
<1>7. ASSUME NEW o \in Openers, OpenStream(o) PROVE WakeInv'
  BY <1>7, <1>a, <1>b DEF OpenStream, Callers
<1>8. ASSUME NEW p \in Callers, AppendCapsule(p) PROVE WakeInv'
  <2>1. CASE QueueFull
    BY <1>8, <2>1, <1>a, <1>b DEF AppendCapsule
  <2>2. CASE ~QueueFull
    <3>1. /\ pc'[p] = "notify"
          /\ UNCHANGED <<pendingClose, writer, updated, ctxDone, stage>>
      BY <1>8, <2>2 DEF AppendCapsule, Go, TypeOK
    <3> QED
      BY <3>1 DEF WakeInv
  <2> QED
    BY <2>1, <2>2
<1>9. ASSUME NEW p \in Callers, NotifyWriter(p) PROVE WakeInv'
  BY <1>9 DEF NotifyWriter, SendNotification, WakeInv
<1>10. ASSUME NEW p \in Callers, CloseQueueFull(p) PROVE WakeInv'
  <2>1. \A r \in Callers : pc[r] = "notify" => pc'[r] = "notify"
    BY <1>10, <1>b DEF CloseQueueFull, Return
  <2>2. stage = "finish" => stage' = "finish"
    BY <1>10, <1>c DEF CloseQueueFull, FirstClose, LaterClose
  <2> QED
    BY <1>10, <2>1, <2>2, <1>a DEF CloseQueueFull
<1>11. ASSUME NEW p \in Callers, EndClose(p) PROVE WakeInv'
  <2>1. \A r \in Callers : pc[r] = "notify" => pc'[r] = "notify"
    BY <1>11, <1>b DEF EndClose, Return
  <2> QED
    BY <1>11, <2>1, <1>a DEF EndClose
<1>18. ASSUME NEW p \in Callers, CloseByApplication(p) PROVE WakeInv'
  <2>1. \A r \in Callers : pc[r] = "notify" => pc'[r] = "notify"
    BY <1>18, <1>b DEF CloseByApplication, Return
  <2>2. stage = "finish" => stage' = "finish"
    BY <1>18, <1>c DEF CloseByApplication, LaterClose
  <2> QED
    BY <1>18, <2>1, <2>2, <1>a DEF CloseByApplication
<1> USE DEF notWriter
<1>12. CASE WriterSelect
  BY <1>12 DEF WriterSelect, WriterExit, WakeInv
<1>13. CASE WriterLock
  <2>1. CloseFirst = "select" => ~pendingClose /\ capsuleQueue = <<>>
    BY DEF CloseFirst
  <2> QED
    BY <1>13, <2>1 DEF WriterLock, WakeInv
<1>14. CASE WriterCloses
  BY <1>14 DEF WriterCloses, WriterExit, AfterFailure, WakeInv
<1>15. CASE WriterPop \/ SendClose \/ WriteSucceeds \/ WriteFails \/ WriteFailsPartly
  BY <1>15 DEF WriterPop, SendClose, WriterExit, WriteSucceeds, WriteFails, WriteFailsPartly, WakeInv
<1>16. CASE ReaderStep
  <2>1. stage = "finish" => stage' = "finish"
    BY <1>16, <1>c DEF ReaderStep, ReadsClosingCapsule, ReadEnds, ReaderCloses, FirstClose, LaterClose
  <2>2. ctxDone => ctxDone'
    BY <1>16 DEF ReaderStep, ReadsClosingCapsule, ReadEnds, ReaderCloses
  <2> QED
    BY <1>16, <2>1, <2>2, <1>a DEF ReaderStep
<1>17. CASE UNCHANGED vars
  BY <1>17, <1>a DEF vars
<1> QED
  BY <1>1, <1>2, <1>3, <1>4, <1>5, <1>6, <1>7, <1>8, <1>9, <1>10, <1>11, <1>12, <1>13, <1>14,
     <1>15, <1>16, <1>17, <1>18
  DEF Next, ClosingStep, CallStep, WriterStep

\* session.go: the notification of the writer is never lost.
THEOREM NoLostWakeup == Spec => []WriterNotified
<1>1. Init => WakeInv
  BY DEF Init, WakeInv
<1>2. Inv /\ WakeInv /\ [Next]_vars => WakeInv'
  BY WakeStep DEF Inv
<1>3. WakeInv => WriterNotified
  BY DEF WakeInv, WriterNotified
<1> QED
  BY <1>1, <1>2, <1>3, Invariance, PTL DEF Spec
=============================================================================
