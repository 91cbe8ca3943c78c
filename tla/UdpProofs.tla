----------------------------- MODULE UdpProofs ------------------------------
(***************************************************************************)
(* What a receive buffer may become when a datagram is sent to it: the     *)
(* lemmas about Udp that the theorems about the programs share.            *)
(***************************************************************************)
EXTENDS Udp, Integers, SequenceTheorems, TLAPS

(* An insertion keeps the type of a sequence.                              *)
LEMMA InsertAtType ==
    ASSUME NEW S, NEW q \in Seq(S), NEW k \in 1 .. Len(q), NEW m \in S
    PROVE  InsertAt(q, k, m) \in Seq(S)
<1>1. SubSeq(q, 1, k - 1) \in Seq(S)
  BY SubSeqProperties
<1>2. SubSeq(q, k, Len(q)) \in Seq(S)
  BY SubSeqProperties
<1>3. <<m>> \in Seq(S)
  OBVIOUS
<1> QED
  BY <1>1, <1>2, <1>3, ConcatProperties DEF InsertAt

(* So does whatever the network does to a datagram: a receive buffer holds *)
(* nothing but what was sent to it.                                        *)
LEMMA ArrivalsType ==
    ASSUME NEW S, NEW q \in Seq(S), NEW m \in S
    PROVE  Arrivals(q, m) \subseteq Seq(S)
<1>1. Append(q, m) \in Seq(S) /\ Append(Append(q, m), m) \in Seq(S)
  BY AppendProperties
<1> QED
  BY <1>1, InsertAtType DEF Arrivals

(* A network that at worst loses datagrams appends them or drops them.     *)
LEMMA LossyArrivals ==
    ASSUME Faults \subseteq {"loss"}, NEW q, NEW m
    PROVE  Arrivals(q, m) \subseteq {q, Append(q, m)}
BY DEF Arrivals

(* A network without faults delivers what the buffer has room for.         *)
LEMMA FaultlessArrivals ==
    ASSUME Faults = {}, NEW q, NEW m, Len(q) \in Nat, Len(q) < Capacity
    PROVE  Arrivals(q, m) = {Append(q, m)}
BY NetworkAssumption DEF Arrivals, NetworkAssumption

(* A sequence is empty when its length is zero.                            *)
LEMMA EmptyByLength ==
    ASSUME NEW S, NEW q \in Seq(S)
    PROVE  Len(q) = 0 <=> q = <<>>
BY EmptySeq

(* A property that every datagram of a buffer has is a type of the buffer. *)
LEMMA SeqOfSubset ==
    ASSUME NEW S, NEW q \in Seq(S), NEW T, \A i \in 1 .. Len(q) : q[i] \in T
    PROVE  q \in Seq(T)
<1>1. Len(q) \in Nat /\ q \in [1 .. Len(q) -> S]
  BY LenProperties
<1>2. q \in [1 .. Len(q) -> T]
  BY <1>1
<1> QED
  BY <1>1, <1>2, SeqDef

(* An empty buffer has every type.                                         *)
LEMMA EmptyHasType == \A S : <<>> \in Seq(S)
OBVIOUS

(* A sequence of one element.                                              *)
LEMMA OneElement ==
    ASSUME NEW S, NEW q \in Seq(S), Len(q) = 1
    PROVE  q = <<q[1]>>
BY SeqEqual, LenProperties

(* And one of two.                                                         *)
LEMMA TwoElements ==
    ASSUME NEW S, NEW m \in S
    PROVE  Append(<<m>>, m) = <<m, m>> /\ Len(<<m>>) = 1
<1>1. <<m>> \in Seq(S) /\ <<m, m>> \in Seq(S)
  OBVIOUS
<1>2. Len(<<m>>) = 1
  OBVIOUS
<1>3. Len(<<m, m>>) = 2
  OBVIOUS
<1>4. Append(<<m>>, m) \in Seq(S) /\ Len(Append(<<m>>, m)) = 2
  BY <1>1, <1>2, AppendProperties
<1>5. Append(<<m>>, m)[1] = m /\ Append(<<m>>, m)[2] = m
  BY <1>1, <1>2, AppendProperties
<1>6. \A i \in 1 .. 2 : Append(<<m>>, m)[i] = <<m, m>>[i]
  BY <1>5
<1>7. Append(<<m>>, m) = <<m, m>>
  BY <1>1, <1>3, <1>4, <1>6, SeqEqual
<1> QED
  BY <1>2, <1>7

(* Where a datagram waits in a buffer, if it does, and if it does but once. *)
Held(q, m) == {i \in 1 .. Len(q) : q[i] = m}
Absent(q, m) == Held(q, m) = {}
Once(q, m) == \A i, j \in Held(q, m) : i = j

(* The buffer r is q with m at place k.                                    *)
Inserted(q, k, m, r) ==
    /\ Len(r) = Len(q) + 1 /\ r[k] = m
    /\ \A i \in 1 .. k - 1 : r[i] = q[i]
    /\ \A i \in k + 1 .. Len(q) + 1 : r[i] = q[i - 1]

(* What InsertAt inserts.                                                  *)
LEMMA InsertAtInserts ==
    ASSUME NEW S, NEW q \in Seq(S), NEW k \in 1 .. Len(q), NEW m \in S
    PROVE  Inserted(q, k, m, InsertAt(q, k, m))
<1> DEFINE a == SubSeq(q, 1, k - 1)
           x == <<m>>
           b == SubSeq(q, k, Len(q))
           ax == a \o x
<1>1. Len(q) \in Nat /\ \A i \in 1 .. Len(q) : q[i] \in S
  BY LenProperties, ElementOfSeq
<1>2. a \in Seq(S) /\ Len(a) = k - 1 /\ \A i \in 1 .. k - 1 : a[i] = q[i]
  BY <1>1, SubSeqProperties
<1>3. /\ b \in Seq(S) /\ Len(b) = Len(q) - k + 1
      /\ \A i \in 1 .. Len(q) - k + 1 : b[i] = q[k + i - 1]
  BY <1>1, SubSeqProperties
<1>4. x \in Seq(S) /\ Len(x) = 1 /\ x[1] = m
  OBVIOUS
<1>5. InsertAt(q, k, m) = ax \o b
  BY DEF InsertAt
<1> HIDE DEF a, b, x
<1>6. /\ ax \in Seq(S) /\ Len(ax) = k /\ ax[k] = m
      /\ \A i \in 1 .. k - 1 : ax[i] = q[i]
  <2>1. /\ ax \in Seq(S) /\ Len(ax) = Len(a) + Len(x)
        /\ \A i \in 1 .. Len(a) + Len(x) : ax[i] = IF i <= Len(a) THEN a[i] ELSE x[i - Len(a)]
    BY <1>2, <1>4, ConcatProperties
  <2> HIDE DEF ax
  <2>2. \A i \in 1 .. k : ax[i] = IF i <= k - 1 THEN a[i] ELSE x[i - (k - 1)]
    BY <1>2, <1>4, <2>1
  <2>3. k - (k - 1) = 1 /\ k \in 1 .. k /\ ~(k <= k - 1)
    OBVIOUS
  <2>4. ax[k] = m
    BY <1>4, <2>2, <2>3
  <2> QED
    BY <1>2, <1>4, <2>1, <2>2, <2>4
<1> HIDE DEF ax
<1>7. /\ Len(ax \o b) = Len(q) + 1
      /\ \A i \in 1 .. Len(q) + 1 : (ax \o b)[i] = IF i <= k THEN ax[i] ELSE b[i - k]
  <2>1. /\ Len(ax \o b) = Len(ax) + Len(b)
        /\ \A i \in 1 .. Len(ax) + Len(b) :
              (ax \o b)[i] = IF i <= Len(ax) THEN ax[i] ELSE b[i - Len(ax)]
    BY <1>3, <1>6, ConcatProperties
  <2>2. Len(ax) = k /\ Len(ax) + Len(b) = Len(q) + 1
    BY <1>1, <1>3, <1>6
  <2> QED
    BY <2>1, <2>2
<1>8. \A i \in k + 1 .. Len(q) + 1 : b[i - k] = q[i - 1]
  <2> SUFFICES ASSUME NEW i \in k + 1 .. Len(q) + 1 PROVE b[i - k] = q[i - 1]
    OBVIOUS
  <2>1. i - k \in 1 .. Len(q) - k + 1 /\ k + (i - k) - 1 = i - 1
    BY <1>1
  <2> QED
    BY <1>3, <2>1
<1> QED
  BY <1>1, <1>5, <1>6, <1>7, <1>8 DEF Inserted

(* A network that doubles nothing keeps a datagram to itself or inserts    *)
(* it at one place.                                                        *)
LEMMA SingleArrivals ==
    ASSUME "duplicate" \notin Faults, NEW S, NEW q \in Seq(S), NEW m \in S,
           NEW r \in Arrivals(q, m)
    PROVE  r = q \/ \E k \in 1 .. Len(q) + 1 : Inserted(q, k, m, r)
<1>1. r = q \/ r = Append(q, m) \/ \E k \in 1 .. Len(q) : r = InsertAt(q, k, m)
  BY DEF Arrivals
<1>2. ASSUME r = Append(q, m) PROVE \E k \in 1 .. Len(q) + 1 : Inserted(q, k, m, r)
  <2>1. /\ Len(q) \in Nat /\ Len(r) = Len(q) + 1 /\ r[Len(q) + 1] = m
        /\ \A i \in 1 .. Len(q) : r[i] = q[i]
    BY <1>2, AppendProperties, LenProperties
  <2>2. Inserted(q, Len(q) + 1, m, r) /\ Len(q) + 1 \in 1 .. Len(q) + 1
    BY <2>1 DEF Inserted
  <2> QED
    BY <2>2
<1>3. ASSUME NEW k \in 1 .. Len(q), r = InsertAt(q, k, m)
      PROVE  \E j \in 1 .. Len(q) + 1 : Inserted(q, j, m, r)
  <2>1. k \in 1 .. Len(q) + 1
    BY LenProperties
  <2> QED
    BY <1>3, <2>1, InsertAtInserts
<1> QED
  BY <1>1, <1>2, <1>3

(* An insertion shifts what was there and adds one.                        *)
LEMMA InsertedHeld ==
    ASSUME NEW S, NEW q \in Seq(S), NEW m \in S, NEW k \in 1 .. Len(q) + 1, NEW r,
           Inserted(q, k, m, r), NEW n, NEW i \in Held(r, n)
    PROVE  /\ i \in 1 .. Len(q) + 1
           /\ i = k => n = m
           /\ i < k => i \in Held(q, n)
           /\ i > k => i - 1 \in Held(q, n)
<1>1. Len(q) \in Nat /\ i \in 1 .. Len(q) + 1 /\ r[i] = n
  BY LenProperties DEF Held, Inserted
<1>2. i = k => n = m
  BY <1>1 DEF Inserted
<1>3. ASSUME i < k PROVE i \in Held(q, n)
  <2>1. i \in 1 .. k - 1 /\ i \in 1 .. Len(q)
    BY <1>1, <1>3
  <2> QED
    BY <1>1, <2>1 DEF Inserted, Held
<1>4. ASSUME i > k PROVE i - 1 \in Held(q, n)
  <2>1. i \in k + 1 .. Len(q) + 1 /\ i - 1 \in 1 .. Len(q)
    BY <1>1, <1>4
  <2> QED
    BY <1>1, <2>1 DEF Inserted, Held
<1> QED
  BY <1>1, <1>2, <1>3, <1>4

(* A datagram sent changes nothing for the others, and is there once if    *)
(* it was not there before.                                                *)
LEMMA ArrivalsOnce ==
    ASSUME "duplicate" \notin Faults, NEW S, NEW q \in Seq(S), NEW m \in S,
           NEW r \in Arrivals(q, m)
    PROVE  /\ \A n : n # m /\ Absent(q, n) => Absent(r, n)
           /\ \A n : n # m /\ Once(q, n) => Once(r, n)
           /\ Absent(q, m) => Once(r, m)
<1>1. CASE r = q
  BY <1>1 DEF Once, Absent
<1>2. ASSUME NEW k \in 1 .. Len(q) + 1, Inserted(q, k, m, r)
      PROVE  /\ \A n : n # m /\ Absent(q, n) => Absent(r, n)
             /\ \A n : n # m /\ Once(q, n) => Once(r, n)
             /\ Absent(q, m) => Once(r, m)
  <2>0. Len(q) \in Nat
    BY LenProperties
  <2>1. ASSUME NEW n, NEW i \in Held(r, n)
        PROVE  /\ i \in Int /\ k \in Int
               /\ i = k => n = m
               /\ i < k => i \in Held(q, n)
               /\ i > k => i - 1 \in Held(q, n)
    BY <1>2, <2>0, <2>1, InsertedHeld
  <2>2. ASSUME NEW n, n # m, Absent(q, n) PROVE Absent(r, n)
    BY <2>1, <2>2 DEF Absent
  <2>3. ASSUME NEW n, n # m, Once(q, n), NEW i \in Held(r, n), NEW j \in Held(r, n)
        PROVE  i = j
    <3>1. /\ i \in Int /\ j \in Int /\ k \in Int /\ i # k /\ j # k
          /\ i < k => i \in Held(q, n)
          /\ i > k => i - 1 \in Held(q, n)
          /\ j < k => j \in Held(q, n)
          /\ j > k => j - 1 \in Held(q, n)
      BY <2>1, <2>3
    <3>2. \A x, y \in Held(q, n) : x = y
      BY <2>3 DEF Once
    <3>3. CASE i < k /\ j < k
      BY <3>1, <3>2, <3>3
    <3>4. CASE i > k /\ j > k
      BY <3>1, <3>2, <3>4
    <3>5. CASE i < k /\ j > k
      <4>1. i = j - 1
        BY <3>1, <3>2, <3>5
      <4> QED
        BY <3>1, <3>5, <4>1
    <3>6. CASE i > k /\ j < k
      <4>1. i - 1 = j
        BY <3>1, <3>2, <3>6
      <4> QED
        BY <3>1, <3>6, <4>1
    <3> QED
      BY <3>1, <3>3, <3>4, <3>5, <3>6
  <2>4. ASSUME Absent(q, m), NEW i \in Held(r, m), NEW j \in Held(r, m) PROVE i = j
    <3>1. i \in Int /\ j \in Int /\ k \in Int /\ ~(i < k) /\ ~(i > k) /\ ~(j < k) /\ ~(j > k)
      BY <2>1, <2>4 DEF Absent
    <3> QED
      BY <3>1
  <2> QED
    BY <2>2, <2>3, <2>4 DEF Once
<1> QED
  BY <1>1, <1>2, SingleArrivals

(* A datagram read leaves no other copy, and the rest as it was.           *)
LEMMA ReadOnce ==
    ASSUME NEW S, NEW q \in Seq(S), q # <<>>
    PROVE  /\ Once(q, Head(q)) => Absent(Tail(q), Head(q))
           /\ \A n : Absent(q, n) => Absent(Tail(q), n)
           /\ \A n : Once(q, n) => Once(Tail(q), n)
<1>1. /\ Len(q) \in Nat \ {0} /\ Len(Tail(q)) = Len(q) - 1
      /\ \A i \in 1 .. Len(q) - 1 : Tail(q)[i] = q[i + 1]
  BY HeadTailProperties, LenProperties, EmptySeq
<1>2. ASSUME NEW n, NEW i \in Held(Tail(q), n) PROVE i \in Nat \ {0} /\ i + 1 \in Held(q, n)
  <2>1. i \in 1 .. Len(q) - 1 /\ i + 1 \in 1 .. Len(q) /\ Tail(q)[i] = n
    BY <1>1 DEF Held
  <2> QED
    BY <1>1, <2>1 DEF Held
<1>3. 1 \in Held(q, Head(q))
  BY <1>1 DEF Held
<1>4. ASSUME Once(q, Head(q)), NEW i \in Held(Tail(q), Head(q)) PROVE FALSE
  <2>1. i \in Nat \ {0} /\ i + 1 = 1
    BY <1>2, <1>3, <1>4 DEF Once
  <2> QED
    BY <2>1
<1>5. ASSUME NEW n, Once(q, n), NEW i \in Held(Tail(q), n), NEW j \in Held(Tail(q), n)
      PROVE  i = j
  <2>1. i \in Nat /\ j \in Nat /\ i + 1 = j + 1
    BY <1>2, <1>5 DEF Once
  <2> QED
    BY <2>1
<1> QED
  BY <1>2, <1>4, <1>5 DEF Once, Absent

(* What reaches an empty buffer is alone in it.                            *)
LEMMA FirstArrival ==
    ASSUME "duplicate" \notin Faults, NEW S, NEW m \in S, NEW r \in Arrivals(<<>>, m)
    PROVE  r = <<>> \/ r = <<m>>
<1>1. Len(<<>>) = 0 /\ Append(<<>>, m) = <<m>>
  OBVIOUS
<1>2. 1 .. Len(<<>>) = {}
  BY <1>1
<1> QED
  BY <1>1, <1>2 DEF Arrivals

(* What reaches a buffer of one datagram is alone in front of it or behind *)
(* it.                                                                     *)
LEMMA SecondArrival ==
    ASSUME "duplicate" \notin Faults, NEW S, NEW a \in S, NEW m \in S,
           NEW r \in Arrivals(<<a>>, m)
    PROVE  \/ r = <<a>> \/ r = Append(<<a>>, m)
           \/ "reorder" \in Faults /\ r = <<m, a>>
<1>1. Len(<<a>>) = 1 /\ <<a>> \in Seq(S) /\ <<a>>[1] = a
  OBVIOUS
<1>2. \A k \in 1 .. Len(<<a>>) : k = 1
  BY <1>1
<1>3. InsertAt(<<a>>, 1, m) = <<m, a>>
  <2>1. 1 \in 1 .. Len(<<a>>)
    BY <1>1
  <2>2. InsertAt(<<a>>, 1, m) \in Seq(S) /\ Inserted(<<a>>, 1, m, InsertAt(<<a>>, 1, m))
    BY <1>1, <2>1, InsertAtType, InsertAtInserts
  <2> DEFINE r1 == InsertAt(<<a>>, 1, m)
  <2> HIDE DEF r1
  <2>3. r1 \in Seq(S) /\ Len(r1) = 2 /\ r1[1] = m /\ r1[2] = a
    <3>1. 2 \in 1 + 1 .. 1 + 1
      OBVIOUS
    <3> QED
      BY <1>1, <2>2, <3>1 DEF Inserted, r1
  <2>4. r1 = <<m, a>>
    <3>1. <<m, a>> \in Seq(S) /\ Len(<<m, a>>) = 2
      OBVIOUS
    <3>2. \A i \in 1 .. 2 : r1[i] = <<m, a>>[i]
      BY <2>3
    <3> QED
      BY <2>3, <3>1, <3>2, SeqEqual
  <2> QED
    BY <2>4 DEF r1
<1>4. r \in {<<a>>, Append(<<a>>, m)} \/ ("reorder" \in Faults /\ r = InsertAt(<<a>>, 1, m))
  BY <1>1, <1>2 DEF Arrivals
<1> QED
  BY <1>3, <1>4
=============================================================================
