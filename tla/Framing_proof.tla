---------------------------- MODULE Framing_proof ----------------------------
(***************************************************************************)
(* Proofs about Framing, for every size of a sub-packet, every buffer the  *)
(* constructor admits and any packets.                                     *)
(*                                                                         *)
(* EveryByteCounts is what process_read keeps, with what its locals mean   *)
(* at each place (Places).  That the packet it hands over is the one that  *)
(* was sent follows from it, as no packet's bytes continue another's       *)
(* (EncodeUnique).                                                         *)
(***************************************************************************)
EXTENDS Framing, SequenceTheorems, WellFoundedInduction, NaturalsInduction, TLAPS

------------------------------------------------------------------------------
(***************************************************************************)
(* Numbers.                                                                *)
(***************************************************************************)
\* Induction: a set of numbers that is not empty has a least one.
LEMMA LeastNumber ==
    ASSUME NEW T \in SUBSET Nat, T # {}
    PROVE  \E n \in T : \A m \in T : ~(m < n)
  <1>1. \E n \in T : \A m \in T : <<m, n>> \notin OpToRel(<, Nat)
    BY WFMin, NatLessThanWellFounded, Zenon
  <1> QED
    BY <1>1, Zenon DEF OpToRel

LEMMA Multiples ==
    ASSUME NEW k \in Nat, NEW a \in Nat, NEW b \in Nat
    PROVE  /\ a * k \in Nat /\ (a + 1) * k = a * k + k
           /\ a * (k + 1) = a * k + a
           /\ a <= b => a * k <= b * k
           /\ k # 0 /\ a < b => a * k < b * k
  <1>1. a * k \in Nat /\ b * k \in Nat /\ (a + 1) * k = a * k + k /\ a * (k + 1) = a * k + a
    OBVIOUS
  <1>2. ASSUME a <= b PROVE a * k <= b * k
    <2>1. b - a \in Nat /\ b = a + (b - a)
      BY <1>2
    <2>2. (b - a) * k \in Nat /\ b * k = a * k + (b - a) * k
      BY <2>1
    <2> QED
      BY <1>1, <2>2
  <1>3. ASSUME k # 0, a < b PROVE a * k < b * k
    <2>1. b - a - 1 \in Nat /\ b = a + 1 + (b - a - 1)
      BY <1>3
    <2>2. (b - a - 1) * k \in Nat /\ b * k = a * k + k + (b - a - 1) * k
      BY <2>1
    <2> QED
      BY <1>1, <1>3, <2>2
  <1> QED
    BY <1>1, <1>2, <1>3

\* The quotient and the remainder are the only ones.
LEMMA Quotient ==
    ASSUME NEW k \in Nat \ {0}, NEW n \in Nat
    PROVE  /\ n \div k \in Nat /\ n % k \in 0..(k - 1)
           /\ n = (n \div k) * k + (n % k)
           /\ \A q \in Nat, r \in 0..(k - 1) : n = q * k + r => n \div k = q /\ n % k = r
  <1>1. n \div k \in Nat /\ n % k \in 0..(k - 1) /\ n = (n \div k) * k + (n % k)
    <2>1. n \div k \in Int /\ n % k \in Int
      OBVIOUS
    <2>2. n = (n \div k) * k + (n % k)
      OBVIOUS
    <2>3. n % k >= 0 /\ n % k < k
      OBVIOUS
    <2>4. n \div k >= 0
      OBVIOUS
    <2> QED
      BY <2>1, <2>2, <2>3, <2>4
  <1>2. ASSUME NEW q \in Nat, NEW r \in 0..(k - 1), n = q * k + r
        PROVE  n \div k = q /\ n % k = r
    <2> DEFINE p == n \div k
               s == n % k
    <2>0. p \in Nat /\ s \in 0..(k - 1) /\ p * k + s = q * k + r
      BY <1>1, <1>2
    <2> HIDE DEF p, s
    <2>1. CASE p < q
      <3>1. (p + 1) * k <= q * k /\ (p + 1) * k = p * k + k /\ p * k \in Nat /\ q * k \in Nat
        BY <2>0, <2>1, Multiples
      <3> QED
        BY <3>1, <2>0
    <2>2. CASE q < p
      <3>1. (q + 1) * k <= p * k /\ (q + 1) * k = q * k + k /\ p * k \in Nat /\ q * k \in Nat
        BY <2>0, <2>2, Multiples
      <3> QED
        BY <3>1, <2>0
    <2>3. CASE p = q
      <3>1. p * k \in Nat
        BY <2>0, Multiples
      <3> QED
        BY <3>1, <2>0, <2>3 DEF p, s
    <2> QED
      BY <2>0, <2>1, <2>2, <2>3
  <1> QED
    BY <1>1, <1>2

------------------------------------------------------------------------------
(***************************************************************************)
(* FlattenSeq: from its definition, which recurs on the sequence's length, *)
(* to what it does at either end.                                          *)
(***************************************************************************)
\* Named, for a fact the provers are not to rewrite with.
Together(a, b, c) == (a \o b) \o c = a \o (b \o c)

LEMMA ConcatTogether == \A S : \A a, b, c \in Seq(S) : Together(a, b, c)
  BY ConcatAssociative DEF Together

LEMMA ConcatCancels ==
    ASSUME NEW S, NEW a \in Seq(S), NEW b \in Seq(S), NEW c \in Seq(S), a \o b = a \o c
    PROVE  b = c
  BY ConcatSimplifications

\* f[i] is the first i sequences of s, one after the other.
Flattens(f, s, n) == f = [i \in 1..n |-> IF i = 1 THEN s[i] ELSE f[i - 1] \o s[i]]

LEMMA FlatteningExists ==
    ASSUME NEW S, NEW s \in Seq(Seq(S)), NEW n \in Nat, n <= Len(s)
    PROVE  \E f : Flattens(f, s, n)
  <1> DEFINE T == {k \in Nat : k <= Len(s) /\ ~ \E f : Flattens(f, s, k)}
  <1> SUFFICES ASSUME T # {} PROVE FALSE
    OBVIOUS
  <1>1. PICK k \in T : \A m \in T : ~(m < k)
    BY LeastNumber, T \subseteq Nat
  <1>2. k \in Nat /\ k <= Len(s) /\ ~ \E f : Flattens(f, s, k)
    BY <1>1
  <1>3. CASE k = 0
    <2>1. Flattens(<<>>, s, 0)
      BY DEF Flattens
    <2> QED
      BY <2>1, <1>2, <1>3
  <1>4. CASE k # 0
    <2>1. k - 1 \in Nat /\ k - 1 < k /\ k - 1 <= Len(s)
      BY <1>2, <1>4
    <2>2. PICK f : Flattens(f, s, k - 1)
      BY <2>1, <1>1
    <2> DEFINE g == [i \in 1..k |-> IF i < k THEN f[i] ELSE IF i = 1 THEN s[i] ELSE f[i - 1] \o s[i]]
               h == [i \in 1..k |-> IF i = 1 THEN s[i] ELSE g[i - 1] \o s[i]]
    <2>3. ASSUME NEW i \in 1..k PROVE g[i] = h[i]
      <3>1. CASE i < k
        <4>1. i \in 1..(k - 1) /\ i \in Nat
          BY <3>1, <1>2
        <4>2. f[i] = IF i = 1 THEN s[i] ELSE f[i - 1] \o s[i]
          BY <4>1, <2>2 DEF Flattens
        <4>3. i # 1 => i - 1 \in 1..k /\ i - 1 < k
          BY <4>1, <3>1, <1>2
        <4> QED
          BY <4>1, <4>2, <4>3, <3>1
      <3>2. CASE i = k
        <4>1. i # 1 => i - 1 \in 1..k /\ i - 1 < k
          BY <3>2, <1>2, <1>4
        <4> QED
          BY <4>1, <3>2, <1>2
      <3> QED
        BY <3>1, <3>2, <1>2
    <2>4. g = h
      BY <2>3
    <2>5. Flattens(g, s, k)
      BY <2>4 DEF Flattens
    <2> QED
      BY <2>5, <1>2
  <1> QED
    BY <1>3, <1>4

LEMMA FlattenIs ==
    ASSUME NEW S, NEW s \in Seq(Seq(S)), s # <<>>
    PROVE  \E f : Flattens(f, s, Len(s)) /\ FlattenSeq(s) = f[Len(s)]
  <1> DEFINE f == CHOOSE g : g = [i \in 1..Len(s) |-> IF i = 1 THEN s[i] ELSE g[i - 1] \o s[i]]
  <1>1. Len(s) \in Nat /\ Len(s) # 0
    OBVIOUS
  <1>2. Flattens(f, s, Len(s))
    <2>1. \E g : Flattens(g, s, Len(s))
      BY <1>1, FlatteningExists
    <2> QED
      BY <2>1, Zenon DEF Flattens
  <1>3. FlattenSeq(s) = f[Len(s)]
    BY <1>1 DEF FlattenSeq
  <1> QED
    BY <1>2, <1>3

\* The flattening of a longer sequence begins with that of a shorter one.
Agree(s, t, k) == \A i \in 1..k : s[i] = t[i]

LEMMA FlattenAgree ==
    \A k \in Nat : \A s, t, f, g :
        Flattens(f, t, k + 1) /\ Flattens(g, s, k) /\ Agree(t, s, k) => Agree(f, g, k)
  <1> SUFFICES ASSUME NEW k \in Nat, NEW s, NEW t, NEW f, NEW g,
                      Flattens(f, t, k + 1), Flattens(g, s, k), Agree(t, s, k)
               PROVE  Agree(f, g, k)
    OBVIOUS
  <1> DEFINE T == {i \in Nat : i \in 1..k /\ f[i] # g[i]}
  <1> SUFFICES ASSUME T # {} PROVE FALSE
    BY DEF Agree
  <1>1. PICK i \in T : \A j \in T : ~(j < i)
    BY LeastNumber, T \subseteq Nat
  <1>2. i \in 1..k /\ i \in 1..(k + 1) /\ f[i] # g[i] /\ s[i] = t[i]
    BY <1>1 DEF Agree
  <1>3. /\ f[i] = IF i = 1 THEN t[i] ELSE f[i - 1] \o t[i]
        /\ g[i] = IF i = 1 THEN s[i] ELSE g[i - 1] \o s[i]
    BY <1>2 DEF Flattens
  <1>4. i # 1 => f[i - 1] = g[i - 1]
    BY <1>1, <1>2
  <1> QED
    BY <1>2, <1>3, <1>4

LEMMA FlattenTyped ==
    ASSUME NEW S, NEW s \in Seq(Seq(S)), NEW f, Flattens(f, s, Len(s))
    PROVE  \A i \in 1..Len(s) : f[i] \in Seq(S)
  <1> DEFINE T == {i \in Nat : i \in 1..Len(s) /\ f[i] \notin Seq(S)}
  <1> SUFFICES ASSUME T # {} PROVE FALSE
    OBVIOUS
  <1>1. PICK i \in T : \A j \in T : ~(j < i)
    BY LeastNumber, T \subseteq Nat
  <1>2. i \in 1..Len(s) /\ f[i] \notin Seq(S) /\ s[i] \in Seq(S)
    BY <1>1
  <1>3. f[i] = IF i = 1 THEN s[i] ELSE f[i - 1] \o s[i]
    BY <1>2 DEF Flattens
  <1>4. i # 1 => f[i - 1] \in Seq(S)
    BY <1>1, <1>2
  <1> QED
    BY <1>2, <1>3, <1>4, ConcatProperties

LEMMA FlattenEmpty == FlattenSeq(<<>>) = <<>>
  BY DEF FlattenSeq

LEMMA FlattenOne ==
    ASSUME NEW S, NEW x \in Seq(S)
    PROVE  FlattenSeq(<<x>>) = x
  <1>1. <<x>> \in Seq(Seq(S)) /\ <<x>> # <<>> /\ Len(<<x>>) = 1 /\ <<x>>[1] = x
    OBVIOUS
  <1>2. PICK f : Flattens(f, <<x>>, 1) /\ FlattenSeq(<<x>>) = f[1]
    BY <1>1, FlattenIs
  <1> QED
    BY <1>1, <1>2 DEF Flattens

LEMMA FlattenIn ==
    ASSUME NEW S, NEW s \in Seq(Seq(S))
    PROVE  FlattenSeq(s) \in Seq(S)
  <1>1. CASE s = <<>>
    BY <1>1, FlattenEmpty, EmptySeq
  <1>2. CASE s # <<>>
    <2>1. PICK f : Flattens(f, s, Len(s)) /\ FlattenSeq(s) = f[Len(s)]
      BY <1>2, FlattenIs
    <2>2. Len(s) \in 1..Len(s)
      BY <1>2
    <2> QED
      BY <2>1, <2>2, FlattenTyped
  <1> QED
    BY <1>1, <1>2

LEMMA FlattenAppend ==
    ASSUME NEW S, NEW s \in Seq(Seq(S)), NEW x \in Seq(S)
    PROVE  FlattenSeq(Append(s, x)) = FlattenSeq(s) \o x
  <1> DEFINE t == Append(s, x)
  <1>1. /\ t \in Seq(Seq(S)) /\ t # <<>> /\ Len(t) = Len(s) + 1 /\ Len(s) \in Nat
        /\ t[Len(s) + 1] = x /\ \A i \in 1..Len(s) : t[i] = s[i]
    BY AppendProperties, LenProperties
  <1> HIDE DEF t
  <1>2. PICK f : Flattens(f, t, Len(t)) /\ FlattenSeq(t) = f[Len(t)]
    BY <1>1, FlattenIs
  <1>3. f[Len(t)] = IF Len(t) = 1 THEN x ELSE f[Len(s)] \o x
    <2>1. Len(t) \in 1..Len(t) /\ Len(t) - 1 = Len(s)
      BY <1>1
    <2>2. f[Len(t)] = IF Len(t) = 1 THEN t[Len(t)] ELSE f[Len(t) - 1] \o t[Len(t)]
      BY <1>2, <2>1 DEF Flattens
    <2> QED
      BY <2>1, <2>2, <1>1
  <1>4. CASE s = <<>>
    <2>1. Len(t) = 1
      BY <1>1, <1>4
    <2> QED
      BY <2>1, <1>2, <1>3, <1>4, FlattenEmpty, ConcatEmptySeq DEF t
  <1>5. CASE s # <<>>
    <2>1. PICK g : Flattens(g, s, Len(s)) /\ FlattenSeq(s) = g[Len(s)]
      BY <1>5, FlattenIs
    <2>2. Len(s) # 0
      BY <1>5
    <2>3. f[Len(s)] = g[Len(s)]
      <3>1. Len(s) \in Nat /\ Len(t) \in Nat /\ Len(s) <= Len(t) /\ Len(s) <= Len(s)
        BY <1>1
      <3>2. \A i \in 1..Len(s) : f[i] = g[i]
        <4> DEFINE k == Len(s)
        <4>1. k \in Nat /\ Flattens(f, t, k + 1) /\ Flattens(g, s, k) /\ Agree(t, s, k)
          BY <1>1, <1>2, <2>1 DEF Agree
        <4> HIDE DEF k
        <4>2. Agree(f, g, k)
          BY <4>1, FlattenAgree, Zenon
        <4> QED
          BY <4>2 DEF k, Agree
      <3>3. Len(s) \in 1..Len(s)
        BY <3>1, <2>2
      <3> QED
        BY <3>2, <3>3
    <2> QED
      BY <1>1, <1>2, <1>3, <2>1, <2>2, <2>3 DEF t
  <1> QED
    BY <1>4, <1>5

LEMMA FlattenHeadStep ==
    ASSUME NEW S, NEW r \in Seq(Seq(S)), r # <<>>, NEW x \in Seq(S),
           FlattenSeq(r) = r[1] \o FlattenSeq(Tail(r))
    PROVE  FlattenSeq(Append(r, x)) = Append(r, x)[1] \o FlattenSeq(Tail(Append(r, x)))
  <1> DEFINE a == r[1]
             b == FlattenSeq(Tail(r))
             t == Append(r, x)
  <1>1. t[1] = a /\ Tail(t) = Append(Tail(r), x) /\ Tail(r) \in Seq(Seq(S)) /\ a \in Seq(S)
    <2>1. Tail(t) = Append(Tail(r), x)
      BY HeadTailAppend
    <2>2. Len(r) # 0 /\ 1 \in 1..Len(r)
      BY EmptySeq
    <2>3. t[1] = a /\ a \in Seq(S)
      BY <2>2, AppendProperties, ElementOfSeq
    <2>4. Tail(r) \in Seq(Seq(S))
      BY HeadTailProperties
    <2> QED
      BY <2>1, <2>3, <2>4
  <1>2. FlattenSeq(t) = FlattenSeq(r) \o x
    BY FlattenAppend
  <1>3. FlattenSeq(Tail(t)) = b \o x
    BY <1>1, FlattenAppend
  <1>4. b \in Seq(S)
    BY <1>1, FlattenIn
  <1> HIDE DEF a, b, t
  <1>5. (a \o b) \o x = a \o (b \o x)
    <2>1. Together(a, b, x)
      BY <1>1, <1>4, ConcatTogether, Zenon
    <2> QED
      BY <2>1 DEF Together
  <1>6. FlattenSeq(r) = a \o b
    BY DEF a, b
  <1> QED
    BY <1>1, <1>2, <1>3, <1>5, <1>6 DEF t

\* The same at the head, by induction on the length of what follows.
LEMMA FlattenHead ==
    ASSUME NEW S, NEW s \in Seq(Seq(S)), s # <<>>
    PROVE  FlattenSeq(s) = s[1] \o FlattenSeq(Tail(s))
  <1> DEFINE Fails(t) == t # <<>> /\ FlattenSeq(t) # t[1] \o FlattenSeq(Tail(t))
             T == {n \in Nat : \E t \in Seq(Seq(S)) : Len(t) = n /\ Fails(t)}
  <1> SUFFICES ASSUME Fails(s) PROVE FALSE
    OBVIOUS
  <1>0. T # {} /\ T \subseteq Nat
    <2>1. Len(s) \in Nat
      OBVIOUS
    <2> QED
      BY <2>1
  <1>1. PICK n \in T : \A m \in T : ~(m < n)
    BY <1>0, LeastNumber
  <1>2. PICK t \in Seq(Seq(S)) : Len(t) = n /\ Fails(t)
    BY <1>1
  <1>3. t # <<>>
    BY <1>2
  <1>4. PICK r \in Seq(Seq(S)), x \in Seq(S) : t = Append(r, x)
    BY <1>3, SequenceEmptyOrAppend
  <1>5. Len(t) = Len(r) + 1 /\ Len(r) \in Nat
    BY <1>4
  <1>6. CASE r = <<>>
    <2>1. t = <<x>> /\ t[1] = x /\ Tail(t) = <<>>
      BY <1>4, <1>6, HeadTailAppend
    <2>2. FlattenSeq(t) = x
      BY <2>1, FlattenOne
    <2>3. x \o FlattenSeq(<<>>) = x
      BY FlattenEmpty, ConcatEmptySeq
    <2> QED
      BY <2>1, <2>2, <2>3, <1>2
  <1>7. CASE r # <<>>
    <2>1. ~Fails(r)
      <3>1. Len(r) < n
        BY <1>2, <1>5
      <3> QED
        BY <3>1, <1>1, <1>5
    <2>2. FlattenSeq(t) = t[1] \o FlattenSeq(Tail(t))
      BY <2>1, <1>4, <1>7, FlattenHeadStep
    <2> QED
      BY <2>2, <1>2
  <1> QED
    BY <1>6, <1>7

------------------------------------------------------------------------------
(***************************************************************************)
(* Cut: what is at each place of a packet cut into sub-packets.            *)
(***************************************************************************)
\* Where byte `at` of the frame of sub-packet `sub` is, its length being byte 0.
Place(sub, at) == sub * (SubMax + 1) + at + 1

\* Every place is a byte of some sub-packet.
LEMMA EveryPlace ==
    ASSUME NEW j \in Nat \ {0}
    PROVE  \E sub \in Nat, at \in 0..SubMax : j = Place(sub, at)
  <1>1. SubMax + 1 \in Nat \ {0} /\ j - 1 \in Nat /\ (SubMax + 1) - 1 = SubMax
    BY SizeAssumption
  <1> DEFINE k == SubMax + 1
             n == j - 1
  <1>2. k \in Nat \ {0} /\ n \in Nat /\ k - 1 = SubMax /\ j = n + 1
    BY <1>1
  <1> HIDE DEF k, n
  <1>3. n \div k \in Nat /\ n % k \in 0..SubMax /\ n = (n \div k) * k + (n % k)
    BY <1>2, Quotient
  <1>4. j = (n \div k) * k + (n % k) + 1
    BY <1>2, <1>3
  <1> QED
    BY <1>3, <1>4 DEF k, Place

LEMMA PlaceTyped ==
    ASSUME NEW sub \in Nat, NEW at \in 0..SubMax
    PROVE  /\ Place(sub, at) \in Nat \ {0} /\ Place(sub, at) = sub * SubMax + sub + at + 1
           /\ sub * SubMax \in Nat
  <1>1. SubMax \in Nat
    BY SizeAssumption
  <1>2. sub * SubMax \in Nat /\ sub * (SubMax + 1) = sub * SubMax + sub
    BY <1>1, Multiples
  <1> QED
    BY <1>2 DEF Place

LEMMA CutAt ==
    ASSUME NEW data, NEW full, NEW n \in Nat, NEW sub \in Nat, NEW at \in 0..SubMax,
           Place(sub, at) <= n
    PROVE  Cut(data, full, n)[Place(sub, at)] =
               IF at > 0 THEN data[sub * SubMax + at]
               ELSE IF sub < full THEN 0 ELSE Len(data) - sub * SubMax
  <1> DEFINE j == Place(sub, at)
             k == SubMax + 1
  <1>1. SubMax \in Nat /\ k \in Nat \ {0} /\ k - 1 = SubMax
    BY SizeAssumption
  <1>2. j \in 1..n /\ j - 1 \in Nat /\ j - 1 = sub * k + at
    BY <1>1, PlaceTyped, Multiples DEF Place
  <1>3. (j - 1) \div k = sub /\ (j - 1) % k = at
    <2> DEFINE i == j - 1
    <2>1. i \in Nat /\ i = sub * k + at
      BY <1>2
    <2> HIDE DEF i, k
    <2>2. i \div k = sub /\ i % k = at
      <3>1. \A q \in Nat, r \in 0..(k - 1) : i = q * k + r => i \div k = q /\ i % k = r
        BY <2>1, <1>1, Quotient
      <3>2. at \in 0..(k - 1)
        BY <1>1
      <3> QED
        BY <3>1, <3>2, <2>1, Zenon
    <2> QED
      BY <2>2 DEF i
  <1> HIDE DEF j
  <1>4. Cut(data, full, n)[j] = CASE at > 0 -> data[sub * SubMax + at]
                                  [] at = 0 /\ sub < full -> 0
                                  [] OTHER -> Len(data) - sub * SubMax
    BY <1>2, <1>3 DEF Cut
  <1>5. at \in Nat
    OBVIOUS
  <1> QED
    BY <1>4, <1>5 DEF j

\* The bytes of a packet cut into sub-packets are bytes.
LEMMA CutTyped ==
    ASSUME NEW data \in Seq(Byte), NEW full \in Nat, NEW n \in Nat, n <= Len(data) + full + 1,
           full * SubMax <= Len(data), Len(data) <= full * SubMax + SubMax
    PROVE  Cut(data, full, n) \in Seq(Byte) /\ Len(Cut(data, full, n)) = n
  <1>0. SubMax \in Nat /\ full * SubMax \in Nat /\ Len(data) \in Nat
    BY SizeAssumption, Multiples
  <1>1. ASSUME NEW j \in 1..n PROVE Cut(data, full, n)[j] \in Byte
    <2>1. PICK sub \in Nat, at \in 0..SubMax : j = Place(sub, at)
      BY EveryPlace
    <2>2. j = sub * SubMax + sub + at + 1 /\ sub * SubMax \in Nat
      BY <2>1, PlaceTyped
    <2>3. sub <= full
      <3> SUFFICES ASSUME full < sub PROVE FALSE
        OBVIOUS
      <3>1. full + 1 <= sub
        OBVIOUS
      <3>2. (full + 1) * SubMax <= sub * SubMax /\ (full + 1) * SubMax = full * SubMax + SubMax
        BY <3>1, <1>0, Multiples
      <3> QED
        BY <3>1, <3>2, <2>2, <1>0
    <2>4. sub < full => sub * SubMax + SubMax <= full * SubMax
      <3> SUFFICES ASSUME sub < full PROVE sub * SubMax + SubMax <= full * SubMax
        OBVIOUS
      <3>1. (sub + 1) * SubMax <= full * SubMax /\ (sub + 1) * SubMax = sub * SubMax + SubMax
        BY <1>0, Multiples
      <3> QED
        BY <3>1
    <2>5. Cut(data, full, n)[j] = IF at > 0 THEN data[sub * SubMax + at]
                                  ELSE IF sub < full THEN 0 ELSE Len(data) - sub * SubMax
      BY <2>1, CutAt
    <2>6. CASE at > 0
      <3>1. sub * SubMax + at \in 1..Len(data)
        <4>1. CASE sub < full
          BY <4>1, <2>2, <2>4, <2>6, <1>0
        <4>2. CASE sub = full
          BY <4>2, <2>2, <2>6, <1>0
        <4> QED
          BY <4>1, <4>2, <2>3
      <3> QED
        BY <3>1, <2>5, <2>6, ElementOfSeq
    <2>7. CASE ~(at > 0)
      <3>1. CASE sub < full
        BY <3>1, <2>5, <2>7, <1>0 DEF Byte
      <3>2. CASE sub = full
        BY <3>2, <2>5, <2>7, <1>0 DEF Byte
      <3> QED
        BY <3>1, <3>2, <2>3
    <2> QED
      BY <2>6, <2>7
  <1>2. Cut(data, full, n) \in [1..n -> Byte]
    BY <1>1 DEF Cut
  <1> QED
    BY <1>2

\* A frame more: its length, 0 where another follows, and its bytes.
LEMMA CutAppend ==
    ASSUME NEW data \in Seq(Byte), NEW m \in Nat, Len(data) = m * SubMax,
           NEW X \in Seq(Byte), X # <<>>, Len(X) <= SubMax, NEW full \in {m, m + 1},
           full = m + 1 => Len(X) = SubMax
    PROVE  Cut(data \o X, full, Len(data) + m + 1 + Len(X))
           = Cut(data, m, Len(data) + m) \o (<<IF m < full THEN 0 ELSE Len(X)>> \o X)
  <1> DEFINE h == IF m < full THEN 0 ELSE Len(X)
             a == Len(data) + m
             C == Cut(data, m, a)
             P == <<h>> \o X
             L == Cut(data \o X, full, a + 1 + Len(X))
  <1>0. /\ SubMax \in Nat /\ m * SubMax \in Nat /\ Len(data) \in Nat /\ a \in Nat /\ a = Len(data) + m
        /\ Len(X) \in Nat \ {0} /\ (m + 1) * SubMax = m * SubMax + SubMax /\ full \in Nat
    BY SizeAssumption, Multiples, EmptySeq
  <1>1. data \o X \in Seq(Byte) /\ Len(data \o X) = Len(data) + Len(X)
        /\ \A i \in 1..(Len(data) + Len(X)) :
               (data \o X)[i] = IF i <= Len(data) THEN data[i] ELSE X[i - Len(data)]
    BY ConcatProperties
  <1>2. C \in Seq(Byte) /\ Len(C) = a
    <2>1. a \in Nat /\ a <= Len(data) + m + 1 /\ m * SubMax <= Len(data)
          /\ Len(data) <= m * SubMax + SubMax
      BY <1>0
    <2> QED
      BY <2>1, CutTyped
  <1>3. L \in Seq(Byte) /\ Len(L) = a + 1 + Len(X)
    <2>1. full * SubMax <= Len(data \o X) /\ Len(data \o X) <= full * SubMax + SubMax
      BY <1>0, <1>1
    <2>2. a + 1 + Len(X) \in Nat /\ a + 1 + Len(X) <= Len(data \o X) + full + 1
      BY <1>0, <1>1
    <2> QED
      BY <2>1, <2>2, <1>0, <1>1, CutTyped
  <1>4. P \in Seq(Byte) /\ Len(P) = 1 + Len(X) /\ P[1] = h
        /\ \A i \in 1..Len(X) : P[1 + i] = X[i]
    <2>1. h \in Byte
      BY <1>0 DEF Byte
    <2> HIDE DEF h
    <2>2. <<h>> \in Seq(Byte) /\ Len(<<h>>) = 1 /\ <<h>>[1] = h
      BY <2>1
    <2>3. P \in Seq(Byte) /\ Len(P) = 1 + Len(X)
          /\ \A i \in 1..(1 + Len(X)) : P[i] = IF i <= 1 THEN <<h>>[i] ELSE X[i - 1]
      BY <2>2, ConcatProperties
    <2>4. P[1] = h
      BY <2>2, <2>3, <1>0
    <2>5. ASSUME NEW i \in 1..Len(X) PROVE P[1 + i] = X[i]
      <3>1. 1 + i \in 1..(1 + Len(X)) /\ ~(1 + i <= 1) /\ (1 + i) - 1 = i
        BY <1>0
      <3> QED
        BY <3>1, <2>3
    <2> QED
      BY <2>3, <2>4, <2>5
  <1> HIDE DEF P, C, L, h, a
  <1>5. C \o P \in Seq(Byte) /\ Len(C \o P) = a + 1 + Len(X)
        /\ \A i \in 1..(a + 1 + Len(X)) : (C \o P)[i] = IF i <= a THEN C[i] ELSE P[i - a]
    <2>1. C \o P \in Seq(Byte) /\ Len(C \o P) = Len(C) + Len(P)
          /\ \A i \in 1..(Len(C) + Len(P)) : (C \o P)[i] = IF i <= Len(C) THEN C[i] ELSE P[i - Len(C)]
      <3>1. C \in Seq(Byte) /\ P \in Seq(Byte)
        BY <1>2, <1>4
      <3> QED
        BY <3>1, ConcatProperties
    <2>2. Len(C) + Len(P) = a + 1 + Len(X)
      BY <1>0, <1>2, <1>4
    <2> QED
      BY <2>1, <2>2, <1>2
  <1>6. ASSUME NEW j \in 1..(a + 1 + Len(X)) PROVE L[j] = (C \o P)[j]
    <2>0. a + 1 + Len(X) \in Nat /\ j \in Nat \ {0}
      BY <1>0
    <2>1. PICK sub \in Nat, at \in 0..SubMax : j = Place(sub, at)
      BY <2>0, EveryPlace
    <2>2. j = sub * SubMax + sub + at + 1 /\ sub * SubMax \in Nat
      BY <2>1, PlaceTyped
    <2>3. L[j] = IF at > 0 THEN (data \o X)[sub * SubMax + at]
                 ELSE IF sub < full THEN 0 ELSE Len(data \o X) - sub * SubMax
      <3> DEFINE n == a + 1 + Len(X)
                 d == data \o X
      <3>1. n \in Nat /\ Place(sub, at) <= n
        BY <2>0, <2>1
      <3> HIDE DEF n, d
      <3>2. Cut(d, full, n)[Place(sub, at)] =
                IF at > 0 THEN d[sub * SubMax + at]
                ELSE IF sub < full THEN 0 ELSE Len(d) - sub * SubMax
        BY <3>1, CutAt
      <3> QED
        BY <3>2, <2>1 DEF L, n, d
    <2>4. (C \o P)[j] = IF j <= a THEN C[j] ELSE P[j - a]
      BY <1>5
    <2>5. CASE sub < m
      <3>1. sub * SubMax + SubMax <= m * SubMax
        <4>1. sub + 1 <= m
          BY <2>5
        <4>2. (sub + 1) * SubMax <= m * SubMax /\ (sub + 1) * SubMax = sub * SubMax + SubMax
          BY <4>1, <1>0, Multiples
        <4> QED
          BY <4>2
      <3>2. j <= a
        BY <3>1, <2>2, <2>5, <1>0
      <3>3. C[j] = IF at > 0 THEN data[sub * SubMax + at]
                   ELSE IF sub < m THEN 0 ELSE Len(data) - sub * SubMax
        BY <3>2, <2>1, <1>0, CutAt DEF C
      <3>4. CASE at > 0
        <4>1. sub * SubMax + at \in 1..(Len(data) + Len(X)) /\ sub * SubMax + at <= Len(data)
          BY <3>1, <3>4, <2>2, <1>0
        <4> QED
          BY <4>1, <3>2, <3>3, <3>4, <2>3, <2>4, <1>1
      <3>5. CASE ~(at > 0)
        <4>1. sub < full
          BY <2>5, <1>0
        <4> QED
          BY <4>1, <3>2, <3>3, <3>5, <2>3, <2>4, <2>5
      <3> QED
        BY <3>4, <3>5
    <2>6. CASE sub = m
      <3>1. j = a + 1 + at /\ ~(j <= a) /\ j - a = 1 + at
        BY <2>2, <2>6, <1>0
      <3>2. CASE at > 0
        <4>1. at \in 1..Len(X)
          BY <3>1, <3>2, <1>0
        <4>2. P[1 + at] = X[at]
          BY <4>1, <1>4
        <4>3. Len(data) + at \in 1..(Len(data) + Len(X)) /\ ~(Len(data) + at <= Len(data))
              /\ (Len(data) + at) - Len(data) = at
          BY <4>1, <1>0
        <4>4. (data \o X)[Len(data) + at] = X[at]
          BY <4>3, <1>1
        <4> QED
          BY <4>2, <4>4, <3>1, <3>2, <2>3, <2>4, <2>6
      <3>3. CASE ~(at > 0)
        <4>1. at = 0 /\ j - a = 1
          BY <3>1, <3>3
        <4>2. Len(data \o X) - m * SubMax = Len(X)
          BY <1>0, <1>1
        <4>3. h = IF m < full THEN 0 ELSE Len(X)
          BY DEF h
        <4> QED
          BY <4>1, <4>2, <4>3, <3>1, <2>3, <2>4, <2>6, <1>4
      <3> QED
        BY <3>2, <3>3
    <2>7. CASE m < sub
      <3>1. m + 1 <= sub
        BY <2>7
      <3>2. m * SubMax + SubMax <= sub * SubMax
        BY <3>1, <1>0, Multiples
      <3>3. a + 1 + Len(X) < j
        BY <3>1, <3>2, <2>2, <1>0
      <3> QED
        BY <3>3, <2>0
    <2>8. sub < m \/ sub = m \/ m < sub
      OBVIOUS
    <2> QED
      BY <2>5, <2>6, <2>7, <2>8, Zenon
  <1>7. L = C \o P
    BY <1>3, <1>5, <1>6, SeqEqual
  <1> QED
    BY <1>7, <1>0 DEF P, C, L, h, a

\* How many sub-packets precede the last one.
LEMMA FullSubsIs ==
    ASSUME NEW data \in Seq(Byte), data # <<>>
    PROVE  /\ FullSubs(data) \in Nat /\ FullSubs(data) * SubMax \in Nat
           /\ FullSubs(data) * SubMax < Len(data)
           /\ Len(data) <= FullSubs(data) * SubMax + SubMax
           /\ \A m \in Nat : m * SubMax < Len(data) /\ Len(data) <= m * SubMax + SubMax
                             => FullSubs(data) = m
  <1> DEFINE n == Len(data) - 1
             k == SubMax
  <1>1. k \in Nat \ {0} /\ n \in Nat /\ Len(data) = n + 1 /\ FullSubs(data) = n \div k
    BY SizeAssumption, EmptySeq DEF FullSubs
  <1> HIDE DEF n, k
  <1>2. /\ n \div k \in Nat /\ n % k \in 0..(k - 1) /\ n = (n \div k) * k + (n % k)
        /\ \A q \in Nat, r \in 0..(k - 1) : n = q * k + r => n \div k = q /\ n % k = r
    BY <1>1, Quotient
  <1>3. (n \div k) * k \in Nat
    BY <1>1, <1>2, Multiples
  <1>4. ASSUME NEW m \in Nat, m * k < n + 1, n + 1 <= m * k + k PROVE n \div k = m
    <2>1. m * k \in Nat
      BY <1>1, Multiples
    <2>2. n - m * k \in 0..(k - 1) /\ n = m * k + (n - m * k)
      BY <2>1, <1>1, <1>4
    <2> QED
      BY <2>2, <1>2, Zenon
  <1> QED
    BY <1>1, <1>2, <1>3, <1>4 DEF k

------------------------------------------------------------------------------
(***************************************************************************)
(* The bytes of a packet: what they are, and that they say where it ends.  *)
(***************************************************************************)
Whole == [cmd : Byte, data : Seq(Byte) \ {<<>>}]

LEMMA EncodeTyped ==
    ASSUME NEW p \in Whole
    PROVE  LET n == Len(p.data) + FullSubs(p.data) + 1
               C == Cut(p.data, FullSubs(p.data), n) IN
           /\ n \in Nat /\ C \in Seq(Byte) /\ Len(C) = n
           /\ <<p.cmd>> \in Seq(Byte) /\ Encode(p) = <<p.cmd>> \o C
           /\ Encode(p) \in Seq(Byte) /\ Len(Encode(p)) = 1 + n
  <1> DEFINE n == Len(p.data) + FullSubs(p.data) + 1
             C == Cut(p.data, FullSubs(p.data), n)
  <1>1. p.data \in Seq(Byte) /\ p.data # <<>> /\ p.cmd \in Byte
    BY DEF Whole
  <1>2. /\ FullSubs(p.data) \in Nat /\ FullSubs(p.data) * SubMax <= Len(p.data)
        /\ Len(p.data) <= FullSubs(p.data) * SubMax + SubMax /\ Len(p.data) \in Nat
    BY <1>1, FullSubsIs, LenProperties
  <1>3. n \in Nat /\ n <= Len(p.data) + FullSubs(p.data) + 1
    BY <1>2
  <1> HIDE DEF n
  <1>4. C \in Seq(Byte) /\ Len(C) = n
    BY <1>1, <1>2, <1>3, CutTyped
  <1>5. Encode(p) = <<p.cmd>> \o C
    BY DEF Encode, n
  <1> HIDE DEF C
  <1>6. <<p.cmd>> \in Seq(Byte) /\ Len(<<p.cmd>>) = 1
    BY <1>1
  <1>7. <<p.cmd>> \o C \in Seq(Byte) /\ Len(<<p.cmd>> \o C) = 1 + n
    BY <1>4, <1>6, ConcatProperties
  <1> QED
    BY <1>3, <1>4, <1>5, <1>6, <1>7 DEF n, C

\* Byte `at` of a frame is there if the frame is.
Present(data, sub, at) ==
    sub * SubMax + at <= Len(data) /\ sub <= FullSubs(data)

LEMMA EncodeAt ==
    ASSUME NEW p \in Whole, NEW X \in Seq(Byte), NEW sub \in Nat, NEW at \in 0..SubMax,
           Present(p.data, sub, at)
    PROVE  (Encode(p) \o X)[1 + Place(sub, at)] =
               IF at > 0 THEN p.data[sub * SubMax + at]
               ELSE IF sub < FullSubs(p.data) THEN 0 ELSE Len(p.data) - sub * SubMax
  <1> DEFINE full == FullSubs(p.data)
             n == Len(p.data) + full + 1
             C == Cut(p.data, full, n)
             e == Encode(p)
             j == Place(sub, at)
  <1>1. /\ n \in Nat /\ C \in Seq(Byte) /\ Len(C) = n /\ <<p.cmd>> \in Seq(Byte)
        /\ e = <<p.cmd>> \o C /\ e \in Seq(Byte) /\ Len(e) = 1 + n
    BY EncodeTyped
  <1>2. j \in 1..n
    <2>1. p.data \in Seq(Byte) /\ p.data # <<>>
      BY DEF Whole
    <2>2. full \in Nat /\ Len(p.data) \in Nat
      BY <2>1, FullSubsIs
    <2>3. j \in Nat \ {0} /\ j = sub * SubMax + sub + at + 1 /\ sub * SubMax \in Nat
      BY PlaceTyped
    <2>4. sub * SubMax + at <= Len(p.data) /\ sub <= full
      BY DEF Present
    <2> QED
      BY <2>2, <2>3, <2>4
  <1>3. C[j] = IF at > 0 THEN p.data[sub * SubMax + at]
               ELSE IF sub < full THEN 0 ELSE Len(p.data) - sub * SubMax
    BY <1>1, <1>2, CutAt
  <1> HIDE DEF n, C, e, j
  <1>4. e[1 + j] = C[j]
    <2>1. \A i \in 1..(Len(<<p.cmd>>) + Len(C)) : e[i] =
              IF i <= Len(<<p.cmd>>) THEN <<p.cmd>>[i] ELSE C[i - Len(<<p.cmd>>)]
      BY <1>1, ConcatProperties
    <2>2. Len(<<p.cmd>>) = 1 /\ 1 + j \in 1..(1 + n) /\ ~(1 + j <= 1) /\ (1 + j) - 1 = j
      BY <1>1, <1>2
    <2> QED
      BY <1>1, <2>1, <2>2
  <1>5. (e \o X)[1 + j] = e[1 + j]
    <2>1. \A i \in 1..(Len(e) + Len(X)) : (e \o X)[i] = IF i <= Len(e) THEN e[i] ELSE X[i - Len(e)]
      BY <1>1, ConcatProperties
    <2>2. 1 + j \in 1..(Len(e) + Len(X)) /\ 1 + j <= Len(e)
      BY <1>1, <1>2, LenProperties
    <2> QED
      BY <2>1, <2>2
  <1> QED
    BY <1>3, <1>4, <1>5 DEF e, j

\* A byte sequence that begins with a packet begins with its command.
LEMMA EncodeFirst ==
    ASSUME NEW p \in Whole, NEW X \in Seq(Byte)
    PROVE  (Encode(p) \o X)[1] = p.cmd
  <1> DEFINE n == Len(p.data) + FullSubs(p.data) + 1
             C == Cut(p.data, FullSubs(p.data), n)
             e == Encode(p)
  <1>1. /\ n \in Nat /\ C \in Seq(Byte) /\ Len(C) = n /\ <<p.cmd>> \in Seq(Byte)
        /\ e = <<p.cmd>> \o C /\ e \in Seq(Byte) /\ Len(e) = 1 + n
    BY EncodeTyped
  <1> HIDE DEF n, C, e
  <1>2. e[1] = p.cmd
    <2>1. \A i \in 1..(Len(<<p.cmd>>) + Len(C)) : e[i] =
              IF i <= Len(<<p.cmd>>) THEN <<p.cmd>>[i] ELSE C[i - Len(<<p.cmd>>)]
      BY <1>1, ConcatProperties
    <2>2. Len(<<p.cmd>>) = 1 /\ 1 \in 1..(1 + n) /\ <<p.cmd>>[1] = p.cmd
      BY <1>1
    <2> QED
      BY <1>1, <2>1, <2>2
  <1>3. (e \o X)[1] = e[1]
    <2>1. \A i \in 1..(Len(e) + Len(X)) : (e \o X)[i] = IF i <= Len(e) THEN e[i] ELSE X[i - Len(e)]
      BY <1>1, ConcatProperties
    <2>2. 1 \in 1..(Len(e) + Len(X)) /\ 1 <= Len(e)
      BY <1>1, LenProperties
    <2> QED
      BY <2>1, <2>2
  <1> QED
    BY <1>2, <1>3 DEF e

\* The same bytes are not cut into fewer frames by one packet than by the other.
LEMMA NoFewerSubs ==
    ASSUME NEW p \in Whole, NEW q \in Whole, NEW X \in Seq(Byte), NEW Y \in Seq(Byte),
           Encode(p) \o X = Encode(q) \o Y
    PROVE  ~(FullSubs(p.data) < FullSubs(q.data))
  <1> SUFFICES ASSUME FullSubs(p.data) < FullSubs(q.data) PROVE FALSE
    OBVIOUS
  <1> DEFINE f == FullSubs(p.data)
             g == FullSubs(q.data)
             x == (Encode(p) \o X)[1 + Place(f, 0)]
  <1>1. p.data \in Seq(Byte) /\ p.data # <<>> /\ q.data \in Seq(Byte) /\ q.data # <<>>
    BY DEF Whole
  <1>2. /\ f \in Nat /\ f * SubMax \in Nat /\ f * SubMax < Len(p.data)
        /\ g \in Nat /\ g * SubMax \in Nat /\ g * SubMax < Len(q.data)
        /\ Len(p.data) \in Nat /\ Len(q.data) \in Nat /\ SubMax \in Nat
    BY <1>1, FullSubsIs, SizeAssumption, LenProperties
  <1>3. f * SubMax <= g * SubMax
    BY <1>2, Multiples
  <1>4. Present(p.data, f, 0) /\ Present(q.data, f, 0) /\ 0 \in 0..SubMax
    BY <1>2, <1>3 DEF Present
  <1>5. x = Len(p.data) - f * SubMax
    <2>1. x = IF 0 > 0 THEN p.data[f * SubMax + 0]
              ELSE IF f < FullSubs(p.data) THEN 0 ELSE Len(p.data) - f * SubMax
      BY <1>2, <1>4, EncodeAt, Zenon
    <2>2. ~(f < FullSubs(p.data)) /\ ~(0 > 0)
      BY <1>2
    <2> QED
      BY <2>1, <2>2, Zenon
  <1>6. x = 0
    <2>1. (Encode(q) \o Y)[1 + Place(f, 0)] =
              IF 0 > 0 THEN q.data[f * SubMax + 0]
              ELSE IF f < FullSubs(q.data) THEN 0 ELSE Len(q.data) - f * SubMax
      BY <1>2, <1>4, EncodeAt, Zenon
    <2>2. f < FullSubs(q.data) /\ ~(0 > 0)
      BY <1>2
    <2> QED
      BY <2>1, <2>2, Zenon
  <1> HIDE DEF x, f
  <1> QED
    BY <1>2, <1>5, <1>6

LEMMA SameSubs ==
    ASSUME NEW p \in Whole, NEW q \in Whole, NEW X \in Seq(Byte), NEW Y \in Seq(Byte),
           Encode(p) \o X = Encode(q) \o Y
    PROVE  FullSubs(p.data) = FullSubs(q.data)
  <1>1. ~(FullSubs(p.data) < FullSubs(q.data))
    BY NoFewerSubs, Zenon
  <1>2. ~(FullSubs(q.data) < FullSubs(p.data))
    BY NoFewerSubs, Zenon
  <1>3. FullSubs(p.data) \in Nat /\ FullSubs(q.data) \in Nat
    BY FullSubsIs DEF Whole
  <1> QED
    BY <1>1, <1>2, <1>3

\* No packet's bytes begin as another's do and go on in another way.
LEMMA EncodeUnique ==
    ASSUME NEW p \in Whole, NEW q \in Whole, NEW X \in Seq(Byte), NEW Y \in Seq(Byte),
           Encode(p) \o X = Encode(q) \o Y
    PROVE  p = q /\ X = Y
  <1>0. PICK f \in Nat : f = FullSubs(p.data) /\ f = FullSubs(q.data)
    <2>1. FullSubs(p.data) \in Nat
      BY FullSubsIs DEF Whole
    <2> QED
      BY <2>1, SameSubs, Zenon
  <1>1. p.data \in Seq(Byte) /\ p.data # <<>> /\ q.data \in Seq(Byte) /\ q.data # <<>>
    BY DEF Whole
  <1>2. /\ f * SubMax \in Nat /\ f * SubMax < Len(p.data) /\ f * SubMax < Len(q.data)
        /\ Len(p.data) <= f * SubMax + SubMax /\ Len(q.data) <= f * SubMax + SubMax
        /\ Len(p.data) \in Nat /\ Len(q.data) \in Nat /\ SubMax \in Nat \ {0}
    BY <1>0, <1>1, FullSubsIs, SizeAssumption, LenProperties
  <1> DEFINE at(sub, i, data) == IF i > 0 THEN data[sub * SubMax + i]
                                 ELSE IF sub < f THEN 0 ELSE Len(data) - sub * SubMax
  <1>3. ASSUME NEW sub \in Nat, NEW i \in 0..SubMax,
               Present(p.data, sub, i), Present(q.data, sub, i)
        PROVE  at(sub, i, p.data) = at(sub, i, q.data)
    <2>1. (Encode(p) \o X)[1 + Place(sub, i)] =
              IF i > 0 THEN p.data[sub * SubMax + i]
              ELSE IF sub < FullSubs(p.data) THEN 0 ELSE Len(p.data) - sub * SubMax
      BY <1>3, EncodeAt, Zenon
    <2>2. (Encode(q) \o Y)[1 + Place(sub, i)] =
              IF i > 0 THEN q.data[sub * SubMax + i]
              ELSE IF sub < FullSubs(q.data) THEN 0 ELSE Len(q.data) - sub * SubMax
      BY <1>3, EncodeAt, Zenon
    <2> QED
      BY <1>0, <2>1, <2>2, Zenon
  <1>4. Len(p.data) = Len(q.data)
    <2>1. Present(p.data, f, 0) /\ Present(q.data, f, 0) /\ 0 \in 0..SubMax
      BY <1>0, <1>2 DEF Present
    <2>2. at(f, 0, p.data) = at(f, 0, q.data)
      BY <1>3, <2>1, Zenon
    <2>3. ~(f < f) /\ ~(0 > 0)
      OBVIOUS
    <2>4. Len(p.data) - f * SubMax = Len(q.data) - f * SubMax
      BY <2>2, <2>3, Zenon
    <2> HIDE DEF at
    <2> DEFINE a == Len(p.data)
               b == Len(q.data)
    <2>5. a \in Nat /\ b \in Nat /\ f * SubMax \in Nat /\ a - f * SubMax = b - f * SubMax
      BY <1>2, <2>4
    <2> HIDE DEF a, b
    <2>6. a = b
      BY <2>5
    <2> QED
      BY <2>6 DEF a, b
  <1>5. ASSUME NEW i \in 1..Len(p.data) PROVE p.data[i] = q.data[i]
    <2>1. i - 1 \in Nat /\ SubMax \in Nat \ {0} /\ (i - 1) + 1 = i
      BY <1>2
    <2>2. PICK sub \in Nat, r \in 0..(SubMax - 1) : i - 1 = sub * SubMax + r
      <3> DEFINE n == i - 1
      <3>1. n \in Nat /\ SubMax \in Nat \ {0}
        BY <2>1
      <3> HIDE DEF n
      <3>2. n \div SubMax \in Nat /\ n % SubMax \in 0..(SubMax - 1)
            /\ n = (n \div SubMax) * SubMax + (n % SubMax)
        BY <3>1, Quotient
      <3> QED
        BY <3>2, Zenon DEF n
    <2>3. sub * SubMax \in Nat
      BY <2>1, Multiples
    <2>4. r + 1 \in 0..SubMax /\ r + 1 > 0 /\ sub * SubMax + (r + 1) = i
      BY <2>1, <2>2, <2>3
    <2>5. sub <= f
      <3> SUFFICES ASSUME f < sub PROVE FALSE
        OBVIOUS
      <3>1. f + 1 <= sub
        OBVIOUS
      <3>2. f * SubMax + SubMax <= sub * SubMax
        BY <3>1, <1>2, Multiples
      <3>3. sub * SubMax < i
        BY <2>3, <2>4
      <3>4. i <= f * SubMax + SubMax /\ f * SubMax + SubMax \in Nat
        BY <1>2
      <3> QED
        BY <3>2, <3>3, <3>4, <2>3
    <2>6. Present(p.data, sub, r + 1) /\ Present(q.data, sub, r + 1)
      BY <1>0, <1>4, <2>4, <2>5 DEF Present
    <2>7. at(sub, r + 1, p.data) = at(sub, r + 1, q.data)
      BY <1>3, <2>4, <2>6, Zenon
    <2>8. p.data[sub * SubMax + (r + 1)] = q.data[sub * SubMax + (r + 1)]
      BY <2>4, <2>7, Zenon
    <2> QED
      BY <2>4, <2>8, Zenon
  <1> HIDE DEF at
  <1>6. p.data = q.data
    <2> DEFINE a == p.data
               b == q.data
    <2>1. a \in Seq(Byte) /\ b \in Seq(Byte) /\ Len(a) = Len(b) /\ \A i \in 1..Len(a) : a[i] = b[i]
      BY <1>1, <1>4, <1>5
    <2> HIDE DEF a, b
    <2>2. a = b
      BY <2>1, SeqEqual
    <2> QED
      BY <2>2 DEF a, b
  <1>7. p.cmd = q.cmd
    <2>1. (Encode(p) \o X)[1] = p.cmd
      BY EncodeFirst, Zenon
    <2>2. (Encode(q) \o Y)[1] = q.cmd
      BY EncodeFirst, Zenon
    <2> QED
      BY <2>1, <2>2, Zenon
  <1>8. p = q
    BY <1>6, <1>7 DEF Whole
  <1>9. X = Y
    <2>1. Encode(p) \in Seq(Byte)
      BY EncodeTyped
    <2>2. Encode(p) \o X = Encode(p) \o Y
      BY <1>8
    <2> DEFINE e == Encode(p)
    <2> HIDE DEF e
    <2>3. e \in Seq(Byte) /\ e \o X = e \o Y
      BY <2>1, <2>2 DEF e
    <2> QED
      BY <2>3, ConcatCancels
  <1> QED
    BY <1>8, <1>9

------------------------------------------------------------------------------
(***************************************************************************)
(* Pieces of the buffer.                                                   *)
(***************************************************************************)
LEMMA BytesIs ==
    ASSUME NEW array \in [Cell -> Byte], NEW from \in Nat, NEW to \in Nat,
           from <= to, to <= BufferLength
    PROVE  /\ Bytes(array, from, to) \in Seq(Byte) /\ Len(Bytes(array, from, to)) = to - from
           /\ \A i \in 1..(to - from) : Bytes(array, from, to)[i] = array[from + i - 1]
  <1> DEFINE n == to - from
             s == [i \in 1..n |-> array[from + i - 1]]
  <1>1. n \in Nat /\ BufferLength \in Nat
    BY SizeAssumption
  <1>2. \A i \in 1..n : array[from + i - 1] \in Byte
    <2> SUFFICES ASSUME NEW i \in 1..n PROVE array[from + i - 1] \in Byte
      OBVIOUS
    <2>1. from + i - 1 \in Cell
      BY <1>1 DEF Cell
    <2> QED
      BY <2>1
  <1>3. Bytes(array, from, to) = s
    BY DEF Bytes
  <1> HIDE DEF n
  <1>4. s \in [1..n -> Byte]
    BY <1>2
  <1>5. s \in Seq(Byte) /\ Len(s) = n
    BY <1>1, <1>4
  <1> QED
    BY <1>3, <1>5 DEF n

LEMMA BytesSplit ==
    ASSUME NEW array \in [Cell -> Byte], NEW a \in Nat, NEW b \in Nat, NEW c \in Nat,
           a <= b, b <= c, c <= BufferLength
    PROVE  Bytes(array, a, c) = Bytes(array, a, b) \o Bytes(array, b, c)
  <1> DEFINE s == Bytes(array, a, b)
             t == Bytes(array, b, c)
             u == Bytes(array, a, c)
  <1>0. a <= c /\ b <= BufferLength /\ BufferLength \in Nat
    BY SizeAssumption
  <1>1. /\ s \in Seq(Byte) /\ Len(s) = b - a
        /\ \A i \in 1..(b - a) : s[i] = array[a + i - 1]
    BY <1>0, BytesIs
  <1>2. /\ t \in Seq(Byte) /\ Len(t) = c - b
        /\ \A i \in 1..(c - b) : t[i] = array[b + i - 1]
    BY <1>0, BytesIs
  <1>3. /\ u \in Seq(Byte) /\ Len(u) = c - a
        /\ \A i \in 1..(c - a) : u[i] = array[a + i - 1]
    BY <1>0, BytesIs
  <1> HIDE DEF s, t, u
  <1>4. /\ s \o t \in Seq(Byte) /\ Len(s \o t) = c - a
        /\ \A i \in 1..(c - a) : (s \o t)[i] = IF i <= b - a THEN s[i] ELSE t[i - (b - a)]
    <2>1. /\ s \o t \in Seq(Byte) /\ Len(s \o t) = Len(s) + Len(t)
          /\ \A i \in 1..(Len(s) + Len(t)) : (s \o t)[i] = IF i <= Len(s) THEN s[i] ELSE t[i - Len(s)]
      BY <1>1, <1>2, ConcatProperties
    <2>2. Len(s) + Len(t) = c - a
      BY <1>1, <1>2
    <2> QED
      BY <2>1, <2>2, <1>1
  <1>5. ASSUME NEW i \in 1..(c - a) PROVE u[i] = (s \o t)[i]
    <2>1. CASE i <= b - a
      <3>1. i \in 1..(b - a)
        BY <2>1
      <3> QED
        BY <3>1, <2>1, <1>1, <1>3, <1>4
    <2>2. CASE ~(i <= b - a)
      <3>1. i - (b - a) \in 1..(c - b) /\ b + (i - (b - a)) - 1 = a + i - 1
        BY <2>2
      <3> QED
        BY <3>1, <2>2, <1>2, <1>3, <1>4
    <2> QED
      BY <2>1, <2>2
  <1>6. u = s \o t
    BY <1>3, <1>4, <1>5, SeqEqual
  <1> QED
    BY <1>6 DEF s, t, u

LEMMA BytesOne ==
    ASSUME NEW array \in [Cell -> Byte], NEW a \in Nat, a < BufferLength
    PROVE  Bytes(array, a, a + 1) = <<array[a]>>
  <1>1. BufferLength \in Nat /\ a + 1 \in Nat /\ (a + 1) - a = 1 /\ a \in Cell
    BY SizeAssumption DEF Cell
  <1>2. Bytes(array, a, a + 1) = [i \in 1..1 |-> array[a + i - 1]]
    BY <1>1 DEF Bytes
  <1>3. <<array[a]>> = [i \in 1..1 |-> array[a + i - 1]]
    <2>1. \A i \in 1..1 : a + i - 1 = a
      OBVIOUS
    <2> QED
      BY <2>1
  <1> QED
    BY <1>2, <1>3

LEMMA BytesNone ==
    ASSUME NEW array, NEW a \in Nat
    PROVE  Bytes(array, a, a) = <<>>
  BY DEF Bytes

\* The data of a sub-packet.
LEMMA TakenIs ==
    ASSUME TypeOK, NEW length \in Byte, Within(length)
    PROVE  /\ Want(length) \in 1..SubMax /\ index + 1 + Want(length) <= read
           /\ index + 1 \in Nat /\ index + 1 + Want(length) \in Nat /\ read <= BufferLength
           /\ Taken(length) = Bytes(buffer, index + 1, index + 1 + Want(length))
           /\ Taken(length) \in Seq(Byte) /\ Len(Taken(length)) = Want(length)
  <1> DEFINE w == Want(length)
  <1>1. w \in 1..SubMax /\ SubMax \in Nat /\ BufferLength \in Nat
    BY SizeAssumption DEF Want, Byte
  <1>2. w + index + 1 <= read /\ read \in Nat /\ index \in Nat /\ read <= BufferLength
        /\ buffer \in [Cell -> Byte]
    BY SizeAssumption DEF Within, TypeOK
  <1> HIDE DEF w
  <1>3. Taken(length) = [i \in 1..w |-> buffer[index + i]]
    BY DEF Taken, w
  <1> DEFINE from == index + 1
             to == index + 1 + w
  <1>4. from \in Nat /\ to \in Nat /\ from <= to /\ to <= read /\ to <= BufferLength /\ to - from = w
    BY <1>1, <1>2
  <1>5. Taken(length) = Bytes(buffer, from, to)
    <2>1. \A i \in 1..w : from + i - 1 = index + i
      BY <1>2
    <2> QED
      BY <2>1, <1>3, <1>4 DEF Bytes
  <1>6. Taken(length) \in Seq(Byte) /\ Len(Taken(length)) = w
    <2> HIDE DEF from, to
    <2> QED
      BY <1>2, <1>4, <1>5, BytesIs
  <1> QED
    BY <1>1, <1>2, <1>4, <1>5, <1>6 DEF w

\* What is moved to the front is what was left.
LEMMA MovedDownIs ==
    ASSUME TypeOK, NEW from \in Nat, from <= read
    PROVE  /\ MovedDown(from) \in [Cell -> Byte]
           /\ Bytes(MovedDown(from), 0, read - from) = Bytes(buffer, from, read)
  <1>0. read \in Nat /\ read <= BufferLength /\ BufferLength \in Nat /\ buffer \in [Cell -> Byte]
    BY SizeAssumption DEF TypeOK
  <1>1. MovedDown(from) \in [Cell -> Byte]
    <2>1. ASSUME NEW i \in Cell
          PROVE  (IF i < read - from THEN buffer[from + i] ELSE buffer[i]) \in Byte
      <3>1. i < read - from => from + i \in Cell
        BY <1>0 DEF Cell
      <3> QED
        BY <3>1, <1>0
    <2> QED
      BY <2>1 DEF MovedDown
  <1>2. \A i \in 1..(read - from) : MovedDown(from)[0 + i - 1] = buffer[from + i - 1]
    <2> SUFFICES ASSUME NEW i \in 1..(read - from)
                 PROVE  MovedDown(from)[0 + i - 1] = buffer[from + i - 1]
      OBVIOUS
    <2>1. 0 + i - 1 \in Cell /\ 0 + i - 1 < read - from /\ from + (0 + i - 1) = from + i - 1
      BY <1>0 DEF Cell
    <2> QED
      BY <2>1 DEF MovedDown
  <1>3. (read - from) - 0 = read - from
    BY <1>0
  <1> QED
    BY <1>1, <1>2, <1>3 DEF Bytes

------------------------------------------------------------------------------
(***************************************************************************)
(* The inductive invariant.                                                *)
(***************************************************************************)
\* What the locals of process_read and io_manager_data mean, at each place.  A
\* command alone is handled at once, so that a single byte is never a remainder
\* put in front of what was read.
Places ==
    /\ step = "waiting" => index = 0
    /\ step = "entered" => index = 0 /\ read >= 1 /\ (read = 1 => lastRead = 0)
    /\ step = "parsing" => lastCommand # NullCommand /\ index <= read
    /\ step = "parsing" /\ index = 1 => dynamic = <<>> /\ buffer[0] = lastCommand
    /\ lastCommand = NullCommand => dynamic = <<>>
    /\ \E m \in Nat : Len(dynamic) = m * SubMax
    /\ Len(received) <= Len(sent)

Inv == TypeOK /\ Places /\ EveryByteCounts

LEMMA Sizes ==
    SubMax \in Nat \ {0} /\ BufferLength \in Nat /\ SubMax < BufferLength /\ 0 \in Cell
  BY SizeAssumption, BufferAssumption DEF Cell

LEMMA PacketsWhole == Packet \subseteq Whole
  BY PacketAssumption DEF Whole, Byte, NullCommand

LEMMA TypeSend ==
    ASSUME TypeOK, NEW p \in Packet, Send(p)
    PROVE  TypeOK'
  <1>1. Encode(p) \in Seq(Byte)
    BY PacketsWhole, EncodeTyped
  <1>2. sent' \in Seq(Packet)
    BY DEF TypeOK, Send
  <1>3. wire' \in Seq(Byte)
    BY <1>1, ConcatProperties DEF TypeOK, Send
  <1> QED
    BY <1>2, <1>3 DEF TypeOK, Send, kept, locals

\* The bytes of a read, and those that stay under way.
LEMMA ArriveFacts ==
    ASSUME TypeOK, NEW k \in 0..BufferLength, Arrive(k)
    PROVE  /\ lastRead + k \in Nat /\ lastRead + k <= BufferLength /\ k <= Len(wire)
           /\ buffer' \in [Cell -> Byte] /\ wire' \in Seq(Byte)
           /\ SubSeq(wire, 1, k) \in Seq(Byte) /\ Len(SubSeq(wire, 1, k)) = k
           /\ \A i \in 1..k : SubSeq(wire, 1, k)[i] = wire[i]
           /\ wire = SubSeq(wire, 1, k) \o wire'
  <1>0. /\ lastRead \in Nat /\ lastRead <= BufferLength /\ BufferLength \in Nat /\ k \in Nat
        /\ wire \in Seq(Byte) /\ Len(wire) \in Nat /\ buffer \in [Cell -> Byte]
    BY Sizes DEF TypeOK
  <1>1. lastRead + k \in Nat /\ lastRead + k <= BufferLength /\ k <= Len(wire)
    BY <1>0 DEF Arrive
  <1>2. buffer' \in [Cell -> Byte]
    <2>1. ASSUME NEW i \in Cell
          PROVE  (IF lastRead <= i /\ i < lastRead + k THEN wire[i - lastRead + 1] ELSE buffer[i]) \in Byte
      <3>1. lastRead <= i /\ i < lastRead + k => i - lastRead + 1 \in 1..Len(wire)
        BY <1>0, <1>1 DEF Cell
      <3> QED
        BY <3>1, <1>0, ElementOfSeq
    <2> QED
      BY <2>1 DEF Arrive
  <1>3. wire' = SubSeq(wire, k + 1, Len(wire))
    BY DEF Arrive
  <1>4. wire' \in Seq(Byte)
    BY <1>0, <1>1, <1>3, SubSeqProperties, ElementOfSeq
  <1>5. /\ SubSeq(wire, 1, k) \in Seq(Byte) /\ Len(SubSeq(wire, 1, k)) = k
        /\ \A i \in 1..k : SubSeq(wire, 1, k)[i] = wire[i]
    BY <1>0, <1>1, SubSeqProperties, ElementOfSeq
  <1>6. SubSeq(wire, 1, k) \o SubSeq(wire, k + 1, Len(wire)) = wire
    <2>1. 1 \in 1..(Len(wire) + 1) /\ k \in (1 - 1)..Len(wire) /\ Len(wire) \in k..Len(wire)
      BY <1>0, <1>1
    <2>2. SubSeq(wire, 1, k) \o SubSeq(wire, k + 1, Len(wire)) = SubSeq(wire, 1, Len(wire))
      BY <2>1, <1>0, ConcatAdjacentSubSeq
    <2> QED
      BY <2>2, <1>0, SubSeqFull
  <1> QED
    BY <1>1, <1>2, <1>3, <1>4, <1>5, <1>6

LEMMA TypeArrive ==
    ASSUME TypeOK, NEW k \in 0..BufferLength, Arrive(k)
    PROVE  TypeOK'
  <1>1. buffer' \in [Cell -> Byte] /\ wire' \in Seq(Byte) /\ lastRead + k \in 0..BufferLength
    BY ArriveFacts, Sizes
  <1> QED
    BY <1>1 DEF TypeOK, Arrive

LEMMA TypeEnter ==
    ASSUME TypeOK, Enter
    PROVE  TypeOK'
  <1>1. buffer[0] \in Byte /\ 1 \in 0..BufferLength /\ 0 \in 0..BufferLength
    BY Sizes DEF TypeOK
  <1> QED
    BY <1>1 DEF TypeOK, Enter, locals, Wait

LEMMA TypeParseSub ==
    ASSUME TypeOK, ParseSub
    PROVE  TypeOK'
  <1>1. 0 \in Byte /\ Within(0)
    BY Sizes DEF Byte, ParseSub
  <1>2. Taken(0) \in Seq(Byte) /\ Want(0) = SubMax /\ index + 1 + Want(0) <= read
        /\ index + 1 + Want(0) \in Nat /\ read <= BufferLength /\ read \in Nat
    BY <1>1, TakenIs DEF Want, TypeOK
  <1>3. index' \in 0..BufferLength
    BY <1>2, Sizes DEF ParseSub
  <1>4. dynamic' \in Seq(Byte)
    BY <1>2, ConcatProperties DEF TypeOK, ParseSub
  <1> QED
    BY <1>3, <1>4, Sizes DEF TypeOK, ParseSub

LEMMA PeekTyped ==
    ASSUME TypeOK
    PROVE  Peek \subseteq Byte /\ (index < BufferLength => Peek = {buffer[index]})
  BY Sizes DEF TypeOK, Peek, Cell

LEMMA TypeParseLast ==
    ASSUME TypeOK, ParseLast
    PROVE  TypeOK'
  <1>1. PICK length \in Peek \ {0} :
            /\ Within(length)
            /\ received' = Append(received, [cmd |-> lastCommand, data |-> dynamic \o Taken(length)])
            /\ LET next == index + 1 + length IN
               \/ /\ next < read
                  /\ buffer' = MovedDown(next)
                  /\ read' = read - next
                  /\ index' = 0
                  /\ step' = "entered"
               \/ /\ next >= read
                  /\ Wait
                  /\ UNCHANGED buffer
    BY DEF ParseLast
  <1>2. length \in Byte /\ length \in Nat /\ index + 1 + length \in Nat /\ read \in Nat
        /\ read <= BufferLength
    BY PeekTyped, Sizes DEF Byte, TypeOK
  <1>3. Taken(length) \in Seq(Byte)
    BY <1>1, <1>2, TakenIs
  <1>4. received' \in Seq([cmd : Byte, data : Seq(Byte)])
    <2>1. dynamic \o Taken(length) \in Seq(Byte)
      BY <1>3, ConcatProperties DEF TypeOK
    <2>2. [cmd |-> lastCommand, data |-> dynamic \o Taken(length)] \in [cmd : Byte, data : Seq(Byte)]
      BY <2>1 DEF TypeOK
    <2> QED
      BY <1>1, <2>2 DEF TypeOK
  <1>5. buffer' \in [Cell -> Byte] /\ read' \in 0..BufferLength /\ index' \in 0..BufferLength
        /\ step' \in {"waiting", "entered", "parsing"}
    <2>1. CASE index + 1 + length < read
      <3>1. MovedDown(index + 1 + length) \in [Cell -> Byte]
        BY <2>1, <1>2, MovedDownIs
      <3>2. buffer' = MovedDown(index + 1 + length) /\ read' = read - (index + 1 + length)
            /\ index' = 0 /\ step' = "entered"
        BY <1>1, <1>2, <2>1
      <3> QED
        BY <3>1, <3>2, <1>2, <2>1, Sizes
    <2>2. CASE ~(index + 1 + length < read)
      <3>1. Wait /\ UNCHANGED buffer
        BY <1>1, <1>2, <2>2
      <3> QED
        BY <3>1, Sizes DEF Wait, TypeOK
    <2> QED
      BY <2>1, <2>2
  <1> QED
    BY <1>4, <1>5, Sizes DEF TypeOK, ParseLast, Byte, NullCommand

\* A remainder is at most a sub-packet: its count fits a byte.
LEMMA PartialFits ==
    ASSUME TypeOK, Places, ParsePartial
    PROVE  index \in Nat /\ read \in Nat /\ index <= read /\ read - index \in 0..SubMax
           /\ (read - index) % (SubMax + 1) = read - index
  <1>1. index <= read /\ index \in Nat /\ read \in Nat /\ SubMax \in Nat \ {0}
    BY Sizes DEF ParsePartial, Places, TypeOK
  <1>2. PICK length \in Peek : ~(Want(length) + index + 1 <= read)
    BY DEF ParsePartial, Within
  <1>3. Want(length) \in 1..SubMax
    BY PeekTyped, Sizes DEF Want, Byte
  <1>4. read - index \in 0..SubMax
    BY <1>1, <1>2, <1>3
  <1>5. (read - index) % (SubMax + 1) = read - index
    <2> DEFINE n == read - index
               k == SubMax + 1
    <2>1. n \in Nat /\ k \in Nat \ {0} /\ n \in 0..(k - 1) /\ 0 \in Nat /\ n = 0 * k + n
      BY <1>1, <1>4
    <2> HIDE DEF n, k
    <2>2. \A q \in Nat, r \in 0..(k - 1) : n = q * k + r => n \div k = q /\ n % k = r
      BY <2>1, Quotient
    <2>3. n % k = n
      BY <2>1, <2>2, Zenon
    <2> QED
      BY <2>3 DEF n, k
  <1> QED
    BY <1>1, <1>4, <1>5

LEMMA TypeParsePartial ==
    ASSUME TypeOK, Places, ParsePartial
    PROVE  TypeOK'
  <1>1. index \in Nat /\ read \in Nat /\ index <= read /\ read - index \in 0..SubMax
        /\ (read - index) % (SubMax + 1) = read - index /\ read \in 0..BufferLength
    BY PartialFits DEF TypeOK
  <1>2. MovedDown(index) \in [Cell -> Byte]
    BY <1>1, MovedDownIs
  <1>3. buffer' \in [Cell -> Byte] /\ lastRead' \in 0..BufferLength /\ lastCommand' \in Byte
    <2>1. CASE index = 1
      BY <2>1, <1>1, Sizes DEF ParsePartial, TypeOK, Byte, NullCommand
    <2>2. CASE index # 1
      <3>1. lastRead' = read - index /\ buffer' = MovedDown(index) /\ lastCommand' = lastCommand
        BY <2>2, <1>1 DEF ParsePartial
      <3> QED
        BY <3>1, <1>1, <1>2, Sizes DEF TypeOK
    <2> QED
      BY <2>1, <2>2
  <1> QED
    BY <1>3, Sizes DEF TypeOK, ParsePartial, Wait

LEMMA PlacesSend ==
    ASSUME TypeOK, Places, NEW p \in Packet, Send(p)
    PROVE  Places'
  <1>1. Len(sent') = Len(sent) + 1 /\ Len(sent) \in Nat /\ Len(received) \in Nat
    BY DEF TypeOK, Send
  <1>2. UNCHANGED <<step, buffer, dynamic, lastRead, lastCommand, read, index, received>>
    BY DEF Send, kept, locals
  <1> QED
    BY <1>1, <1>2 DEF Places

LEMMA PlacesArrive ==
    ASSUME TypeOK, Places, NEW k \in 0..BufferLength, Arrive(k)
    PROVE  Places'
  <1>1. lastRead + k >= 1 /\ (lastRead + k = 1 => lastRead = 0)
    BY Sizes DEF TypeOK, Arrive
  <1>2. index = 0
    BY DEF Places, Arrive
  <1> QED
    BY <1>1, <1>2 DEF Places, Arrive

LEMMA PlacesParseSub ==
    ASSUME TypeOK, Places, ParseSub
    PROVE  Places'
  <1>1. 0 \in Byte /\ Within(0)
    BY Sizes DEF Byte, ParseSub
  <1>2. Taken(0) \in Seq(Byte) /\ Len(Taken(0)) = SubMax /\ index + 1 + SubMax <= read
        /\ index \in Nat /\ dynamic \in Seq(Byte)
    BY <1>1, TakenIs DEF Want, TypeOK
  <1>3. index' # 1 /\ index' <= read'
    BY <1>2, Sizes DEF ParseSub
  <1>4. \E m \in Nat : Len(dynamic') = m * SubMax
    <2>1. PICK m \in Nat : Len(dynamic) = m * SubMax
      BY DEF Places
    <2>2. Len(dynamic') = Len(dynamic) + SubMax
      BY <1>2, ConcatProperties DEF ParseSub
    <2>3. m + 1 \in Nat /\ (m + 1) * SubMax = m * SubMax + SubMax
      BY Multiples, Sizes
    <2>4. Len(dynamic') = (m + 1) * SubMax
      BY <2>1, <2>2, <2>3, Zenon
    <2> QED
      BY <2>3, <2>4, Zenon
  <1>5. step = "parsing" /\ UNCHANGED <<sent, step, lastCommand, received>>
    BY DEF ParseSub
  <1>6. lastCommand # NullCommand
    BY <1>5 DEF Places
  <1> QED
    BY <1>3, <1>4, <1>5, <1>6 DEF Places

\* An empty sequence is no sub-packet long.
LEMMA NoSubs == \E m \in Nat : Len(<<>>) = m * SubMax
  <1>1. Len(<<>>) = 0 * SubMax
    BY Sizes
  <1> QED
    BY <1>1

LEMMA PlacesParsePartial ==
    ASSUME TypeOK, Places, ParsePartial
    PROVE  Places'
  <1>1. step' = "waiting" /\ index' = 0 /\ UNCHANGED <<sent, dynamic, received>>
    BY DEF ParsePartial, Wait
  <1>2. lastCommand' = NullCommand => dynamic = <<>>
    BY DEF ParsePartial, Places
  <1> QED
    BY <1>1, <1>2 DEF Places

------------------------------------------------------------------------------
(***************************************************************************)
(* EveryByteCounts, step by step.                                          *)
(***************************************************************************)
Regrouped(a, b, c, d) == (a \o (b \o c)) \o d = (a \o b) \o (c \o d)

LEMMA Regroup == \A a, b, c, d \in Seq(Byte) : Regrouped(a, b, c, d)
  <1> SUFFICES ASSUME NEW a \in Seq(Byte), NEW b \in Seq(Byte),
                      NEW c \in Seq(Byte), NEW d \in Seq(Byte)
               PROVE  Regrouped(a, b, c, d)
    OBVIOUS
  <1> DEFINE e == a \o b
  <1>1. e \in Seq(Byte)
    BY ConcatProperties
  <1>2. Together(a, b, c)
    BY ConcatTogether, Zenon
  <1>3. e \o c = a \o (b \o c)
    BY <1>2 DEF Together
  <1> HIDE DEF e
  <1>4. Together(e, c, d)
    BY <1>1, ConcatTogether, Zenon
  <1>5. (e \o c) \o d = e \o (c \o d)
    BY <1>4 DEF Together
  <1>6. (a \o (b \o c)) \o d = e \o (c \o d)
    BY <1>3, <1>5, Zenon
  <1> QED
    BY <1>6, Zenon DEF e, Regrouped

LEMMA Subs ==
    ASSUME NEW d \in Seq(Byte), NEW m \in Nat, Len(d) = m * SubMax
    PROVE  Len(d) \div SubMax = m
  <1> DEFINE n == Len(d)
  <1>1. n \in Nat /\ SubMax \in Nat \ {0} /\ 0 \in 0..(SubMax - 1) /\ n = m * SubMax + 0
    BY Sizes, LenProperties, Multiples
  <1> HIDE DEF n
  <1>2. \A q \in Nat, r \in 0..(SubMax - 1) : n = q * SubMax + r => n \div SubMax = q /\ n % SubMax = r
    BY <1>1, Quotient
  <1>3. n \div SubMax = m
    BY <1>1, <1>2, Zenon
  <1> QED
    BY <1>3 DEF n

\* The sub-packets of a packet of which nothing has been taken in.
LEMMA CutNone == Cut(<<>>, 0, Len(<<>>) + 0) = <<>>
  <1>1. Len(<<>>) + 0 = 0
    OBVIOUS
  <1> QED
    BY <1>1 DEF Cut

LEMMA BegunIs ==
    ASSUME TypeOK, NEW m \in Nat, Len(dynamic) = m * SubMax, lastCommand # NullCommand
    PROVE  /\ Begun = <<lastCommand>> \o Cut(dynamic, m, Len(dynamic) + m)
           /\ Cut(dynamic, m, Len(dynamic) + m) \in Seq(Byte)
           /\ <<lastCommand>> \in Seq(Byte)
  <1>1. dynamic \in Seq(Byte) /\ lastCommand \in Byte
    BY DEF TypeOK
  <1>2. Len(dynamic) \div SubMax = m
    BY <1>1, Subs
  <1>3. Begun = <<lastCommand>> \o Cut(dynamic, m, Len(dynamic) + m)
    BY <1>2 DEF Begun
  <1>4. Cut(dynamic, m, Len(dynamic) + m) \in Seq(Byte)
    <2> DEFINE n == Len(dynamic) + m
    <2>1. n \in Nat /\ n <= Len(dynamic) + m + 1 /\ m * SubMax <= Len(dynamic)
          /\ Len(dynamic) <= m * SubMax + SubMax
      BY <1>1, Sizes, LenProperties
    <2> HIDE DEF n
    <2>2. Cut(dynamic, m, n) \in Seq(Byte)
      BY <1>1, <2>1, CutTyped
    <2> QED
      BY <2>2 DEF n
  <1> QED
    BY <1>1, <1>3, <1>4

LEMMA StreamTyped ==
    ASSUME TypeOK, Places
    PROVE  /\ Begun \in Seq(Byte) /\ Unparsed \in Seq(Byte) /\ wire \in Seq(Byte)
           /\ Begun \o Unparsed \in Seq(Byte)
           /\ Len(sent) \in Nat /\ Len(received) \in Nat /\ Len(received) <= Len(sent)
           /\ Due \in Seq(Seq(Byte)) /\ Len(Due) = Len(sent) - Len(received)
           /\ \A i \in 1..(Len(sent) - Len(received)) :
                  /\ sent[Len(received) + i] \in Whole
                  /\ Due[i] = Encode(sent[Len(received) + i])
  <1>1. Begun \in Seq(Byte)
    <2>1. CASE lastCommand = NullCommand
      BY <2>1 DEF Begun
    <2>2. CASE lastCommand # NullCommand
      <3>1. PICK m \in Nat : Len(dynamic) = m * SubMax
        BY DEF Places
      <3> QED
        BY <3>1, <2>2, BegunIs, ConcatProperties
    <2> QED
      BY <2>1, <2>2
  <1>2. Unparsed \in Seq(Byte)
    <2> DEFINE end == IF step = "waiting" THEN lastRead ELSE read
    <2>1. end \in Nat /\ index \in Nat /\ index <= end /\ end <= BufferLength
          /\ buffer \in [Cell -> Byte]
      BY Sizes DEF TypeOK, Places
    <2>2. Unparsed = Bytes(buffer, index, end)
      BY DEF Unparsed
    <2> HIDE DEF end
    <2> QED
      BY <2>1, <2>2, BytesIs
  <1>3. Begun \o Unparsed \in Seq(Byte)
    BY <1>1, <1>2, ConcatProperties
  <1>4. Len(sent) \in Nat /\ Len(received) \in Nat /\ Len(received) <= Len(sent)
    BY DEF TypeOK, Places
  <1> DEFINE n == Len(sent) - Len(received)
  <1>5. \A i \in 1..n : sent[Len(received) + i] \in Whole
    <2> SUFFICES ASSUME NEW i \in 1..n PROVE sent[Len(received) + i] \in Whole
      OBVIOUS
    <2>1. Len(received) + i \in 1..Len(sent)
      BY <1>4
    <2>2. sent[Len(received) + i] \in Packet
      BY <2>1 DEF TypeOK
    <2> QED
      BY <2>2, PacketsWhole
  <1>6. \A i \in 1..n : Encode(sent[Len(received) + i]) \in Seq(Byte)
    BY <1>5, EncodeTyped
  <1>7. n \in Nat
    BY <1>4
  <1>8. Due = [i \in 1..n |-> Encode(sent[Len(received) + i])]
    BY DEF Due
  <1> HIDE DEF n
  <1>9. Due \in [1..n -> Seq(Byte)]
    BY <1>6, <1>8
  <1>10. Due \in Seq(Seq(Byte)) /\ Len(Due) = n
    BY <1>7, <1>9
  <1> QED
    BY <1>1, <1>2, <1>3, <1>4, <1>5, <1>8, <1>10 DEF TypeOK, n

LEMMA CountsSend ==
    ASSUME Inv, NEW p \in Packet, Send(p)
    PROVE  EveryByteCounts'
  <1> DEFINE held == Begun \o Unparsed
             e == Encode(p)
  <1>1. held \in Seq(Byte) /\ wire \in Seq(Byte) /\ e \in Seq(Byte) /\ Due \in Seq(Seq(Byte))
    BY StreamTyped, PacketsWhole, EncodeTyped DEF Inv
  <1>2. held \o wire = FlattenSeq(Due)
    BY DEF Inv, EveryByteCounts
  <1>3. Begun' = Begun /\ Unparsed' = Unparsed /\ wire' = wire \o e
    BY DEF Send, Begun, Unparsed, kept, locals
  <1>4. Due' = Append(Due, e)
    <2>1. /\ Len(sent) \in Nat /\ Len(received) \in Nat /\ Len(received) <= Len(sent)
          /\ Len(Due) = Len(sent) - Len(received)
          /\ \A i \in 1..(Len(sent) - Len(received)) : Due[i] = Encode(sent[Len(received) + i])
      BY StreamTyped DEF Inv
    <2>2. /\ sent' = Append(sent, p) /\ received' = received /\ Len(sent') = Len(sent) + 1
          /\ \A i \in 1..Len(sent) : sent'[i] = sent[i]
          /\ sent'[Len(sent) + 1] = p
      BY DEF Send, Inv, TypeOK
    <2> DEFINE n == Len(sent) - Len(received)
               later(i) == Encode(sent'[Len(received) + i])
    <2>3. n \in Nat /\ Len(sent') - Len(received') = n + 1 /\ Len(received) + (n + 1) = Len(sent) + 1
      BY <2>1, <2>2
    <2>4. \A i \in 1..n : later(i) = Due[i]
      <3> SUFFICES ASSUME NEW i \in 1..n PROVE later(i) = Due[i]
        OBVIOUS
      <3>1. Len(received) + i \in 1..Len(sent)
        BY <2>1
      <3> QED
        BY <3>1, <2>1, <2>2
    <2>5. later(n + 1) = e
      BY <2>2, <2>3
    <2>6. Due' = [i \in 1..(n + 1) |-> later(i)]
      BY <2>2, <2>3 DEF Due
    <2> HIDE DEF later, n, e
    <2>7. Due' = [i \in 1..(n + 1) |-> IF i <= n THEN Due[i] ELSE e]
      <3>1. \A i \in 1..(n + 1) : later(i) = IF i <= n THEN Due[i] ELSE e
        BY <2>3, <2>4, <2>5
      <3> QED
        BY <3>1, <2>6
    <2>8. Append(Due, e) = [i \in 1..(n + 1) |-> IF i <= n THEN Due[i] ELSE e]
      <3>1. Len(Due) = n
        BY <2>1 DEF n
      <3> DEFINE D == Due
      <3>2. D \in Seq(Seq(Byte)) /\ e \in Seq(Byte) /\ Len(D) = n /\ n \in Nat
        BY <1>1, <2>3, <3>1
      <3> HIDE DEF D
      <3>3. /\ Append(D, e) \in Seq(Seq(Byte)) /\ Len(Append(D, e)) = n + 1
            /\ \A i \in 1..n : Append(D, e)[i] = D[i]
            /\ Append(D, e)[n + 1] = e
        BY <3>2, AppendProperties
      <3> DEFINE A == Append(D, e)
      <3>4. A \in Seq(Seq(Byte)) /\ Len(A) = n + 1
            /\ (\A i \in 1..n : A[i] = D[i]) /\ A[n + 1] = e
        BY <3>3
      <3> HIDE DEF A
      <3>5. A \in [1..(n + 1) -> Seq(Byte)]
        BY <3>4, LenProperties
      <3>6. A = [i \in 1..(n + 1) |-> IF i <= n THEN D[i] ELSE e]
        BY <3>2, <3>4, <3>5
      <3> QED
        BY <3>6 DEF D, A
    <2> QED
      BY <2>7, <2>8
  <1> HIDE DEF held, e
  <1>5. FlattenSeq(Append(Due, e)) = FlattenSeq(Due) \o e
    BY <1>1, FlattenAppend, Zenon
  <1>6. Together(held, wire, e)
    BY <1>1, ConcatTogether, Zenon
  <1>7. (held \o wire) \o e = held \o (wire \o e)
    BY <1>6 DEF Together
  <1>8. held \o wire' = FlattenSeq(Due')
    BY <1>2, <1>3, <1>4, <1>5, <1>7, Zenon
  <1>9. Begun' \o Unparsed' = held
    BY <1>3 DEF held
  <1> QED
    BY <1>8, <1>9 DEF EveryByteCounts

LEMMA CountsArrive ==
    ASSUME Inv, NEW k \in 0..BufferLength, Arrive(k)
    PROVE  EveryByteCounts'
  <1> DEFINE S == SubSeq(wire, 1, k)
             to == lastRead + k
  <1>0. index = 0 /\ lastRead \in Nat /\ k \in Nat /\ lastRead <= BufferLength
        /\ buffer \in [Cell -> Byte] /\ step = "waiting" /\ step' = "entered" /\ read' = to
        /\ UNCHANGED <<sent, dynamic, lastRead, lastCommand, index, received>>
    BY Sizes DEF Inv, TypeOK, Places, Arrive
  <1>1. /\ to \in Nat /\ to <= BufferLength /\ k <= Len(wire)
        /\ buffer' \in [Cell -> Byte] /\ wire' \in Seq(Byte)
        /\ S \in Seq(Byte) /\ Len(S) = k /\ \A i \in 1..k : S[i] = wire[i]
        /\ wire = S \o wire'
    BY ArriveFacts DEF Inv
  <1>2. Unparsed' = Bytes(buffer', 0, to) /\ Unparsed = Bytes(buffer, 0, lastRead)
    BY <1>0 DEF Unparsed
  <1>3. Bytes(buffer', 0, to) = Bytes(buffer', 0, lastRead) \o Bytes(buffer', lastRead, to)
    <2>1. 0 <= lastRead /\ lastRead <= to /\ 0 \in Nat
      BY <1>0, <1>1
    <2> HIDE DEF to
    <2> QED
      BY <2>1, <1>0, <1>1, BytesSplit
  <1>4. Bytes(buffer', 0, lastRead) = Bytes(buffer, 0, lastRead)
    <2>1. \A i \in 1..(lastRead - 0) : buffer'[0 + i - 1] = buffer[0 + i - 1]
      <3> SUFFICES ASSUME NEW i \in 1..(lastRead - 0) PROVE buffer'[0 + i - 1] = buffer[0 + i - 1]
        OBVIOUS
      <3>1. 0 + i - 1 \in Cell /\ ~(lastRead <= 0 + i - 1)
        BY <1>0, Sizes DEF Cell
      <3> QED
        BY <3>1 DEF Arrive
    <2> QED
      BY <2>1 DEF Bytes
  <1>5. Bytes(buffer', lastRead, to) = S
    <2> DEFINE T == Bytes(buffer', lastRead, to)
    <2>1. T \in Seq(Byte) /\ Len(T) = to - lastRead
          /\ \A i \in 1..(to - lastRead) : T[i] = buffer'[lastRead + i - 1]
      <3>1. lastRead <= to
        BY <1>0
      <3> HIDE DEF to
      <3> QED
        BY <3>1, <1>0, <1>1, BytesIs
    <2>2. to - lastRead = k
      BY <1>0
    <2>3. ASSUME NEW i \in 1..k PROVE buffer'[lastRead + i - 1] = wire[i]
      <3>1. lastRead + i - 1 \in Cell /\ lastRead <= lastRead + i - 1 /\ lastRead + i - 1 < lastRead + k
            /\ (lastRead + i - 1) - lastRead + 1 = i
        BY <1>0, <1>1, Sizes DEF Cell
      <3> QED
        BY <3>1 DEF Arrive
    <2> HIDE DEF T, S, to
    <2>4. T \in Seq(Byte) /\ Len(T) = Len(S) /\ \A i \in 1..Len(T) : T[i] = S[i]
      BY <2>1, <2>2, <2>3, <1>1
    <2>5. T = S
      BY <2>4, <1>1, SeqEqual
    <2> QED
      BY <2>5 DEF T
  <1>6. Unparsed' = Unparsed \o S
    BY <1>2, <1>3, <1>4, <1>5
  <1>7. Begun' = Begun /\ Due' = Due
    BY <1>0 DEF Begun, Due
  <1>8. Begun \in Seq(Byte) /\ Unparsed \in Seq(Byte)
    BY StreamTyped DEF Inv
  <1> HIDE DEF S
  <1>9. (Begun \o (Unparsed \o S)) \o wire' = (Begun \o Unparsed) \o (S \o wire')
    <2>1. Regrouped(Begun, Unparsed, S, wire')
      BY <1>1, <1>8, Regroup, Zenon
    <2> QED
      BY <2>1 DEF Regrouped
  <1>10. (Begun \o Unparsed) \o wire = FlattenSeq(Due)
    BY DEF Inv, EveryByteCounts
  <1>11. (Begun' \o Unparsed') \o wire' = FlattenSeq(Due')
    BY <1>1, <1>6, <1>7, <1>9, <1>10, Zenon
  <1> QED
    BY <1>11 DEF EveryByteCounts

\* What is begun and what is left of the buffer, changed together.
LEMMA HeldKept ==
    ASSUME EveryByteCounts, Begun' \o Unparsed' = Begun \o Unparsed,
           UNCHANGED <<sent, wire, received>>
    PROVE  EveryByteCounts'
  <1>1. Due' = Due /\ wire' = wire
    BY DEF Due
  <1>2. (Begun \o Unparsed) \o wire = FlattenSeq(Due)
    BY DEF EveryByteCounts
  <1>3. (Begun' \o Unparsed') \o wire' = FlattenSeq(Due')
    BY <1>1, <1>2, Zenon
  <1> QED
    BY <1>3 DEF EveryByteCounts

\* What has not been handed over begins with a command.
LEMMA FirstByte ==
    ASSUME Inv, step = "entered", lastCommand = NullCommand
    PROVE  buffer[0] # NullCommand
  <1>1. Begun = <<>> /\ index = 0 /\ read \in Nat /\ read >= 1 /\ read <= BufferLength
        /\ buffer \in [Cell -> Byte]
    BY Sizes DEF Inv, TypeOK, Places, Begun
  <1>2. Unparsed = Bytes(buffer, 0, read)
    BY <1>1 DEF Unparsed
  <1>3. Unparsed \in Seq(Byte) /\ Len(Unparsed) = read /\ Unparsed[1] = buffer[0]
    <2> DEFINE U == Bytes(buffer, 0, read)
    <2>0. 0 \in Nat /\ 0 <= read
      BY <1>1
    <2>1. U \in Seq(Byte) /\ Len(U) = read - 0 /\ \A i \in 1..(read - 0) : U[i] = buffer[0 + i - 1]
      BY <1>1, <2>0, BytesIs
    <2> HIDE DEF U
    <2>2. 1 \in 1..(read - 0) /\ 0 + 1 - 1 = 0 /\ read - 0 = read
      BY <1>1
    <2>3. U[1] = buffer[0] /\ Len(U) = read
      BY <2>1, <2>2
    <2> QED
      BY <2>1, <2>3, <1>2 DEF U
  <1>4. wire \in Seq(Byte) /\ Due \in Seq(Seq(Byte)) /\ Len(Due) = Len(sent) - Len(received)
        /\ \A i \in 1..(Len(sent) - Len(received)) :
               sent[Len(received) + i] \in Whole /\ Due[i] = Encode(sent[Len(received) + i])
    BY StreamTyped DEF Inv
  <1> DEFINE U == Unparsed
             F == FlattenSeq(Due)
  <1>5. U \o wire = F
    <2>1. (Begun \o Unparsed) \o wire = F
      BY DEF Inv, EveryByteCounts
    <2>2. <<>> \o Unparsed = Unparsed
      BY <1>3, ConcatEmptySeq
    <2> QED
      BY <2>1, <2>2, <1>1, Zenon
  <1>6. (U \o wire)[1] = buffer[0] /\ Len(U \o wire) # 0
    <2> HIDE DEF U
    <2>0. U \in Seq(Byte) /\ Len(U) = read /\ U[1] = buffer[0]
      BY <1>3 DEF U
    <2>1. Len(U \o wire) = Len(U) + Len(wire)
          /\ \A i \in 1..(Len(U) + Len(wire)) : (U \o wire)[i] = IF i <= Len(U) THEN U[i] ELSE wire[i - Len(U)]
      BY <2>0, <1>4, ConcatProperties
    <2>2. 1 \in 1..(Len(U) + Len(wire)) /\ 1 <= Len(U) /\ Len(wire) \in Nat
      BY <2>0, <1>1, <1>4, LenProperties
    <2> QED
      BY <2>0, <2>1, <2>2, <1>1
  <1>7. Due # <<>>
    <2>1. ASSUME Due = <<>> PROVE FALSE
      <3>1. F = <<>>
        BY <2>1, FlattenEmpty, Zenon
      <3>2. U \o wire = <<>>
        BY <3>1, <1>5, Zenon
      <3> HIDE DEF U
      <3> QED
        BY <3>2, <1>6
    <2> QED
      BY <2>1
  <1>8. 1 \in 1..(Len(sent) - Len(received))
    <2>1. Len(sent) - Len(received) \in Nat \ {0}
      BY <1>4, <1>7, EmptySeq
    <2> QED
      BY <2>1
  <1>9. PICK p \in Whole : p = sent[Len(received) + 1] /\ Due[1] = Encode(p)
    BY <1>4, <1>8
  <1>10. F = Due[1] \o FlattenSeq(Tail(Due))
    BY <1>4, <1>7, FlattenHead, Zenon
  <1>11. FlattenSeq(Tail(Due)) \in Seq(Byte)
    <2>1. Tail(Due) \in Seq(Seq(Byte))
      BY <1>4, <1>7, HeadTailProperties
    <2> QED
      BY <2>1, FlattenIn
  <1>12. F[1] = p.cmd
    <2>1. (Encode(p) \o FlattenSeq(Tail(Due)))[1] = p.cmd
      BY <1>11, EncodeFirst, Zenon
    <2> QED
      BY <2>1, <1>9, <1>10, Zenon
  <1>13. p.cmd # NullCommand
    <2>1. sent[Len(received) + 1] \in Packet
      <3>1. Len(sent) \in Nat /\ Len(received) \in Nat /\ sent \in Seq(Packet)
        BY DEF Inv, TypeOK
      <3>2. Len(received) + 1 \in 1..Len(sent)
        BY <3>1, <1>8
      <3> QED
        BY <3>1, <3>2, ElementOfSeq
    <2> QED
      BY <2>1, <1>9, PacketAssumption
  <1>14. F[1] = buffer[0]
    BY <1>5, <1>6, Zenon
  <1> QED
    BY <1>12, <1>13, <1>14, Zenon

LEMMA PlacesEnter ==
    ASSUME Inv, Enter
    PROVE  Places'
  <1>1. index = 0 /\ read \in Nat /\ read >= 1
    BY DEF Inv, Places, Enter, TypeOK
  <1>2. CASE lastCommand # NullCommand
    <2>1. step' = "parsing" /\ UNCHANGED <<lastCommand, read, index, buffer, dynamic, sent, received>>
      BY <1>2 DEF Enter, locals
    <2> QED
      BY <2>1, <1>1, <1>2 DEF Inv, Places
  <1>3. CASE lastCommand = NullCommand
    <2>1. buffer[0] # NullCommand /\ dynamic = <<>>
      BY <1>3, FirstByte DEF Enter, Inv, Places
    <2>2. lastCommand' = buffer[0] /\ UNCHANGED <<buffer, dynamic, sent, received>>
          /\ \/ (step' = "parsing" /\ index' = 1 /\ read' = read /\ read > 1)
             \/ (step' = "waiting" /\ index' = 0)
      BY <1>3 DEF Enter, Wait
    <2> QED
      BY <2>1, <2>2, <1>1 DEF Inv, Places
  <1> QED
    BY <1>2, <1>3

LEMMA CountsEnter ==
    ASSUME Inv, Enter
    PROVE  EveryByteCounts'
  <1>0. index = 0 /\ read \in Nat /\ 1 <= read /\ read <= BufferLength /\ step = "entered"
        /\ buffer \in [Cell -> Byte] /\ UNCHANGED <<sent, wire, received, dynamic, buffer, lastRead>>
    BY Sizes DEF Inv, TypeOK, Places, Enter
  <1>1. Begun' \o Unparsed' = Begun \o Unparsed
    <2>1. CASE lastCommand # NullCommand
      <3>1. step' = "parsing" /\ UNCHANGED <<lastCommand, read, index>>
        BY <2>1 DEF Enter, locals
      <3>2. Begun' = Begun /\ Unparsed' = Unparsed
        BY <3>1, <1>0 DEF Begun, Unparsed
      <3> QED
        BY <3>2, Zenon
    <2>2. CASE lastCommand = NullCommand
      <3> DEFINE c == buffer[0]
                 U == Bytes(buffer, 1, read)
      <3>1. c # NullCommand /\ dynamic = <<>> /\ c \in Byte
        BY <2>2, <1>0, FirstByte, Sizes DEF Inv, Places
      <3>2. Begun = <<>> /\ Unparsed = Bytes(buffer, 0, read)
        BY <2>2, <1>0 DEF Begun, Unparsed
      <3>3. Bytes(buffer, 0, read) = Bytes(buffer, 0, 1) \o U /\ U \in Seq(Byte)
        BY <1>0, BytesSplit, BytesIs, 0 \in Nat /\ 1 \in Nat /\ 0 <= 1
      <3>4. Bytes(buffer, 0, 1) = <<c>>
        <4>1. 0 \in Nat /\ 0 < BufferLength /\ 0 + 1 = 1
          BY Sizes
        <4> QED
          BY <4>1, <1>0, BytesOne
      <3>5. Begun' = <<c>> /\ Unparsed' = U
        <4>1. lastCommand' = c /\ dynamic' = <<>>
          BY <2>2, <3>1, <1>0 DEF Enter
        <4>2. Begun' = <<c>>
          <5>1. Len(<<>>) \div SubMax = 0 /\ <<>> \in Seq(Byte)
            BY Subs, Sizes, Len(<<>>) = 0 * SubMax, <<>> \in Seq(Byte)
          <5>2. Begun' = <<c>> \o Cut(<<>>, 0, Len(<<>>) + 0)
            BY <4>1, <5>1, <3>1 DEF Begun
          <5>3. <<c>> \in Seq(Byte)
            BY <3>1
          <5> QED
            BY <5>2, <5>3, CutNone, ConcatEmptySeq
        <4>3. Unparsed' = U
          <5>1. CASE read > 1
            BY <5>1, <2>2, <1>0 DEF Enter, Unparsed
          <5>2. CASE read = 1
            <6>1. lastRead = 0
              BY <5>2, <1>0 DEF Inv, Places
            <6>2. step' = "waiting" /\ index' = 0 /\ lastRead' = 0
              BY <5>2, <6>1, <2>2, <1>0 DEF Enter, Wait
            <6>3. Unparsed' = Bytes(buffer, 0, 0)
              BY <6>2, <1>0 DEF Unparsed
            <6> QED
              BY <6>3, <5>2, BytesNone
          <5> QED
            BY <5>1, <5>2, <1>0
        <4> QED
          BY <4>2, <4>3
      <3>6. Begun \o Unparsed = <<c>> \o U
        <4>1. <<c>> \o U \in Seq(Byte)
          BY <3>1, <3>3, ConcatProperties
        <4>2. <<>> \o (<<c>> \o U) = <<c>> \o U
          BY <4>1, ConcatEmptySeq
        <4> QED
          BY <4>2, <3>2, <3>3, <3>4, Zenon
      <3> QED
        BY <3>5, <3>6, Zenon
    <2> QED
      BY <2>1, <2>2
  <1> QED
    BY <1>0, <1>1, HeldKept DEF Inv

\* The frame that is looked at, and what follows it.
LEMMA FrameIs ==
    ASSUME TypeOK, NEW length \in Peek, Within(length)
    PROVE  LET next == index + 1 + Want(length)
               T == Taken(length)
               P == <<length>> \o T
               U == Bytes(buffer, next, read) IN
           /\ length \in Byte /\ next \in Nat /\ next <= read /\ index < next
           /\ T \in Seq(Byte) /\ Len(T) = Want(length) /\ Want(length) \in 1..SubMax
           /\ P \in Seq(Byte) /\ U \in Seq(Byte)
           /\ Bytes(buffer, index, read) = P \o U
  <1> DEFINE next == index + 1 + Want(length)
             T == Taken(length)
             U == Bytes(buffer, next, read)
  <1>0. index \in Nat /\ read \in Nat /\ read <= BufferLength /\ buffer \in [Cell -> Byte] /\ BufferLength \in Nat
    BY Sizes DEF TypeOK
  <1>1. length \in Byte
    BY PeekTyped
  <1>2. /\ Want(length) \in 1..SubMax /\ next <= read /\ index + 1 \in Nat /\ next \in Nat
        /\ T = Bytes(buffer, index + 1, next) /\ T \in Seq(Byte) /\ Len(T) = Want(length)
    BY <1>1, TakenIs
  <1>3. index < next /\ index + 1 <= next /\ index < BufferLength /\ index <= index + 1
    BY <1>0, <1>2, Sizes
  <1>4. length = buffer[index]
    BY <1>3, PeekTyped
  <1> HIDE DEF next, T
  <1>5. Bytes(buffer, index, index + 1) = <<length>>
    BY <1>0, <1>3, <1>4, BytesOne
  <1>6. Bytes(buffer, index, next) = <<length>> \o T
    <2>1. Bytes(buffer, index, next) = Bytes(buffer, index, index + 1) \o Bytes(buffer, index + 1, next)
      <3> DEFINE b == index + 1
      <3>1. b \in Nat /\ index <= b /\ b <= next /\ next <= BufferLength
        BY <1>0, <1>2, <1>3
      <3> HIDE DEF b
      <3>2. Bytes(buffer, index, next) = Bytes(buffer, index, b) \o Bytes(buffer, b, next)
        BY <3>1, <1>0, <1>2, BytesSplit
      <3> QED
        BY <3>2 DEF b
    <2> QED
      BY <2>1, <1>2, <1>5, Zenon
  <1>7. Bytes(buffer, index, read) = Bytes(buffer, index, next) \o U
    BY <1>0, <1>2, <1>3, BytesSplit, index <= next
  <1>8. U \in Seq(Byte)
    BY <1>0, <1>2, BytesIs
  <1>9. <<length>> \o T \in Seq(Byte)
    <2>1. <<length>> \in Seq(Byte)
      BY <1>1
    <2> QED
      BY <2>1, <1>2, ConcatProperties
  <1> QED
    BY <1>1, <1>2, <1>3, <1>6, <1>7, <1>8, <1>9 DEF next, T

LEMMA CountsParseSub ==
    ASSUME Inv, ParseSub
    PROVE  EveryByteCounts'
  <1> DEFINE T == Taken(0)
             P == <<0>> \o T
             next == index + 1 + Want(0)
             U == Bytes(buffer, next, read)
             cmd == <<lastCommand>>
  <1>0. /\ step = "parsing" /\ 0 \in Peek /\ Within(0) /\ TypeOK /\ Want(0) = SubMax
        /\ dynamic \in Seq(Byte) /\ lastCommand # NullCommand
        /\ UNCHANGED <<sent, wire, step, buffer, lastCommand, read, received>>
        /\ dynamic' = dynamic \o T /\ index' = index + 1 + SubMax
    BY DEF Inv, TypeOK, Places, ParseSub, Want
  <1>1. /\ T \in Seq(Byte) /\ Len(T) = SubMax /\ P \in Seq(Byte) /\ U \in Seq(Byte)
        /\ Bytes(buffer, index, read) = P \o U
    BY <1>0, FrameIs
  <1>2. Unparsed = P \o U /\ Unparsed' = U
    BY <1>0, <1>1 DEF Unparsed
  <1>3. PICK m \in Nat : Len(dynamic) = m * SubMax
    BY DEF Inv, Places
  <1> DEFINE C == Cut(dynamic, m, Len(dynamic) + m)
  <1>4. Begun = cmd \o C /\ C \in Seq(Byte) /\ cmd \in Seq(Byte)
    BY <1>0, <1>3, BegunIs
  <1>5. Begun' = cmd \o (C \o P)
    <2> DEFINE d == dynamic \o T
    <2>1. d \in Seq(Byte) /\ Len(d) = Len(dynamic) + SubMax /\ Len(dynamic) \in Nat
      <3> HIDE DEF T
      <3>1. dynamic \o T \in Seq(Byte) /\ Len(dynamic \o T) = Len(dynamic) + Len(T) /\ Len(dynamic) \in Nat
        BY <1>0, <1>1, ConcatProperties, LenProperties
      <3> QED
        BY <3>1, <1>1
    <2>2. m + 1 \in Nat /\ Len(d) = (m + 1) * SubMax
      <3>1. (m + 1) * SubMax = m * SubMax + SubMax /\ m + 1 \in Nat
        BY Sizes, Multiples
      <3> QED
        BY <3>1, <2>1, <1>3, Zenon
    <2>3. Len(d) \div SubMax = m + 1
      <3> DEFINE k == m + 1
      <3>1. k \in Nat /\ Len(d) = k * SubMax
        BY <2>2
      <3> HIDE DEF k, d
      <3>2. Len(d) \div SubMax = k
        BY <2>1, <3>1, Subs
      <3> QED
        BY <3>2 DEF k
    <2>4. Begun' = cmd \o Cut(d, m + 1, Len(d) + (m + 1))
      BY <1>0, <2>3 DEF Begun
    <2>5. Cut(d, m + 1, Len(dynamic) + m + 1 + Len(T)) = C \o P
      <3> HIDE DEF T
      <3> DEFINE full == m + 1
                 h == IF m < full THEN 0 ELSE Len(T)
      <3>1. T # <<>> /\ Len(T) <= SubMax /\ full \in {m, m + 1} /\ (full = m + 1 => Len(T) = SubMax)
        BY <1>1, Sizes, EmptySeq
      <3>2. h = 0
        OBVIOUS
      <3> HIDE DEF full
      <3>3. Cut(dynamic \o T, full, Len(dynamic) + m + 1 + Len(T)) = C \o (<<h>> \o T)
        BY <1>0, <1>1, <1>3, <3>1, CutAppend
      <3> HIDE DEF h
      <3> QED
        BY <3>2, <3>3 DEF full
    <2>6. Len(d) + (m + 1) = Len(dynamic) + m + 1 + Len(T)
      BY <2>1, <1>1
    <2> QED
      BY <2>4, <2>5, <2>6, Zenon
  <1> HIDE DEF P, U, C, cmd
  <1>6. (cmd \o (C \o P)) \o U = (cmd \o C) \o (P \o U)
    <2>1. Regrouped(cmd, C, P, U)
      BY <1>1, <1>4, Regroup, Zenon
    <2> QED
      BY <2>1 DEF Regrouped
  <1>7. Begun' \o Unparsed' = Begun \o Unparsed
    BY <1>2, <1>4, <1>5, <1>6, Zenon
  <1> QED
    BY <1>0, <1>7, HeldKept DEF Inv

LEMMA CountsParsePartial ==
    ASSUME Inv, ParsePartial
    PROVE  EveryByteCounts'
  <1>a. /\ index \in Nat /\ read \in Nat /\ index <= read /\ read - index \in 0..SubMax
        /\ (read - index) % (SubMax + 1) = read - index
    BY PartialFits DEF Inv
  <1>b. /\ step = "parsing" /\ read <= BufferLength /\ lastCommand # NullCommand
        /\ buffer \in [Cell -> Byte] /\ step' = "waiting" /\ index' = 0
        /\ UNCHANGED <<sent, wire, dynamic, received>>
    BY Sizes DEF Inv, TypeOK, Places, ParsePartial, Wait
  <1>1. Unparsed = Bytes(buffer, index, read)
    BY <1>a, <1>b DEF Unparsed
  <1>2. Begun' \o Unparsed' = Begun \o Unparsed
    <2>1. CASE index = 1
      <3> DEFINE c == lastCommand
                 U == Bytes(buffer, 1, read)
      <3>1. dynamic = <<>> /\ buffer[0] = c /\ c \in Byte
        BY <2>1, <1>a, <1>b DEF Inv, Places, TypeOK
      <3>2. lastCommand' = NullCommand /\ lastRead' = read /\ buffer' = buffer
        BY <2>1 DEF ParsePartial
      <3>3. Begun' = <<>> /\ Unparsed' = Bytes(buffer, 0, read)
        BY <3>2, <1>a, <1>b DEF Begun, Unparsed
      <3>4. Begun = <<c>>
        <4>1. Len(<<>>) \div SubMax = 0
          BY Subs, Sizes, Len(<<>>) = 0 * SubMax, <<>> \in Seq(Byte)
        <4>2. Begun = <<c>> \o Cut(<<>>, 0, Len(<<>>) + 0)
          BY <3>1, <4>1, <1>a, <1>b DEF Begun
        <4>3. <<c>> \in Seq(Byte)
          BY <3>1
        <4> QED
          BY <4>2, <4>3, CutNone, ConcatEmptySeq
      <3>5. Bytes(buffer, 0, read) = Bytes(buffer, 0, 1) \o U
        BY <2>1, <1>a, <1>b, BytesSplit, 0 \in Nat /\ 1 \in Nat /\ 0 <= 1
      <3>6. Bytes(buffer, 0, 1) = <<c>>
        <4>1. 0 \in Nat /\ 0 < BufferLength /\ 0 + 1 = 1
          BY Sizes
        <4> QED
          BY <4>1, <3>1, <1>a, <1>b, BytesOne
      <3>7. <<c>> \o U \in Seq(Byte)
        <4>1. <<c>> \in Seq(Byte) /\ U \in Seq(Byte)
          BY <3>1, <2>1, <1>a, <1>b, BytesIs, 1 \in Nat
        <4> QED
          BY <4>1, ConcatProperties
      <3>8. <<>> \o (<<c>> \o U) = <<c>> \o U
        BY <3>7, ConcatEmptySeq
      <3> QED
        BY <2>1, <1>1, <3>3, <3>4, <3>5, <3>6, <3>8, Zenon
    <2>2. CASE index # 1
      <3>1. lastRead' = read - index /\ buffer' = MovedDown(index) /\ lastCommand' = lastCommand
        BY <2>2, <1>a, <1>b DEF ParsePartial
      <3>2. Begun' = Begun
        BY <3>1, <1>a, <1>b DEF Begun
      <3>3. Unparsed' = Bytes(MovedDown(index), 0, read - index)
        BY <3>1, <1>a, <1>b DEF Unparsed
      <3>4. Unparsed' = Unparsed
        BY <3>3, <1>a, <1>b, <1>1, MovedDownIs DEF Inv
      <3> QED
        BY <3>2, <3>4, Zenon
    <2> QED
      BY <2>1, <2>2
  <1> QED
    BY <1>a, <1>b, <1>2, HeldKept DEF Inv

\* The frames taken in and the last one are the bytes of one packet.
LEMMA LastEncodes ==
    ASSUME Inv, step = "parsing", NEW length \in Peek \ {0}, Within(length)
    PROVE  LET r == [cmd |-> lastCommand, data |-> dynamic \o Taken(length)]
               U == Bytes(buffer, index + 1 + length, read) IN
           /\ r \in Whole /\ U \in Seq(Byte)
           /\ Begun \o Unparsed = Encode(r) \o U
  <1> DEFINE T == Taken(length)
             P == <<length>> \o T
             U == Bytes(buffer, index + 1 + length, read)
             cmd == <<lastCommand>>
             d == dynamic \o T
             r == [cmd |-> lastCommand, data |-> d]
  <1>0. TypeOK /\ dynamic \in Seq(Byte) /\ lastCommand # NullCommand /\ lastCommand \in Byte
        /\ Want(length) = length /\ length # 0
    BY DEF Inv, TypeOK, Places, Want
  <1>1. /\ T \in Seq(Byte) /\ Len(T) = length /\ P \in Seq(Byte) /\ U \in Seq(Byte)
        /\ Bytes(buffer, index, read) = P \o U /\ length \in 1..SubMax
    BY <1>0, FrameIs
  <1>2. Unparsed = P \o U
    BY <1>1 DEF Unparsed
  <1>3. PICK m \in Nat : Len(dynamic) = m * SubMax
    BY DEF Inv, Places
  <1> DEFINE C == Cut(dynamic, m, Len(dynamic) + m)
  <1>4. Begun = cmd \o C /\ C \in Seq(Byte) /\ cmd \in Seq(Byte)
    BY <1>0, <1>3, BegunIs
  <1>5. d \in Seq(Byte) /\ Len(d) = Len(dynamic) + length /\ Len(dynamic) \in Nat /\ d # <<>>
    <2> HIDE DEF T
    <2>1. dynamic \o T \in Seq(Byte) /\ Len(dynamic \o T) = Len(dynamic) + Len(T) /\ Len(dynamic) \in Nat
      BY <1>0, <1>1, ConcatProperties, LenProperties
    <2>2. Len(dynamic) + Len(T) # 0
      BY <2>1, <1>1
    <2> QED
      BY <2>1, <2>2, <1>1
  <1>6. FullSubs(d) = m
    <2>1. m * SubMax < Len(d) /\ Len(d) <= m * SubMax + SubMax
      BY <1>1, <1>3, <1>5, Sizes
    <2> HIDE DEF d
    <2> QED
      BY <2>1, <1>5, FullSubsIs
  <1>7. Cut(d, m, Len(d) + m + 1) = C \o P
    <2> HIDE DEF T
    <2>1. T # <<>> /\ Len(T) <= SubMax /\ m \in {m, m + 1} /\ ~(m = m + 1)
      BY <1>1, EmptySeq
    <2> DEFINE full == m
               h == IF m < full THEN 0 ELSE Len(T)
    <2>2. h = length /\ full \in {m, m + 1} /\ (full = m + 1 => Len(T) = SubMax)
      BY <1>1
    <2> HIDE DEF full
    <2>3. Cut(dynamic \o T, full, Len(dynamic) + m + 1 + Len(T)) = C \o (<<h>> \o T)
      BY <1>0, <1>1, <1>3, <2>1, <2>2, CutAppend
    <2> HIDE DEF h
    <2>4. Len(d) + m + 1 = Len(dynamic) + m + 1 + Len(T)
      BY <1>1, <1>5
    <2> QED
      BY <2>2, <2>3, <2>4, Zenon DEF full
  <1>8. Encode(r) = cmd \o (C \o P)
    <2>1. r.cmd = lastCommand /\ r.data = d
      OBVIOUS
    <2> HIDE DEF r, d
    <2>2. Encode(r) = <<lastCommand>> \o Cut(d, FullSubs(d), Len(d) + FullSubs(d) + 1)
      BY <2>1 DEF Encode
    <2> QED
      BY <2>2, <1>6, <1>7, Zenon
  <1>9. r \in Whole
    BY <1>0, <1>5 DEF Whole
  <1> HIDE DEF P, U, C, cmd, r
  <1>10. (cmd \o (C \o P)) \o U = (cmd \o C) \o (P \o U)
    <2>1. Regrouped(cmd, C, P, U)
      BY <1>1, <1>4, Regroup, Zenon
    <2> QED
      BY <2>1 DEF Regrouped
  <1>11. Begun \o Unparsed = Encode(r) \o U
    BY <1>2, <1>4, <1>8, <1>10, Zenon
  <1> QED
    BY <1>1, <1>9, <1>11 DEF r, U

\* The packet that is handed over is the next one that was sent, and what is
\* left are the bytes of those after it.
LEMMA LastHandsOver ==
    ASSUME Inv, step = "parsing", NEW length \in Peek \ {0}, Within(length)
    PROVE  /\ Len(received) < Len(sent)
           /\ [cmd |-> lastCommand, data |-> dynamic \o Taken(length)] = sent[Len(received) + 1]
           /\ Bytes(buffer, index + 1 + length, read) \o wire = FlattenSeq(Tail(Due))
           /\ Due # <<>>
  <1> DEFINE U == Bytes(buffer, index + 1 + length, read)
             r == [cmd |-> lastCommand, data |-> dynamic \o Taken(length)]
             e == Encode(r)
             F == FlattenSeq(Tail(Due))
  <1>1. r \in Whole /\ U \in Seq(Byte) /\ Begun \o Unparsed = e \o U
    BY LastEncodes
  <1>2. wire \in Seq(Byte) /\ Due \in Seq(Seq(Byte)) /\ Len(Due) = Len(sent) - Len(received)
        /\ Len(sent) \in Nat /\ Len(received) \in Nat /\ Len(received) <= Len(sent)
        /\ \A i \in 1..(Len(sent) - Len(received)) :
               sent[Len(received) + i] \in Whole /\ Due[i] = Encode(sent[Len(received) + i])
    BY StreamTyped DEF Inv
  <1>3. (Begun \o Unparsed) \o wire = FlattenSeq(Due)
    BY DEF Inv, EveryByteCounts
  <1> HIDE DEF r, U
  <1>4. e \in Seq(Byte) /\ Len(e) # 0
    <2> DEFINE n == Len(r.data) + FullSubs(r.data) + 1
    <2>1. n \in Nat /\ Encode(r) \in Seq(Byte) /\ Len(Encode(r)) = 1 + n
      BY <1>1, EncodeTyped
    <2> HIDE DEF n
    <2> QED
      BY <2>1
  <1> HIDE DEF e
  <1>5. (e \o U) \o wire = e \o (U \o wire)
    <2>1. Together(e, U, wire)
      BY <1>1, <1>2, <1>4, ConcatTogether, Zenon
    <2> QED
      BY <2>1 DEF Together
  <1>6. e \o (U \o wire) = FlattenSeq(Due)
    BY <1>1, <1>3, <1>5, Zenon
  <1>7. U \o wire \in Seq(Byte)
    BY <1>1, <1>2, ConcatProperties
  <1>8. Due # <<>>
    <2> SUFFICES ASSUME Due = <<>> PROVE FALSE
      OBVIOUS
    <2> DEFINE X == U \o wire
    <2>1. e \o X = <<>>
      BY <1>6, FlattenEmpty, Zenon
    <2> HIDE DEF X
    <2>2. X \in Seq(Byte)
      BY <1>7 DEF X
    <2>3. Len(e \o X) = Len(e) + Len(X) /\ Len(X) \in Nat /\ Len(e) \in Nat
      BY <2>2, <1>4, ConcatProperties, LenProperties
    <2> QED
      BY <2>1, <2>3, <1>4
  <1>9. Len(received) < Len(sent) /\ 1 \in 1..(Len(sent) - Len(received))
    <2>1. Len(Due) # 0
      BY <1>2, <1>8, EmptySeq
    <2> QED
      BY <2>1, <1>2
  <1>10. PICK p \in Whole : p = sent[Len(received) + 1] /\ Due[1] = Encode(p)
    BY <1>2, <1>9
  <1>11. FlattenSeq(Due) = Due[1] \o F
    BY <1>2, <1>8, FlattenHead, Zenon
  <1>12. F \in Seq(Byte)
    <2>1. Tail(Due) \in Seq(Seq(Byte))
      BY <1>2, <1>8, HeadTailProperties
    <2> QED
      BY <2>1, FlattenIn
  <1> HIDE DEF F
  <1>13. r = p /\ U \o wire = F
    <2> DEFINE X == U \o wire
    <2>1. Encode(r) \o X = Encode(p) \o F
      BY <1>6, <1>10, <1>11, Zenon DEF e
    <2>2. X \in Seq(Byte)
      BY <1>7
    <2> HIDE DEF X
    <2>3. r = p /\ X = F
      BY <2>1, <2>2, <1>1, <1>12, EncodeUnique
    <2> QED
      BY <2>3 DEF X
  <1> QED
    BY <1>8, <1>9, <1>10, <1>13 DEF r, U, F

\* What ParseLast does: the packet it appends and what it leaves.
LEMMA LastStep ==
    ASSUME Inv, ParseLast
    PROVE  /\ Len(received) < Len(sent)
           /\ received' = Append(received, sent[Len(received) + 1])
           /\ Begun' = <<>>
           /\ Unparsed' \in Seq(Byte) /\ Unparsed' \o wire = FlattenSeq(Tail(Due))
           /\ Due # <<>>
           /\ index' = 0 /\ (step' = "waiting" \/ (step' = "entered" /\ read' >= 1))
           /\ UNCHANGED <<sent, wire>> /\ dynamic' = <<>> /\ lastCommand' = NullCommand /\ lastRead' = 0
  <1>1. PICK length \in Peek \ {0} :
            /\ Within(length)
            /\ received' = Append(received, [cmd |-> lastCommand, data |-> dynamic \o Taken(length)])
            /\ LET next == index + 1 + length IN
               \/ /\ next < read
                  /\ buffer' = MovedDown(next)
                  /\ read' = read - next
                  /\ index' = 0
                  /\ step' = "entered"
               \/ /\ next >= read
                  /\ Wait
                  /\ UNCHANGED buffer
    BY DEF ParseLast
  <1> DEFINE next == index + 1 + length
             U == Bytes(buffer, next, read)
  <1>2. step = "parsing" /\ UNCHANGED <<sent, wire>> /\ dynamic' = <<>>
        /\ lastCommand' = NullCommand /\ lastRead' = 0
    BY DEF ParseLast
  <1>3. /\ Len(received) < Len(sent) /\ Due # <<>>
        /\ [cmd |-> lastCommand, data |-> dynamic \o Taken(length)] = sent[Len(received) + 1]
        /\ U \o wire = FlattenSeq(Tail(Due))
    BY <1>1, <1>2, LastHandsOver
  <1>4. U \in Seq(Byte)
    BY <1>1, <1>2, LastEncodes
  <1>5. next \in Nat /\ next <= read /\ read \in Nat
    <2>1. length \in Byte /\ length # 0 /\ length \in Nat
      BY PeekTyped, Sizes DEF Inv, Byte
    <2>2. Want(length) = length /\ index \in Nat /\ read \in Nat
      BY <2>1, Sizes DEF Want, Inv, TypeOK
    <2> QED
      BY <2>1, <2>2, <1>1 DEF Within
  <1>6. Begun' = <<>>
    BY <1>2 DEF Begun
  <1>7. Unparsed' = U /\ index' = 0 /\ (step' = "waiting" \/ (step' = "entered" /\ read' >= 1))
    <2>1. CASE next < read
      <3>1. buffer' = MovedDown(next) /\ read' = read - next /\ index' = 0 /\ step' = "entered"
        BY <1>1, <1>5, <2>1
      <3>2. Unparsed' = Bytes(MovedDown(next), 0, read - next)
        BY <3>1 DEF Unparsed
      <3> HIDE DEF next
      <3>3. Unparsed' = U
        BY <3>2, <1>5, MovedDownIs DEF Inv
      <3> QED
        BY <3>1, <3>3, <1>5, <2>1
    <2>2. CASE ~(next < read)
      <3>1. step' = "waiting" /\ index' = 0 /\ lastRead' = 0
        BY <1>1, <1>2, <1>5, <2>2 DEF Wait
      <3>2. Unparsed' = Bytes(buffer', 0, 0)
        BY <3>1 DEF Unparsed
      <3>3. next = read
        BY <1>5, <2>2
      <3>4. Unparsed' = <<>> /\ U = <<>>
        BY <3>2, <3>3, <1>5, BytesNone, 0 \in Nat
      <3> HIDE DEF U
      <3>5. Unparsed' = U
        BY <3>4
      <3> QED
        BY <3>1, <3>5
    <2> QED
      BY <2>1, <2>2
  <1> HIDE DEF U
  <1> QED
    BY <1>1, <1>2, <1>3, <1>4, <1>6, <1>7

LEMMA PlacesParseLast ==
    ASSUME Inv, ParseLast
    PROVE  Places'
  <1>1. /\ index' = 0 /\ (step' = "waiting" \/ (step' = "entered" /\ read' >= 1))
        /\ UNCHANGED sent /\ dynamic' = <<>> /\ lastRead' = 0
        /\ Len(received) < Len(sent)
        /\ received' = Append(received, sent[Len(received) + 1])
    BY LastStep
  <1>2. Len(received') <= Len(sent')
    <2>1. Len(received') = Len(received) + 1
      BY <1>1 DEF Inv, TypeOK
    <2> QED
      BY <2>1, <1>1 DEF Inv, TypeOK
  <1>3. \E m \in Nat : Len(dynamic') = m * SubMax
    BY <1>1, NoSubs
  <1> QED
    BY <1>1, <1>2, <1>3 DEF Places

LEMMA CountsParseLast ==
    ASSUME Inv, ParseLast
    PROVE  EveryByteCounts'
  <1>1. /\ Len(received) < Len(sent) /\ received' = Append(received, sent[Len(received) + 1])
        /\ Begun' = <<>> /\ Unparsed' \in Seq(Byte) /\ Unparsed' \o wire = FlattenSeq(Tail(Due))
        /\ Due # <<>> /\ UNCHANGED <<sent, wire>>
    BY LastStep
  <1>2. Due' = Tail(Due)
    <2>1. /\ Len(sent) \in Nat /\ Len(received) \in Nat /\ Due \in Seq(Seq(Byte))
          /\ Len(Due) = Len(sent) - Len(received)
          /\ \A i \in 1..(Len(sent) - Len(received)) : Due[i] = Encode(sent[Len(received) + i])
      BY StreamTyped DEF Inv
    <2>2. Len(received') = Len(received) + 1 /\ sent' = sent
      BY <1>1 DEF Inv, TypeOK
    <2> DEFINE n == Len(sent) - Len(received) - 1
               D == Due
               R == Tail(D)
    <2>3. n \in Nat /\ Len(sent) - (Len(received) + 1) = n
      BY <1>1, <2>1
    <2>4. Due' = [i \in 1..n |-> Encode(sent[(Len(received) + 1) + i])]
      BY <2>2, <2>3 DEF Due
    <2>5. \A i \in 1..n : Encode(sent[(Len(received) + 1) + i]) = Due[i + 1]
      <3> SUFFICES ASSUME NEW i \in 1..n PROVE Encode(sent[(Len(received) + 1) + i]) = Due[i + 1]
        OBVIOUS
      <3>1. i + 1 \in 1..(Len(sent) - Len(received)) /\ Len(received) + (i + 1) = (Len(received) + 1) + i
        BY <2>1
      <3> QED
        BY <3>1, <2>1
    <2>6. Due' = [i \in 1..n |-> D[i + 1]]
      BY <2>4, <2>5
    <2>7. D \in Seq(Seq(Byte)) /\ D # <<>> /\ Len(D) - 1 = n
      BY <1>1, <2>1
    <2> HIDE DEF D, n
    <2>8. R \in Seq(Seq(Byte)) /\ Len(R) = n /\ \A i \in 1..n : R[i] = D[i + 1]
      BY <2>7, HeadTailProperties
    <2> HIDE DEF R
    <2>9. R \in [1..n -> Seq(Byte)]
      BY <2>8, LenProperties
    <2>10. R = [i \in 1..n |-> D[i + 1]]
      BY <2>8, <2>9
    <2> QED
      BY <2>6, <2>10 DEF R, D
  <1>3. Begun' \o Unparsed' = Unparsed'
    <2> DEFINE U == Unparsed'
    <2>1. U \in Seq(Byte)
      BY <1>1
    <2> HIDE DEF U
    <2>2. <<>> \o U = U
      BY <2>1, ConcatEmptySeq
    <2> QED
      BY <2>2, <1>1, Zenon DEF U
  <1>4. (Begun' \o Unparsed') \o wire' = FlattenSeq(Due')
    BY <1>1, <1>2, <1>3, Zenon
  <1> QED
    BY <1>4 DEF EveryByteCounts

------------------------------------------------------------------------------
(***************************************************************************)
(* The theorems.                                                           *)
(***************************************************************************)
LEMMA InitInv == Init => Inv
  <1> SUFFICES ASSUME Init PROVE Inv
    OBVIOUS
  <1>1. TypeOK
    BY Sizes DEF Init, TypeOK, Byte, NullCommand
  <1>2. Places
    BY NoSubs DEF Init, Places
  <1>3. EveryByteCounts
    <2>1. Begun = <<>> /\ wire = <<>>
      BY DEF Init, Begun
    <2>2. Unparsed = <<>>
      BY DEF Init, Unparsed, Bytes
    <2>3. Due = <<>>
      BY DEF Init, Due
    <2>4. (<<>> \o <<>>) \o <<>> = <<>>
      BY ConcatEmptySeq, EmptySeq
    <2> QED
      BY <2>1, <2>2, <2>3, <2>4, FlattenEmpty, Zenon DEF EveryByteCounts
  <1> QED
    BY <1>1, <1>2, <1>3 DEF Inv

LEMMA StutterInv == Inv /\ UNCHANGED vars => Inv'
  <1> SUFFICES ASSUME Inv, UNCHANGED vars PROVE Inv'
    OBVIOUS
  <1> USE DEF vars, kept, locals
  <1>1. TypeOK'
    BY DEF Inv, TypeOK
  <1>2. Places'
    BY DEF Inv, Places
  <1>3. EveryByteCounts'
    <2>1. Begun' = Begun /\ Unparsed' = Unparsed
      BY DEF Begun, Unparsed
    <2>2. UNCHANGED <<sent, wire, received>>
      OBVIOUS
    <2> QED
      BY <2>1, <2>2, HeldKept DEF Inv
  <1> QED
    BY <1>1, <1>2, <1>3 DEF Inv

LEMMA NextInv == Inv /\ [Next]_vars => Inv'
  <1> SUFFICES ASSUME Inv, [Next]_vars PROVE Inv'
    OBVIOUS
  <1>0. TypeOK /\ Places /\ EveryByteCounts
    BY DEF Inv
  <1>1. ASSUME NEW p \in Packet, Send(p) PROVE Inv'
    BY <1>0, <1>1, TypeSend, PlacesSend, CountsSend DEF Inv
  <1>2. ASSUME NEW k \in 0..BufferLength, Arrive(k) PROVE Inv'
    BY <1>0, <1>2, TypeArrive, PlacesArrive, CountsArrive DEF Inv
  <1>3. CASE Enter
    BY <1>0, <1>3, TypeEnter, PlacesEnter, CountsEnter DEF Inv
  <1>4. CASE ParseSub
    BY <1>0, <1>4, TypeParseSub, PlacesParseSub, CountsParseSub DEF Inv
  <1>5. CASE ParseLast
    BY <1>0, <1>5, TypeParseLast, PlacesParseLast, CountsParseLast DEF Inv
  <1>6. CASE ParsePartial
    BY <1>0, <1>6, TypeParsePartial, PlacesParsePartial, CountsParsePartial DEF Inv
  <1>7. CASE UNCHANGED vars
    BY <1>7, StutterInv
  <1> QED
    BY <1>1, <1>2, <1>3, <1>4, <1>5, <1>6, <1>7 DEF Next, ProcessRead

\* process_read never writes past fixed_buffer nor counts more bytes than it
\* holds, and everything it keeps has its type.
THEOREM TypeCorrect == Spec => []TypeOK
  <1>1. Inv => TypeOK
    BY DEF Inv
  <1> QED
    BY <1>1, InitInv, NextInv, PTL DEF Spec

\* Whatever pieces the byte stream arrives in, the sub-packets taken in, what is
\* left in the buffer and what is under way are together the bytes of the packets
\* that have not been handed over: process_read loses, repeats and swaps no byte.
THEOREM BytesCorrect == Spec => []EveryByteCounts
  <1>1. Inv => EveryByteCounts
    BY DEF Inv
  <1> QED
    BY <1>1, InitInv, NextInv, PTL DEF Spec

\* io_manager::send and process_read together are a stream of packets: what
\* data_received gets is what was given to send, whole, once and in order.
THEOREM PacketsAreStream == Spec => Packets!Spec
  <1>1. Init => Packets!Init
    BY DEF Init, Packets!Init
  <1>2. Inv /\ [Next]_vars => [Packets!Next]_<<sent, received>>
    <2> SUFFICES ASSUME Inv, [Next]_vars PROVE [Packets!Next]_<<sent, received>>
      OBVIOUS
    <2>1. ASSUME NEW p \in Packet, Send(p) PROVE Packets!Next
      BY <2>1 DEF Send, Packets!Next, Packets!Send
    <2>2. ASSUME NEW k \in 0..BufferLength, Arrive(k) PROVE UNCHANGED <<sent, received>>
      BY <2>2 DEF Arrive
    <2>3. CASE Enter \/ ParseSub \/ ParsePartial
      BY <2>3 DEF Enter, ParseSub, ParsePartial
    <2>4. CASE ParseLast
      BY <2>4, LastStep DEF Packets!Next, Packets!Receive
    <2>5. CASE UNCHANGED vars
      BY <2>5 DEF vars
    <2> QED
      BY <2>1, <2>2, <2>3, <2>4, <2>5 DEF Next, ProcessRead
  <1> QED
    BY <1>1, <1>2, InitInv, NextInv, PTL DEF Spec, Packets!Spec
=============================================================================
