---------------------------- MODULE FrameProofs -----------------------------
(* Proofs that the parsers read the packet that was sent or none, within the *)
(* scope that the properties state, and that packets are attributed to the   *)
(* pods they belong to: for every frame, every length of the capture, every  *)
(* filler byte and every width of addresses.                                 *)
(*                                                                           *)
(* The fields of a frame lie at different offsets, so a parser that looks at *)
(* the place of a field reads that field; from there on the parsers are      *)
(* followed header by header.                                                *)
EXTENDS FrameCapture, SumProofs, SequenceTheorems

-----------------------------------------------------------------------------
(* The chain of extension headers.                                           *)

Lens(w) == [j \in DOMAIN w.exts |-> w.exts[j].len]

\* The operator of the library is the sum of module SumProofs.
LEMMA SumFunctionIs == ASSUME NEW f, NEW S PROVE SumFunctionOnSet(f, S) = SumOver(f, S)
BY DEF SumFunctionOnSet, FoldFunctionOnSet, SumOver, MapThenSumSet, MapThenFoldSet

\* The link header has a length.
LEMMA LinkLenType == ASSUME NEW w, IsFrame(w) PROVE LinkLen(w) \in Nat
BY DEF IsFrame, LinkLen

\* The chain is a sequence of headers of 8 bytes or more.
LEMMA ChainType ==
    ASSUME NEW w, IsFrame(w)
    PROVE  /\ Len(w.exts) \in Nat /\ DOMAIN w.exts = 1 .. Len(w.exts)
           /\ \A i \in 1 .. Len(w.exts) : IsExtension(w.exts[i]) /\ w.exts[i].len \in Nat /\ w.exts[i].len >= 8
<1>1. w.exts \in Seq(Range(w.exts))
    BY DEF IsFrame
<1>2. Len(w.exts) \in Nat /\ DOMAIN w.exts = 1 .. Len(w.exts)
    BY <1>1, LenProperties
<1>3. \A i \in DOMAIN w.exts : IsExtension(w.exts[i])
    BY DEF IsFrame
<1> QED BY <1>2, <1>3 DEF IsExtension

\* Each header of the chain starts where the one before it ends.
LEMMA ExtFacts ==
    ASSUME NEW w, IsFrame(w)
    PROVE  /\ ExtStart(w, 1) = LinkLen(w) + 40
           /\ \A i \in 1 .. Len(w.exts) + 1 : ExtStart(w, i) \in Nat
           /\ \A i \in 1 .. Len(w.exts) : ExtStart(w, i + 1) = ExtStart(w, i) + w.exts[i].len
<1> DEFINE z == Lens(w)
           n == Len(w.exts)
           l == LinkLen(w)
<1>1. /\ n \in Nat /\ l \in Nat
      /\ \A i \in 1 .. n : z[i] = w.exts[i].len /\ z[i] \in Nat
    BY ChainType, LinkLenType DEF Lens
<1>2. \A i : ExtStart(w, i) = l + 40 + SumOver(z, 1 .. i - 1)
    BY SumFunctionIs DEF ExtStart, Lens
<1> HIDE DEF z, n, l
<1>3. ExtStart(w, 1) = l + 40
  <2>1. 1 .. 1 - 1 = {}
      OBVIOUS
  <2>2. SumOver(z, 1 .. 1 - 1) = 0
      BY <2>1, SumEmpty
  <2> QED BY <1>1, <1>2, <2>2
<1>4. \A k \in 0 .. n : IsFiniteSet(1 .. k) /\ SumOver(z, 1 .. k) \in Nat
  <2> TAKE k \in 0 .. n
  <2>1. IsFiniteSet(1 .. k)
      BY <1>1, FS_Interval
  <2>2. \A x \in 1 .. k : z[x] \in Nat
    <3>1. \A x \in 1 .. k : x \in 1 .. n
        BY <1>1
    <3> QED BY <1>1, <3>1
  <2> QED BY <2>1, <2>2, SumType
<1>5. \A i \in 1 .. n + 1 : ExtStart(w, i) \in Nat
  <2> TAKE i \in 1 .. n + 1
  <2> DEFINE k == i - 1
  <2>1. k \in 0 .. n
      BY <1>1
  <2>2. ExtStart(w, i) = l + 40 + SumOver(z, 1 .. k)
      BY <1>2
  <2> HIDE DEF k
  <2> QED BY <1>1, <1>4, <2>1, <2>2
<1>6. ASSUME NEW i \in 1 .. n PROVE ExtStart(w, i + 1) = ExtStart(w, i) + w.exts[i].len
  <2> DEFINE k == i - 1
             D == 1 .. k
             j == i + 1
  <2>1. k \in 0 .. n /\ i \in Int /\ i = k + 1 /\ j - 1 = i
      BY <1>1
  <2>2. IsFiniteSet(D) /\ SumOver(z, D) \in Nat
      BY <1>4, <2>1
  <2>3. ExtStart(w, i) = l + 40 + SumOver(z, D) /\ ExtStart(w, j) = l + 40 + SumOver(z, 1 .. i)
      BY <1>2, <2>1
  <2> HIDE DEF k, j
  <2>4. i \notin D /\ D \cup {i} = 1 .. i
      BY <1>1, <2>1
  <2>5. \A x \in D \cup {i} : z[x] \in Nat
    <3>1. \A x \in 1 .. i : x \in 1 .. n
        BY <1>1
    <3> QED BY <1>1, <2>4, <3>1
  <2> HIDE DEF D
  <2>6. SumOver(z, 1 .. i) = z[i] + SumOver(z, D)
      BY <2>2, <2>4, <2>5, SumAdd
  <2>7. z[i] = w.exts[i].len /\ z[i] \in Nat
      BY <1>1
  <2>8. ExtStart(w, j) = ExtStart(w, i) + w.exts[i].len
    <3> DEFINE a == SumOver(z, D)
               b == SumOver(z, 1 .. i)
               c == w.exts[i].len
               s == ExtStart(w, i)
               t == ExtStart(w, j)
    <3>1. a \in Nat /\ c \in Nat /\ l \in Nat /\ b = c + a /\ s = l + 40 + a /\ t = l + 40 + b
        BY <1>1, <2>2, <2>3, <2>6, <2>7
    <3> HIDE DEF a, b, c, s, t
    <3>2. t = s + c
        BY <3>1
    <3> QED BY <3>2 DEF s, t, c
  <2> QED BY <2>8 DEF j
<1> QED BY <1>3, <1>5, <1>6 DEF n, l

\* Headers of the chain lie 8 bytes apart or more.
LEMMA ExtGrow ==
    ASSUME NEW w, IsFrame(w), NEW i \in 1 .. Len(w.exts) + 1, NEW j \in 1 .. Len(w.exts) + 1, i < j
    PROVE  ExtStart(w, i) + 8 <= ExtStart(w, j)
<1> DEFINE n == Len(w.exts)
           U == {m \in i + 1 .. n + 1 : ~ (ExtStart(w, i) + 8 <= ExtStart(w, m))}
<1>1. /\ n \in Nat /\ \A m \in 1 .. n + 1 : ExtStart(w, m) \in Nat
      /\ \A m \in 1 .. n : /\ w.exts[m].len \in Nat /\ w.exts[m].len >= 8
                           /\ ExtStart(w, m + 1) = ExtStart(w, m) + w.exts[m].len
    BY ExtFacts, ChainType
<1>0. i \in 1 .. n + 1 /\ j \in 1 .. n + 1
    OBVIOUS
<1> HIDE DEF n
<1>2. U = {}
  <2> SUFFICES ASSUME U # {} PROVE FALSE
      OBVIOUS
  <2>1. U \in SUBSET Nat
      BY <1>0, <1>1
  <2>2. PICK m \in U : \A x \in U : m <= x
    <3> HIDE DEF U
    <3> QED BY <2>1, Least
  <2>3. m \in i + 1 .. n + 1 /\ ~ (ExtStart(w, i) + 8 <= ExtStart(w, m))
      BY <2>2
  <2> DEFINE k == m - 1
  <2>4. k \in 1 .. n /\ k + 1 = m /\ k \in Nat /\ m \in Nat
      BY <1>0, <1>1, <2>3
  <2>5. /\ ExtStart(w, m) = ExtStart(w, k) + w.exts[k].len
        /\ w.exts[k].len \in Nat /\ w.exts[k].len >= 8 /\ ExtStart(w, k) \in Nat /\ ExtStart(w, i) \in Nat
    <3>1. ExtStart(w, k + 1) = ExtStart(w, k) + w.exts[k].len
        BY <1>1, <2>4
    <3>2. k \in 1 .. n + 1
        BY <1>1, <2>4
    <3> QED BY <1>0, <1>1, <2>4, <3>1, <3>2
  <2>6. CASE m = i + 1
    <3>1. k = i
        BY <1>0, <2>4, <2>6
    <3> QED BY <2>3, <2>5, <3>1
  <2>7. CASE m # i + 1
    <3>1. k \in i + 1 .. n + 1 /\ k \notin U
      <4> HIDE DEF U
      <4> QED BY <1>0, <1>1, <2>2, <2>3, <2>4, <2>7
    <3>2. ExtStart(w, i) + 8 <= ExtStart(w, k)
        BY <3>1
    <3> DEFINE x == ExtStart(w, i)
               y == ExtStart(w, k)
               l == w.exts[k].len
    <3>3. x \in Nat /\ y \in Nat /\ l \in Nat /\ x + 8 <= y /\ ~ (x + 8 <= y + l)
        BY <2>3, <2>5, <3>2
    <3> HIDE DEF x, y, l
    <3> QED BY <3>3
  <2> QED BY <2>6, <2>7
<1>3. j \in i + 1 .. n + 1
    BY <1>0, <1>1
<1> QED BY <1>2, <1>3

\* A header has 20 bytes or more, and as many as its length field says if that
\* is honest.
LEMMA HeaderLenIs ==
    ASSUME NEW k \in 0 .. 15
    PROVE  HeaderLen(k) \in Nat /\ HeaderLen(k) >= 20 /\ (k >= 5 => HeaderLen(k) = 4 * k)
<1>1. CASE k < 5
  <2>1. HeaderLen(k) = 20
      BY <1>1 DEF HeaderLen
  <2> QED BY <1>1, <2>1
<1>2. CASE ~ (k < 5)
  <2>1. HeaderLen(k) = 4 * k
      BY <1>2 DEF HeaderLen
  <2> QED BY <1>2, <2>1
<1> QED BY <1>1, <1>2

\* The transport header lies behind the network header and its chain.
LEMMA TransportFacts ==
    ASSUME NEW w, IsFrame(w)
    PROVE  /\ TransportStart(w) \in Nat
           /\ w.family = 4 => TransportStart(w) >= LinkLen(w) + 20
           /\ w.family = 6 => /\ TransportStart(w) >= LinkLen(w) + 40
                              /\ \A i \in 1 .. Len(w.exts) : ExtStart(w, i) + 8 <= TransportStart(w)
                              /\ \A i \in 1 .. Len(w.exts) : ExtStart(w, i) >= LinkLen(w) + 40
<1> DEFINE n == Len(w.exts)
<1>1. n \in Nat /\ LinkLen(w) \in Nat
    BY ChainType, LinkLenType
<1>2. CASE w.family = 4
  <2>1. w.words \in 0 .. 15
      BY <1>2 DEF IsFrame
  <2>2. TransportStart(w) = LinkLen(w) + HeaderLen(w.words)
      BY <1>2 DEF TransportStart
  <2>3. TransportStart(w) \in Nat /\ TransportStart(w) >= LinkLen(w) + 20 /\ w.family # 6
    <3> DEFINE l == LinkLen(w)
               h == HeaderLen(w.words)
    <3>0. l \in Nat /\ h \in Nat /\ h >= 20
        BY <1>1, <2>1, HeaderLenIs
    <3> HIDE DEF l, h
    <3>1. l + h \in Nat /\ l + h >= l + 20
        BY <3>0
    <3> QED BY <1>2, <2>2, <3>1 DEF l, h
  <2> QED BY <1>2, <2>3
<1>3. CASE w.family = 6
  <2>1. TransportStart(w) = ExtStart(w, n + 1)
      BY <1>3 DEF TransportStart
  <2> HIDE DEF n
  <2>2. 1 \in 1 .. n + 1 /\ n + 1 \in 1 .. n + 1 /\ \A i \in 1 .. n : i \in 1 .. n + 1 /\ i < n + 1 /\ i \in Int
      BY <1>1
  <2>3. \A i \in 1 .. n : ExtStart(w, i) + 8 <= TransportStart(w)
      BY <2>1, <2>2, ExtGrow DEF n
  <2>4. \A i \in 1 .. n + 1 : ExtStart(w, i) \in Nat /\ ExtStart(w, i) >= LinkLen(w) + 40
    <3> TAKE i \in 1 .. n + 1
    <3>1. ExtStart(w, i) \in Nat /\ ExtStart(w, 1) = LinkLen(w) + 40
        BY ExtFacts DEF n
    <3>2. CASE i = 1
        BY <1>1, <3>1, <3>2
    <3>3. CASE i # 1
      <4>1. 1 < i
          BY <1>1, <3>3
      <4>2. ExtStart(w, 1) + 8 <= ExtStart(w, i)
          BY <2>2, <4>1, ExtGrow DEF n
      <4> QED BY <1>1, <3>1, <4>2
    <3> QED BY <3>2, <3>3
  <2> QED BY <1>1, <1>3, <2>1, <2>2, <2>3, <2>4 DEF n
<1> QED BY <1>2, <1>3 DEF IsFrame

-----------------------------------------------------------------------------
(* No two fields of a frame start at the same place.                         *)

One(S)      == \A x, y \in S : x[1] = y[1] => x[2] = y[2]
Below(S, b) == \A x \in S : x[1] \in Nat /\ x[1] < b
From(S, b)  == \A x \in S : x[1] \in Nat /\ x[1] >= b

\* Fields on both sides of a border do not meet.
LEMMA OneUnion ==
    ASSUME NEW S, NEW T, NEW b \in Nat, One(S), One(T), Below(S, b), From(T, b)
    PROVE  One(S \cup T)
<1> SUFFICES ASSUME NEW x \in S \cup T, NEW y \in S \cup T, x[1] = y[1] PROVE x[2] = y[2]
    BY DEF One
<1>1. ASSUME NEW u \in S, NEW v \in T PROVE u[1] # v[1]
  <2>1. u[1] \in Nat /\ u[1] < b /\ v[1] \in Nat /\ v[1] >= b
      BY DEF Below, From
  <2> QED BY <2>1
<1> QED BY <1>1 DEF One

\* A field, to be used where only its parts matter.
LEMMA PairParts == ASSUME NEW a, NEW b PROVE <<a, b>>[1] = a /\ <<a, b>>[2] = b
OBVIOUS

\* The fields of the link header.
LEMMA LinkFieldsOne ==
    ASSUME NEW w, IsFrame(w)
    PROVE  One(LinkFields(w)) /\ Below(LinkFields(w), LinkLen(w))
<1>1. CASE w.link = "EN10MB"
  <2> DEFINE V(i) == IF i = w.tags THEN EtherType(w) ELSE IF i % 2 = 0 THEN 34984 ELSE 33024
  <2>1. LinkFields(w) = {<<12 + 4 * i, V(i)>> : i \in 0 .. w.tags}
      BY <1>1 DEF LinkFields
  <2>2. w.tags \in Nat /\ LinkLen(w) = 14 + 4 * w.tags
      BY <1>1 DEF IsFrame, LinkLen
  <2> HIDE DEF V
  <2>3. One(LinkFields(w))
    <3> SUFFICES ASSUME NEW x \in LinkFields(w), NEW y \in LinkFields(w), x[1] = y[1] PROVE x[2] = y[2]
        BY DEF One
    <3>1. PICK i \in 0 .. w.tags : x = <<12 + 4 * i, V(i)>>
        BY <2>1
    <3>2. PICK j \in 0 .. w.tags : y = <<12 + 4 * j, V(j)>>
        BY <2>1
    <3>3. 12 + 4 * i = 12 + 4 * j
        BY <3>1, <3>2
    <3>4. i = j
        BY <2>2, <3>3
    <3> QED BY <3>1, <3>2, <3>4
  <2>4. Below(LinkFields(w), LinkLen(w))
    <3> SUFFICES ASSUME NEW x \in LinkFields(w) PROVE x[1] \in Nat /\ x[1] < LinkLen(w)
        BY DEF Below
    <3>1. PICK i \in 0 .. w.tags : x = <<12 + 4 * i, V(i)>>
        BY <2>1
    <3>2. x[1] = 12 + 4 * i
        BY <3>1
    <3> QED BY <2>2, <3>2
  <2> QED BY <2>3, <2>4
<1>2. CASE w.link = "LINUX_SLL"
  <2>1. LinkFields(w) = {<<14, EtherType(w)>>} /\ LinkLen(w) = 16
      BY <1>2 DEF LinkFields, LinkLen
  <2> QED BY <2>1 DEF One, Below
<1>3. CASE w.link \in {"RAW", "NULL"}
  <2>1. LinkFields(w) = {}
      BY <1>3 DEF LinkFields
  <2> QED BY <2>1 DEF One, Below
<1> QED BY <1>1, <1>2, <1>3 DEF IsFrame

\* The fields of an IPv4 header.
LEMMA Ipv4FieldsOne ==
    ASSUME NEW w, NEW l \in Nat
    PROVE  One(Ipv4Fields(w, l)) /\ Below(Ipv4Fields(w, l), l + 20) /\ From(Ipv4Fields(w, l), l)
<1> DEFINE a == 64 + w.words
           b == FullLen(w) - w.pad - l
           S == Ipv4Fields(w, l)
<1>1. S = {<<l, a>>, <<l + 2, b>>, <<l + 9, w.proto>>, <<l + 12, w.src>>, <<l + 16, w.dst>>}
    BY DEF Ipv4Fields
<1> HIDE DEF a, b, S
<1>2. One(S)
    BY <1>1 DEF One
<1>3. Below(S, l + 20) /\ From(S, l)
    BY <1>1 DEF Below, From
<1> QED BY <1>2, <1>3 DEF S

\* The fields of an IPv6 header and of its chain.
LEMMA Ipv6FieldsOne ==
    ASSUME NEW w, IsFrame(w), w.family = 6
    PROVE  /\ One(Ipv6Fields(w, LinkLen(w)))
           /\ Below(Ipv6Fields(w, LinkLen(w)), TransportStart(w))
           /\ From(Ipv6Fields(w, LinkLen(w)), LinkLen(w))
<1> DEFINE l == LinkLen(w)
           a == FullLen(w) - w.pad - l - 40
           n == Len(w.exts)
           E(i) == ExtStart(w, i)
           N(i) == NextType(w, i)
           U(i) == Units(w.exts[i])
           t == TransportStart(w)
           A == {<<l, 96>>, <<l + 4, a>>, <<l + 6, N(0)>>, <<l + 8, w.src>>, <<l + 24, w.dst>>}
           B == {<<E(i), N(i)>> : i \in 1 .. n} \cup {<<E(i) + 1, U(i)>> : i \in 1 .. n}
<1>1. Ipv6Fields(w, l) = A \cup B
    BY ChainType DEF Ipv6Fields
<1>2. /\ l \in Nat /\ n \in Nat /\ t \in Nat /\ t >= l + 40
      /\ \A i \in 1 .. n : E(i) \in Nat /\ E(i) + 8 <= t /\ E(i) >= l + 40
  <2>1. \A i \in 1 .. n : i \in 1 .. n + 1
      BY ChainType
  <2> QED BY <2>1, ChainType, LinkLenType, TransportFacts, ExtFacts
<1>3. \A i, j \in 1 .. n : i < j => E(i) + 8 <= E(j)
  <2>1. \A i \in 1 .. n : i \in 1 .. n + 1
      BY ChainType
  <2> QED BY <2>1, ExtGrow
<1> HIDE DEF l, a, n, E, N, U, t
<1>4. One(A) /\ Below(A, l + 40) /\ From(A, l)
  <2>1. One(A)
      BY <1>2 DEF One
  <2>2. Below(A, l + 40) /\ From(A, l)
      BY <1>2 DEF Below, From
  <2> QED BY <2>1, <2>2
<1>5. ASSUME NEW x \in B
      PROVE  \E i \in 1 .. n : x = <<E(i), N(i)>> \/ x = <<E(i) + 1, U(i)>>
    OBVIOUS
<1>6. Below(B, t) /\ From(B, l + 40)
  <2> SUFFICES ASSUME NEW x \in B PROVE x[1] \in Nat /\ x[1] < t /\ x[1] >= l + 40
      BY DEF Below, From
  <2>1. PICK i \in 1 .. n : x = <<E(i), N(i)>> \/ x = <<E(i) + 1, U(i)>>
      BY <1>5
  <2>2. x[1] = E(i) \/ x[1] = E(i) + 1
      BY <2>1
  <2> QED BY <1>2, <2>2
<1>7. One(B)
  <2> SUFFICES ASSUME NEW x \in B, NEW y \in B, x[1] = y[1] PROVE x[2] = y[2]
      BY DEF One
  <2>1. PICK i \in 1 .. n : x = <<E(i), N(i)>> \/ x = <<E(i) + 1, U(i)>>
      BY <1>5
  <2>2. PICK j \in 1 .. n : y = <<E(j), N(j)>> \/ y = <<E(j) + 1, U(j)>>
      BY <1>5
  <2>3. /\ x[1] = E(i) \/ x[1] = E(i) + 1
        /\ y[1] = E(j) \/ y[1] = E(j) + 1
      BY <2>1, <2>2
  <2>4. E(i) \in Nat /\ E(j) \in Nat /\ i \in Int /\ j \in Int
      BY <1>2
  <2>5. ~ (i < j)
      BY <1>3, <2>3, <2>4
  <2>6. ~ (j < i)
      BY <1>3, <2>3, <2>4
  <2>7. i = j
      BY <2>4, <2>5, <2>6
  <2>8. E(i) # E(i) + 1
      BY <2>4
  <2> QED BY <2>1, <2>2, <2>7, <2>8
<1>8. One(A \cup B)
  <2>1. l + 40 \in Nat
      BY <1>2
  <2> HIDE DEF A, B
  <2> QED BY <1>4, <1>6, <1>7, <2>1, OneUnion
<1>9. Below(A \cup B, t) /\ From(A \cup B, l)
  <2> SUFFICES ASSUME NEW x \in A \cup B PROVE x[1] \in Nat /\ x[1] < t /\ x[1] >= l
      BY DEF Below, From
  <2> HIDE DEF A, B
  <2>1. CASE x \in A
    <3>1. x[1] \in Nat /\ x[1] < l + 40 /\ x[1] >= l
        BY <1>4, <2>1 DEF Below, From
    <3> QED BY <1>2, <3>1
  <2>2. CASE x \in B
    <3>1. x[1] \in Nat /\ x[1] < t /\ x[1] >= l + 40
        BY <1>6, <2>2 DEF Below, From
    <3> QED BY <1>2, <3>1
  <2> QED BY <2>1, <2>2
<1> QED BY <1>1, <1>8, <1>9 DEF l, t

\* The fields of a transport header.
LEMMA TransportFieldsOne ==
    ASSUME NEW w, NEW l \in Nat
    PROVE  One(TransportFields(w, l)) /\ From(TransportFields(w, l), l)
<1> DEFINE S == TransportFields(w, l)
           a == 16 * w.doff
           b == Ece + w.flags
           c == 8 + w.payload
<1>0. CASE w.later
  <2>1. S = {}
      BY <1>0 DEF TransportFields
  <2> HIDE DEF S
  <2> QED BY <2>1 DEF One, From, S
<1>1. CASE ~ w.later /\ w.proto = TCP
  <2>1. S = {<<l, Sport>>, <<l + 2, Dport>>, <<l + 4, w.seq>>, <<l + 8, AckNo>>, <<l + 12, a>>,
             <<l + 13, b>>, <<l + 14, Window>>}
      BY <1>1 DEF TransportFields
  <2> HIDE DEF S, a, b, c
  <2>2. One(S)
      BY <2>1 DEF One
  <2>3. From(S, l)
      BY <2>1 DEF From
  <2> QED BY <2>2, <2>3 DEF S
<1>2. CASE ~ w.later /\ w.proto # TCP
  <2>1. S = {<<l, Sport>>, <<l + 2, Dport>>, <<l + 4, c>>}
      BY <1>2 DEF TransportFields
  <2> HIDE DEF S, a, b, c
  <2>2. One(S)
      BY <2>1 DEF One
  <2>3. From(S, l)
      BY <2>1 DEF From
  <2> QED BY <2>2, <2>3 DEF S
<1> QED BY <1>0, <1>1, <1>2

\* The fields of a frame.
LEMMA FieldsOne == ASSUME NEW w, IsFrame(w) PROVE One(Fields(w))
<1> DEFINE l == LinkLen(w)
           t == TransportStart(w)
           A == LinkFields(w)
           B == IF w.family = 4 THEN Ipv4Fields(w, l) ELSE Ipv6Fields(w, l)
           C == TransportFields(w, t)
<1>1. Fields(w) = A \cup B \cup C
    BY DEF Fields
<1>2. l \in Nat /\ t \in Nat /\ t >= l
  <2>1. w.family = 4 \/ w.family = 6
      BY DEF IsFrame
  <2>2. /\ l \in Nat /\ t \in Nat
        /\ w.family = 4 => t >= l + 20
        /\ w.family = 6 => t >= l + 40
      BY LinkLenType, TransportFacts
  <2> HIDE DEF l, t
  <2> QED BY <2>1, <2>2
<1>3. One(A) /\ Below(A, l)
    BY LinkFieldsOne
<1>4. One(C) /\ From(C, t)
    BY <1>2, TransportFieldsOne
<1>5. One(B) /\ Below(B, t) /\ From(B, l)
  <2>1. CASE w.family = 4
    <3>1. B = Ipv4Fields(w, l) /\ t >= l + 20
        BY <2>1, TransportFacts
    <3>2. One(B) /\ Below(B, l + 20) /\ From(B, l)
        BY <1>2, <3>1, Ipv4FieldsOne
    <3> HIDE DEF B, l, t
    <3>3. Below(B, t)
        BY <1>2, <3>1, <3>2 DEF Below
    <3> QED BY <3>2, <3>3
  <2>2. CASE w.family = 6
      BY <2>2, Ipv6FieldsOne
  <2> QED BY <2>1, <2>2 DEF IsFrame
<1> HIDE DEF A, B, C, l, t
<1>6. One(A \cup B)
    BY <1>2, <1>3, <1>5, OneUnion
<1>7. Below(A \cup B, t)
  <2> SUFFICES ASSUME NEW x \in A \cup B PROVE x[1] \in Nat /\ x[1] < t
      BY DEF Below
  <2>1. CASE x \in A
    <3>1. x[1] \in Nat /\ x[1] < l
        BY <1>3, <2>1 DEF Below
    <3> QED BY <1>2, <3>1
  <2>2. CASE x \in B
      BY <1>5, <2>2 DEF Below
  <2> QED BY <2>1, <2>2
<1>8. One((A \cup B) \cup C)
    BY <1>2, <1>4, <1>6, <1>7, OneUnion
<1> QED BY <1>1, <1>8

-----------------------------------------------------------------------------
(* What the parsers read of a captured frame.                                *)

Reads(f, off, v) == off \in DOMAIN f.at /\ f.at[off] = v

\* A field is read where it starts.
LEMMA CapturedReads ==
    ASSUME NEW w, IsFrame(w), NEW n, NEW off, NEW v, <<off, v>> \in Fields(w)
    PROVE  Reads(Captured(w, n), off, v)
<1> DEFINE S == Fields(w)
           c == CHOOSE x \in S : x[1] = off
<1>1. Captured(w, n).at = [o \in {x[1] : x \in S} |-> (CHOOSE x \in S : x[1] = o)[2]]
    BY DEF Captured
<1> HIDE DEF S
<1>2. <<off, v>> \in S /\ One(S)
    BY FieldsOne DEF S
<1>3. <<off, v>>[1] = off
    OBVIOUS
<1>4. c \in S /\ c[1] = off
    BY <1>2, <1>3
<1>5. c[2] = v
    BY <1>2, <1>4 DEF One
<1>6. off \in {x[1] : x \in S}
    BY <1>2, <1>3
<1> QED BY <1>1, <1>5, <1>6 DEF Reads

\* A frame of which n bytes were captured has the captured length n.
LEMMA CapturedLen == ASSUME NEW w, NEW n PROVE Captured(w, n).len = n
BY DEF Captured

\* The two ways to read a field.
LEMMA ByteReads ==
    ASSUME NEW f, NEW off, NEW v, Reads(f, off, v)
    PROVE  /\ Byte(f, off) = v
           /\ \A n : Get(f, off, n) = IF off + n > f.len THEN {} ELSE {v}
BY DEF Reads, Byte, Get

\* What a capture of n bytes holds of a frame.
LEMMA LinkReads ==
    ASSUME NEW w, IsFrame(w), NEW n
    PROVE  /\ w.link = "EN10MB" => \A i \in 0 .. w.tags :
                 Reads(Captured(w, n), 12 + 4 * i,
                       IF i = w.tags THEN EtherType(w) ELSE IF i % 2 = 0 THEN 34984 ELSE 33024)
           /\ w.link = "LINUX_SLL" => Reads(Captured(w, n), 14, EtherType(w))
<1>1. LinkFields(w) \subseteq Fields(w)
    BY DEF Fields
<1>2. ASSUME w.link = "EN10MB", NEW i \in 0 .. w.tags
      PROVE  <<12 + 4 * i, IF i = w.tags THEN EtherType(w) ELSE IF i % 2 = 0 THEN 34984 ELSE 33024>> \in Fields(w)
    BY <1>1, <1>2 DEF LinkFields
<1>3. ASSUME w.link = "LINUX_SLL" PROVE <<14, EtherType(w)>> \in Fields(w)
    BY <1>1, <1>3 DEF LinkFields
<1>4. ASSUME w.link = "EN10MB", NEW i \in 0 .. w.tags
      PROVE  Reads(Captured(w, n), 12 + 4 * i,
                   IF i = w.tags THEN EtherType(w) ELSE IF i % 2 = 0 THEN 34984 ELSE 33024)
  <2> DEFINE v == IF i = w.tags THEN EtherType(w) ELSE IF i % 2 = 0 THEN 34984 ELSE 33024
             o == 12 + 4 * i
  <2>1. <<o, v>> \in Fields(w)
      BY <1>2, <1>4
  <2> HIDE DEF v, o
  <2>2. Reads(Captured(w, n), o, v)
      BY <2>1, CapturedReads
  <2> QED BY <2>2 DEF v, o
<1> QED BY <1>3, <1>4, CapturedReads

\* The fields of its IPv4 header.
LEMMA Ipv4Reads ==
    ASSUME NEW w, IsFrame(w), w.family = 4, NEW n
    PROVE  LET f == Captured(w, n)
               l == LinkLen(w)
           IN  /\ Reads(f, l, 64 + w.words) /\ Reads(f, l + 2, FullLen(w) - w.pad - l)
               /\ Reads(f, l + 9, w.proto) /\ Reads(f, l + 12, w.src) /\ Reads(f, l + 16, w.dst)
<1> DEFINE l == LinkLen(w)
<1>1. Ipv4Fields(w, l) \subseteq Fields(w)
    BY DEF Fields
<1>2. /\ <<l, 64 + w.words>> \in Fields(w) /\ <<l + 2, FullLen(w) - w.pad - l>> \in Fields(w)
      /\ <<l + 9, w.proto>> \in Fields(w) /\ <<l + 12, w.src>> \in Fields(w) /\ <<l + 16, w.dst>> \in Fields(w)
    BY <1>1 DEF Ipv4Fields
<1> HIDE DEF l
<1>3. LET f == Captured(w, n)
      IN  /\ Reads(f, l, 64 + w.words) /\ Reads(f, l + 2, FullLen(w) - w.pad - l)
          /\ Reads(f, l + 9, w.proto) /\ Reads(f, l + 12, w.src) /\ Reads(f, l + 16, w.dst)
    BY <1>2, CapturedReads
<1> QED BY <1>3 DEF l

\* The fields of its IPv6 header and of the chain behind it.
LEMMA Ipv6Reads ==
    ASSUME NEW w, IsFrame(w), w.family = 6, NEW n
    PROVE  LET f == Captured(w, n)
               l == LinkLen(w)
           IN  /\ Reads(f, l, 96) /\ Reads(f, l + 4, FullLen(w) - w.pad - l - 40)
               /\ Reads(f, l + 6, NextType(w, 0)) /\ Reads(f, l + 8, w.src) /\ Reads(f, l + 24, w.dst)
               /\ \A i \in 1 .. Len(w.exts) : /\ Reads(f, ExtStart(w, i), NextType(w, i))
                                              /\ Reads(f, ExtStart(w, i) + 1, Units(w.exts[i]))
<1> DEFINE l == LinkLen(w)
<1>1. Ipv6Fields(w, l) \subseteq Fields(w)
    BY DEF Fields
<1>2. /\ <<l, 96>> \in Fields(w) /\ <<l + 4, FullLen(w) - w.pad - l - 40>> \in Fields(w)
      /\ <<l + 6, NextType(w, 0)>> \in Fields(w) /\ <<l + 8, w.src>> \in Fields(w)
      /\ <<l + 24, w.dst>> \in Fields(w)
    BY <1>1 DEF Ipv6Fields
<1>3. \A i \in DOMAIN w.exts : /\ <<ExtStart(w, i), NextType(w, i)>> \in Fields(w)
                               /\ <<ExtStart(w, i) + 1, Units(w.exts[i])>> \in Fields(w)
    BY <1>1 DEF Ipv6Fields
<1>4. DOMAIN w.exts = 1 .. Len(w.exts)
    BY ChainType
<1> HIDE DEF l
<1>5. LET f == Captured(w, n)
      IN  /\ Reads(f, l, 96) /\ Reads(f, l + 4, FullLen(w) - w.pad - l - 40)
          /\ Reads(f, l + 6, NextType(w, 0)) /\ Reads(f, l + 8, w.src) /\ Reads(f, l + 24, w.dst)
    BY <1>2, CapturedReads
<1>6. \A i \in 1 .. Len(w.exts) : /\ Reads(Captured(w, n), ExtStart(w, i), NextType(w, i))
                                  /\ Reads(Captured(w, n), ExtStart(w, i) + 1, Units(w.exts[i]))
    BY <1>3, <1>4, CapturedReads
<1> QED BY <1>5, <1>6 DEF l

\* The fields of its transport header.
LEMMA TransportReads ==
    ASSUME NEW w, IsFrame(w), ~ w.later, NEW n
    PROVE  LET f == Captured(w, n)
               l == TransportStart(w)
           IN  /\ Reads(f, l, Sport) /\ Reads(f, l + 2, Dport)
               /\ w.proto = TCP => /\ Reads(f, l + 4, w.seq) /\ Reads(f, l + 8, AckNo)
                                   /\ Reads(f, l + 12, 16 * w.doff) /\ Reads(f, l + 13, Ece + w.flags)
                                   /\ Reads(f, l + 14, Window)
               /\ w.proto # TCP => Reads(f, l + 4, 8 + w.payload)
<1> DEFINE l == TransportStart(w)
<1>1. TransportFields(w, l) \subseteq Fields(w)
    BY DEF Fields
<1>2. /\ <<l, Sport>> \in Fields(w) /\ <<l + 2, Dport>> \in Fields(w)
      /\ w.proto = TCP => /\ <<l + 4, w.seq>> \in Fields(w) /\ <<l + 8, AckNo>> \in Fields(w)
                          /\ <<l + 12, 16 * w.doff>> \in Fields(w)
                          /\ <<l + 13, Ece + w.flags>> \in Fields(w) /\ <<l + 14, Window>> \in Fields(w)
      /\ w.proto # TCP => <<l + 4, 8 + w.payload>> \in Fields(w)
    BY <1>1 DEF TransportFields
<1> HIDE DEF l
<1>3. LET f == Captured(w, n)
      IN  /\ Reads(f, l, Sport) /\ Reads(f, l + 2, Dport)
          /\ w.proto = TCP => /\ Reads(f, l + 4, w.seq) /\ Reads(f, l + 8, AckNo)
                              /\ Reads(f, l + 12, 16 * w.doff) /\ Reads(f, l + 13, Ece + w.flags)
                              /\ Reads(f, l + 14, Window)
          /\ w.proto # TCP => Reads(f, l + 4, 8 + w.payload)
    BY <1>2, CapturedReads
<1> QED BY <1>3 DEF l

-----------------------------------------------------------------------------
(* The packet that is read, as far as it was captured.                       *)

\* The packet of a frame with some other payload length.
Cut(w, len) ==
    LET from == [ip |-> Address(w, w.src), port |-> Sport]
        to   == [ip |-> Address(w, w.dst), port |-> Dport]
    IN  IF w.proto = TCP
        THEN Build(from, to, "Tcp", FlagsOf(w.flags), w.seq, AckNo, Window, len)
        ELSE Build(from, to, "Udp", {}, 0, 0, 0, len)

Reached(w, n) ==
    w.proto \in {TCP, UDP} /\ n >= TransportStart(w) + (IF w.proto = TCP THEN 20 ELSE 8)

\* Of n bytes those that the network header calls its payload.
Room(w, n) == Less(TransportLen(w) + w.payload, n - TransportStart(w))

Carried(w, n) == IF w.proto = TCP THEN Minus(Room(w, n), TransportLen(w)) ELSE w.payload

\* The length field of a TCP header counts at least its fixed part.
HonestDoff(w) == w.proto = TCP => w.doff >= 5

Parsed(w, n) == IF Reached(w, n) /\ HonestLengths(w) THEN {Cut(w, Carried(w, n))} ELSE {}

\* The packet that was sent is the one cut at its own payload length.
LEMMA SentIsCut == ASSUME NEW w PROVE Sent(w) = Cut(w, w.payload)
BY DEF Sent, Cut

\* Lengths are natural numbers.
LEMMA LensType ==
    ASSUME NEW w, IsFrame(w), ~ w.later
    PROVE  /\ TransportStart(w) \in Nat /\ w.payload \in Nat /\ w.pad \in Nat
           /\ TransportLen(w) \in Nat /\ TransportLen(w) >= 8
           /\ w.proto = TCP => TransportLen(w) >= 20
<1>1. w.payload \in Nat /\ w.pad \in Nat /\ (w.proto = TCP => w.doff \in 0 .. 15)
    BY DEF IsFrame
<1>2. TransportLen(w) = IF w.proto = TCP THEN HeaderLen(w.doff) ELSE 8
    BY DEF TransportLen
<1>3. w.doff \in 0 .. 15 => HeaderLen(w.doff) \in Nat /\ HeaderLen(w.doff) >= 20 /\ HeaderLen(w.doff) >= 8
  <2> DEFINE h == HeaderLen(w.doff)
  <2>1. w.doff \in 0 .. 15 => h \in Nat /\ h >= 20
      BY HeaderLenIs
  <2> HIDE DEF h
  <2>2. w.doff \in 0 .. 15 => h \in Nat /\ h >= 20 /\ h >= 8
      BY <2>1
  <2> QED BY <2>2 DEF h
<1> QED BY <1>1, <1>2, <1>3, TransportFacts

\* The two ways in which finish succeeds, and the ways in which it fails.
LEMMA FinishTcp ==
    ASSUME NEW f, NEW src, NEW dst, NEW l, NEW room, f.len - l >= 20, 4 * (Byte(f, l + 12) \div 16) >= 20
    PROVE  Finish(f, TCP, src, dst, l, room)
             = {Build([ip |-> src, port |-> Byte(f, l)], [ip |-> dst, port |-> Byte(f, l + 2)], "Tcp",
                      FlagsOf(Byte(f, l + 13) % 64), Byte(f, l + 4), Byte(f, l + 8), Byte(f, l + 14),
                      Minus(room, 4 * (Byte(f, l + 12) \div 16)))}
BY DEF Finish, TCP, UDP

\* A datagram.
LEMMA FinishUdp ==
    ASSUME NEW f, NEW src, NEW dst, NEW l, NEW room, f.len - l >= 8
    PROVE  Finish(f, UDP, src, dst, l, room)
             = {Build([ip |-> src, port |-> Byte(f, l)], [ip |-> dst, port |-> Byte(f, l + 2)], "Udp",
                      {}, 0, 0, 0, Minus(Byte(f, l + 4), 8))}
BY DEF Finish, TCP, UDP

\* Another protocol, or a header that is cut off or that calls itself too short.
LEMMA FinishNone ==
    ASSUME NEW f, NEW proto, NEW src, NEW dst, NEW l, NEW room,
           ~ (proto = TCP /\ f.len - l >= 20 /\ 4 * (Byte(f, l + 12) \div 16) >= 20),
           ~ (proto = UDP /\ f.len - l >= 8)
    PROVE  Finish(f, proto, src, dst, l, room) = {}
BY DEF Finish

\* finish finds the packet when the transport header was captured, unless the
\* data offset is too small.
LEMMA FinishIs ==
    ASSUME NEW w, IsFrame(w), ~ w.later, NEW n \in Nat, NEW room
    PROVE  Finish(Captured(w, n), w.proto, Address(w, w.src), Address(w, w.dst), TransportStart(w), room)
             = IF Reached(w, n) /\ HonestDoff(w)
               THEN {Cut(w, IF w.proto = TCP THEN Minus(room, TransportLen(w)) ELSE w.payload)}
               ELSE {}
<1> DEFINE f == Captured(w, n)
           l == TransportStart(w)
           src == Address(w, w.src)
           dst == Address(w, w.dst)
<1>1. f.len = n /\ l \in Nat /\ w.payload \in Nat /\ TCP # UDP
    BY CapturedLen, LensType DEF TCP, UDP
<1>2. Byte(f, l) = Sport /\ Byte(f, l + 2) = Dport
    BY TransportReads, ByteReads
<1>3. CASE w.proto = TCP
  <2>1. /\ Byte(f, l + 4) = w.seq /\ Byte(f, l + 8) = AckNo /\ Byte(f, l + 14) = Window
        /\ Byte(f, l + 12) = 16 * w.doff /\ Byte(f, l + 13) = Ece + w.flags
      BY <1>3, TransportReads, ByteReads
  <2>2. w.doff \in 0 .. 15 /\ w.flags \in 0 .. 63
      BY <1>3 DEF IsFrame
  <2>3. (16 * w.doff) \div 16 = w.doff /\ (Ece + w.flags) % 64 = w.flags
      BY <2>2 DEF Ece
  <2>4. Byte(f, l + 12) \div 16 = w.doff /\ Byte(f, l + 13) % 64 = w.flags
      BY <2>1, <2>3
  <2>5. w.doff >= 5 => TransportLen(w) = 4 * w.doff
      BY <1>3, <2>2, HeaderLenIs DEF TransportLen
  <2>6. f.len - l >= 20 <=> Reached(w, n)
      BY <1>1, <1>3 DEF Reached
  <2>7. (w.doff >= 5 <=> 4 * w.doff >= 20) /\ (HonestDoff(w) <=> w.doff >= 5)
      BY <1>3, <2>2 DEF HonestDoff
  <2> HIDE DEF f, l, src, dst
  <2>8. ASSUME Reached(w, n), w.doff >= 5
        PROVE  Finish(f, w.proto, src, dst, l, room) = {Cut(w, Minus(room, TransportLen(w)))}
    <3>0. 4 * (Byte(f, l + 12) \div 16) = TransportLen(w)
        BY <2>4, <2>5, <2>8
    <3>1. 4 * (Byte(f, l + 12) \div 16) >= 20 /\ f.len - l >= 20
        BY <2>4, <2>6, <2>7, <2>8
    <3>2. Finish(f, TCP, src, dst, l, room)
            = {Build([ip |-> src, port |-> Byte(f, l)], [ip |-> dst, port |-> Byte(f, l + 2)], "Tcp",
                     FlagsOf(Byte(f, l + 13) % 64), Byte(f, l + 4), Byte(f, l + 8), Byte(f, l + 14),
                     Minus(room, 4 * (Byte(f, l + 12) \div 16)))}
        BY <3>1, FinishTcp
    <3>3. Cut(w, Minus(room, TransportLen(w)))
            = Build([ip |-> src, port |-> Sport], [ip |-> dst, port |-> Dport], "Tcp",
                    FlagsOf(w.flags), w.seq, AckNo, Window, Minus(room, TransportLen(w)))
        BY <1>3 DEF Cut, src, dst
    <3> QED BY <1>2, <1>3, <2>1, <2>4, <3>0, <3>2, <3>3
  <2>9. ASSUME ~ (Reached(w, n) /\ w.doff >= 5) PROVE Finish(f, w.proto, src, dst, l, room) = {}
    <3>1. ~ (f.len - l >= 20 /\ 4 * (Byte(f, l + 12) \div 16) >= 20)
        BY <2>4, <2>6, <2>7, <2>9
    <3> QED BY <1>1, <1>3, <3>1, FinishNone
  <2> QED BY <1>3, <2>7, <2>8, <2>9 DEF f, l, src, dst
<1>4. CASE w.proto = UDP
  <2>1. Byte(f, l + 4) = 8 + w.payload
      BY <1>1, <1>4, TransportReads, ByteReads
  <2>2. Minus(Byte(f, l + 4), 8) = w.payload
      BY <1>1, <2>1 DEF Minus
  <2>3. f.len - l >= 8 <=> Reached(w, n)
      BY <1>1, <1>4 DEF Reached
  <2> HIDE DEF f, l, src, dst
  <2>8. ASSUME Reached(w, n)
        PROVE  Finish(f, w.proto, src, dst, l, room) = {Cut(w, w.payload)}
    <3>1. Finish(f, UDP, src, dst, l, room)
            = {Build([ip |-> src, port |-> Byte(f, l)], [ip |-> dst, port |-> Byte(f, l + 2)], "Udp",
                     {}, 0, 0, 0, Minus(Byte(f, l + 4), 8))}
        BY <2>3, <2>8, FinishUdp
    <3>2. Cut(w, w.payload)
            = Build([ip |-> src, port |-> Sport], [ip |-> dst, port |-> Dport], "Udp", {}, 0, 0, 0, w.payload)
        BY <1>1, <1>4 DEF Cut, src, dst
    <3> QED BY <1>2, <1>4, <2>2, <3>1, <3>2
  <2>9. ASSUME ~ Reached(w, n) PROVE Finish(f, w.proto, src, dst, l, room) = {}
      BY <1>1, <1>4, <2>3, <2>9, FinishNone
  <2> QED BY <1>1, <1>4, <2>8, <2>9 DEF HonestDoff, f, l, src, dst
<1>5. CASE w.proto \notin {TCP, UDP}
    BY <1>5 DEF Finish, Reached
<1> QED BY <1>3, <1>4, <1>5

\* parse_ipv4 finds the packet when the headers were captured and their length
\* fields are honest.
LEMMA ParseIpv4Is ==
    ASSUME NEW w, IsFrame(w), ~ w.later, w.family = 4, NEW n \in Nat
    PROVE  ParseIpv4(Captured(w, n), LinkLen(w)) = Parsed(w, n)
<1> DEFINE f == Captured(w, n)
           l == LinkLen(w)
           k == w.words
           h == HeaderLen(k)
           t == TransportStart(w)
           len == TransportLen(w)
           pay == w.payload
           pad == w.pad
           full == FullLen(w)
<1>1. /\ f.len = n /\ l \in Nat /\ k \in 0 .. 15 /\ t = l + h /\ t \in Nat
      /\ len \in Nat /\ pay \in Nat /\ pad \in Nat /\ full = t + len + pay + pad
    BY CapturedLen, LinkLenType, LensType DEF IsFrame, TransportStart, FullLen
<1>0. h \in Nat /\ h >= 20 /\ (k >= 5 => h = 4 * k)
    BY <1>1, HeaderLenIs
<1>11. HonestLengths(w) <=> k >= 5 /\ HonestDoff(w)
    BY DEF HonestLengths, HonestDoff
<1>2. /\ Byte(f, l) = 64 + k /\ Byte(f, l + 2) = full - pad - l
      /\ Byte(f, l + 9) = w.proto /\ Byte(f, l + 12) = w.src /\ Byte(f, l + 16) = w.dst
    BY Ipv4Reads, ByteReads
<1>3. Address(w, w.src) = w.src /\ Address(w, w.dst) = w.dst
    BY DEF Address
<1>4. Reached(w, n) => n >= t + 8
    BY <1>1 DEF Reached
<1>5. Room(w, n) = Less(len + pay, n - t)
    BY DEF Room
<1>6. \A room : Finish(f, w.proto, w.src, w.dst, t, room)
                  = IF Reached(w, n) /\ HonestDoff(w)
                    THEN {Cut(w, IF w.proto = TCP THEN Minus(room, len) ELSE pay)} ELSE {}
    BY <1>3, FinishIs
<1>7. Parsed(w, n) = IF Reached(w, n) /\ HonestLengths(w)
                     THEN {Cut(w, IF w.proto = TCP THEN Minus(Room(w, n), len) ELSE pay)} ELSE {}
    BY DEF Parsed, Carried
<1> HIDE DEF f, l, k, h, t, len, pay, pad, full
<1>8. 4 * (Byte(f, l) % 16) = 4 * k
  <2>1. (64 + k) % 16 = k
      BY <1>1
  <2> QED BY <1>2, <2>1
<1>9. CASE f.len - l < 20 \/ 4 * k < 20 \/ f.len - l < 4 * k
  <2>1. ~ (Reached(w, n) /\ k >= 5)
      BY <1>0, <1>1, <1>4, <1>9
  <2>2. ParseIpv4(f, l) = {}
      BY <1>8, <1>9 DEF ParseIpv4
  <2> QED BY <1>7, <1>11, <2>1, <2>2 DEF f, l
<1>10. CASE ~ (f.len - l < 20 \/ 4 * k < 20 \/ f.len - l < 4 * k)
  <2>0. k >= 5 /\ h = 4 * k
      BY <1>0, <1>1, <1>10
  <2>1. ParseIpv4(f, l)
          = Finish(f, Byte(f, l + 9), Byte(f, l + 12), Byte(f, l + 16), l + 4 * k,
                   Less(Minus(Byte(f, l + 2), 4 * k), f.len - l - 4 * k))
      BY <1>8, <1>10 DEF ParseIpv4
  <2>2. Minus(full - pad - l, 4 * k) = len + pay
    <3>1. full - pad - l = 4 * k + len + pay
        BY <1>1, <2>0
    <3> DEFINE i == 4 * k
               a == full - pad - l
    <3>2. i \in Nat /\ len \in Nat /\ pay \in Nat /\ a = i + len + pay
        BY <1>1, <3>1
    <3> HIDE DEF i, a
    <3>3. Minus(a, i) = len + pay
        BY <3>2 DEF Minus
    <3> QED BY <3>3 DEF i, a
  <2>3. f.len - l - 4 * k = n - t
      BY <1>1, <2>0
  <2>4. ParseIpv4(f, l) = Finish(f, w.proto, w.src, w.dst, t, Room(w, n))
      BY <1>1, <1>2, <1>5, <2>0, <2>1, <2>2, <2>3
  <2> QED BY <1>6, <1>7, <1>11, <2>0, <2>4 DEF f, l
<1> QED BY <1>9, <1>10

-----------------------------------------------------------------------------
(* The walk over the extension headers.                                      *)

Turn(f, l3, end, S) == UNION {SkipHeader(f, l3, end, x) : x \in S}

Walk(f, l3, end) ==
    CHOOSE g : g = [n \in 0 .. 8 |-> IF n = 0 THEN {[next |-> Byte(f, l3 + 6), off |-> 40]}
                                     ELSE UNION {SkipHeader(f, l3, end, x) : x \in g[n - 1]}]

EndOfPacket(f, l3) == Less(40 + Byte(f, l3 + 4), f.len - l3)

\* The function that parse_ipv6 defines.
LEMMA ParseIpv6Walks ==
    ASSUME NEW f, NEW l3
    PROVE  ParseIpv6(f, l3) =
             IF f.len - l3 < 40 THEN {}
             ELSE UNION {Finish(f, x.next, V6(Byte(f, l3 + 8)), V6(Byte(f, l3 + 24)), l3 + x.off,
                                Minus(EndOfPacket(f, l3), x.off)) : x \in Walk(f, l3, EndOfPacket(f, l3))[8]}
BY DEF ParseIpv6, Walk, EndOfPacket

\* Its eight turns.
LEMMA WalkTurns ==
    ASSUME NEW f, NEW l3, NEW end
    PROVE  /\ Walk(f, l3, end)[0] = {[next |-> Byte(f, l3 + 6), off |-> 40]}
           /\ \A n \in 1 .. 8 : Walk(f, l3, end)[n] = Turn(f, l3, end, Walk(f, l3, end)[n - 1])
<1> DEFINE T(S) == Turn(f, l3, end, S)
           s0 == {[next |-> Byte(f, l3 + 6), off |-> 40]}
           s1 == T(s0)
           s2 == T(s1)
           s3 == T(s2)
           s4 == T(s3)
           s5 == T(s4)
           s6 == T(s5)
           s7 == T(s6)
           s8 == T(s7)
           h == [n \in 0 .. 8 |-> IF n = 0 THEN s0 ELSE IF n = 1 THEN s1 ELSE IF n = 2 THEN s2
                                  ELSE IF n = 3 THEN s3 ELSE IF n = 4 THEN s4 ELSE IF n = 5 THEN s5
                                  ELSE IF n = 6 THEN s6 ELSE IF n = 7 THEN s7 ELSE s8]
           G(g) == [n \in 0 .. 8 |-> IF n = 0 THEN s0 ELSE T(g[n - 1])]
           i == Walk(f, l3, end)
<1>1. i = CHOOSE g : g = G(g)
    BY DEF Walk, Turn
<1>2. h = G(h)
  <2>1. s1 = T(s0) /\ s2 = T(s1) /\ s3 = T(s2) /\ s4 = T(s3) /\ s5 = T(s4) /\ s6 = T(s5) /\ s7 = T(s6) /\ s8 = T(s7)
      OBVIOUS
  <2> HIDE DEF T, s0, s1, s2, s3, s4, s5, s6, s7, s8
  <2>2. /\ h[0] = s0 /\ h[1] = s1 /\ h[2] = s2 /\ h[3] = s3 /\ h[4] = s4 /\ h[5] = s5 /\ h[6] = s6
        /\ h[7] = s7 /\ h[8] = s8 /\ DOMAIN h = 0 .. 8
      OBVIOUS
  <2> HIDE DEF h
  <2>3. ASSUME NEW n \in 0 .. 8 PROVE h[n] = IF n = 0 THEN s0 ELSE T(h[n - 1])
    <3>1. n = 0 \/ n = 1 \/ n = 2 \/ n = 3 \/ n = 4 \/ n = 5 \/ n = 6 \/ n = 7 \/ n = 8
        OBVIOUS
    <3>2. /\ 1 - 1 = 0 /\ 2 - 1 = 1 /\ 3 - 1 = 2 /\ 4 - 1 = 3 /\ 5 - 1 = 4 /\ 6 - 1 = 5 /\ 7 - 1 = 6 /\ 8 - 1 = 7
        OBVIOUS
    <3> QED BY <2>1, <2>2, <3>1, <3>2
  <2>4. h = [n \in 0 .. 8 |-> h[n]]
      BY <2>2 DEF h
  <2> QED BY <2>3, <2>4
<1> HIDE DEF h, i
<1>3. i = G(i)
  <2> HIDE DEF G
  <2> QED BY <1>1, <1>2
<1>4. i[0] = s0 /\ \A n \in 1 .. 8 : i[n] = T(i[n - 1])
    BY <1>3
<1> QED BY <1>4 DEF i

\* What is read of the header that the walk x stands at, and the walk d bytes on.
ReadsNext(f, l3, x, next)      == next = Get(f, l3 + x.off, 1)
ReadsBoth(f, l3, x, next, len) == ReadsNext(f, l3, x, next) /\ len = Get(f, l3 + x.off + 1, 1)
Further(x, m, d)               == [next |-> m, off |-> x.off + d]
Inside(x, d, end)              == x.off + d < end

OverOptions(f, l3, x, next, len, m, u, d) ==
    /\ x.next \in Options /\ ReadsBoth(f, l3, x, next, len)
    /\ next \subseteq {m} /\ len \subseteq {u} /\ d = ExtensionLen(m, u)

\* A turn over an options header, given what is read of it.
LEMMA SkipOptions ==
    ASSUME NEW f, NEW l3, NEW end, NEW x, NEW m, NEW u, NEW next, NEW len, NEW d,
           OverOptions(f, l3, x, next, len, m, u, d)
    PROVE  /\ SkipHeader(f, l3, end, x) \subseteq {Further(x, m, d)}
           /\ next = {m} /\ len = {u} /\ Inside(x, d, end)
                => SkipHeader(f, l3, end, x) = {Further(x, m, d)}
<1> DEFINE past == UNION {{[next |-> a, off |-> x.off + ExtensionLen(a, b)] : a \in next} : b \in len}
           frag == {[next |-> a, off |-> x.off + 8] : a \in next}
           P == CASE x.next \in Options -> past [] x.next = Fragment -> frag [] OTHER -> {}
           y == [next |-> m, off |-> x.off + ExtensionLen(m, u)]
<1>0. /\ x.next \in Options /\ ReadsBoth(f, l3, x, next, len)
      /\ next \subseteq {m} /\ len \subseteq {u} /\ d = ExtensionLen(m, u)
    BY DEF OverOptions
<1>1. x.next \notin {TCP, UDP} /\ x.next # Fragment
    BY <1>0 DEF Options, TCP, UDP, AH, Fragment
<1>2. next = Get(f, l3 + x.off, 1) /\ len = Get(f, l3 + x.off + 1, 1)
    BY <1>0 DEF ReadsBoth, ReadsNext
<1>3. SkipHeader(f, l3, end, x) = IF x.next \in {TCP, UDP} THEN {x} ELSE {z \in P : z.off < end}
  <2> HIDE DEF P
  <2>1. P = CASE x.next \in Options ->
                   UNION {{[next |-> a, off |-> x.off + ExtensionLen(a, b)] : a \in Get(f, l3 + x.off, 1)}
                            : b \in Get(f, l3 + x.off + 1, 1)}
              [] x.next = Fragment -> {[next |-> a, off |-> x.off + 8] : a \in Get(f, l3 + x.off, 1)}
              [] OTHER -> {}
      BY <1>2 DEF P
  <2> QED BY <2>1 DEF SkipHeader
<1>4. past \subseteq {y} /\ (next = {m} /\ len = {u} => past = {y})
    BY <1>0
<1>5. y.off = x.off + d /\ y = Further(x, m, d)
    BY <1>0 DEF Further
<1> HIDE DEF past, frag, y
<1>6. P = past
    BY <1>0, <1>1
<1> HIDE DEF P
<1>7. SkipHeader(f, l3, end, x) = {z \in past : z.off < end}
    BY <1>1, <1>3, <1>6
<1> QED BY <1>4, <1>5, <1>7 DEF Inside

\* A turn over a fragment header.
LEMMA SkipFragment ==
    ASSUME NEW f, NEW l3, NEW end, NEW x, NEW m, x.next = Fragment, NEW next,
           ReadsNext(f, l3, x, next), next \subseteq {m}, NEW d, d = 8
    PROVE  /\ SkipHeader(f, l3, end, x) \subseteq {Further(x, m, d)}
           /\ next = {m} /\ Inside(x, d, end) => SkipHeader(f, l3, end, x) = {Further(x, m, d)}
<1> DEFINE past == {[next |-> a, off |-> x.off + 8] : a \in next}
           y == [next |-> m, off |-> x.off + 8]
<1>1. x.next \notin {TCP, UDP} /\ x.next \notin Options
    BY DEF Options, TCP, UDP, AH, Fragment
<1>2. SkipHeader(f, l3, end, x) = {z \in past : z.off < end}
    BY <1>1 DEF SkipHeader, ReadsNext
<1>3. past \subseteq {y} /\ (next = {m} => past = {y})
    OBVIOUS
<1>4. y.off = x.off + d /\ y = Further(x, m, d)
    BY DEF Further
<1> HIDE DEF past, y
<1> QED BY <1>2, <1>3, <1>4 DEF Inside

\* A turn that has arrived.
LEMMA SkipArrived ==
    ASSUME NEW f, NEW l3, NEW end, NEW x, x.next \notin Options, x.next # Fragment
    PROVE  SkipHeader(f, l3, end, x) = IF x.next \in {TCP, UDP} THEN {x} ELSE {}
<1>1. CASE x.next \in {TCP, UDP}
    BY <1>1 DEF SkipHeader
<1>2. CASE x.next \notin {TCP, UDP}
    BY <1>2 DEF SkipHeader
<1> QED BY <1>1, <1>2

-----------------------------------------------------------------------------
(* The walk over the chain of a frame.                                       *)

NoAuth(w) == \A i \in DOMAIN w.exts : w.exts[i].type # AH

\* The walk behind i headers.
At(w, i) == [next |-> NextType(w, i), off |-> ExtStart(w, i + 1) - LinkLen(w)]

\* The end of the packet as parse_ipv6 computes it.
LEMMA EndIs ==
    ASSUME NEW w, IsFrame(w), ~ w.later, w.family = 6, NEW n \in Nat
    PROVE  LET end == EndOfPacket(Captured(w, n), LinkLen(w))
           IN  /\ end \in Int
               /\ end = Less(TransportStart(w) + TransportLen(w) + w.payload - LinkLen(w), n - LinkLen(w))
               /\ Reached(w, n) => end > TransportStart(w) - LinkLen(w)
<1> DEFINE f == Captured(w, n)
           l == LinkLen(w)
           t == TransportStart(w)
           len == TransportLen(w)
           pay == w.payload
           pad == w.pad
           full == FullLen(w)
           end == EndOfPacket(f, l)
<1>1. /\ f.len = n /\ l \in Nat /\ t \in Nat
      /\ len \in Nat /\ len >= 8 /\ pay \in Nat /\ pad \in Nat /\ full = t + len + pay + pad
    BY CapturedLen, LinkLenType, LensType DEF FullLen
<1>2. Byte(f, l + 4) = full - pad - l - 40
    BY Ipv6Reads, ByteReads
<1>3. Reached(w, n) => n >= t + 8
    BY <1>1 DEF Reached
<1>4. end = Less(40 + Byte(f, l + 4), f.len - l)
    BY DEF EndOfPacket
<1> HIDE DEF f, l, t, len, pay, pad, full, end
<1>5. 40 + (full - pad - l - 40) = t + len + pay - l
    BY <1>1
<1>6. end = Less(t + len + pay - l, n - l)
    BY <1>1, <1>2, <1>4, <1>5
<1>7. end \in Int /\ (Reached(w, n) => end > t - l)
    BY <1>1, <1>3, <1>6 DEF Less
<1> QED BY <1>6, <1>7 DEF f, l, t, len, pay, end

\* A header of the chain other than AH is as long as its own length field says.
LEMMA OwnLength ==
    ASSUME NEW e, IsExtension(e), e.type \in Options, e.type # AH, NEW m, m # AH
    PROVE  ExtensionLen(m, Units(e)) = e.len
<1>1. e.len \in Nat /\ e.len % 8 = 0
    BY DEF IsExtension, Options, Fragment
<1>2. Units(e) = e.len \div 8 - 1
    BY DEF Units, Options, Fragment, AH
<1>3. ExtensionLen(m, Units(e)) = (Units(e) + 1) * 8
    BY DEF ExtensionLen
<1> DEFINE k == e.len
           q == k \div 8
<1>4. k = 8 * q + (k % 8) /\ q \in Int
    BY <1>1
<1>5. ((q - 1) + 1) * 8 = k
    BY <1>1, <1>4
<1> QED BY <1>2, <1>3, <1>5

\* One turn goes one header further, if it was captured; behind the chain it stays.
LEMMA WalkStep ==
    ASSUME NEW w, IsFrame(w), ~ w.later, w.family = 6, NoAuth(w), NEW n \in Nat, NEW i \in 0 .. Len(w.exts)
    PROVE  LET l == LinkLen(w)
               f == Captured(w, n)
               k == IF i < Len(w.exts) THEN i + 1 ELSE i
               S == SkipHeader(f, l, EndOfPacket(f, l), At(w, i))
           IN  S \subseteq {At(w, k)} /\ (Reached(w, n) => S = {At(w, k)})
<1> DEFINE l == LinkLen(w)
           f == Captured(w, n)
           end == EndOfPacket(f, l)
           x == At(w, i)
           S == SkipHeader(f, l, end, x)
           N == Len(w.exts)
           t == TransportStart(w)
<1>1. /\ N \in Nat /\ l \in Nat /\ f.len = n /\ t \in Nat /\ DOMAIN w.exts = 1 .. N
      /\ end \in Int /\ (Reached(w, n) => end > t - l)
    BY ChainType, LinkLenType, CapturedLen, LensType, EndIs
<1>2. CASE i < N
  <2> DEFINE j == i + 1
             e == w.exts[j]
             p == ExtStart(w, j)
             q == ExtStart(w, j + 1)
             m == NextType(w, j)
             u == Units(e)
             next == Get(f, p, 1)
             len == Get(f, p + 1, 1)
             y == At(w, j)
  <2>1. j \in 1 .. N /\ j \in Nat /\ j + 1 \in 1 .. N + 1 /\ j \in 1 .. N + 1
      BY <1>1, <1>2
  <2>2. /\ IsExtension(e) /\ e.len \in Nat /\ e.len >= 8 /\ p \in Nat /\ q = p + e.len /\ q \in Nat
      BY <2>1, ChainType, ExtFacts, SMTT(20)
  <2>3. q <= t
    <3>1. CASE j = N
        BY <1>1, <2>2, <3>1 DEF TransportStart
    <3>2. CASE j # N
      <4>1. j + 1 \in 1 .. N
          BY <1>1, <2>1, <3>2
      <4>2. q + 8 <= t
          BY <4>1, TransportFacts
      <4> QED BY <1>1, <2>2, <4>2
    <3> QED BY <3>1, <3>2
  <2>4. x.next = e.type /\ x.off = p - l /\ y = [next |-> m, off |-> q - l]
      BY <1>2 DEF At, NextType
  <2>5. m # AH /\ e.type # AH
    <3>1. \A a \in 1 .. N : w.exts[a].type # AH
        BY <1>1 DEF NoAuth
    <3>2. e.type # AH
        BY <2>1, <3>1
    <3>3. CASE j < N
      <4>1. j + 1 \in 1 .. N /\ m = w.exts[j + 1].type
          BY <1>1, <2>1, <3>3 DEF NextType
      <4> QED BY <3>1, <3>2, <4>1
    <3>4. CASE ~ (j < N)
      <4>1. m = w.proto /\ w.proto \notin Options
          BY <3>4 DEF NextType, IsFrame
      <4> QED BY <3>2, <4>1 DEF Options
    <3> QED BY <3>3, <3>4
  <2>6. Reads(f, p, m) /\ Reads(f, p + 1, u)
      BY <2>1, Ipv6Reads
  <2>7. /\ next = (IF p + 1 > n THEN {} ELSE {m})
        /\ len = (IF p + 1 + 1 > n THEN {} ELSE {u})
    <3> DEFINE r == p + 1
    <3>1. Reads(f, r, u)
        BY <2>6
    <3> HIDE DEF f, p, m, u, r
    <3>2. Get(f, p, 1) = (IF p + 1 > n THEN {} ELSE {m}) /\ Get(f, r, 1) = (IF r + 1 > n THEN {} ELSE {u})
        BY <1>1, <2>6, <3>1, ByteReads
    <3> QED BY <3>2 DEF r
  <2>8. Reached(w, n) => n >= t + 8
      BY <1>1 DEF Reached
  <2>9. (e.type = Fragment /\ e.len = 8) \/ e.type \in Options
      BY <2>2 DEF IsExtension, Options
  <2>10. ExtensionLen(m, u) = e.len \/ e.type = Fragment
      BY <2>2, <2>5, <2>9, OwnLength
  <2> HIDE DEF l, f, end, x, N, t, j, e, p, q, m, u, next, len, y
  <2>11. l + x.off = p /\ l + x.off + 1 = p + 1 /\ x.off + e.len = q - l /\ x.off \in Int
      BY <1>1, <2>2, <2>4, SMTT(20)
  <2>12. next \subseteq {m} /\ len \subseteq {u}
      BY <2>7
  <2>13. Reached(w, n) => next = {m} /\ len = {u} /\ q - l < end
    <3>1. Reached(w, n) => ~ (p + 1 > n) /\ ~ (p + 1 + 1 > n) /\ q - l < end
        BY <1>1, <2>2, <2>3, <2>8, SMTT(20)
    <3> QED BY <2>7, <3>1
  <2>14. S \subseteq {y} /\ (Reached(w, n) => S = {y})
    <3> DEFINE d == e.len
    <3>1. Further(x, m, d) = y /\ Inside(x, d, end) = (q - l < end)
        BY <2>4, <2>11 DEF Further, Inside
    <3> HIDE DEF d, S
    <3>2. CASE e.type = Fragment /\ e.len = 8
      <4>1. ReadsNext(f, l, x, next) /\ x.next = Fragment /\ d = 8
          BY <2>4, <2>11, <3>2 DEF next, ReadsNext, d
      <4>2. /\ S \subseteq {Further(x, m, d)}
            /\ next = {m} /\ Inside(x, d, end) => S = {Further(x, m, d)}
          BY <2>12, <4>1, SkipFragment DEF S
      <4> QED BY <2>13, <3>1, <4>2
    <3>3. CASE e.type \in Options
      <4>1. ReadsBoth(f, l, x, next, len) /\ x.next \in Options
          BY <2>4, <2>11, <3>3 DEF next, len, ReadsNext, ReadsBoth
      <4>2. d = ExtensionLen(m, u)
          BY <2>10, <3>3 DEF Options, Fragment, AH, d
      <4>3. /\ S \subseteq {Further(x, m, d)}
            /\ next = {m} /\ len = {u} /\ Inside(x, d, end) => S = {Further(x, m, d)}
        <5>1. OverOptions(f, l, x, next, len, m, u, d)
            BY <2>12, <4>1, <4>2 DEF OverOptions
        <5> QED BY <5>1, SkipOptions DEF S
      <4> QED BY <2>13, <3>1, <4>3
    <3> QED BY <2>9, <3>2, <3>3
  <2> QED BY <1>2, <2>14 DEF l, f, end, x, N, y, j
<1>3. CASE ~ (i < N)
  <2>1. i = N
      BY <1>1, <1>3
  <2>2. x.next = w.proto /\ w.proto \notin Options /\ w.proto # Fragment
      BY <1>3 DEF At, NextType, IsFrame
  <2>3. S = IF x.next \in {TCP, UDP} THEN {x} ELSE {}
      BY <2>2, SkipArrived
  <2>4. Reached(w, n) => w.proto \in {TCP, UDP}
      BY DEF Reached
  <2> HIDE DEF x, S
  <2>5. S \subseteq {x} /\ (Reached(w, n) => S = {x})
      BY <2>2, <2>3, <2>4
  <2> QED BY <1>3, <2>5 DEF x, S
<1> QED BY <1>2, <1>3

\* How many headers of the chain k turns have passed at most.
Passed(w, k) == IF k < Len(w.exts) THEN k ELSE Len(w.exts)

\* Where the walk is after k turns, unless the capture ended before.
LEMMA WalkIs ==
    ASSUME NEW w, IsFrame(w), ~ w.later, w.family = 6, NoAuth(w), NEW n \in Nat, NEW k \in 0 .. 8
    PROVE  LET f == Captured(w, n)
               l == LinkLen(w)
               S == Walk(f, l, EndOfPacket(f, l))[k]
           IN  S \subseteq {At(w, Passed(w, k))} /\ (Reached(w, n) => S = {At(w, Passed(w, k))})
<1> DEFINE f == Captured(w, n)
           l == LinkLen(w)
           end == EndOfPacket(f, l)
           g == Walk(f, l, end)
           N == Len(w.exts)
           Good(j) == g[j] \subseteq {At(w, Passed(w, j))} /\ (Reached(w, n) => g[j] = {At(w, Passed(w, j))})
           T == {j \in 0 .. 8 : ~ Good(j)}
<1>1. N \in Nat /\ l \in Nat
    BY ChainType, LinkLenType
<1>2. Good(0)
  <2>1. Passed(w, 0) = 0
      BY <1>1 DEF Passed
  <2>2. Byte(f, l + 6) = NextType(w, 0)
      BY Ipv6Reads, ByteReads
  <2>3. g[0] = {[next |-> Byte(f, l + 6), off |-> 40]}
      BY WalkTurns
  <2>4. ExtStart(w, 0 + 1) - l = 40
    <3>1. ExtStart(w, 1) = l + 40
        BY ExtFacts
    <3> QED BY <1>1, <3>1
  <2>5. At(w, 0) = [next |-> NextType(w, 0), off |-> 40]
      BY <2>4 DEF At
  <2> HIDE DEF g, f, l
  <2> QED BY <2>1, <2>2, <2>3, <2>5
<1>3. ASSUME NEW j \in 1 .. 8, Good(j - 1) PROVE Good(j)
  <2> DEFINE i == Passed(w, j - 1)
             m == Passed(w, j)
             S == SkipHeader(f, l, end, At(w, i))
  <2>1. i \in 0 .. N /\ m = (IF i < N THEN i + 1 ELSE i)
      BY <1>1 DEF Passed
  <2>2. S \subseteq {At(w, m)} /\ (Reached(w, n) => S = {At(w, m)})
      BY <2>1, WalkStep
  <2>3. g[j] = Turn(f, l, end, g[j - 1])
      BY WalkTurns
  <2> HIDE DEF f, l, end, g, i, m
  <2>4. g[j] = UNION {SkipHeader(f, l, end, x) : x \in g[j - 1]}
      BY <2>3 DEF Turn
  <2>5. g[j - 1] \subseteq {At(w, i)} /\ (Reached(w, n) => g[j - 1] = {At(w, i)})
      BY <1>3 DEF i
  <2> DEFINE h == g[j - 1]
             a == At(w, i)
  <2> HIDE DEF h, a
  <2>6. h \subseteq {a} /\ (Reached(w, n) => h = {a}) /\ g[j] = UNION {SkipHeader(f, l, end, x) : x \in h}
      BY <2>4, <2>5 DEF h, a
  <2>7. g[j] \subseteq S /\ (Reached(w, n) => g[j] = S)
      BY <2>6 DEF a
  <2>8. g[j] \subseteq {At(w, m)} /\ (Reached(w, n) => g[j] = {At(w, m)})
      BY <2>2, <2>7
  <2> QED BY <2>8 DEF m
<1> HIDE DEF Good
<1>4. T = {}
  <2> SUFFICES ASSUME T # {} PROVE FALSE
      OBVIOUS
  <2>1. T \in SUBSET Nat
      OBVIOUS
  <2>2. PICK j \in T : \A x \in T : j <= x
    <3> HIDE DEF T
    <3> QED BY <2>1, Least
  <2>3. j \in 0 .. 8 /\ ~ Good(j)
      BY <2>2
  <2>4. j # 0
      BY <1>2, <2>3
  <2> DEFINE i == j - 1
  <2>5. j \in 1 .. 8 /\ i \in 0 .. 8 /\ i \notin T
    <3>1. ASSUME NEW x \in T PROVE j <= x
        BY <2>2
    <3> HIDE DEF T
    <3> QED BY <2>3, <2>4, <3>1
  <2>6. Good(i)
    <3> HIDE DEF i
    <3> QED BY <2>5
  <2>7. Good(j)
      BY <1>3, <2>5, <2>6
  <2> QED BY <2>3, <2>7
<1>5. Good(k)
    BY <1>4
<1> QED BY <1>5 DEF Good

\* parse_ipv6 finds the packet or nothing; it finds it behind up to eight headers.
LEMMA ParseIpv6Is ==
    ASSUME NEW w, IsFrame(w), ~ w.later, w.family = 6, NoAuth(w), NEW n \in Nat
    PROVE  /\ ParseIpv6(Captured(w, n), LinkLen(w)) \subseteq Parsed(w, n)
           /\ Len(w.exts) <= 8 => ParseIpv6(Captured(w, n), LinkLen(w)) = Parsed(w, n)
<1> DEFINE f == Captured(w, n)
           l == LinkLen(w)
           t == TransportStart(w)
           len == TransportLen(w)
           pay == w.payload
           end == EndOfPacket(f, l)
           N == Len(w.exts)
           W == Walk(f, l, end)[8]
           src == V6(Byte(f, l + 8))
           dst == V6(Byte(f, l + 24))
           F(x) == Finish(f, x.next, src, dst, l + x.off, Minus(end, x.off))
           R == ParseIpv6(f, l)
           a == At(w, Passed(w, 8))
<1>1. /\ f.len = n /\ N \in Nat /\ l \in Nat /\ t \in Nat /\ t >= l + 40
      /\ len \in Nat /\ pay \in Nat /\ end = Less(t + len + pay - l, n - l)
      /\ Reached(w, n) => n >= t + 8
  <2>1. Reached(w, n) => n >= t + 8
      BY LensType DEF Reached
  <2> QED BY <2>1, CapturedLen, ChainType, LinkLenType, LensType, TransportFacts, EndIs
<1>2. R = IF f.len - l < 40 THEN {} ELSE UNION {F(x) : x \in W}
    BY ParseIpv6Walks
<1>3. W \subseteq {a} /\ (Reached(w, n) => W = {a})
  <2> DEFINE k == 8
  <2>1. k \in 0 .. 8
      OBVIOUS
  <2> HIDE DEF k
  <2>2. /\ Walk(f, l, end)[k] \subseteq {At(w, Passed(w, k))}
        /\ Reached(w, n) => Walk(f, l, end)[k] = {At(w, Passed(w, k))}
      BY <2>1, WalkIs
  <2> QED BY <2>2 DEF k
<1>4. src = Address(w, w.src) /\ dst = Address(w, w.dst)
  <2>1. Byte(f, l + 8) = w.src /\ Byte(f, l + 24) = w.dst
      BY Ipv6Reads, ByteReads
  <2> QED BY <2>1 DEF Address
<1>0. HonestLengths(w) <=> HonestDoff(w)
    BY DEF HonestLengths, HonestDoff
<1>5. Parsed(w, n) = IF Reached(w, n) /\ HonestDoff(w)
                     THEN {Cut(w, IF w.proto = TCP THEN Minus(Room(w, n), len) ELSE pay)} ELSE {}
    BY <1>0 DEF Parsed, Carried
<1>6. Room(w, n) = Less(len + pay, n - t)
    BY DEF Room
<1>7. CASE N <= 8
  <2>1. Passed(w, 8) = N
      BY <1>1, <1>7 DEF Passed
  <2>2. a.next = w.proto /\ a.off = ExtStart(w, N + 1) - l
      BY <1>1, <2>1, SMTT(20) DEF At, NextType
  <2>3. t = ExtStart(w, N + 1)
      BY DEF TransportStart
  <2>4. \A room : Finish(f, w.proto, src, dst, t, room)
                    = IF Reached(w, n) /\ HonestDoff(w)
                      THEN {Cut(w, IF w.proto = TCP THEN Minus(room, len) ELSE pay)} ELSE {}
      BY <1>4, FinishIs
  <2> HIDE DEF f, l, t, len, pay, end, N, W, src, dst, a
  <2>5. a.off = t - l /\ l + a.off = t
      BY <1>1, <2>2, <2>3
  <2>6. Reached(w, n) => Minus(end, a.off) = Room(w, n)
    <3>1. n >= t + 8 => Minus(Less(t + len + pay - l, n - l), t - l) = Less(len + pay, n - t)
        BY <1>1 DEF Minus, Less
    <3> QED BY <1>1, <1>6, <2>5, <3>1
  <2>7. F(a) = Parsed(w, n)
    <3>1. F(a) = Finish(f, w.proto, src, dst, t, Minus(end, a.off))
        BY <2>2, <2>5
    <3>2. CASE Reached(w, n)
        BY <1>5, <2>4, <2>6, <3>1, <3>2
    <3>3. CASE ~ Reached(w, n)
        BY <1>5, <2>4, <3>1, <3>3
    <3> QED BY <3>2, <3>3
  <2>8. CASE Reached(w, n)
    <3>1. ~ (f.len - l < 40)
        BY <1>1, <2>8
    <3> HIDE DEF F
    <3>2. UNION {F(x) : x \in W} = F(a)
        BY <1>3, <2>8
    <3> QED BY <1>2, <2>7, <3>1, <3>2 DEF f, l
  <2>9. CASE ~ Reached(w, n)
    <3>1. Parsed(w, n) = {}
        BY <1>5, <2>9
    <3> HIDE DEF F
    <3>2. UNION {F(x) : x \in W} = {}
        BY <1>3, <2>7, <3>1
    <3> QED BY <1>2, <3>1, <3>2 DEF f, l
  <2> QED BY <2>8, <2>9
<1>8. CASE ~ (N <= 8)
  <2>1. Passed(w, 8) = 8
      BY <1>1, <1>8 DEF Passed
  <2>2. a.next = w.exts[9].type /\ 9 \in 1 .. N
    <3>1. 8 < N /\ 8 + 1 = 9
        BY <1>1, <1>8
    <3> QED BY <1>1, <2>1, <3>1, SMTT(20) DEF At, NextType
  <2>3. a.next \notin {TCP, UDP}
    <3>1. IsExtension(w.exts[9])
        BY <2>2, ChainType
    <3> QED BY <2>2, <3>1 DEF IsExtension, Options, Fragment, AH, TCP, UDP
  <2> HIDE DEF f, l, t, len, pay, end, N, W, src, dst, a
  <2>4. F(a) = {}
      BY <2>3, FinishNone
  <2> HIDE DEF F
  <2>5. UNION {F(x) : x \in W} = {}
      BY <1>3, <2>4
  <2>6. R = {}
      BY <1>2, <2>5
  <2> QED BY <1>8, <2>6 DEF f, l, N
<1> QED BY <1>7, <1>8

-----------------------------------------------------------------------------
(* The link header.                                                          *)

Link(w) == [et |-> EtherType(w), off |-> LinkLen(w)]

\* What stands behind the i-th tag.
Behind(w, i) == IF i = w.tags THEN EtherType(w) ELSE IF i % 2 = 0 THEN 34984 ELSE 33024

\* An ethertype of IP is none of a tag.
LEMMA EtherTypeIs ==
    ASSUME NEW w, IsFrame(w)
    PROVE  EtherType(w) \in {EthIp, EthIp6} /\ EtherType(w) \notin EthTags
           /\ \A x \in EthTags : x \notin {EthIp, EthIp6}
BY DEF EtherType, EthIp, EthIp6, EthTags

\* A turn at an ethertype that is no tag, and at a tag.
LEMMA UntagPlain == ASSUME NEW f, NEW x, x.et \notin EthTags PROVE Untag(f, x) = {x}
BY DEF Untag

\* The walk x stands at a tag, behind d bytes, and y is behind it.
OverTag(f, et, d, q, r, v, x, y) ==
    /\ f.len \in Nat /\ et \in EthTags /\ d \in Nat /\ q = d + 2 /\ r = d + 4 /\ Reads(f, q, v)
    /\ x = [et |-> et, off |-> d] /\ y = [et |-> v, off |-> r]

\* A turn goes behind the tag if what is there was captured.
LEMMA UntagTag ==
    ASSUME NEW f, NEW et, NEW d, NEW q, NEW r, NEW v, NEW x, NEW y, OverTag(f, et, d, q, r, v, x, y)
    PROVE  Untag(f, x) = IF r > f.len THEN {} ELSE {y}
<1>0. /\ f.len \in Nat /\ et \in EthTags /\ d \in Nat /\ q = d + 2 /\ r = d + 4 /\ Reads(f, q, v)
      /\ x = [et |-> et, off |-> d] /\ y = [et |-> v, off |-> r]
    BY DEF OverTag
<1>1. x.et = et /\ x.off = d
    BY <1>0
<1>2. q + 2 = r
    BY <1>0
<1>3. Get(f, q, 2) = IF q + 2 > f.len THEN {} ELSE {v}
    BY <1>0, ByteReads
<1>4. Untag(f, x) = {[et |-> e, off |-> d + 4] : e \in Get(f, q, 2)}
    BY <1>0, <1>1 DEF Untag
<1> QED BY <1>0, <1>2, <1>3, <1>4

\* strip_link on Ethernet: the walk over two tags.
LEMMA StripEthernet ==
    ASSUME NEW w, IsFrame(w), w.link = "EN10MB", NEW n \in Nat
    PROVE  LET S == StripLink("EN10MB", Captured(w, n))
           IN  /\ \A x \in S : x.et \in {EthIp, EthIp6} => x = Link(w)
               /\ w.tags <= 2 /\ n >= LinkLen(w) => S = {Link(w)}
<1> DEFINE f == Captured(w, n)
           T == w.tags
           S == StripLink("EN10MB", f)
           U(X) == UNION {Untag(f, x) : x \in X}
           A == {[et |-> e, off |-> 14] : e \in Get(f, 12, 2)}
           e0 == Behind(w, 0)
           e1 == Behind(w, 1)
           e2 == Behind(w, 2)
           x0 == [et |-> e0, off |-> 14]
           x1 == [et |-> e1, off |-> 18]
           x2 == [et |-> e2, off |-> 22]
<1>1. T \in Nat /\ f.len = n /\ LinkLen(w) = 14 + 4 * T
    BY CapturedLen DEF IsFrame, LinkLen
<1>2. /\ Reads(f, 12, e0)
      /\ T >= 1 => Reads(f, 16, e1)
      /\ T >= 2 => Reads(f, 20, e2)
  <2>1. \A i \in 0 .. T : Reads(f, 12 + 4 * i, Behind(w, i))
      BY LinkReads DEF Behind
  <2>2. 12 + 4 * 0 = 12 /\ 12 + 4 * 1 = 16 /\ 12 + 4 * 2 = 20
      OBVIOUS
  <2>3. 0 \in 0 .. T /\ (T >= 1 => 1 \in 0 .. T) /\ (T >= 2 => 2 \in 0 .. T)
      BY <1>1
  <2> HIDE DEF f, T
  <2>4. Reads(f, 12 + 4 * 0, Behind(w, 0))
      BY <2>1, <2>3
  <2>5. T >= 1 => Reads(f, 12 + 4 * 1, Behind(w, 1))
      BY <2>1, <2>3
  <2>6. T >= 2 => Reads(f, 12 + 4 * 2, Behind(w, 2))
      BY <2>1, <2>3
  <2> QED BY <2>2, <2>4, <2>5, <2>6
<1>3. /\ T = 0 => e0 = EtherType(w)
      /\ T = 1 => e0 \in EthTags /\ e1 = EtherType(w)
      /\ T = 2 => e0 \in EthTags /\ e1 \in EthTags /\ e2 = EtherType(w)
      /\ T > 2 => e0 \in EthTags /\ e1 \in EthTags /\ e2 \in EthTags
  <2>1. 0 % 2 = 0 /\ 1 % 2 = 1 /\ 2 % 2 = 0
      OBVIOUS
  <2> QED BY <1>1, <2>1 DEF Behind, EthTags
<1>4. EtherType(w) \in {EthIp, EthIp6} /\ EtherType(w) \notin EthTags
      /\ \A x \in EthTags : x \notin {EthIp, EthIp6}
    BY EtherTypeIs
<1>5. S = UNION {UNION {Untag(f, x) : x \in Untag(f, [et |-> e, off |-> 14])} : e \in Get(f, 12, 2)}
    BY DEF StripLink
<1>6. Get(f, 12, 2) = IF 14 > n THEN {} ELSE {e0}
  <2>1. Get(f, 12, 2) = IF 12 + 2 > f.len THEN {} ELSE {e0}
      BY <1>2, ByteReads
  <2> QED BY <1>1, <2>1
<1> HIDE DEF f, e0, e1, e2, T, S
<1>7. S = IF 14 > n THEN {} ELSE UNION {Untag(f, x) : x \in Untag(f, x0)}
    BY <1>5, <1>6
<1>8. Link(w) = [et |-> EtherType(w), off |-> 14 + 4 * T]
    BY <1>1 DEF Link, T
<1>9. T >= 1 => Untag(f, x0) = IF 18 > n THEN {} ELSE {x1}
  <2> SUFFICES ASSUME T >= 1 PROVE Untag(f, x0) = IF 18 > n THEN {} ELSE {x1}
      OBVIOUS
  <2>1. e0 \in EthTags
      BY <1>1, <1>3
  <2> DEFINE d == 14
             q == 16
             r == 18
  <2>2. /\ d \in Nat /\ q = d + 2 /\ r = d + 4 /\ Reads(f, q, e1)
        /\ x0 = [et |-> e0, off |-> d] /\ x1 = [et |-> e1, off |-> r]
      BY <1>2
  <2> HIDE DEF d, q, r, x0, x1
  <2>3. OverTag(f, e0, d, q, r, e1, x0, x1)
      BY <1>1, <2>1, <2>2 DEF OverTag
  <2>4. Untag(f, x0) = IF r > f.len THEN {} ELSE {x1}
      BY <2>3, UntagTag
  <2> QED BY <1>1, <2>4 DEF r
<1>10. T >= 2 => Untag(f, x1) = IF 22 > n THEN {} ELSE {x2}
  <2> SUFFICES ASSUME T >= 2 PROVE Untag(f, x1) = IF 22 > n THEN {} ELSE {x2}
      OBVIOUS
  <2>1. e1 \in EthTags
      BY <1>1, <1>3
  <2> DEFINE d == 18
             q == 20
             r == 22
  <2>2. /\ d \in Nat /\ q = d + 2 /\ r = d + 4 /\ Reads(f, q, e2)
        /\ x1 = [et |-> e1, off |-> d] /\ x2 = [et |-> e2, off |-> r]
      BY <1>2
  <2> HIDE DEF d, q, r, x1, x2
  <2>3. OverTag(f, e1, d, q, r, e2, x1, x2)
      BY <1>1, <2>1, <2>2 DEF OverTag
  <2>4. Untag(f, x1) = IF r > f.len THEN {} ELSE {x2}
      BY <2>3, UntagTag
  <2> QED BY <1>1, <2>4 DEF r
<1>11. /\ e0 \notin EthTags => Untag(f, x0) = {x0}
       /\ e1 \notin EthTags => Untag(f, x1) = {x1}
    BY UntagPlain
<1>12. CASE T = 0
  <2>1. Untag(f, x0) = {x0} /\ x0 = Link(w)
      BY <1>3, <1>4, <1>8, <1>11, <1>12
  <2>2. S = IF 14 > n THEN {} ELSE {Link(w)}
    <3> HIDE DEF x0
    <3> QED BY <1>7, <2>1
  <2>3. LinkLen(w) = 14
      BY <1>1, <1>12 DEF T
  <2> QED BY <2>2, <2>3 DEF S, f
<1>13. CASE T = 1
  <2>1. Untag(f, x1) = {x1} /\ x1 = Link(w) /\ Untag(f, x0) = IF 18 > n THEN {} ELSE {x1}
      BY <1>3, <1>4, <1>8, <1>9, <1>11, <1>13
  <2> HIDE DEF x0, x1
  <2>2. S = IF 18 > n THEN {} ELSE {Link(w)}
      BY <1>7, <2>1
  <2>3. LinkLen(w) = 18
      BY <1>1, <1>13 DEF T
  <2> QED BY <2>2, <2>3 DEF S, f
<1>14. CASE T = 2
  <2>1. /\ Untag(f, x1) = (IF 22 > n THEN {} ELSE {x2}) /\ x2 = Link(w)
        /\ Untag(f, x0) = (IF 18 > n THEN {} ELSE {x1})
      BY <1>3, <1>4, <1>8, <1>9, <1>10, <1>14
  <2> HIDE DEF x0, x1, x2
  <2>2. S = IF 22 > n THEN {} ELSE {Link(w)}
      BY <1>7, <2>1
  <2>3. LinkLen(w) = 22
      BY <1>1, <1>14 DEF T
  <2> QED BY <2>2, <2>3 DEF S, f
<1>15. CASE T > 2
  <2>1. /\ Untag(f, x1) = (IF 22 > n THEN {} ELSE {x2}) /\ x2.et \notin {EthIp, EthIp6}
        /\ Untag(f, x0) = (IF 18 > n THEN {} ELSE {x1})
      BY <1>1, <1>3, <1>4, <1>9, <1>10, <1>15
  <2> HIDE DEF x0, x1, x2
  <2>2. S \subseteq {x2}
      BY <1>7, <2>1
  <2>3. ~ (w.tags <= 2)
      BY <1>1, <1>15 DEF T
  <2> QED BY <2>1, <2>2, <2>3 DEF S, f
<1> QED BY <1>1, <1>12, <1>13, <1>14, <1>15

\* The version nibble tells the family.
LEMMA VersionIs ==
    ASSUME NEW w, IsFrame(w), NEW n \in Nat
    PROVE  ByVersion(Captured(w, n), LinkLen(w)) = IF LinkLen(w) + 1 > n THEN {} ELSE {Link(w)}
<1> DEFINE f == Captured(w, n)
           l == LinkLen(w)
           v == IF w.family = 4 THEN 64 + w.words ELSE 96
<1>1. w.family \in {4, 6} /\ (w.family = 4 => w.words \in 0 .. 15) /\ f.len = n
    BY CapturedLen DEF IsFrame
<1>2. Reads(f, l, v)
    BY <1>1, Ipv4Reads, Ipv6Reads
<1>3. v \div 16 = w.family
  <2>1. \A k \in 0 .. 15 : (64 + k) \div 16 = 4
      OBVIOUS
  <2>2. 96 \div 16 = 6
      OBVIOUS
  <2> QED BY <1>1, <2>1, <2>2
<1> HIDE DEF f, l, v
<1>4. Get(f, l, 1) = IF l + 1 > n THEN {} ELSE {v}
    BY <1>1, <1>2, ByteReads
<1>5. Link(w) = [et |-> IF w.family = 4 THEN EthIp ELSE EthIp6, off |-> l]
    BY DEF Link, EtherType, l
<1>6. ByVersion(f, l) =
        UNION {CASE x \div 16 = 4 -> {[et |-> EthIp, off |-> l]}
                 [] x \div 16 = 6 -> {[et |-> EthIp6, off |-> l]}
                 [] OTHER -> {} : x \in Get(f, l, 1)}
    BY DEF ByVersion
<1>7. (CASE v \div 16 = 4 -> {[et |-> EthIp, off |-> l]}
         [] v \div 16 = 6 -> {[et |-> EthIp6, off |-> l]}
         [] OTHER -> {}) = {Link(w)}
    BY <1>1, <1>3, <1>5
<1>8. ByVersion(f, l) = IF l + 1 > n THEN {} ELSE {Link(w)}
    BY <1>4, <1>6, <1>7
<1> QED BY <1>8 DEF f, l

\* strip_link finds the network header or nothing that is taken for one.
LEMMA StripIs ==
    ASSUME NEW w, IsFrame(w), NEW n \in Nat
    PROVE  LET S == StripLink(w.link, Captured(w, n))
           IN  /\ \A x \in S : x.et \in {EthIp, EthIp6} => x = Link(w)
               /\ w.tags <= 2 /\ n >= LinkLen(w) + 1 => S = {Link(w)}
<1> DEFINE f == Captured(w, n)
           S == StripLink(w.link, f)
           Goal == /\ \A x \in S : x.et \in {EthIp, EthIp6} => x = Link(w)
                   /\ w.tags <= 2 /\ n >= LinkLen(w) + 1 => S = {Link(w)}
<1>1. LinkLen(w) \in Nat
    BY LinkLenType
<1>2. CASE w.link = "EN10MB"
  <2>1. n >= LinkLen(w) + 1 => n >= LinkLen(w)
      BY <1>1
  <2> QED BY <1>2, <2>1, StripEthernet
<1>3. CASE w.link = "LINUX_SLL"
  <2>1. Reads(f, 14, EtherType(w)) /\ f.len = n /\ LinkLen(w) = 16
      BY <1>3, LinkReads, CapturedLen DEF LinkLen
  <2>2. S = {[et |-> et, off |-> 16] : et \in Get(f, 14, 2)}
      BY <1>3 DEF StripLink
  <2>3. Link(w) = [et |-> EtherType(w), off |-> 16]
      BY <2>1 DEF Link
  <2>4. Get(f, 14, 2) = IF 14 + 2 > f.len THEN {} ELSE {EtherType(w)}
      BY <2>1, ByteReads
  <2> HIDE DEF f, S
  <2>5. S = IF 16 > n THEN {} ELSE {Link(w)}
      BY <2>1, <2>2, <2>3, <2>4
  <2>6. Goal
      BY <2>1, <2>5
  <2> QED BY <2>6 DEF S, f
<1>4. CASE w.link \in {"RAW", "NULL"}
  <2>1. S = ByVersion(f, LinkLen(w))
      BY <1>4 DEF StripLink, LinkLen
  <2>2. S = IF LinkLen(w) + 1 > n THEN {} ELSE {Link(w)}
      BY <2>1, VersionIs
  <2> HIDE DEF f, S
  <2>3. Goal
      BY <1>1, <2>2
  <2> QED BY <2>3 DEF S, f
<1> QED BY <1>2, <1>3, <1>4 DEF IsFrame

-----------------------------------------------------------------------------
(* parse_frame.                                                              *)

\* The parser of the network header of a frame.
ParseIp(w, f) == IF w.family = 4 THEN ParseIpv4(f, LinkLen(w)) ELSE ParseIpv6(f, LinkLen(w))

\* Nothing but the network header is parsed as one.
LEMMA ParseFrameIn ==
    ASSUME NEW w, IsFrame(w), NEW n \in Nat
    PROVE  LET f == Captured(w, n)
           IN  /\ ParseFrame(w.link, f) \subseteq ParseIp(w, f)
               /\ w.tags <= 2 /\ n >= LinkLen(w) + 1 => ParseFrame(w.link, f) = ParseIp(w, f)
<1> DEFINE f == Captured(w, n)
           S == StripLink(w.link, f)
           P(x) == CASE x.et = EthIp  -> ParseIpv4(f, x.off)
                     [] x.et = EthIp6 -> ParseIpv6(f, x.off)
                     [] OTHER         -> {}
<1>1. ParseFrame(w.link, f) = UNION {P(x) : x \in S}
    BY DEF ParseFrame
<1>2. P(Link(w)) = ParseIp(w, f)
  <2>1. Link(w).et = EtherType(w) /\ Link(w).off = LinkLen(w)
      BY DEF Link
  <2>2. EtherType(w) = (IF w.family = 4 THEN EthIp ELSE EthIp6) /\ EthIp # EthIp6
      BY DEF EtherType, EthIp, EthIp6
  <2> QED BY <2>1, <2>2 DEF ParseIp
<1>3. ASSUME NEW x, x.et \notin {EthIp, EthIp6} PROVE P(x) = {}
    BY <1>3
<1>4. /\ \A x \in S : x.et \in {EthIp, EthIp6} => x = Link(w)
      /\ w.tags <= 2 /\ n >= LinkLen(w) + 1 => S = {Link(w)}
    BY StripIs
<1> HIDE DEF f, S, P
<1>5. UNION {P(x) : x \in S} \subseteq ParseIp(w, f)
  <2> SUFFICES ASSUME NEW x \in S PROVE P(x) \subseteq ParseIp(w, f)
      OBVIOUS
  <2>1. CASE x.et \in {EthIp, EthIp6}
      BY <1>2, <1>4, <2>1
  <2>2. CASE x.et \notin {EthIp, EthIp6}
      BY <1>3, <2>2
  <2> QED BY <2>1, <2>2
<1>6. S = {Link(w)} => UNION {P(x) : x \in S} = ParseIp(w, f)
    BY <1>2
<1> QED BY <1>1, <1>4, <1>5, <1>6 DEF f

\* parse_frame finds the packet or nothing, and it finds every packet that is
\* within the reach of its two walks.
LEMMA ParseFrameIs ==
    ASSUME NEW w, IsFrame(w), ~ w.later, NoAuth(w), NEW n \in Nat
    PROVE  /\ ParseFrame(w.link, Captured(w, n)) \subseteq Parsed(w, n)
           /\ w.tags <= 2 /\ Len(w.exts) <= 8 => ParseFrame(w.link, Captured(w, n)) = Parsed(w, n)
<1> DEFINE f == Captured(w, n)
           R == ParseFrame(w.link, f)
<1>1. ParseIp(w, f) \subseteq Parsed(w, n) /\ (Len(w.exts) <= 8 => ParseIp(w, f) = Parsed(w, n))
  <2>1. CASE w.family = 4
    <3>1. ParseIp(w, f) = Parsed(w, n)
        BY <2>1, ParseIpv4Is DEF ParseIp
    <3> QED BY <3>1
  <2>2. CASE w.family = 6
    <3>1. ParseIp(w, f) = ParseIpv6(f, LinkLen(w))
        BY <2>2 DEF ParseIp
    <3> QED BY <2>2, <3>1, ParseIpv6Is
  <2> QED BY <2>1, <2>2 DEF IsFrame
<1>2. R \subseteq ParseIp(w, f) /\ (w.tags <= 2 /\ n >= LinkLen(w) + 1 => R = ParseIp(w, f))
    BY ParseFrameIn
<1>3. ~ (n >= LinkLen(w) + 1) => Parsed(w, n) = {}
  <2>1. Reached(w, n) => n >= TransportStart(w) + 8
      BY LensType DEF Reached
  <2>2. TransportStart(w) \in Nat /\ LinkLen(w) \in Nat /\ TransportStart(w) >= LinkLen(w) + 20
    <3> DEFINE t == TransportStart(w)
               l == LinkLen(w)
    <3>1. l \in Nat
        BY LinkLenType
    <3>2. t \in Nat /\ (w.family = 4 => t >= l + 20) /\ (w.family = 6 => t >= l + 40)
        BY TransportFacts
    <3>3. w.family = 4 \/ w.family = 6
        BY DEF IsFrame
    <3> HIDE DEF t, l
    <3>4. t >= l + 20
        BY <3>1, <3>2, <3>3
    <3> QED BY <3>1, <3>2, <3>4 DEF t, l
  <2>3. Reached(w, n) => n >= LinkLen(w) + 1
      BY <2>1, <2>2
  <2> QED BY <2>3 DEF Parsed
<1> HIDE DEF f, R
<1>4. R \subseteq Parsed(w, n) /\ (w.tags <= 2 /\ Len(w.exts) <= 8 => R = Parsed(w, n))
    BY <1>1, <1>2, <1>3
<1> QED BY <1>4 DEF R, f

-----------------------------------------------------------------------------
(* The kernel program.                                                       *)

\* The record of a frame.
Record(w) ==
    [family |-> w.family, proto |-> w.proto, saddr |-> w.src, daddr |-> w.dst, sport |-> Sport, dport |-> Dport,
     flags |-> IF w.proto = TCP THEN w.flags ELSE 0, seq |-> IF w.proto = TCP THEN w.seq ELSE 0,
     ack |-> IF w.proto = TCP THEN AckNo ELSE 0, window |-> IF w.proto = TCP THEN Window ELSE 0,
     payload_len |-> w.payload]

\* decode makes the packet of it.
LEMMA DecodeIs ==
    ASSUME NEW w, IsFrame(w), w.proto \in {TCP, UDP}
    PROVE  Decode(Record(w)) = {Sent(w)}
<1> DEFINE ev == Record(w)
<1>1. /\ ev.family = w.family /\ ev.proto = w.proto /\ ev.saddr = w.src /\ ev.daddr = w.dst
      /\ ev.sport = Sport /\ ev.dport = Dport /\ ev.payload_len = w.payload
    BY DEF Record
<1>2. w.proto = TCP => ev.flags = w.flags /\ ev.seq = w.seq /\ ev.ack = AckNo /\ ev.window = Window
    BY DEF Record
<1>3. w.proto # TCP => ev.flags = 0 /\ ev.seq = 0 /\ ev.ack = 0 /\ ev.window = 0
    BY DEF Record
<1>4. w.family \in {4, 6} /\ TCP # UDP
    BY DEF IsFrame, TCP, UDP
<1>5. FlagsOf(0) = {}
  <2>1. \A fl \in DOMAIN FlagBit : FlagBit[fl] \in {1, 2, 4, 16}
      BY DEF FlagBit
  <2>2. \A k \in {1, 2, 4, 16} : (0 \div k) % 2 = 0
      OBVIOUS
  <2> QED BY <2>1, <2>2 DEF FlagsOf
<1> DEFINE A(x) == IF ev.family = 4 THEN x ELSE V6(x)
<1>6. A(w.src) = Address(w, w.src) /\ A(w.dst) = Address(w, w.dst)
    BY <1>1 DEF Address
<1>7. Decode(ev) = {Build([ip |-> A(ev.saddr), port |-> ev.sport], [ip |-> A(ev.daddr), port |-> ev.dport],
                          IF ev.proto = TCP THEN "Tcp" ELSE "Udp", FlagsOf(ev.flags), ev.seq, ev.ack,
                          ev.window, ev.payload_len)}
  <2> HIDE DEF ev
  <2> QED BY <1>1, <1>4 DEF Decode
<1>8. CASE w.proto = TCP
  <2> HIDE DEF ev, A
  <2> QED BY <1>1, <1>2, <1>6, <1>7, <1>8 DEF Sent, ev
<1>9. CASE w.proto # TCP
  <2> HIDE DEF ev, A
  <2> QED BY <1>1, <1>3, <1>5, <1>6, <1>7, <1>9 DEF Sent, ev
<1> QED BY <1>8, <1>9

\* A record, and how emit_l4 fills it in for TCP.
Event(a, b, c, d, e, g, flags, seq, ack, window, len) ==
    [family |-> a, proto |-> b, saddr |-> c, daddr |-> d, sport |-> e, dport |-> g,
     flags |-> flags, seq |-> seq, ack |-> ack, window |-> window, payload_len |-> len]

FillIn(ev, flags, seq, ack, window, len) ==
    [ev EXCEPT !.flags = flags, !.seq = seq, !.ack = ack, !.window = window, !.payload_len = len]

\* What was there before does not remain.
LEMMA Filled ==
    ASSUME NEW a, NEW b, NEW c, NEW d, NEW e, NEW g, NEW flags, NEW seq, NEW ack, NEW window, NEW len,
           NEW ev, ev = Event(a, b, c, d, e, g, 0, 0, 0, 0, 0)
    PROVE  FillIn(ev, flags, seq, ack, window, len) = Event(a, b, c, d, e, g, flags, seq, ack, window, len)
<1>0. ev = [family |-> a, proto |-> b, saddr |-> c, daddr |-> d, sport |-> e, dport |-> g,
            flags |-> 0, seq |-> 0, ack |-> 0, window |-> 0, payload_len |-> 0]
    BY DEF Event
<1> DEFINE e1 == [ev EXCEPT !.flags = flags]
           e2 == [e1 EXCEPT !.seq = seq]
           e3 == [e2 EXCEPT !.ack = ack]
           e4 == [e3 EXCEPT !.window = window]
           e5 == [e4 EXCEPT !.payload_len = len]
<1>1. e1 = [family |-> a, proto |-> b, saddr |-> c, daddr |-> d, sport |-> e, dport |-> g,
            flags |-> flags, seq |-> 0, ack |-> 0, window |-> 0, payload_len |-> 0]
    BY <1>0
<1> HIDE DEF e1
<1>2. e2 = [family |-> a, proto |-> b, saddr |-> c, daddr |-> d, sport |-> e, dport |-> g,
            flags |-> flags, seq |-> seq, ack |-> 0, window |-> 0, payload_len |-> 0]
    BY <1>1
<1> HIDE DEF e2
<1>3. e3 = [family |-> a, proto |-> b, saddr |-> c, daddr |-> d, sport |-> e, dport |-> g,
            flags |-> flags, seq |-> seq, ack |-> ack, window |-> 0, payload_len |-> 0]
    BY <1>2
<1> HIDE DEF e3
<1>4. e4 = [family |-> a, proto |-> b, saddr |-> c, daddr |-> d, sport |-> e, dport |-> g,
            flags |-> flags, seq |-> seq, ack |-> ack, window |-> window, payload_len |-> 0]
    BY <1>3
<1> HIDE DEF e4
<1>5. e5 = [family |-> a, proto |-> b, saddr |-> c, daddr |-> d, sport |-> e, dport |-> g,
            flags |-> flags, seq |-> seq, ack |-> ack, window |-> window, payload_len |-> len]
    BY <1>4
<1>6. [ev EXCEPT !.flags = flags, !.seq = seq, !.ack = ack, !.window = window, !.payload_len = len] = e5
    BY DEF e1, e2, e3, e4
<1> QED BY <1>5, <1>6 DEF Event, FillIn

\* emit_l4 writes it when the transport header was captured.
LEMMA EmitIs ==
    ASSUME NEW w, IsFrame(w), ~ w.later, HonestLengths(w), w.proto \in {TCP, UDP}, NEW n \in Nat,
           NEW room, room = TransportLen(w) + w.payload
    PROVE  EmitL4(Captured(w, n), w.family, w.proto, w.src, w.dst, TransportStart(w), room)
             = IF Reached(w, n) THEN {Record(w)} ELSE {}
<1> DEFINE f == Captured(w, n)
           l == TransportStart(w)
           pay == w.payload
           ev == [family |-> w.family, proto |-> w.proto, saddr |-> w.src, daddr |-> w.dst,
                  sport |-> Byte(f, l), dport |-> Byte(f, l + 2), flags |-> 0,
                  seq |-> 0, ack |-> 0, window |-> 0, payload_len |-> 0]
           E == EmitL4(f, w.family, w.proto, w.src, w.dst, l, room)
<1>1. f.len = n /\ l \in Nat /\ pay \in Nat /\ TCP # UDP /\ TransportLen(w) \in Nat
    BY CapturedLen, LensType DEF TCP, UDP
<1>2. Byte(f, l) = Sport /\ Byte(f, l + 2) = Dport
    BY TransportReads, ByteReads
<1>3. CASE w.proto = TCP
  <2>1. /\ Byte(f, l + 4) = w.seq /\ Byte(f, l + 8) = AckNo /\ Byte(f, l + 14) = Window
        /\ Byte(f, l + 12) = 16 * w.doff /\ Byte(f, l + 13) = Ece + w.flags
      BY <1>3, TransportReads, ByteReads
  <2>2. w.doff \in 0 .. 15 /\ w.doff >= 5 /\ w.flags \in 0 .. 63
      BY <1>3 DEF IsFrame, HonestLengths
  <2>3. (16 * w.doff) \div 16 = w.doff /\ (Ece + w.flags) % 64 = w.flags
      BY <2>2 DEF Ece
  <2>4. 4 * (Byte(f, l + 12) \div 16) = TransportLen(w) /\ Byte(f, l + 13) % 64 = w.flags
    <3>1. TransportLen(w) = 4 * w.doff
        BY <1>3, <2>2, HeaderLenIs DEF TransportLen
    <3> QED BY <2>1, <2>3, <3>1
  <2>5. Minus(room, TransportLen(w)) = pay
    <3> DEFINE k == TransportLen(w)
    <3>1. k \in Nat /\ room = k + pay
        BY <1>1
    <3> HIDE DEF k, pay
    <3>2. Minus(room, k) = pay
        BY <1>1, <3>1 DEF Minus
    <3> QED BY <3>2 DEF k
  <2>6. l + 20 <= f.len <=> Reached(w, n)
      BY <1>1, <1>3 DEF Reached
  <2>7. [ev EXCEPT !.flags = w.flags, !.seq = w.seq, !.ack = AckNo, !.window = Window, !.payload_len = pay]
          = Record(w)
    <3> DEFINE E1 == Event(w.family, w.proto, w.src, w.dst, Sport, Dport, w.flags, w.seq, AckNo, Window, pay)
    <3>1. Record(w) = E1
        BY <1>3 DEF Record, Event
    <3>2. ev = Event(w.family, w.proto, w.src, w.dst, Sport, Dport, 0, 0, 0, 0, 0)
        BY <1>2 DEF Event
    <3> HIDE DEF ev, pay
    <3>3. FillIn(ev, w.flags, w.seq, AckNo, Window, pay) = E1
        BY <3>2, Filled
    <3> QED BY <3>1, <3>3 DEF FillIn
  <2> HIDE DEF f, l, pay, E
  <2>8. E = IF l + 20 <= f.len
            THEN {[ev EXCEPT !.flags = Byte(f, l + 13) % 64, !.seq = Byte(f, l + 4),
                             !.ack = Byte(f, l + 8), !.window = Byte(f, l + 14),
                             !.payload_len = Minus(room, 4 * (Byte(f, l + 12) \div 16))]}
            ELSE {}
      BY <1>1, <1>3 DEF EmitL4, E
  <2> HIDE DEF ev
  <2>9. E = IF Reached(w, n) THEN {Record(w)} ELSE {}
      BY <2>1, <2>4, <2>5, <2>6, <2>7, <2>8
  <2> QED BY <2>9 DEF E, f, l
<1>4. CASE w.proto = UDP
  <2>1. Byte(f, l + 4) = 8 + pay
      BY <1>1, <1>4, TransportReads, ByteReads
  <2>2. Minus(Byte(f, l + 4), 8) = pay
      BY <1>1, <2>1 DEF Minus
  <2>3. l + 8 <= f.len <=> Reached(w, n)
      BY <1>1, <1>4 DEF Reached
  <2>4. [ev EXCEPT !.payload_len = pay] = Record(w)
      BY <1>1, <1>2, <1>4 DEF Record
  <2> HIDE DEF f, l, pay, E
  <2>5. E = IF l + 8 <= f.len THEN {[ev EXCEPT !.payload_len = Minus(Byte(f, l + 4), 8)]} ELSE {}
      BY <1>1, <1>4 DEF EmitL4, E
  <2> HIDE DEF ev
  <2>6. E = IF Reached(w, n) THEN {Record(w)} ELSE {}
      BY <2>2, <2>3, <2>4, <2>5
  <2> QED BY <2>6 DEF E, f, l
<1> QED BY <1>3, <1>4

\* With honest length fields the backend reports a packet exactly when it comes
\* without tags and without extension headers and its headers were captured.
LEMMA FromKernelIs ==
    ASSUME NEW w, IsFrame(w), ~ w.later, HonestLengths(w), w.link = "EN10MB", NEW n \in Nat
    PROVE  FromKernel(Captured(w, n))
             = IF w.tags = 0 /\ w.exts = <<>> /\ Reached(w, n) THEN {Sent(w)} ELSE {}
<1> DEFINE f == Captured(w, n)
           t == TransportStart(w)
           len == TransportLen(w)
           pay == w.payload
           pad == w.pad
           full == FullLen(w)
           H == Handle(f)
           Goal == H = IF w.tags = 0 /\ w.exts = <<>> /\ Reached(w, n) THEN {Record(w)} ELSE {}
<1>1. /\ f.len = n /\ t \in Nat /\ len \in Nat /\ len >= 8 /\ pay \in Nat /\ pad \in Nat
      /\ full = t + len + pay + pad /\ EthIp # EthIp6 /\ w.tags \in Nat /\ w.family \in {4, 6}
    BY CapturedLen, LensType, SMTT(20) DEF FullLen, EthIp, EthIp6, IsFrame
<1>2. Reached(w, n) => n >= t + 8 /\ w.proto \in {TCP, UDP}
    BY <1>1 DEF Reached
<1>3. \A room : room = len + pay /\ w.proto \in {TCP, UDP}
                  => EmitL4(f, w.family, w.proto, w.src, w.dst, t, room)
                       = IF Reached(w, n) THEN {Record(w)} ELSE {}
    BY EmitIs
<1> SUFFICES Goal
  <2>1. w.proto \in {TCP, UDP} => Decode(Record(w)) = {Sent(w)}
      BY DecodeIs
  <2>2. FromKernel(f) = UNION {Decode(ev) : ev \in H}
      BY DEF FromKernel
  <2> HIDE DEF H, f
  <2>3. ASSUME Goal PROVE FromKernel(f) = IF w.tags = 0 /\ w.exts = <<>> /\ Reached(w, n) THEN {Sent(w)} ELSE {}
    <3>1. CASE w.tags = 0 /\ w.exts = <<>> /\ Reached(w, n)
        BY <1>2, <2>1, <2>2, <2>3, <3>1
    <3>2. CASE ~ (w.tags = 0 /\ w.exts = <<>> /\ Reached(w, n))
        BY <2>2, <2>3, <3>2
    <3> QED BY <3>1, <3>2
  <2> QED BY <2>3 DEF f, H
<1>4. CASE w.tags # 0
  <2>1. Byte(f, 12) = 34984
    <3>1. 0 \in 0 .. w.tags /\ 12 + 4 * 0 = 12 /\ 0 % 2 = 0
        BY <1>1
    <3>2. Reads(f, 12 + 4 * 0, IF 0 = w.tags THEN EtherType(w) ELSE IF 0 % 2 = 0 THEN 34984 ELSE 33024)
        BY <3>1, LinkReads
    <3>3. Reads(f, 12, 34984)
        BY <1>4, <3>1, <3>2
    <3> QED BY <3>3, ByteReads
  <2> HIDE DEF f
  <2>2. H = {}
      BY <2>1 DEF Handle, EthIp, EthIp6
  <2> QED BY <1>4, <2>2
<1>5. CASE w.tags = 0
  <2>1. LinkLen(w) = 14
      BY <1>5 DEF LinkLen
  <2>2. Byte(f, 12) = EtherType(w)
    <3>1. 0 \in 0 .. w.tags /\ 12 + 4 * 0 = 12
        BY <1>1
    <3>2. Reads(f, 12 + 4 * 0, IF 0 = w.tags THEN EtherType(w) ELSE IF 0 % 2 = 0 THEN 34984 ELSE 33024)
        BY <3>1, LinkReads
    <3>3. Reads(f, 12, EtherType(w))
        BY <1>5, <3>1, <3>2
    <3> QED BY <3>3, ByteReads
  <2>3. CASE w.family = 4
    <3> DEFINE k == w.words
    <3>1. /\ Byte(f, 14) = 64 + k /\ Byte(f, 16) = full - pad - 14
          /\ Byte(f, 23) = w.proto /\ Byte(f, 26) = w.src /\ Byte(f, 30) = w.dst
      <4>1. 14 + 2 = 16 /\ 14 + 9 = 23 /\ 14 + 12 = 26 /\ 14 + 16 = 30
          OBVIOUS
      <4>2. /\ Reads(f, 14, 64 + k) /\ Reads(f, 14 + 2, full - pad - 14)
            /\ Reads(f, 14 + 9, w.proto) /\ Reads(f, 14 + 12, w.src) /\ Reads(f, 14 + 16, w.dst)
          BY <2>1, <2>3, Ipv4Reads
      <4> HIDE DEF f, k, full, pad
      <4>3. /\ Reads(f, 14, 64 + k) /\ Reads(f, 16, full - pad - 14)
            /\ Reads(f, 23, w.proto) /\ Reads(f, 26, w.src) /\ Reads(f, 30, w.dst)
          BY <4>1, <4>2
      <4> QED BY <4>3, ByteReads
    <3>2. k \in 5 .. 15 /\ t = 14 + 4 * k /\ w.exts = <<>> /\ EtherType(w) = EthIp
      <4>1. k \in 0 .. 15 /\ k >= 5 /\ w.exts = <<>> /\ EtherType(w) = EthIp /\ t = 14 + HeaderLen(k)
          BY <2>1, <2>3 DEF IsFrame, HonestLengths, TransportStart, EtherType
      <4>2. HeaderLen(k) = 4 * k
          BY <4>1, HeaderLenIs
      <4> HIDE DEF k, t
      <4> QED BY <4>1, <4>2
    <3> HIDE DEF f, t, len, pay, pad, full, k
    <3>3. 4 * (Byte(f, 14) % 16) = 4 * k
      <4>1. (64 + k) % 16 = k
          BY <3>2
      <4> QED BY <3>1, <4>1
    <3>4. Minus(Byte(f, 16), 4 * k) = len + pay
      <4>1. full - pad - 14 = 4 * k + len + pay
          BY <1>1, <3>2
      <4> QED BY <1>1, <3>1, <3>2, <4>1 DEF Minus
    <3> DEFINE E == EmitL4(f, w.family, w.proto, w.src, w.dst, t, len + pay)
    <3>5. w.proto \in {TCP, UDP} => E = IF Reached(w, n) THEN {Record(w)} ELSE {}
        BY <1>3
    <3>6. H = IF f.len < 14 THEN {} ELSE IF 34 <= f.len /\ w.proto \in {TCP, UDP} THEN E ELSE {}
      <4>1. /\ Byte(f, 12) = EthIp /\ Byte(f, 23) = w.proto /\ Byte(f, 26) = w.src /\ Byte(f, 30) = w.dst
            /\ 14 + 4 * (Byte(f, 14) % 16) = t /\ Minus(Byte(f, 16), 4 * (Byte(f, 14) % 16)) = len + pay
            /\ w.family = 4
          BY <2>2, <2>3, <3>1, <3>2, <3>3, <3>4
      <4>2. H = IF f.len < 14 THEN {}
                ELSE IF 34 <= f.len /\ Byte(f, 23) \in {TCP, UDP}
                THEN EmitL4(f, 4, Byte(f, 23), Byte(f, 26), Byte(f, 30), 14 + 4 * (Byte(f, 14) % 16),
                            Minus(Byte(f, 16), 4 * (Byte(f, 14) % 16)))
                ELSE {}
          BY <1>1, <4>1 DEF Handle
      <4> QED BY <4>1, <4>2
    <3> HIDE DEF E, H
    <3>7. Reached(w, n) => ~ (f.len < 14) /\ 34 <= f.len /\ w.proto \in {TCP, UDP}
        BY <1>1, <1>2, <3>2
    <3>8. H = IF Reached(w, n) THEN {Record(w)} ELSE {}
        BY <3>5, <3>6, <3>7
    <3> QED BY <1>5, <3>2, <3>8
  <2>4. CASE w.family = 6
    <3> DEFINE m == NextType(w, 0)
    <3>1. Byte(f, 18) = full - pad - 14 - 40 /\ Byte(f, 20) = m /\ Byte(f, 22) = w.src /\ Byte(f, 38) = w.dst
      <4>1. 14 + 4 = 18 /\ 14 + 6 = 20 /\ 14 + 8 = 22 /\ 14 + 24 = 38
          OBVIOUS
      <4>2. /\ Reads(f, 14 + 4, full - pad - 14 - 40) /\ Reads(f, 14 + 6, m)
            /\ Reads(f, 14 + 8, w.src) /\ Reads(f, 14 + 24, w.dst)
          BY <2>1, <2>4, Ipv6Reads
      <4> HIDE DEF f, m, full, pad
      <4>3. /\ Reads(f, 18, full - pad - 14 - 40) /\ Reads(f, 20, m)
            /\ Reads(f, 22, w.src) /\ Reads(f, 38, w.dst)
          BY <4>1, <4>2
      <4> QED BY <4>3, ByteReads
    <3>2. EtherType(w) = EthIp6
        BY <2>4 DEF EtherType
    <3>3. CASE w.exts = <<>>
      <4>1. m = w.proto /\ t = 54
        <5>1. Len(w.exts) = 0
            BY <3>3
        <5>2. m = w.proto
            BY <5>1 DEF NextType
        <5>3. t = ExtStart(w, 0 + 1) /\ ExtStart(w, 1) = 14 + 40
            BY <2>1, <2>4, <5>1, ExtFacts DEF TransportStart
        <5> QED BY <5>2, <5>3
      <4> HIDE DEF f, t, len, pay, pad, full, m
      <4>2. full - pad - 14 - 40 = len + pay
          BY <1>1, <4>1
      <4> DEFINE E == EmitL4(f, w.family, w.proto, w.src, w.dst, t, len + pay)
      <4>3. w.proto \in {TCP, UDP} => E = IF Reached(w, n) THEN {Record(w)} ELSE {}
          BY <1>3
      <4>4. H = IF f.len < 14 THEN {} ELSE IF 54 <= f.len /\ w.proto \in {TCP, UDP} THEN E ELSE {}
        <5>1. /\ Byte(f, 12) = EthIp6 /\ Byte(f, 20) = w.proto /\ Byte(f, 22) = w.src
              /\ Byte(f, 38) = w.dst /\ Byte(f, 18) = len + pay /\ w.family = 6 /\ t = 54
            BY <2>2, <2>4, <3>1, <3>2, <4>1, <4>2
        <5>2. H = IF f.len < 14 THEN {}
                  ELSE IF 54 <= f.len /\ Byte(f, 20) \in {TCP, UDP}
                  THEN EmitL4(f, 6, Byte(f, 20), Byte(f, 22), Byte(f, 38), 54, Byte(f, 18))
                  ELSE {}
            BY <1>1, <5>1 DEF Handle
        <5> QED BY <5>1, <5>2
      <4> HIDE DEF E, H
      <4>5. Reached(w, n) => ~ (f.len < 14) /\ 54 <= f.len /\ w.proto \in {TCP, UDP}
          BY <1>1, <1>2, <4>1
      <4>6. H = IF Reached(w, n) THEN {Record(w)} ELSE {}
          BY <4>3, <4>4, <4>5
      <4> QED BY <1>5, <3>3, <4>6
    <3>4. CASE w.exts # <<>>
      <4>1. Len(w.exts) \in Nat /\ Len(w.exts) # 0
        <5>1. w.exts \in Seq(Range(w.exts))
            BY DEF IsFrame
        <5> QED BY <3>4, <5>1, EmptySeq, LenProperties
      <4>2. m = w.exts[1].type /\ 1 \in 1 .. Len(w.exts)
        <5>1. 0 < Len(w.exts) /\ 0 + 1 = 1
            BY <4>1
        <5> QED BY <4>1, <5>1 DEF NextType
      <4>3. IsExtension(w.exts[1])
          BY <4>2, ChainType
      <4>4. m \notin {TCP, UDP}
          BY <4>2, <4>3 DEF IsExtension, Options, Fragment, AH, TCP, UDP
      <4> HIDE DEF f, m
      <4>5. H = {}
          BY <1>1, <2>2, <3>1, <3>2, <4>4 DEF Handle
      <4> QED BY <3>4, <4>5
    <3> QED BY <3>3, <3>4
  <2> QED BY <1>1, <2>3, <2>4
<1> QED BY <1>4, <1>5

-----------------------------------------------------------------------------
(* Powers of two, and division by them.                                      *)

\* The powers of two are the sizes of the sets of subsets.
LEMMA PowerType == ASSUME NEW n \in Nat PROVE 2^n \in Nat \ {0}
<1> DEFINE A == 1 .. n
<1>1. IsFiniteSet(A) /\ Cardinality(A) = n
    BY FS_Interval
<1>2. IsFiniteSet(SUBSET A) /\ Cardinality(SUBSET A) = 2^n
    BY <1>1, FS_SUBSET
<1>3. SUBSET A # {}
    OBVIOUS
<1> HIDE DEF A
<1> QED BY <1>2, <1>3, FS_EmptySet, FS_CardinalityType

\* Each element doubles their number.
LEMMA PowerStep == ASSUME NEW n \in Nat PROVE 2^(n + 1) = 2 * 2^n
<1> DEFINE m == n + 1
           A == 1 .. n
           B == 1 .. m
           S == SUBSET A
           T == (SUBSET B) \ S
           f == [s \in S |-> s \cup {m}]
<1>1. /\ IsFiniteSet(A) /\ Cardinality(A) = n /\ IsFiniteSet(B) /\ Cardinality(B) = m
  <2>1. m \in Int /\ ~ (1 > m) /\ m - 1 + 1 = m
      OBVIOUS
  <2> HIDE DEF m
  <2> QED BY <2>1, FS_Interval
<1>2. m \notin A /\ B = A \cup {m}
    OBVIOUS
<1>3. /\ IsFiniteSet(S) /\ Cardinality(S) = 2^n /\ IsFiniteSet(SUBSET B) /\ Cardinality(SUBSET B) = 2^m
    BY <1>1, FS_SUBSET
<1> HIDE DEF A, B, m
<1>4. f \in Bijection(S, T)
  <2>1. f \in [S -> T]
      BY <1>2
  <2>2. \A s, u \in S : f[s] = f[u] => s = u
    <3> SUFFICES ASSUME NEW s \in S, NEW u \in S, s \cup {m} = u \cup {m} PROVE s = u
        OBVIOUS
    <3>1. m \notin s /\ m \notin u
        BY <1>2
    <3> QED BY <3>1
  <2>3. \A u \in T : \E s \in S : f[s] = u
    <3> SUFFICES ASSUME NEW u \in T PROVE \E s \in S : s \cup {m} = u
        OBVIOUS
    <3>1. u \ {m} \in S /\ (u \ {m}) \cup {m} = u
        BY <1>2
    <3> QED BY <3>1
  <2> QED BY <2>1, <2>2, <2>3 DEF Bijection, Injection, Surjection, IsInjective
<1>5. IsFiniteSet(T) /\ Cardinality(T) = 2^n
    BY <1>3, <1>4, FS_Bijection DEF ExistsBijection
<1>6. SUBSET B = S \cup T /\ S \cap T = {}
    BY <1>2
<1> HIDE DEF S, T
<1>7. Cardinality(SUBSET B) = 2^n + 2^n - 0
    BY <1>3, <1>5, <1>6, FS_Union, FS_EmptySet, ZenonT(30)
<1>8. 2^n \in Nat
    BY PowerType
<1>9. 2^m = 2 * 2^n
    BY <1>3, <1>7, <1>8
<1> QED BY <1>9 DEF m

\* Multiples of N are no closer than N.
LEMMA Apart ==
    ASSUME NEW N \in Nat \ {0}, NEW p \in Int, NEW q \in Int, p * N - q * N < N
    PROVE  p <= q
<1> SUFFICES ASSUME p >= q + 1 PROVE FALSE
    OBVIOUS
<1>1. (p - q - 1) * N >= 0
    OBVIOUS
<1>2. (p - q - 1) * N = p * N - q * N - N
    OBVIOUS
<1> QED BY <1>1, <1>2

\* The quotient is the only number that leaves a remainder below the divisor.
LEMMA QuotientUnique ==
    ASSUME NEW N \in Nat \ {0}, NEW x \in Int, NEW k \in Int, NEW r \in Int, 0 <= r, r < N, x = k * N + r
    PROVE  x \div N = k
<1> DEFINE q == x \div N
           m == x % N
<1>1. q \in Int /\ m \in Int /\ 0 <= m /\ m < N /\ x = q * N + m
    OBVIOUS
<1> HIDE DEF q, m
<1>2. q <= k
    BY <1>1, Apart
<1>3. k <= q
    BY <1>1, Apart
<1>4. q = k
    BY <1>1, <1>2, <1>3
<1> QED BY <1>4 DEF q

\* A number without its last m units is the one without its last 2 m and the bit between.
LEMMA NextBit ==
    ASSUME NEW x \in Nat, NEW m \in Nat \ {0}
    PROVE  /\ x \div (2 * m) \in Nat /\ x \div m \in Nat /\ (x \div m) % 2 \in {0, 1}
           /\ x \div m = 2 * (x \div (2 * m)) + ((x \div m) % 2)
<1> DEFINE q == x \div m
           r == x % m
           h == q \div 2
           e == q % 2
<1>1. q \in Nat /\ r \in Nat /\ r < m /\ x = q * m + r
    OBVIOUS
<1> HIDE DEF q, r
<1>2. h \in Nat /\ e \in {0, 1} /\ q = 2 * h + e
    BY <1>1
<1> HIDE DEF h, e
<1> DEFINE N == 2 * m
           s == e * m + r
<1>3. N \in Nat \ {0} /\ s \in Int /\ 0 <= s /\ s < N
    BY <1>1, <1>2
<1>4. x = h * N + s
  <2>1. (2 * h + e) * m = h * (2 * m) + e * m
      BY <1>2
  <2>2. x = (2 * h + e) * m + r
      BY <1>1, <1>2
  <2>3. h * (2 * m) \in Int /\ e * m \in Int
      BY <1>2
  <2> QED BY <1>1, <2>1, <2>2, <2>3
<1> HIDE DEF N, s
<1>5. x \div N = h
    BY <1>2, <1>3, <1>4, QuotientUnique
<1> QED BY <1>1, <1>2, <1>5 DEF N, q, e

\* A number below the divisor leaves nothing.
LEMMA NoQuotient == ASSUME NEW N \in Nat \ {0}, NEW x \in Nat, x < N PROVE x \div N = 0
<1> DEFINE k == 0
<1>1. k \in Int /\ x = k * N + x
    OBVIOUS
<1> HIDE DEF k
<1>2. x \div N = k
    BY <1>1, QuotientUnique
<1> QED BY <1>2 DEF k

-----------------------------------------------------------------------------
(* Prefixes of addresses.                                                    *)

Top(x, width, k) == x \div 2^(width - k)

BitAt(x, width, k) == (x \div 2^(width - 1 - k)) % 2

\* The first bits of an address, one after the other.
LEMMA TopStep ==
    ASSUME NEW width \in Nat, NEW x \in Nat, NEW k \in 0 .. width - 1
    PROVE  /\ Top(x, width, k) \in Nat /\ Top(x, width, k + 1) \in Nat /\ BitAt(x, width, k) \in {0, 1}
           /\ Top(x, width, k + 1) = 2 * Top(x, width, k) + BitAt(x, width, k)
<1> DEFINE j == width - 1 - k
           m == 2^j
<1>1. j \in Nat /\ width - k = j + 1 /\ width - (k + 1) = j
    OBVIOUS
<1>2. m \in Nat \ {0} /\ 2^(width - k) = 2 * m
    BY <1>1, PowerType, PowerStep
<1>3. /\ Top(x, width, k) = x \div (2 * m) /\ Top(x, width, k + 1) = x \div m
      /\ BitAt(x, width, k) = (x \div m) % 2
    BY <1>1, <1>2 DEF Top, BitAt
<1> HIDE DEF m, j
<1> QED BY <1>2, <1>3, NextBit

\* Two addresses agree in their first bits exactly when they agree in each of them.
LEMMA SameTop ==
    ASSUME NEW width \in Nat, NEW x \in Nat, NEW y \in Nat, x < 2^width, y < 2^width, NEW p \in 0 .. width
    PROVE  Top(x, width, p) = Top(y, width, p)
             <=> \A i \in 0 .. p - 1 : BitAt(x, width, i) = BitAt(y, width, i)
<1> DEFINE X(k) == Top(x, width, k)
           Y(k) == Top(y, width, k)
           a(k) == BitAt(x, width, k)
           b(k) == BitAt(y, width, k)
           Good(k) == X(k) = Y(k) <=> \A i \in 0 .. k - 1 : a(i) = b(i)
           T == {k \in 0 .. width : ~ Good(k)}
<1>1. Good(0)
  <2>1. 2^width \in Nat \ {0} /\ width - 0 = width
      BY PowerType
  <2>2. x \div 2^width = 0 /\ y \div 2^width = 0
    <3> DEFINE N == 2^width
    <3>1. N \in Nat \ {0} /\ x < N /\ y < N
        BY <2>1
    <3> HIDE DEF N
    <3>2. x \div N = 0 /\ y \div N = 0
        BY <3>1, NoQuotient
    <3> QED BY <3>2 DEF N
  <2>3. X(0) = Y(0)
      BY <2>1, <2>2 DEF Top
  <2>4. 0 .. 0 - 1 = {}
      OBVIOUS
  <2> QED BY <2>3, <2>4
<1>2. ASSUME NEW k \in 0 .. width - 1, Good(k) PROVE Good(k + 1)
  <2> DEFINE j == k + 1
  <2>1. /\ X(k) \in Nat /\ Y(k) \in Nat /\ a(k) \in {0, 1} /\ b(k) \in {0, 1}
        /\ X(j) = 2 * X(k) + a(k) /\ Y(j) = 2 * Y(k) + b(k)
      BY TopStep
  <2>2. 0 .. j - 1 = (0 .. k - 1) \cup {k}
      OBVIOUS
  <2> HIDE DEF X, Y, a, b
  <2>3. X(j) = Y(j) <=> X(k) = Y(k) /\ a(k) = b(k)
      BY <2>1
  <2>4. X(k) = Y(k) <=> \A i \in 0 .. k - 1 : a(i) = b(i)
      BY <1>2
  <2> HIDE DEF j
  <2>5. Good(j)
      BY <2>2, <2>3, <2>4
  <2> QED BY <2>5 DEF j
<1> HIDE DEF Good
<1>3. T = {}
  <2> SUFFICES ASSUME T # {} PROVE FALSE
      OBVIOUS
  <2>1. T \in SUBSET Nat
      OBVIOUS
  <2>2. PICK j \in T : \A z \in T : j <= z
    <3> HIDE DEF T
    <3> QED BY <2>1, Least
  <2>3. j \in 0 .. width /\ ~ Good(j) /\ j # 0
      BY <1>1, <2>2
  <2> DEFINE k == j - 1
  <2>4. k \in 0 .. width - 1 /\ k + 1 = j /\ k \in 0 .. width /\ k \notin T
    <3>1. ASSUME NEW z \in T PROVE j <= z
        BY <2>2
    <3> HIDE DEF T
    <3> QED BY <2>3, <3>1
  <2>5. Good(k)
    <3> HIDE DEF k
    <3> QED BY <2>4
  <2>6. Good(k + 1)
    <3> HIDE DEF k
    <3> QED BY <1>2, <2>4, <2>5
  <2> QED BY <2>3, <2>4, <2>6
<1>4. Good(p)
    BY <1>3
<1> QED BY <1>4 DEF Good

\* Masking compares the first bits.
LEMMA SameMasked ==
    ASSUME NEW width \in Nat, NEW x \in Nat, NEW y \in Nat, x < 2^width, y < 2^width, NEW p \in 0 .. width
    PROVE  Masked(x, p, width) = Masked(y, p, width)
             <=> \A i \in 0 .. p - 1 : BitAt(x, width, i) = BitAt(y, width, i)
<1>1. CASE p = 0
  <2>1. 0 .. p - 1 = {}
      BY <1>1
  <2> QED BY <1>1, <2>1 DEF Masked
<1>2. CASE p # 0
  <2> DEFINE j == width - p
             N == 2^j
             u == x \div N
             v == y \div N
  <2>1. j \in Nat
      OBVIOUS
  <2>2. N \in Nat \ {0}
      BY <2>1, PowerType
  <2>3. Masked(x, p, width) = u * N /\ Masked(y, p, width) = v * N
      BY <1>2 DEF Masked
  <2>4. u = Top(x, width, p) /\ v = Top(y, width, p)
      BY DEF Top
  <2> HIDE DEF N
  <2>5. u \in Int /\ v \in Int
      BY <2>2
  <2> HIDE DEF u, v, j
  <2>6. u * N = v * N <=> u = v
    <3>1. ASSUME u * N = v * N PROVE u = v
      <4>1. u * N - v * N < N /\ v * N - u * N < N
        <5>1. u * N \in Int
            BY <2>2, <2>5
        <5> QED BY <2>2, <3>1, <5>1
      <4>2. u <= v /\ v <= u
          BY <2>2, <2>5, <4>1, Apart
      <4> QED BY <2>5, <4>2
    <3> QED BY <3>1
  <2> QED BY <2>3, <2>4, <2>6, SameTop
<1> QED BY <1>1, <1>2

-----------------------------------------------------------------------------
(* The pod of a packet.                                                      *)

IsAddress(ip) == ip \in 0 .. 2^V4Bits + 2^V6Bits - 1

\* The bits of an address and their number.
LEMMA BitsType ==
    ASSUME NEW ip, IsAddress(ip)
    PROVE  Width(ip) \in Nat /\ Bits(ip) \in Nat /\ Bits(ip) < 2^Width(ip)
<1> DEFINE a == 2^V4Bits
           b == 2^V6Bits
<1>1. a \in Nat \ {0} /\ b \in Nat \ {0} /\ V4Bits \in Nat /\ V6Bits \in Nat
    BY FramesAssumption, AttributionAssumption, PowerType
<1>2. ip \in 0 .. a + b - 1
    BY DEF IsAddress
<1>3. CASE ip < a
  <2>1. Width(ip) = V4Bits /\ Bits(ip) = ip
      BY <1>3 DEF Width, Bits, IsV4
  <2> HIDE DEF a, b
  <2>2. ip \in Nat
      BY <1>1, <1>2
  <2> QED BY <1>1, <1>3, <2>1, <2>2 DEF a
<1>4. CASE ~ (ip < a)
  <2>1. Width(ip) = V6Bits /\ Bits(ip) = ip - a
      BY <1>4 DEF Width, Bits, IsV4
  <2> HIDE DEF a, b
  <2>2. ip - a \in Nat /\ ip - a < b
      BY <1>1, <1>2, <1>4
  <2> QED BY <1>1, <2>1, <2>2 DEF b
<1> QED BY <1>3, <1>4

\* cidr_contains compares the addresses bit by bit.
LEMMA CidrContainsIs ==
    ASSUME NEW net, IsAddress(net), NEW ip, IsAddress(ip), NEW prefix \in Nat
    PROVE  CidrContains(net, prefix, ip)
             <=> IsV4(net) = IsV4(ip) /\ prefix \in 0 .. Width(ip) /\ SamePrefix(net, ip, prefix)
<1> DEFINE m == Width(ip)
           x == Bits(net)
           y == Bits(ip)
<1>1. m \in Nat /\ x \in Nat /\ y \in Nat /\ y < 2^m
    BY BitsType
<1>2. prefix <= m <=> prefix \in 0 .. m
    BY <1>1
<1>3. CASE IsV4(net) = IsV4(ip) /\ prefix <= m
  <2>1. Width(net) = m
      BY <1>3 DEF Width
  <2>2. x < 2^m
      BY <2>1, BitsType
  <2>3. SamePrefix(net, ip, prefix) <=> \A i \in 0 .. prefix - 1 : BitAt(x, m, i) = BitAt(y, m, i)
      BY <2>1 DEF SamePrefix, BitAt
  <2>4. CidrContains(net, prefix, ip) <=> Masked(x, prefix, m) = Masked(y, prefix, m)
      BY <1>3 DEF CidrContains
  <2> HIDE DEF m, x, y
  <2>5. Masked(x, prefix, m) = Masked(y, prefix, m)
          <=> \A i \in 0 .. prefix - 1 : BitAt(x, m, i) = BitAt(y, m, i)
      BY <1>1, <1>2, <1>3, <2>2, SameMasked
  <2> QED BY <1>2, <1>3, <2>3, <2>4, <2>5 DEF m
<1>4. CASE ~ (IsV4(net) = IsV4(ip) /\ prefix <= m)
    BY <1>2, <1>4 DEF CidrContains
<1> QED BY <1>3, <1>4

\* The CIDRs of a configuration.
Cidrs(cidrs) == \A c \in cidrs : IsAddress(c.net) /\ c.prefix \in Nat

\* So the matcher knows the addresses of the pod networks.
LEMMA ContainsIs ==
    ASSUME NEW cidrs, Cidrs(cidrs), NEW ip, IsAddress(ip)
    PROVE  Contains(cidrs, ip) <=> InPodNetwork(cidrs, ip)
<1>1. ASSUME NEW c \in cidrs
      PROVE  CidrContains(c.net, c.prefix, ip)
               <=> IsV4(c.net) = IsV4(ip) /\ c.prefix \in 0 .. Width(ip) /\ SamePrefix(c.net, ip, c.prefix)
  <2>1. IsAddress(c.net) /\ c.prefix \in Nat
      BY DEF Cidrs
  <2> QED BY <2>1, CidrContainsIs
<1> QED BY <1>1 DEF Contains, InPodNetwork

\* The endpoints of a packet are the addresses of its network header.
LEMMA FinishEnds ==
    ASSUME NEW f, NEW proto, NEW src, NEW dst, NEW l, NEW room, NEW p \in Finish(f, proto, src, dst, l, room)
    PROVE  p.key.low.ip \in {src, dst} /\ p.key.high.ip \in {src, dst}
<1> DEFINE from == [ip |-> src, port |-> Byte(f, l)]
           to == [ip |-> dst, port |-> Byte(f, l + 2)]
<1>1. ASSUME NEW a, NEW b, NEW c, NEW d, NEW e, NEW g, p = Build(from, to, a, b, c, d, e, g)
      PROVE  p.key.low.ip \in {src, dst} /\ p.key.high.ip \in {src, dst}
  <2> HIDE DEF from, to
  <2>1. p.key = Canonical(from, to, a).key
      BY <1>1 DEF Build
  <2>2. \/ p.key.low = from /\ p.key.high = to
        \/ p.key.low = to /\ p.key.high = from
      BY <2>1 DEF Canonical
  <2>3. from.ip = src /\ to.ip = dst
      BY DEF from, to
  <2> QED BY <2>2, <2>3
<1>2. CASE proto = TCP /\ f.len - l >= 20 /\ 4 * (Byte(f, l + 12) \div 16) >= 20
  <2>1. p \in Finish(f, TCP, src, dst, l, room)
      BY <1>2
  <2>2. p = Build(from, to, "Tcp", FlagsOf(Byte(f, l + 13) % 64), Byte(f, l + 4), Byte(f, l + 8),
                  Byte(f, l + 14), Minus(room, 4 * (Byte(f, l + 12) \div 16)))
      BY <1>2, <2>1, FinishTcp
  <2> QED BY <1>1, <2>2
<1>3. CASE proto = UDP /\ f.len - l >= 8
  <2>1. p \in Finish(f, UDP, src, dst, l, room)
      BY <1>3
  <2>2. p = Build(from, to, "Udp", {}, 0, 0, 0, Minus(Byte(f, l + 4), 8))
      BY <1>3, <2>1, FinishUdp
  <2> QED BY <1>1, <2>2
<1>4. CASE ~ (proto = TCP /\ f.len - l >= 20 /\ 4 * (Byte(f, l + 12) \div 16) >= 20)
           /\ ~ (proto = UDP /\ f.len - l >= 8)
  <2>1. Finish(f, proto, src, dst, l, room) = {}
      BY <1>4 DEF Finish
  <2> QED BY <2>1
<1> QED BY <1>2, <1>3, <1>4

\* Whatever a frame holds, the endpoints of its packet are its addresses.
LEMMA FrameEnds ==
    ASSUME NEW w, IsFrame(w), NEW n \in Nat, NEW p \in ParseFrame(w.link, Captured(w, n))
    PROVE  LET S == {Address(w, w.src), Address(w, w.dst)} IN p.key.low.ip \in S /\ p.key.high.ip \in S
<1> DEFINE f == Captured(w, n)
           l == LinkLen(w)
           src == Address(w, w.src)
           dst == Address(w, w.dst)
<1>1. p \in ParseIp(w, f)
    BY ParseFrameIn
<1>2. \E proto, l4, room : p \in Finish(f, proto, src, dst, l4, room)
  <2>1. CASE w.family = 4
    <3>1. Byte(f, l + 12) = src /\ Byte(f, l + 16) = dst
        BY <2>1, Ipv4Reads, ByteReads DEF Address
    <3>2. p \in ParseIpv4(f, l)
        BY <1>1, <2>1 DEF ParseIp
    <3> HIDE DEF f, l, src, dst
    <3>3. \E proto, l4, room : p \in Finish(f, proto, Byte(f, l + 12), Byte(f, l + 16), l4, room)
        BY <3>2 DEF ParseIpv4
    <3> QED BY <3>1, <3>3
  <2>2. CASE w.family = 6
    <3>1. V6(Byte(f, l + 8)) = src /\ V6(Byte(f, l + 24)) = dst
        BY <2>2, Ipv6Reads, ByteReads DEF Address
    <3>2. p \in ParseIpv6(f, l)
        BY <1>1, <2>2 DEF ParseIp
    <3> HIDE DEF f, l, src, dst
    <3> DEFINE end == EndOfPacket(f, l)
               W == Walk(f, l, end)[8]
    <3>3. ~ (f.len - l < 40)
          /\ p \in UNION {Finish(f, x.next, V6(Byte(f, l + 8)), V6(Byte(f, l + 24)), l + x.off,
                                 Minus(end, x.off)) : x \in W}
        BY <3>2, ParseIpv6Walks
    <3> HIDE DEF end, W
    <3>4. PICK x \in W : p \in Finish(f, x.next, V6(Byte(f, l + 8)), V6(Byte(f, l + 24)), l + x.off,
                                      Minus(end, x.off))
        BY <3>3
    <3> QED BY <3>1, <3>4
  <2> QED BY <2>1, <2>2 DEF IsFrame
<1> HIDE DEF f, src, dst
<1>3. p.key.low.ip \in {src, dst} /\ p.key.high.ip \in {src, dst}
    BY <1>2, FinishEnds
<1> QED BY <1>3 DEF src, dst

\* The lower endpoint that lies in a pod network is the pod.
LEMMA LocalPod ==
    ASSUME NEW cidrs, Cidrs(cidrs), NEW p, IsAddress(p.key.low.ip), IsAddress(p.key.high.ip)
    PROVE  LET local == {ip \in {Source(p).ip, Destination(p).ip} : InPodNetwork(cidrs, ip)}
           IN  LocalPodIp(cidrs, p.key) = (IF Cardinality(local) < 2 THEN local ELSE {p.key.low.ip})
<1> DEFINE a == p.key.low.ip
           b == p.key.high.ip
           In(ip) == InPodNetwork(cidrs, ip)
           local == {ip \in {Source(p).ip, Destination(p).ip} : In(ip)}
           pod == LocalPodIp(cidrs, p.key)
<1>1. {Source(p).ip, Destination(p).ip} = {a, b}
    BY DEF Source, Destination
<1>2. local = {ip \in {a, b} : In(ip)}
    BY <1>1
<1>3. (Contains(cidrs, a) <=> In(a)) /\ (Contains(cidrs, b) <=> In(b))
    BY ContainsIs
<1>4. pod = IF In(a) THEN {a} ELSE IF In(b) THEN {b} ELSE {}
    BY <1>3 DEF LocalPodIp
<1> HIDE DEF In, local, pod, a, b
<1>5. pod = IF Cardinality(local) < 2 THEN local ELSE {a}
  <2>1. CASE In(a) /\ In(b) /\ a # b
    <3>1. local = {a} \cup {b}
        BY <1>2, <2>1
    <3>2. IsFiniteSet({a}) /\ Cardinality({a}) = 1 /\ b \notin {a}
        BY <2>1, FS_Singleton
    <3>3. Cardinality(local) = 2
      <4> DEFINE A == {a}
      <4>1. IsFiniteSet(A) /\ Cardinality(A) = 1 /\ b \notin A /\ local = A \cup {b}
          BY <3>1, <3>2
      <4> HIDE DEF A
      <4>2. Cardinality(A \cup {b}) = Cardinality(A) + 1
          BY <4>1, FS_AddElement
      <4> QED BY <4>1, <4>2
    <3>4. ~ (Cardinality(local) < 2)
        BY <3>3
    <3> QED BY <1>4, <2>1, <3>4
  <2>2. CASE ~ (In(a) /\ In(b) /\ a # b)
    <3>0. pod = {} \/ pod = {a} \/ pod = {b}
        BY <1>4
    <3>1. local = pod
      <4>1. CASE a = b
          BY <1>2, <1>4, <4>1
      <4>2. CASE In(a) /\ ~ In(b)
          BY <1>2, <1>4, <4>2
      <4>3. CASE ~ In(a)
          BY <1>2, <1>4, <4>3
      <4> QED BY <2>2, <4>1, <4>2, <4>3
    <3>2. local = {} \/ \E x : local = {x}
        BY <3>0, <3>1
    <3>3. Cardinality(local) = 0 \/ Cardinality(local) = 1
        BY <3>2, FS_EmptySet, FS_Singleton
    <3>4. Cardinality(local) < 2
        BY <3>3
    <3> QED BY <3>1, <3>4
  <2> QED BY <2>1, <2>2
<1> QED BY <1>5 DEF local, In, pod, a

-----------------------------------------------------------------------------
(* The frames of the specification.                                          *)

\* The addresses of a frame are addresses.
LEMMA AddressType ==
    ASSUME NEW w \in Wires
    PROVE  IsFrame(w) /\ IsAddress(Address(w, w.src)) /\ IsAddress(Address(w, w.dst))
<1> DEFINE a == 2^V4Bits
           b == 2^V6Bits
<1>1. a \in Nat \ {0} /\ b \in Nat \ {0}
    BY FramesAssumption, AttributionAssumption, PowerType
<1>2. IsFrame(w) /\ Fits(w, w.src) /\ Fits(w, w.dst)
    BY FrameCaptureAssumption
<1>3. w.src \in Nat /\ w.dst \in Nat
    BY <1>2 DEF IsFrame
<1>4. ASSUME NEW n \in Nat, Fits(w, n) PROVE IsAddress(Address(w, n))
  <2>1. CASE w.family = 4
    <3>1. Address(w, n) = n /\ n < a
        BY <1>4, <2>1 DEF Address, Fits
    <3> HIDE DEF a, b
    <3>2. n \in 0 .. a + b - 1
        BY <1>1, <3>1
    <3> QED BY <3>1, <3>2 DEF IsAddress, a, b
  <2>2. CASE w.family # 4
    <3>1. Address(w, n) = a + n /\ n < b
        BY <1>4, <2>2 DEF Address, Fits, V6
    <3> HIDE DEF a, b
    <3>2. a + n \in 0 .. a + b - 1
        BY <1>1, <3>1
    <3> QED BY <3>1, <3>2 DEF IsAddress, a, b
  <2> QED BY <2>1, <2>2
<1> QED BY <1>2, <1>3, <1>4

\* What both parsers made of the bytes captured last.
FrameInv ==
    /\ wire \in Wires /\ snap \in Nat
    /\ seen = ParseFrame(wire.link, Captured(wire, snap))
    /\ event = IF wire.link = "EN10MB" THEN FromKernel(Captured(wire, snap)) ELSE {}

(* Both parsers are functions of the frame and the captured length.          *)
THEOREM FrameInvariant == Spec => []FrameInv
<1>1. Init => FrameInv
  <2> SUFFICES ASSUME Init PROVE FrameInv
      OBVIOUS
  <2> DEFINE f == Captured(wire, 0)
  <2>1. f.len = 0
      BY CapturedLen
  <2>2. FromKernel(f) = {}
    <3> HIDE DEF f
    <3>1. Handle(f) = {}
        BY <2>1 DEF Handle
    <3> QED BY <3>1 DEF FromKernel
  <2> QED BY <2>2 DEF Init, FrameInv
<1>2. FrameInv /\ [CaptureMore]_vars => FrameInv'
  <2> SUFFICES ASSUME FrameInv, [CaptureMore]_vars PROVE FrameInv'
      OBVIOUS
  <2>1. CASE CaptureMore
      BY <2>1 DEF FrameInv, CaptureMore
  <2>2. CASE UNCHANGED vars
      BY <2>2 DEF FrameInv, vars
  <2> QED BY <2>1, <2>2
<1> QED BY <1>1, <1>2, PTL DEF Spec

-----------------------------------------------------------------------------
(* What a packet that was cut off has left.                                  *)

\* The payload length is the last that is known of a packet.
LEMMA CutParts ==
    ASSUME NEW w, NEW len
    PROVE  Cut(w, len).payload_len = len /\ Header(Cut(w, len)) = Cut(w, 0)
<1>1. ASSUME NEW a, NEW b, NEW c, NEW d, NEW e, NEW g, NEW h
      PROVE  /\ Build(a, b, c, d, e, g, h, len).payload_len = len
             /\ Header(Build(a, b, c, d, e, g, h, len)) = Build(a, b, c, d, e, g, h, 0)
  <2> DEFINE k == Canonical(a, b, c).key
             m == Canonical(a, b, c).dir
  <2>1. ASSUME NEW x
        PROVE Build(a, b, c, d, e, g, h, x) = [key |-> k, dir |-> m, proto |-> c, flags |-> d, seq |-> e,
                                               ack |-> g, window |-> h, payload_len |-> x]
      BY DEF Build
  <2> HIDE DEF k, m
  <2> QED BY <2>1 DEF Header
<1>2. CASE w.proto = TCP
    BY <1>1, <1>2 DEF Cut
<1>3. CASE w.proto # TCP
    BY <1>1, <1>3 DEF Cut
<1> QED BY <1>2, <1>3

\* No more payload is reported than was sent, and all of it of a complete frame.
LEMMA CarriedIs ==
    ASSUME NEW w, IsFrame(w), ~ w.later, NEW n \in Nat
    PROVE  /\ Reached(w, n) => Carried(w, n) \in Nat /\ Carried(w, n) <= w.payload
           /\ n = FullLen(w) => Carried(w, n) = w.payload
           /\ n = FullLen(w) /\ w.proto \in {TCP, UDP} => Reached(w, n)
<1> DEFINE t == TransportStart(w)
           len == TransportLen(w)
           pay == w.payload
           pad == w.pad
<1>1. /\ t \in Nat /\ len \in Nat /\ len >= 8 /\ pay \in Nat /\ pad \in Nat
      /\ FullLen(w) = t + len + pay + pad /\ (w.proto = TCP => len >= 20)
    BY LensType DEF FullLen
<1>2. Carried(w, n) = IF w.proto = TCP THEN Minus(Less(len + pay, n - t), len) ELSE pay
    BY DEF Carried, Room
<1>3. Reached(w, n) <=> w.proto \in {TCP, UDP} /\ n >= t + (IF w.proto = TCP THEN 20 ELSE 8)
    BY DEF Reached
<1> HIDE DEF t, len, pay, pad
<1>4. /\ Minus(Less(len + pay, n - t), len) \in Nat /\ Minus(Less(len + pay, n - t), len) <= pay
    BY <1>1 DEF Minus, Less
<1>5. n = t + len + pay + pad => Minus(Less(len + pay, n - t), len) = pay
    BY <1>1 DEF Minus, Less
<1>6. n = t + len + pay + pad => n >= t + (IF w.proto = TCP THEN 20 ELSE 8)
    BY <1>1
<1> QED BY <1>1, <1>2, <1>3, <1>4, <1>5, <1>6 DEF pay

\* The frame of a state, and what the kernel program makes of it.
LEMMA StateIs ==
    ASSUME FrameInv
    PROVE  /\ IsFrame(wire) /\ snap \in Nat /\ seen = ParseFrame(wire.link, Captured(wire, snap))
           /\ ~ wire.later /\ HonestLengths(wire) =>
                event = IF wire.link = "EN10MB" /\ wire.tags = 0 /\ wire.exts = <<>> /\ Reached(wire, snap)
                        THEN {Sent(wire)} ELSE {}
<1>1. IsFrame(wire) /\ snap \in Nat
    BY FrameCaptureAssumption DEF FrameInv
<1>2. ~ wire.later /\ HonestLengths(wire) /\ wire.link = "EN10MB" =>
        FromKernel(Captured(wire, snap))
          = IF wire.tags = 0 /\ wire.exts = <<>> /\ Reached(wire, snap) THEN {Sent(wire)} ELSE {}
    BY <1>1, FromKernelIs
<1> QED BY <1>1, <1>2 DEF FrameInv

-----------------------------------------------------------------------------
(* The theorems.                                                             *)

(* Whatever the link header, the tags, the options and the extension headers *)
(* are, and wherever the capture ends, parse_frame reports the packet that   *)
(* was sent or none if the frame has no AH, and so does the kernel program   *)
(* if the length fields are honest; later fragments are outside of this, as  *)
(* the property says.                                                        *)
THEOREM ParsersNeverMisread == Spec => []NeverMisreads
<1>1. FrameInv => NeverMisreads
  <2> SUFFICES ASSUME FrameInv, ~ wire.later PROVE NeverMisreads
      BY DEF NeverMisreads
  <2>1. IsFrame(wire) /\ snap \in Nat
      BY StateIs
  <2>2. wire.payload \in Nat /\ Sent(wire) = Cut(wire, wire.payload)
      BY <2>1, SentIsCut DEF IsFrame
  <2>3. ASSUME NEW p, Reached(wire, snap),
               p = Cut(wire, Carried(wire, snap)) \/ p = Cut(wire, wire.payload)
        PROVE  IsSent(p)
    <3>1. Carried(wire, snap) \in Nat /\ Carried(wire, snap) <= wire.payload
        BY <2>1, <2>3, CarriedIs
    <3>2. wire.proto \in {TCP, UDP}
        BY <2>3 DEF Reached
    <3> QED BY <2>2, <2>3, <3>1, <3>2, CutParts DEF IsSent
  <2>4. ASSUME ~ HasAuth, NEW p \in seen PROVE HonestLengths(wire) /\ IsSent(p)
    <3>1. NoAuth(wire)
        BY <2>4 DEF HasAuth, NoAuth
    <3>2. p \in Parsed(wire, snap)
        BY <2>1, <2>4, <3>1, StateIs, ParseFrameIs
    <3>3. HonestLengths(wire) /\ Reached(wire, snap) /\ p = Cut(wire, Carried(wire, snap))
        BY <3>2 DEF Parsed
    <3> QED BY <2>3, <3>3
  <2>5. ASSUME HonestLengths(wire), NEW p \in event PROVE IsSent(p)
    <3>1. Reached(wire, snap) /\ p = Sent(wire)
        BY <2>5, StateIs
    <3> QED BY <2>2, <2>3, <3>1
  <2> QED BY <2>4, <2>5 DEF NeverMisreads
<1> QED BY <1>1, FrameInvariant, PTL

(* Once its headers are captured the packet is found, and its payload length *)
(* when the frame is complete: through every chain of up to eight extension  *)
(* headers other than AH, of whatever lengths.                               *)
THEOREM HeadersSufficeAlways == Spec => []HeadersSuffice
<1>1. FrameInv => HeadersSuffice
  <2> SUFFICES ASSUME FrameInv, wire.proto \in {TCP, UDP}, ~ wire.later, HonestLengths(wire),
                      wire.tags <= 2, Len(wire.exts) <= 8, ~ HasAuth
               PROVE  Found
      BY DEF HeadersSuffice, WithinReach
  <2>1. IsFrame(wire) /\ snap \in Nat /\ NoAuth(wire)
      BY StateIs DEF HasAuth, NoAuth
  <2>2. seen = Parsed(wire, snap)
      BY <2>1, StateIs, ParseFrameIs
  <2>3. snap >= TransportStart(wire) + (IF wire.proto = TCP THEN 20 ELSE 8) => seen # {}
      BY <2>2 DEF Parsed, Reached
  <2>4. snap = FullLen(wire) => seen = {Sent(wire)}
      BY <2>1, <2>2, CarriedIs, SentIsCut DEF Parsed
  <2> QED BY <2>3, <2>4 DEF Found
<1> QED BY <1>1, FrameInvariant, PTL

(* Of frames with honest length fields that are not later fragments the      *)
(* kernel program reports no packet that parse_frame does not, the same one  *)
(* of a complete frame, and on plain Ethernet every one.                     *)
THEOREM BackendsAgreeAlways == Spec => []BackendsAgree
<1>1. FrameInv => BackendsAgree
  <2> SUFFICES ASSUME FrameInv, ~ wire.later, HonestLengths(wire) PROVE BackendsAgree
      BY DEF BackendsAgree
  <2>1. IsFrame(wire) /\ snap \in Nat
      BY StateIs
  <2>2. wire.tags = 0 /\ wire.exts = <<>> => seen = Parsed(wire, snap)
    <3> SUFFICES ASSUME wire.tags = 0, wire.exts = <<>> PROVE seen = Parsed(wire, snap)
        OBVIOUS
    <3>1. NoAuth(wire) /\ Len(wire.exts) <= 8 /\ wire.tags <= 2
        BY DEF NoAuth
    <3> QED BY <2>1, <3>1, StateIs, ParseFrameIs
  <2>3. event # {} => seen = {Cut(wire, Carried(wire, snap))} /\ event = {Sent(wire)}
      BY <2>2, StateIs DEF Parsed
  <2>4. event # {} /\ snap = FullLen(wire) => event = seen
      BY <2>1, <2>3, CarriedIs, SentIsCut
  <2>5. seen # {} /\ wire.link = "EN10MB" /\ wire.tags = 0 /\ wire.exts = <<>> => event # {}
      BY <2>2, StateIs DEF Parsed
  <2> QED BY <2>3, <2>4, <2>5 DEF BackendsAgree
<1> QED BY <1>1, FrameInvariant, PTL

(* A packet is attributed to the address in a pod network that it has, for   *)
(* all widths of addresses, CIDRs and prefix lengths.                        *)
THEOREM PodIsLocalEndpointAlways == Spec => []PodIsLocalEndpoint
<1>1. FrameInv => PodIsLocalEndpoint
  <2> SUFFICES ASSUME FrameInv, NEW p \in seen, NEW cidrs \in CidrSets
               PROVE  LET local == {ip \in {Source(p).ip, Destination(p).ip} : InPodNetwork(cidrs, ip)}
                      IN  LocalPodIp(cidrs, p.key)
                            = (IF Cardinality(local) < 2 THEN local ELSE {p.key.low.ip})
      BY DEF PodIsLocalEndpoint
  <2>1. Cidrs(cidrs)
      BY FrameCaptureAssumption DEF Cidrs, IsAddress
  <2>2. IsAddress(Address(wire, wire.src)) /\ IsAddress(Address(wire, wire.dst))
      BY AddressType DEF FrameInv
  <2>3. IsAddress(p.key.low.ip) /\ IsAddress(p.key.high.ip)
      BY <2>2, StateIs, FrameEnds
  <2> QED BY <2>1, <2>3, LocalPod
<1> QED BY <1>1, FrameInvariant, PTL

=============================================================================
