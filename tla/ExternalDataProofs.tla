------------------------- MODULE ExternalDataProofs -------------------------
(***************************************************************************)
(* What the search for locations finds, for every file, prefix, base and   *)
(* limit: it stays inside the file, the names it takes are apart, and they *)
(* are the names that the file means.                                      *)
(*                                                                         *)
(* First the bytes of a file are taken apart: Joins says where each of its *)
(* segments begins, ExternalIs what the bytes of an entry are.  Then IInv  *)
(* says what holds of every search, and SearchMeans what holds of one in a *)
(* file in which nothing else looks like an entry.                         *)
(***************************************************************************)
EXTENDS ExternalData, DataLemmas, SequenceTheorems

LEMMA PlenPositive == plen \in Nat \ {0}
BY ExternalDataAssumption DEF plen

----------------------------------------------------------------------------
(* What a length is as a varint, and what a file is made of.               *)

IsVarint(g, top) ==
    /\ g \in [0..top -> Seq(Byte)]
    /\ \A v \in 0..top :
           g[v] = IF v < Base THEN <<v>>
                  ELSE <<Base + (v % Base)>> \o g[v \div Base]

LEMMA GroupsAreBytes ==
    ASSUME NEW v \in Nat
    PROVE  /\ v < Base => <<v>> \in Seq(Byte)
           /\ <<Base + (v % Base)>> \in Seq(Byte)
           /\ v \div Base \in Nat
           /\ ~(v < Base) => v \div Base < v /\ v \div Base > 0
<1>1. Base \in Nat \ {0} /\ Base >= 2
  BY ExternalDataAssumption
<1> DEFINE q == v \div Base
           r == v % Base
<1>2. q \in Nat /\ r \in 0..Base - 1 /\ v = Base * q + r
  BY <1>1, Divide
<1>3. v < Base => v \in Byte
  BY <1>1 DEF Byte
<1>4. Base + r \in Byte
  BY <1>1, <1>2 DEF Byte
<1> HIDE DEF q, r
<1>5. ASSUME ~(v < Base) PROVE q < v /\ q > 0
  <2>1. q # 0
    <3> SUFFICES ASSUME q = 0 PROVE FALSE
      OBVIOUS
    <3>1. Base * q = 0
      BY <1>1
    <3>2. v = r /\ r < Base
      BY <1>1, <1>2, <3>1
    <3> QED
      BY <1>5, <3>2
  <2>2. Base * q \in Nat /\ Base * q >= 2 * q
    BY <1>1, <1>2
  <2>3. v >= 2 * q
    BY <1>1, <1>2, <2>2
  <2> QED
    BY <1>2, <2>1, <2>3
<1> QED
  BY <1>2, <1>3, <1>4, <1>5 DEF q, r

LEMMA VarintExists ==
    ASSUME NEW top \in Nat
    PROVE  \E g : IsVarint(g, top)
<1> DEFINE M == {m \in 0..top : \E g : IsVarint(g, m)}
<1>0. Base \in Nat /\ Base >= 2
  BY ExternalDataAssumption
<1>1. 0 \in M
  <2> DEFINE g == [v \in 0..0 |-> <<v>>]
  <2>1. 0 < Base /\ <<0>> \in Seq(Byte)
    BY <1>0, GroupsAreBytes
  <2>2. IsVarint(g, 0)
    BY <2>1 DEF IsVarint
  <2> HIDE DEF g
  <2> QED
    BY <2>2
<1>2. ASSUME NEW m \in 0..top - 1, m \in M PROVE m + 1 \in M
  <2>1. PICK f : IsVarint(f, m)
    BY <1>2
  <2> DEFINE w == m + 1
             last == IF w < Base THEN <<w>>
                     ELSE <<Base + (w % Base)>> \o f[w \div Base]
             g == [v \in 0..w |-> IF v = w THEN last ELSE f[v]]
  <2>2. w \in Nat /\ w \notin 0..m /\ \A v \in 0..w : v # w => v \in 0..m
    OBVIOUS
  <2>3. ASSUME ~(w < Base) PROVE w \div Base \in 0..m
    <3>1. w \div Base \in Nat /\ w \div Base < w
      BY <2>2, <2>3, GroupsAreBytes
    <3> QED
      BY <3>1
  <2>4. last \in Seq(Byte)
    <3>1. CASE w < Base
      BY <2>2, <3>1, GroupsAreBytes
    <3>2. CASE ~(w < Base)
      <4>2. f[w \div Base] \in Seq(Byte)
        BY <2>1, <2>3, <3>2 DEF IsVarint
      <4>3. <<Base + (w % Base)>> \in Seq(Byte)
        BY <2>2, GroupsAreBytes
      <4> QED
        BY <3>2, <4>2, <4>3, ConcatProperties
    <3> QED
      BY <3>1, <3>2
  <2>5. g \in [0..w -> Seq(Byte)]
    BY <2>1, <2>2, <2>4 DEF IsVarint
  <2>6. ASSUME NEW v \in 0..w
        PROVE  g[v] = IF v < Base THEN <<v>>
                      ELSE <<Base + (v % Base)>> \o g[v \div Base]
    <3>1. CASE v = w
      <4>1. CASE w < Base
        BY <3>1, <4>1
      <4>2. CASE ~(w < Base)
        <5>1. w \div Base \in 0..m
          BY <1>0, <2>2, <2>3, <4>2
        <5>2. g[w \div Base] = f[w \div Base]
          BY <2>2, <5>1
        <5> QED
          BY <3>1, <4>2, <5>2
      <4> QED
        BY <4>1, <4>2
    <3>2. CASE v # w
      <4>1. v \in 0..m /\ g[v] = f[v]
        BY <2>2, <3>2
      <4>2. f[v] = IF v < Base THEN <<v>>
                   ELSE <<Base + (v % Base)>> \o f[v \div Base]
        BY <2>1, <4>1 DEF IsVarint
      <4>3. CASE v < Base
        BY <4>1, <4>2, <4>3
      <4>4. CASE ~(v < Base)
        <5>1. v \div Base \in Nat /\ v \div Base < v
          BY <1>0, <4>1, <4>4, GroupsAreBytes
        <5>2. v \div Base \in 0..m
          BY <4>1, <5>1
        <5>3. g[v \div Base] = f[v \div Base]
          BY <2>2, <5>2
        <5> QED
          BY <4>1, <4>2, <4>4, <5>3
      <4> QED
        BY <4>3, <4>4
    <3> QED
      BY <3>1, <3>2
  <2> HIDE DEF g
  <2>7. IsVarint(g, m + 1)
    BY <2>5, <2>6 DEF IsVarint
  <2>8. m + 1 \in 0..top
    OBVIOUS
  <2> QED
    BY <2>7, <2>8
<1>3. top \in M
  <2> HIDE DEF M
  <2>1. \A k \in 0..top : k \in M
    BY <1>1, <1>2, UpTo
  <2> QED
    BY <2>1
<1> QED
  BY <1>3

\* Functions that follow the recursion agree where both are defined.
LEMMA VarintsAgree ==
    ASSUME NEW a \in Nat, NEW b \in Nat, NEW f, NEW g,
           IsVarint(f, a), IsVarint(g, b)
    PROVE  \A v \in 0..a : v \in 0..b => f[v] = g[v]
<1> DEFINE M == {v \in Nat : v \in 0..a /\ v \in 0..b => f[v] = g[v]}
<1>1. ASSUME NEW v \in Nat, \A w \in 0..v - 1 : w \in M PROVE v \in M
  <2> SUFFICES ASSUME v \in 0..a, v \in 0..b PROVE f[v] = g[v]
    OBVIOUS
  <2>1. CASE v < Base
    BY <2>1 DEF IsVarint
  <2>2. CASE ~(v < Base)
    <3> DEFINE q == v \div Base
    <3>1. q \in Nat /\ q < v
      BY <2>2, GroupsAreBytes
    <3> HIDE DEF q
    <3>2. q \in 0..v - 1 /\ q \in 0..a /\ q \in 0..b
      BY <3>1
    <3>3. f[q] = g[q]
      BY <1>1, <3>2
    <3> QED
      BY <2>2, <3>3 DEF IsVarint, q
  <2> QED
    BY <2>1, <2>2
<1>2. Nat \subseteq M
  <2> HIDE DEF M
  <2> QED
    BY <1>1, FromSmaller
<1> QED
  BY <1>2

LEMMA VarintIs ==
    ASSUME NEW top \in Nat, NEW g, IsVarint(g, top), NEW v \in 0..top
    PROVE  Varint(v) = g[v]
<1> DEFINE Is(h) ==
               h = [w \in 0..v |-> IF w < Base THEN <<w>>
                                   ELSE <<Base + (w % Base)>> \o h[w \div Base]]
           varint == CHOOSE h : Is(h)
<1>1. v \in Nat
  OBVIOUS
<1>2. PICK f : IsVarint(f, v)
  BY <1>1, VarintExists
<1>3. Is(f)
  BY <1>2 DEF IsVarint
<1>4. Is(varint)
  BY <1>3
<1>5. Varint(v) = varint[v]
  BY DEF Varint
<1> HIDE DEF varint
<1>6. IsVarint(varint, v)
  <2> DEFINE M == {w \in Nat : w \in 0..v => varint[w] \in Seq(Byte)}
  <2>1. ASSUME NEW w \in Nat, \A u \in 0..w - 1 : u \in M PROVE w \in M
    <3> SUFFICES ASSUME w \in 0..v PROVE varint[w] \in Seq(Byte)
      OBVIOUS
    <3>1. CASE w < Base
      BY <1>4, <3>1, GroupsAreBytes
    <3>2. CASE ~(w < Base)
      <4> DEFINE q == w \div Base
      <4>1. q \in Nat /\ q < w
        BY <3>2, GroupsAreBytes
      <4>2. varint[w] = <<Base + (w % Base)>> \o varint[q]
        BY <1>4, <3>2
      <4> HIDE DEF q
      <4>3. q \in 0..w - 1 /\ q \in 0..v
        BY <4>1
      <4>4. varint[q] \in Seq(Byte)
        BY <2>1, <4>3
      <4>5. <<Base + (w % Base)>> \in Seq(Byte)
        BY GroupsAreBytes
      <4> QED
        BY <4>2, <4>4, <4>5, ConcatProperties
    <3> QED
      BY <3>1, <3>2
  <2>2. Nat \subseteq M
    <3> HIDE DEF M
    <3> QED
      BY <2>1, FromSmaller
  <2>3. \A w \in 0..v : varint[w] \in Seq(Byte)
    BY <2>2
  <2> QED
    BY <1>4, <2>3 DEF IsVarint
<1>7. v \in 0..v
  BY <1>1
<1> QED
  BY <1>1, <1>5, <1>6, <1>7, VarintsAgree

\* The recursion, of Varint itself.
LEMMA VarintStep ==
    ASSUME NEW v \in Nat
    PROVE  /\ Varint(v) \in Seq(Byte)
           /\ v < Base => Varint(v) = <<v>>
           /\ ~(v < Base) =>
                  Varint(v) = <<Base + (v % Base)>> \o Varint(v \div Base)
<1>1. PICK g : IsVarint(g, v)
  BY VarintExists
<1>2. v \in 0..v
  OBVIOUS
<1>3. Varint(v) = g[v]
  BY <1>1, <1>2, VarintIs
<1>4. ASSUME ~(v < Base) PROVE Varint(v \div Base) = g[v \div Base]
  <2>1. v \div Base \in Nat /\ v \div Base < v
    BY <1>4, GroupsAreBytes
  <2>2. v \div Base \in 0..v
    BY <2>1
  <2> QED
    BY <1>1, <2>2, VarintIs
<1> QED
  BY <1>1, <1>2, <1>3, <1>4 DEF IsVarint

\* The contents of a file, segment by segment.
Joins(f, s) ==
    /\ f \in [0..Len(s) -> Seq(Byte)]
    /\ f[0] = <<>>
    /\ \A k \in 1..Len(s) : f[k] = f[k - 1] \o Encode(s[k])

LEMMA SegmentIs ==
    ASSUME NEW s \in Seq(Segment), NEW k \in 1..Len(s)
    PROVE  s[k].kind \in Kinds /\ s[k].value \in Seq(Byte)
<1>1. s[k] \in Segment
  BY ElementOfSeq
<1> QED
  BY <1>1 DEF Segment

LEMMA EncodeIsBytes ==
    ASSUME NEW s \in Seq(Segment), NEW k \in 1..Len(s)
    PROVE  Encode(s[k]) \in Seq(Byte)
<1>1. s[k].value \in Seq(Byte)
  BY SegmentIs
<1>2. Len(s[k].value) \in Nat
  BY <1>1, LenProperties
<1>3. Varint(Len(s[k].value)) \in Seq(Byte)
  BY <1>2, VarintStep
<1>4. Prefix \in Seq(Byte)
  BY ExternalDataAssumption
<1>5. Prefix \o Varint(Len(s[k].value)) \in Seq(Byte)
  BY <1>3, <1>4, ConcatProperties
<1>6. Prefix \o Varint(Len(s[k].value)) \o s[k].value \in Seq(Byte)
  BY <1>1, <1>5, ConcatProperties
<1> QED
  BY <1>1, <1>6 DEF Encode

LEMMA JoinsExist ==
    ASSUME NEW s \in Seq(Segment)
    PROVE  \E f : Joins(f, s)
<1> DEFINE B == Seq(Byte)
           step == [k \in 1..Len(s) |-> [v \in B |-> v \o Encode(s[k])]]
<1>1. Len(s) \in Nat
  BY LenProperties
<1>2. <<>> \in B
  BY EmptySeq
<1>3. \A k \in 1..Len(s), v \in B : v \o Encode(s[k]) \in B
  BY EncodeIsBytes, ConcatProperties
<1> HIDE DEF B
<1>4. IsSteps(step, 1..Len(s), B)
  BY <1>3 DEF IsSteps
<1>5. \A k \in 1..Len(s), v \in B : step[k][v] = v \o Encode(s[k])
  OBVIOUS
<1> HIDE DEF step
<1>6. PICK f : Ascends(f, Len(s), B, <<>>, step)
  BY <1>1, <1>2, <1>4, AscentExists
<1>7. ASSUME NEW k \in 1..Len(s) PROVE f[k] = f[k - 1] \o Encode(s[k])
  <2>1. f[k - 1] \in B
    BY <1>1, <1>6, AscentIn
  <2>2. f[k] = step[k][f[k - 1]]
    BY <1>6 DEF Ascends
  <2> QED
    BY <1>5, <2>1, <2>2
<1> QED
  BY <1>6, <1>7 DEF Ascends, Joins, B

\* What FlattenSeq gives for the first m segments.
LEMMA ContentsIs ==
    ASSUME NEW s \in Seq(Segment), NEW f, Joins(f, s), NEW m \in 0..Len(s)
    PROVE  Contents(SubSeq(s, 1, m)) = f[m]
<1>1. Len(s) \in Nat /\ m \in Nat
  BY LenProperties
<1> DEFINE sub == SubSeq(s, 1, m)
           parts == [k \in 1..m |-> Encode(s[k])]
<1>2. Len(sub) = m /\ \A k \in 1..m : sub[k] = s[k]
  <2>1. \A k \in 1..m : s[k] \in Segment
    BY <1>1, ElementOfSeq
  <2>2. /\ Len(sub) = IF 1 <= m THEN m - 1 + 1 ELSE 0
        /\ \A k \in 1..m - 1 + 1 : sub[k] = s[1 + k - 1]
    BY <1>1, <2>1, SubSeqProperties
  <2> HIDE DEF sub
  <2> QED
    BY <1>1, <2>2
<1> HIDE DEF sub
<1>3. [k \in 1..Len(sub) |-> Encode(sub[k])] = parts
  BY <1>2
<1>4. Len(parts) = m
  BY <1>1
<1>5. Contents(sub) = FlattenSeq(parts)
  BY <1>3 DEF Contents
<1>6. CASE m = 0
  <2>1. f[0] = <<>>
    BY DEF Joins
  <2>2. parts = <<>>
    BY <1>6
  <2> QED
    BY <1>4, <1>5, <1>6, <2>1, <2>2 DEF FlattenSeq, sub
<1>7. CASE m # 0
  <2> DEFINE Is(h) == h = [k \in 1..m |-> IF k = 1 THEN parts[k]
                                          ELSE h[k - 1] \o parts[k]]
             flatten == CHOOSE h : Is(h)
             g == [k \in 1..m |-> f[k]]
  <2>1. ASSUME NEW k \in 1..m
        PROVE  g[k] = IF k = 1 THEN parts[k] ELSE g[k - 1] \o parts[k]
    <3>1. k \in 1..Len(s) /\ parts[k] = Encode(s[k])
      BY <1>1
    <3>2. f[k] = f[k - 1] \o Encode(s[k])
      BY <3>1 DEF Joins
    <3>3. CASE k = 1
      <4>1. f[1] = <<>> \o Encode(s[1])
        BY <3>2, <3>3 DEF Joins
      <4>2. Encode(s[1]) \in Seq(Byte)
        BY <3>1, <3>3, EncodeIsBytes
      <4>3. f[1] = Encode(s[1])
        BY <4>1, <4>2, ConcatEmptySeq
      <4> QED
        BY <3>1, <3>3, <4>3
    <3>4. CASE k # 1
      <4>1. k - 1 \in 1..m
        BY <1>1, <3>4
      <4> QED
        BY <3>1, <3>2, <3>4, <4>1
    <3> QED
      BY <3>3, <3>4
  <2>2. Is(g)
    BY <2>1
  <2>3. Is(flatten)
    BY <2>2
  <2>4. FlattenSeq(parts) = flatten[m]
    BY <1>4, <1>7 DEF FlattenSeq
  <2> HIDE DEF flatten
  <2> DEFINE G == [k \in 0..m |-> IF k = 0 THEN <<>> ELSE flatten[k]]
             F == [k \in 0..m |-> IF k = 0 THEN <<>> ELSE f[k]]
  <2>5. ASSUME NEW k \in 1..m, G[k - 1] = F[k - 1] PROVE G[k] = F[k]
    <3>1. g[k] = IF k = 1 THEN parts[k] ELSE g[k - 1] \o parts[k]
      BY <2>1
    <3>2. flatten[k] = IF k = 1 THEN parts[k] ELSE flatten[k - 1] \o parts[k]
      BY <2>3
    <3>3. G[k] = flatten[k] /\ F[k] = f[k] /\ g[k] = f[k]
      BY <1>1
    <3>4. CASE k = 1
      BY <3>1, <3>2, <3>3, <3>4
    <3>5. CASE k # 1
      <4>1. k - 1 \in 1..m /\ k - 1 \in 0..m /\ k - 1 # 0
        BY <1>1, <3>5
      <4>2. flatten[k - 1] = f[k - 1] /\ g[k - 1] = f[k - 1]
        BY <2>5, <4>1
      <4> QED
        BY <3>1, <3>2, <3>3, <3>5, <4>2
    <3> QED
      BY <3>4, <3>5
  <2>6. G[0] = F[0]
    BY <1>1
  <2>7. \A k \in 0..m : G[k] = F[k]
    <3> HIDE DEF G, F, g, parts
    <3>1. m \in Nat
      BY <1>1
    <3>2. \A k \in 1..m : G[k - 1] = F[k - 1] => G[k] = F[k]
      BY <2>5
    <3>3. Onwards(G, F, m)
      BY <2>6, <3>2 DEF Onwards
    <3> QED
      BY <3>1, <3>3, SameUpwards
  <2>8. flatten[m] = f[m]
    BY <1>1, <1>7, <2>7
  <2> QED
    BY <1>5, <2>4, <2>8 DEF sub
<1> QED
  BY <1>6, <1>7

LEMMA WholeContentsIs ==
    ASSUME NEW s \in Seq(Segment), NEW f, Joins(f, s)
    PROVE  Contents(s) = f[Len(s)]
<1>1. Len(s) \in 0..Len(s)
  BY LenProperties
<1>2. SubSeq(s, 1, Len(s)) = s
  BY SubSeqFull
<1> QED
  BY <1>1, <1>2, ContentsIs

LEMMA Concatenated ==
    ASSUME NEW S, NEW a \in Seq(S), NEW e \in Seq(S)
    PROVE  /\ Len(a) \in Nat /\ Len(e) \in Nat
           /\ Len(a \o e) = Len(a) + Len(e)
           /\ \A x \in 1..Len(a) : (a \o e)[x] = a[x]
           /\ \A x \in 1..Len(e) : (a \o e)[Len(a) + x] = e[x]
<1>1. /\ Len(a \o e) = Len(a) + Len(e)
      /\ \A x \in 1..Len(a) + Len(e) :
             (a \o e)[x] = IF x <= Len(a) THEN a[x] ELSE e[x - Len(a)]
  BY ConcatProperties
<1>2. Len(a) \in Nat /\ Len(e) \in Nat
  BY LenProperties
<1>3. \A x \in 1..Len(a) : (a \o e)[x] = a[x]
  BY <1>1, <1>2
<1>4. ASSUME NEW x \in 1..Len(e) PROVE (a \o e)[Len(a) + x] = e[x]
  <2>1. Len(a) + x \in 1..Len(a) + Len(e) /\ ~(Len(a) + x <= Len(a))
        /\ (Len(a) + x) - Len(a) = x
    BY <1>2
  <2> QED
    BY <1>1, <2>1
<1> QED
  BY <1>1, <1>2, <1>3, <1>4

\* The first k segments are the beginning of the file.
LEMMA JoinsBegin ==
    ASSUME NEW s \in Seq(Segment), NEW f, Joins(f, s)
    PROVE  \A k \in 0..Len(s) :
               /\ Len(f[k]) \in Nat /\ Len(f[k]) <= Len(f[Len(s)])
               /\ \A x \in 1..Len(f[k]) : f[Len(s)][x] = f[k][x]
<1> DEFINE top == Len(s)
           M == {k \in 0..top :
                    /\ Len(f[k]) \in Nat /\ Len(f[k]) <= Len(f[top])
                    /\ \A x \in 1..Len(f[k]) : f[top][x] = f[k][x]}
<1>1. top \in Nat
  BY LenProperties
<1>2. Len(f[top]) \in Nat
  <2>1. f[top] \in Seq(Byte)
    BY <1>1 DEF Joins
  <2> QED
    BY <2>1, LenProperties
<1>3. top \in M
  BY <1>1, <1>2
<1>4. ASSUME NEW k \in 1..top, k \in M PROVE k - 1 \in M
  <2> DEFINE a == f[k - 1]
             b == f[k]
             c == f[top]
             e == Encode(s[k])
  <2>1. /\ k - 1 \in 0..top
        /\ Len(a) \in Nat /\ Len(e) \in Nat
        /\ Len(b) = Len(a) + Len(e)
        /\ \A x \in 1..Len(a) : b[x] = a[x]
    <3>1. k - 1 \in 0..top
      BY <1>1
    <3>2. a \in Seq(Byte) /\ e \in Seq(Byte) /\ b = a \o e
      BY <3>1, EncodeIsBytes DEF Joins
    <3> HIDE DEF a, b, e, M
    <3>3. /\ Len(a) \in Nat /\ Len(e) \in Nat
          /\ Len(b) = Len(a) + Len(e)
      BY <3>2, Concatenated
    <3>4. \A x \in 1..Len(a) : b[x] = a[x]
      BY <3>2, Concatenated
    <3> QED
      BY <3>1, <3>3, <3>4
  <2>2. /\ Len(b) \in Nat /\ Len(b) <= Len(c)
        /\ \A x \in 1..Len(b) : c[x] = b[x]
    BY <1>4
  <2> HIDE DEF a, b, c, e
  <2>3. Len(a) <= Len(c)
    BY <1>2, <2>1, <2>2 DEF c
  <2>4. \A x \in 1..Len(a) : c[x] = a[x]
    BY <2>1, <2>2
  <2> QED
    BY <2>1, <2>3, <2>4 DEF a, c
<1> HIDE DEF M
<1>5. \A k \in 0..top : k \in M
  BY <1>1, <1>3, <1>4, DownTo
<1> QED
  BY <1>5 DEF M

LEMMA ContentsAreBytes ==
    ASSUME NEW s \in Seq(Segment)
    PROVE  Contents(s) \in Seq(Byte)
<1>1. PICK f : Joins(f, s)
  BY JoinsExist
<1>2. Len(s) \in 0..Len(s)
  BY LenProperties
<1>3. f[Len(s)] \in Seq(Byte)
  BY <1>1, <1>2 DEF Joins
<1> QED
  BY <1>1, <1>3, WholeContentsIs

----------------------------------------------------------------------------
(* Where the segments of the file are.                                     *)

\* The file was read as it is, and is one that the constants allow for.
ReadAsIs ==
    /\ file \in Seq(Segment)
    /\ \A k \in 1..Len(file) : Len(file[k].value) < MaxWeight
    /\ bytes = Contents(file)

LEMMA StartIs ==
    ASSUME ReadAsIs, NEW f, Joins(f, file), NEW k \in 1..Len(file) + 1
    PROVE  Start(k) = Len(f[k - 1])
<1>1. k - 1 \in 0..Len(file)
  BY LenProperties DEF ReadAsIs
<1>2. Contents(SubSeq(file, 1, k - 1)) = f[k - 1]
  BY <1>1, ContentsIs DEF ReadAsIs
<1> QED
  BY <1>2 DEF Start

LEMMA NextStartIs ==
    ASSUME ReadAsIs, NEW k \in 1..Len(file)
    PROVE  /\ k + 1 \in 1..Len(file) + 1
           /\ Start(k) \in Nat /\ Len(Encode(file[k])) \in Nat
           /\ Start(k + 1) = Start(k) + Len(Encode(file[k]))
           /\ Start(k + 1) <= n /\ n \in Nat
<1>1. Len(file) \in Nat /\ file \in Seq(Segment)
  BY LenProperties DEF ReadAsIs
<1>2. /\ k \in 1..Len(file) + 1 /\ k + 1 \in 1..Len(file) + 1
      /\ (k + 1) - 1 = k
      /\ k - 1 \in 0..Len(file) /\ k \in 0..Len(file) /\ Len(file) \in 0..Len(file)
  BY <1>1
<1>3. PICK f : Joins(f, file)
  BY <1>1, JoinsExist
<1> DEFINE a == f[k - 1]
           e == Encode(file[k])
<1>4. a \in Seq(Byte) /\ e \in Seq(Byte) /\ f[k] = a \o e
  BY <1>1, <1>2, <1>3, EncodeIsBytes DEF Joins
<1>5. Start(k) = Len(a)
  BY <1>2, <1>3, StartIs
<1>6. Start(k + 1) = Len(f[k])
  BY <1>2, <1>3, StartIs
<1>7. Len(f[k]) <= Len(f[Len(file)]) /\ Len(f[Len(file)]) \in Nat
  BY <1>1, <1>2, <1>3, JoinsBegin
<1>8. n = Len(f[Len(file)])
  BY <1>1, <1>3, WholeContentsIs DEF ReadAsIs, n
<1> HIDE DEF a, e
<1>9. Len(a) \in Nat /\ Len(e) \in Nat /\ Len(f[k]) = Len(a) + Len(e)
  BY <1>4, Concatenated
<1> QED
  BY <1>2, <1>5, <1>6, <1>7, <1>8, <1>9 DEF a, e

LEMMA SegmentBytes ==
    ASSUME ReadAsIs, NEW k \in 1..Len(file),
           NEW x \in 1..Len(Encode(file[k]))
    PROVE  bytes[Start(k) + x] = Encode(file[k])[x]
<1>1. Len(file) \in Nat /\ file \in Seq(Segment)
  BY LenProperties DEF ReadAsIs
<1>2. /\ k \in 1..Len(file) + 1
      /\ k - 1 \in 0..Len(file) /\ k \in 0..Len(file)
  BY <1>1
<1>3. PICK f : Joins(f, file)
  BY <1>1, JoinsExist
<1> DEFINE a == f[k - 1]
           b == f[k]
           c == f[Len(file)]
           e == Encode(file[k])
           y == Len(a) + x
<1>4. a \in Seq(Byte) /\ e \in Seq(Byte) /\ b = a \o e
  BY <1>1, <1>2, <1>3, EncodeIsBytes DEF Joins
<1>5. Start(k) = Len(a)
  BY <1>2, <1>3, StartIs
<1>6. \A z \in 1..Len(b) : c[z] = b[z]
  BY <1>1, <1>2, <1>3, JoinsBegin
<1>7. bytes = c
  BY <1>1, <1>3, WholeContentsIs DEF ReadAsIs
<1>8. x \in 1..Len(e)
  OBVIOUS
<1> HIDE DEF a, b, c, e
<1>9. Len(a) \in Nat /\ Len(e) \in Nat /\ Len(b) = Len(a) + Len(e)
  BY <1>4, Concatenated
<1>10. b[y] = e[x]
  BY <1>4, <1>8, Concatenated
<1>11. y \in 1..Len(b)
  BY <1>8, <1>9
<1> HIDE DEF y
<1>12. c[y] = b[y]
  BY <1>6, <1>11
<1> QED
  BY <1>5, <1>7, <1>10, <1>12 DEF e, y

LEMMA StartsAscend ==
    ASSUME ReadAsIs, NEW k \in 1..Len(file) + 1, NEW m \in 1..Len(file) + 1,
           k <= m
    PROVE  Start(k) \in Nat /\ Start(k) <= Start(m)
<1>1. Len(file) \in Nat
  BY LenProperties DEF ReadAsIs
<1> DEFINE top == Len(file) + 1 - k
           M == {d \in 0..top : Start(k) \in Nat /\ Start(k + d) \in Nat
                                /\ Start(k) <= Start(k + d)}
<1>2. top \in Nat
  BY <1>1
<1>3. Start(k) \in Nat
  <2>1. CASE k \in 1..Len(file)
    BY <2>1, NextStartIs
  <2>2. CASE k = Len(file) + 1
    <3>1. PICK f : Joins(f, file)
      BY JoinsExist DEF ReadAsIs
    <3>2. Start(k) = Len(f[k - 1])
      BY <3>1, StartIs
    <3>3. k - 1 \in 0..Len(file)
      BY <1>1
    <3> DEFINE h == k - 1
    <3>4. f[h] \in Seq(Byte)
      BY <3>1, <3>3 DEF Joins
    <3>5. Len(f[h]) \in Nat
      BY <3>4, LenProperties
    <3> QED
      BY <3>2, <3>5
  <2> QED
    BY <1>1, <2>1, <2>2
<1>4. 0 \in M
  <2>1. k + 0 = k
    OBVIOUS
  <2> QED
    BY <1>2, <1>3, <2>1
<1>5. ASSUME NEW d \in 0..top - 1, d \in M PROVE d + 1 \in M
  <2> DEFINE h == k + d
  <2>1. h \in 1..Len(file) /\ h + 1 = k + (d + 1) /\ d + 1 \in 0..top
    BY <1>1
  <2>2. Start(h) \in Nat /\ Start(k) <= Start(h)
    BY <1>5
  <2> HIDE DEF h
  <2>3. Start(h + 1) = Start(h) + Len(Encode(file[h])) /\ Len(Encode(file[h])) \in Nat
    BY <2>1, NextStartIs
  <2>4. Start(h + 1) \in Nat /\ Start(k) <= Start(h + 1)
    BY <1>3, <2>2, <2>3
  <2> QED
    BY <1>3, <2>1, <2>4
<1>6. m - k \in 0..top /\ k + (m - k) = m
  BY <1>1
<1>7. m - k \in M
  <2> HIDE DEF M, top
  <2>1. \A d \in 0..top : d \in M
    BY <1>2, <1>4, <1>5, UpTo
  <2> QED
    BY <1>6, <2>1
<1> QED
  BY <1>6, <1>7

\* The parts of an entry.
Length(k) == Len(file[k].value)
Groups(length) == Len(Varint(length))

LEMMA ExternalIs ==
    ASSUME ReadAsIs, NEW k \in Externals
    PROVE  /\ k \in 1..Len(file) /\ k + 1 \in 1..Len(file) + 1
           /\ file[k].value \in Seq(Byte)
           /\ Length(k) \in Nat /\ Length(k) < MaxWeight
           /\ Start(k) \in Nat /\ n \in Nat
           /\ Groups(Length(k)) \in Nat
           /\ Start(k + 1) = Start(k) + plen + Groups(Length(k)) + Length(k)
           /\ Start(k + 1) <= n
           /\ \A x \in 1..plen : bytes[Start(k) + x] = Prefix[x]
           /\ \A x \in 1..Groups(Length(k)) :
                  bytes[Start(k) + plen + x] = Varint(Length(k))[x]
           /\ \A x \in 1..Length(k) :
                  bytes[Start(k) + plen + Groups(Length(k)) + x]
                      = file[k].value[x]
<1> DEFINE v == file[k].value
           L == Length(k)
           V == Varint(L)
           w == Groups(L)
           h == Prefix \o V
           e == Encode(file[k])
           a == Start(k)
           c == Len(e)
           p == plen
           l == p + w
<1>1. k \in 1..Len(file) /\ file[k].kind = "external"
  BY DEF Externals
<1>2. v \in Seq(Byte) /\ L = Len(v) /\ L < MaxWeight
  BY <1>1, SegmentIs DEF ReadAsIs, Length
<1>3. L \in Nat
  BY <1>2, LenProperties
<1>4. V \in Seq(Byte) /\ w = Len(V)
  BY <1>3, VarintStep DEF Groups
<1>5. e = h \o v
  BY <1>1 DEF Encode, Length
<1>6. /\ k + 1 \in 1..Len(file) + 1
      /\ a \in Nat
      /\ Start(k + 1) = a + c
      /\ Start(k + 1) <= n /\ n \in Nat
  BY <1>1, NextStartIs
<1>7. ASSUME NEW x \in 1..c PROVE bytes[a + x] = e[x]
  BY <1>1, SegmentBytes
<1>8. Prefix \in Seq(Byte) /\ p = Len(Prefix) /\ p \in Nat
  BY PlenPositive, ExternalDataAssumption DEF plen
<1> HIDE DEF v, L, V, w, e, a, p
<1>9. /\ \A x \in 1..p : h[x] = Prefix[x]
      /\ \A x \in 1..w : h[p + x] = V[x]
  BY <1>4, <1>8, Concatenated
<1>10. Len(h) = l /\ h \in Seq(Byte) /\ w \in Nat
  BY <1>4, <1>8, Concatenated, ConcatProperties
<1> HIDE DEF h
<1>11. /\ \A x \in 1..l : e[x] = h[x]
       /\ \A x \in 1..L : e[l + x] = v[x]
  BY <1>2, <1>5, <1>10, Concatenated
<1>12. c = l + L
  BY <1>2, <1>5, <1>10, Concatenated
<1> HIDE DEF c
<1>13. ASSUME NEW x \in 1..p PROVE bytes[a + x] = Prefix[x]
  <2>1. x \in 1..l /\ x \in 1..c
    BY <1>3, <1>8, <1>10, <1>12
  <2> QED
    BY <1>7, <1>9, <1>11, <2>1
<1>14. ASSUME NEW x \in 1..w PROVE bytes[a + p + x] = V[x]
  <2> DEFINE y == p + x
  <2>1. y \in 1..l /\ y \in 1..c /\ a + y = a + p + x
    BY <1>3, <1>6, <1>8, <1>10, <1>12
  <2>2. h[y] = V[x]
    BY <1>9
  <2> HIDE DEF y, l
  <2>3. bytes[a + y] = e[y] /\ e[y] = h[y]
    BY <1>7, <1>11, <2>1
  <2> QED
    BY <2>1, <2>2, <2>3
<1>15. ASSUME NEW x \in 1..L PROVE bytes[a + p + w + x] = v[x]
  <2> DEFINE y == l + x
  <2>1. y \in 1..c /\ a + y = a + p + w + x
    BY <1>3, <1>6, <1>8, <1>10, <1>12
  <2>2. e[y] = v[x]
    BY <1>11
  <2> HIDE DEF y
  <2>3. bytes[a + y] = e[y]
    BY <1>7, <2>1
  <2> QED
    BY <2>1, <2>2, <2>3
<1>16. Start(k + 1) = a + p + w + L
  BY <1>3, <1>6, <1>8, <1>10, <1>12
<1> QED
  BY <1>1, <1>2, <1>3, <1>6, <1>10, <1>13, <1>14, <1>15, <1>16
    DEF a, p, w, L, V, v

----------------------------------------------------------------------------
(* The search stays inside the file.                                       *)

\* Once the prefix has been seen the varint is behind it, and a length that is
\* not zero has at least one byte of its own.
BehindPrefix ==
    pc \in {"varint", "value"} => i + plen <= j /\ (len > 0 => i + plen < j)

\* The search has gone past what it has taken.
SearchIsAhead == \A k \in 1..Len(locations) : locations[k].to <= i

IInv == TypeOK /\ BehindPrefix /\ SearchIsAhead /\ LocationsApart

LEMMA AtIsByte ==
    ASSUME bytes \in Seq(Byte), NEW k \in Nat, k < n
    PROVE  At(k) \in Nat /\ At(k) % Base \in Nat
<1>1. k + 1 \in 1..Len(bytes)
  BY DEF n
<1>2. bytes[k + 1] \in Byte
  BY <1>1
<1>3. Base \in Nat \ {0}
  BY ExternalDataAssumption
<1> QED
  BY <1>2, <1>3 DEF At, Byte

LEMMA PositionsAreNumbers ==
    ASSUME TypeOK, NEW k \in 1..Len(locations)
    PROVE  locations[k].from \in Nat /\ locations[k].to \in Nat
<1>1. locations[k] \in [from : 0..n, to : 0..n]
  <2> DEFINE R == [from : 0..n, to : 0..n]
  <2>1. locations \in Seq(R)
    BY DEF TypeOK
  <2> HIDE DEF R
  <2>2. locations[k] \in R
    BY <2>1, ElementOfSeq
  <2> QED
    BY <2>2 DEF R
<1>2. n \in Nat
  BY DEF TypeOK, n
<1> QED
  BY <1>1, <1>2

LEMMA Starts == SearchInit /\ bytes \in Seq(Byte) => IInv
BY DEF SearchInit, IInv, TypeOK, BehindPrefix, SearchIsAhead, LocationsApart, n

LEMMA Initially == Init => IInv
<1> SUFFICES ASSUME Init PROVE IInv
  OBVIOUS
<1>1. file \in Seq(Segment)
  BY ExternalDataAssumption DEF Init
<1>2. bytes \in Seq(Byte)
  BY <1>1, ContentsAreBytes DEF Init
<1> QED
  BY <1>2, Starts DEF Init

LEMMA SkipKeeps == IInv /\ Skip => IInv'
<1> SUFFICES ASSUME IInv, Skip PROVE IInv'
  OBVIOUS
<1> USE DEF IInv, TypeOK, BehindPrefix, SearchIsAhead, LocationsApart, n
<1>1. TypeOK' /\ BehindPrefix'
  BY DEF Skip
<1>2. SearchIsAhead'
  <2>1. \A k \in 1..Len(locations) : locations[k].to \in Nat
    BY PositionsAreNumbers
  <2> QED
    BY <2>1 DEF Skip
<1>3. LocationsApart'
  BY DEF Skip, plen
<1> QED
  BY <1>1, <1>2, <1>3

LEMMA MatchKeeps == IInv /\ Match => IInv'
<1> SUFFICES ASSUME IInv, Match PROVE IInv'
  OBVIOUS
<1> USE PlenPositive
    DEF IInv, TypeOK, BehindPrefix, SearchIsAhead, LocationsApart, n
<1>1. TypeOK'
  BY DEF Match
<1>2. BehindPrefix'
  BY DEF Match
<1>3. SearchIsAhead' /\ LocationsApart'
  BY DEF Match
<1> QED
  BY <1>1, <1>2, <1>3

LEMMA GroupKeeps == IInv /\ Group => IInv'
<1> SUFFICES ASSUME IInv, Group PROVE IInv'
  OBVIOUS
<1> USE PlenPositive
<1>1. /\ j \in Nat /\ j < n /\ len \in Nat
      /\ weight \in Nat \ {0} /\ bytes \in Seq(Byte)
  BY DEF IInv, TypeOK, Group, TakeGroup, n
<1>2. At(j) % Base \in Nat
  BY <1>1, AtIsByte
<1>3. (At(j) % Base) * weight \in Nat
  BY <1>1, <1>2
<1>4. weight * Base \in Nat \ {0}
  BY <1>1, ExternalDataAssumption
<1>5. weight' \in Nat \ {0} /\ len' \in Nat /\ j' = j + 1
  BY <1>1, <1>3, <1>4 DEF Group, TakeGroup
<1>6. TypeOK'
  BY <1>1, <1>5 DEF IInv, TypeOK, Group, TakeGroup, n
<1>7. BehindPrefix'
  BY <1>1, <1>5 DEF IInv, TypeOK, BehindPrefix, Group, TakeGroup
<1>8. SearchIsAhead' /\ LocationsApart'
  BY DEF IInv, SearchIsAhead, LocationsApart, Group, TakeGroup
<1> QED
  BY <1>6, <1>7, <1>8 DEF IInv

LEMMA VarintEndsKeeps == IInv /\ VarintEnds => IInv'
BY DEF IInv, TypeOK, BehindPrefix, SearchIsAhead, LocationsApart, VarintEnds, n

LEMMA ValueKeeps == IInv /\ Value => IInv'
<1> SUFFICES ASSUME IInv, Value PROVE IInv'
  OBVIOUS
<1> DEFINE taken == [from |-> j, to |-> j + len]
<1>1. /\ i \in Nat /\ j \in 0..n /\ len \in Nat /\ n \in Nat
      /\ i + plen <= j /\ (len > 0 => i + plen < j)
      /\ locations \in Seq([from : 0..n, to : 0..n])
      /\ i' = j + len
  BY DEF IInv, TypeOK, BehindPrefix, Value, TakeValue, n
<1>2. \A k \in 1..Len(locations) :
          locations[k].from \in Nat /\ locations[k].to \in Nat
  BY PositionsAreNumbers DEF IInv
<1>3. CASE ~IsLocation
  <2>1. locations' = locations
    BY <1>3 DEF Value, TakeValue
  <2>2. TypeOK' /\ BehindPrefix'
    BY <1>1, <2>1 DEF IInv, TypeOK, BehindPrefix, Value, TakeValue, n
  <2>3. SearchIsAhead'
    BY <1>1, <1>2, <2>1, PlenPositive DEF IInv, SearchIsAhead
  <2>4. LocationsApart'
    BY <2>1 DEF IInv, LocationsApart
  <2> QED
    BY <2>2, <2>3, <2>4 DEF IInv
<1>4. CASE IsLocation
  <2>1. locations' = Append(locations, taken)
    BY <1>4 DEF Value, TakeValue
  <2>2. 0 < len /\ len < MaxValue /\ j + len <= n
    BY <1>4 DEF IsLocation
  <2>3. taken \in [from : 0..n, to : 0..n]
    BY <1>1, <2>2
  <2>4. /\ Len(locations') = Len(locations) + 1
        /\ \A k \in 1..Len(locations) : locations'[k] = locations[k]
        /\ locations'[Len(locations) + 1].from = j
        /\ locations'[Len(locations) + 1].to = j + len
        /\ locations' \in Seq([from : 0..n, to : 0..n])
    <3>1. locations'[Len(locations) + 1] = taken
      BY <1>1, <2>1
    <3>2. taken.from = j /\ taken.to = j + len
      OBVIOUS
    <3> QED
      BY <1>1, <2>1, <2>3, <3>1, <3>2
  <2>5. TypeOK' /\ BehindPrefix'
    BY <1>1, <2>4 DEF IInv, TypeOK, BehindPrefix, Value, TakeValue, n
  <2>6. \A k \in 1..Len(locations) : locations[k].to <= i
    BY DEF IInv, SearchIsAhead
  <2>7. SearchIsAhead'
    <3>1. SUFFICES ASSUME NEW k \in 1..Len(locations') PROVE locations'[k].to <= i'
      BY DEF SearchIsAhead
    <3>2. CASE k \in 1..Len(locations)
      <4>1. locations'[k].to = locations[k].to /\ locations[k].to \in Nat
        BY <1>2, <2>4, <3>2
      <4>2. locations[k].to <= i
        BY <2>6, <3>2
      <4> QED
        BY <1>1, <4>1, <4>2, PlenPositive
    <3>3. CASE k = Len(locations) + 1
      BY <1>1, <2>4, <3>3
    <3> QED
      BY <1>1, <2>4, <3>2, <3>3
  <2>8. ASSUME NEW k \in 1..Len(locations')
        PROVE  /\ plen <= locations'[k].from
               /\ locations'[k].from < locations'[k].to
               /\ locations'[k].to - locations'[k].from < MaxValue
    <3>1. CASE k \in 1..Len(locations)
      BY <2>4, <3>1 DEF IInv, LocationsApart
    <3>2. CASE k = Len(locations) + 1
      BY <1>1, <2>2, <2>4, <3>2, PlenPositive
    <3> QED
      BY <1>1, <2>4, <3>1, <3>2
  <2>9. ASSUME NEW k \in 1..Len(locations'), NEW m \in 1..Len(locations'), k < m
         PROVE  locations'[k].to + plen < locations'[m].from
    <3>1. k \in 1..Len(locations)
      BY <1>1, <2>4, <2>9
    <3>2. CASE m \in 1..Len(locations)
      BY <2>4, <2>9, <3>1, <3>2 DEF IInv, LocationsApart
    <3>3. CASE m = Len(locations) + 1
      <4>1. locations'[k].to = locations[k].to /\ locations[k].to \in Nat
        BY <1>2, <2>4, <3>1
      <4>2. locations[k].to <= i
        BY <2>6, <3>1
      <4>3. locations'[m].from = j
        BY <2>4, <3>3
      <4>4. i + plen < j /\ i \in Nat /\ j \in Nat /\ plen \in Nat
        BY <1>1, <2>2, PlenPositive
      <4> DEFINE t == locations[k].to
                 h == plen
      <4>5. t \in Nat /\ t <= i /\ i + h < j /\ h \in Nat
        BY <4>1, <4>2, <4>4
      <4> HIDE DEF t, h
      <4>6. t + h < j
        BY <4>4, <4>5
      <4> QED
        BY <4>1, <4>3, <4>6 DEF t, h
    <3> QED
      BY <1>1, <2>4, <3>2, <3>3
  <2>10. LocationsApart'
    BY <2>8, <2>9 DEF LocationsApart, plen
  <2> QED
    BY <2>5, <2>7, <2>10 DEF IInv
<1> QED
  BY <1>3, <1>4

LEMMA FinishKeeps == IInv /\ Finish => IInv'
BY DEF IInv, TypeOK, BehindPrefix, SearchIsAhead, LocationsApart, Finish, n

LEMMA Inductive == IInv /\ [Next]_vars => IInv'
<1> SUFFICES ASSUME IInv, [Next]_vars PROVE IInv'
  OBVIOUS
<1>1. CASE UNCHANGED vars
  BY <1>1 DEF vars, IInv, TypeOK, BehindPrefix, SearchIsAhead, LocationsApart, n
<1> QED
  BY <1>1, SkipKeeps, MatchKeeps, GroupKeeps, VarintEndsKeeps, ValueKeeps,
     FinishKeeps
     DEF Next

LEMMA Invariant == Spec => []IInv
BY Initially, Inductive, PTL DEF Spec

\* The search reads no byte outside the file and takes no name that is not
\* inside it, whatever the file holds.
THEOREM TypeCorrect == Spec => []TypeOK
<1>1. IInv => TypeOK
  BY DEF IInv
<1> QED
  BY <1>1, Invariant, PTL

\* No two of the names that the search takes share a byte.
THEOREM NamesApart == Spec => []LocationsApart
<1>1. IInv => LocationsApart
  BY DEF IInv
<1> QED
  BY <1>1, Invariant, PTL

----------------------------------------------------------------------------
(* The search ends.                                                        *)

LEMMA RemainingIs ==
    ASSUME IInv
    PROVE  SearchRemaining \in Nat
BY DEF IInv, TypeOK, SearchRemaining, n

\* Skip, Match and Group leave a byte behind, which pays for the at most two
\* steps that are then to be done.
LEMMA AdvanceLowers ==
    ASSUME IInv, Skip \/ Match \/ Group
    PROVE  SearchRemaining' < SearchRemaining
<1>1. /\ i \in Nat /\ j \in Nat /\ n \in Nat /\ n' = n
      /\ plen \in Nat \ {0}
  BY PlenPositive DEF IInv, TypeOK, n, Skip, Match, Group, TakeGroup
<1>2. CASE Skip
  BY <1>1, <1>2 DEF Skip, SearchRemaining
<1>3. CASE Match
  BY <1>1, <1>3 DEF Match, SearchRemaining
<1>4. CASE Group
  BY <1>1, <1>4 DEF Group, TakeGroup, SearchRemaining
<1> QED
  BY <1>2, <1>3, <1>4

\* The other steps do not go back.
LEMMA OthersLower ==
    ASSUME IInv, VarintEnds \/ Value \/ Finish
    PROVE  SearchRemaining' < SearchRemaining
<1>1. /\ i \in Nat /\ j \in Nat /\ n \in Nat /\ n' = n /\ len \in Nat
  BY DEF IInv, TypeOK, n, VarintEnds, Value, TakeValue, Finish
<1>2. CASE VarintEnds
  BY <1>1, <1>2 DEF VarintEnds, SearchRemaining
<1>3. CASE Value
  BY <1>1, <1>3 DEF Value, TakeValue, SearchRemaining
<1>4. CASE Finish
  BY <1>1, <1>4 DEF Finish, SearchRemaining
<1> QED
  BY <1>2, <1>3, <1>4

LEMMA NextLowers ==
    ASSUME IInv, Next
    PROVE  SearchRemaining' < SearchRemaining
BY AdvanceLowers, OthersLower DEF Next

\* In every file, whatever it holds, the search takes at most three steps for
\* each byte, and one more.
THEOREM SearchIsLinear ==
    Spec => /\ [](SearchRemaining \in 0..3 * n + 1)
            /\ [][SearchRemaining' < SearchRemaining]_vars
<1>1. IInv => SearchRemaining \in 0..3 * n + 1
  <2> SUFFICES ASSUME IInv PROVE SearchRemaining \in 0..3 * n + 1
    OBVIOUS
  <2>1. /\ i \in Nat /\ j \in 0..n /\ n \in Nat
        /\ plen \in Nat \ {0}
        /\ pc \in {"scan", "varint", "value", "done"}
        /\ pc \in {"varint", "value"} => i + plen <= j
    BY PlenPositive DEF IInv, TypeOK, BehindPrefix, n
  <2>2. CASE pc \in {"varint", "value"}
    BY <2>1, <2>2 DEF SearchRemaining
  <2>3. CASE pc \in {"scan", "done"}
    BY <2>1, <2>3 DEF SearchRemaining
  <2> QED
    BY <2>1, <2>2, <2>3
<1>2. IInv /\ [Next]_vars => [SearchRemaining' < SearchRemaining]_vars
  BY NextLowers
<1> QED
  BY <1>1, <1>2, Invariant, PTL DEF Spec

----------------------------------------------------------------------------
(* What the search has found, in a file that was read as it is and in      *)
(* which nothing else looks like an entry.                                 *)

IsTaken(k) == k \in Externals /\ 0 < Length(k) /\ Length(k) < MaxValue

Place(k) == [from |-> Start(k + 1) - Length(k), to |-> Start(k + 1)]

\* Between two entries the search has not passed into one.
AtSegments ==
    pc \in {"scan", "done"} =>
        \A k \in Externals : i <= Start(k) \/ Start(k + 1) <= i

\* In the varint of the k-th segment v is what is left of the length.
ReadsGroups(k, v) ==
    /\ weight * v + len = Length(k)
    /\ weight > 1 => v > 0
    /\ j + Groups(v) + Length(k) = Start(k + 1)
    /\ \A x \in 1..Groups(v) : bytes[j + x] = Varint(v)[x]

InEntry ==
    /\ pc = "varint" =>
           \E k \in Externals : i = Start(k) /\ \E v \in Nat : ReadsGroups(k, v)
    /\ pc = "value" =>
           \E k \in Externals :
               i = Start(k) /\ len = Length(k) /\ j + len = Start(k + 1)

Found ==
    /\ \A l \in 1..Len(locations) :
           \E k \in Externals :
               IsTaken(k) /\ Start(k + 1) <= i /\ locations[l] = Place(k)
    /\ \A k \in Externals :
           IsTaken(k) /\ Start(k) < i =>
               \E l \in 1..Len(locations) : locations[l] = Place(k)

\* At the end there is no room for another entry.
AtEnd == pc = "done" => i + plen >= n

SearchMeans ==
    ReadAsIs /\ Unambiguous => AtSegments /\ InEntry /\ Found /\ AtEnd

LEMMA MeaningStays ==
    ASSUME UNCHANGED <<file, bytes>>
    PROVE  /\ ReadAsIs' <=> ReadAsIs
           /\ Unambiguous' <=> Unambiguous
           /\ Externals' = Externals
           /\ n' = n
<1>1. ReadAsIs' <=> ReadAsIs
  BY DEF ReadAsIs
<1>2. Externals' = Externals
  BY DEF Externals
<1>3. n' = n
  BY DEF n
<1>4. Unambiguous' <=> Unambiguous
  BY <1>2, <1>3 DEF Unambiguous, PrefixAt, Slice, Start
<1> QED
  BY <1>1, <1>2, <1>3, <1>4

LEMMA PlacesStay ==
    ASSUME UNCHANGED <<file, bytes>>, NEW k
    PROVE  /\ Start(k)' = Start(k)
           /\ Start(k + 1)' = Start(k + 1)
           /\ Length(k)' = Length(k)
           /\ IsTaken(k)' <=> IsTaken(k)
           /\ Place(k)' = Place(k)
<1>1. Start(k)' = Start(k) /\ Start(k + 1)' = Start(k + 1) /\ Length(k)' = Length(k)
  BY DEF Start, Length
<1>2. IsTaken(k)' <=> IsTaken(k)
  BY <1>1, MeaningStays DEF IsTaken
<1>3. Place(k)' = Place(k)
  BY <1>1 DEF Place
<1> QED
  BY <1>1, <1>2, <1>3

\* The first group of a varint, and the others.
LEMMA FirstGroup ==
    ASSUME NEW v \in Nat
    PROVE  /\ Groups(v) \in Nat \ {0}
           /\ v < Base => Varint(v)[1] = v /\ Groups(v) = 1
           /\ ~(v < Base) =>
                  /\ Varint(v)[1] = Base + (v % Base)
                  /\ Groups(v) = 1 + Groups(v \div Base)
                  /\ \A x \in 1..Groups(v \div Base) :
                         Varint(v)[1 + x] = Varint(v \div Base)[x]
<1>1. CASE v < Base
  <2>1. Varint(v) = <<v>>
    BY <1>1, VarintStep
  <2>2. Groups(v) = 1 /\ Varint(v)[1] = v
    BY <2>1 DEF Groups
  <2> QED
    BY <1>1, <2>2
<1>2. CASE ~(v < Base)
  <2> DEFINE g == <<Base + (v % Base)>>
             t == Varint(v \div Base)
             r == Groups(v \div Base)
  <2>1. v \div Base \in Nat /\ g \in Seq(Byte)
    BY GroupsAreBytes
  <2>2. t \in Seq(Byte) /\ r = Len(t)
    BY <2>1, VarintStep DEF Groups
  <2>3. Varint(v) = g \o t
    BY <1>2, VarintStep
  <2>4. g[1] = Base + (v % Base) /\ Len(g) = 1
    OBVIOUS
  <2> HIDE DEF g, t, r
  <2> DEFINE c == g \o t
  <2>9. /\ Len(t) \in Nat
        /\ Len(c) = Len(g) + Len(t)
        /\ \A x \in 1..Len(g) : c[x] = g[x]
        /\ \A x \in 1..Len(t) : c[Len(g) + x] = t[x]
    BY <2>1, <2>2, Concatenated
  <2> HIDE DEF c
  <2>10. Varint(v) = c
    BY <2>3 DEF c
  <2>5. r \in Nat /\ Groups(v) = 1 + r
    BY <2>2, <2>4, <2>9, <2>10 DEF Groups
  <2>6. Varint(v)[1] = g[1]
    BY <2>4, <2>9, <2>10
  <2>7. \A x \in 1..r : Varint(v)[1 + x] = t[x]
    BY <2>2, <2>4, <2>9, <2>10
  <2>8. Groups(v) \in Nat \ {0}
    BY <2>5
  <2> QED
    BY <1>2, <2>4, <2>5, <2>6, <2>7, <2>8 DEF t, r
<1> QED
  BY <1>1, <1>2

\* A slice of the file.
LEMMA SliceIs ==
    ASSUME bytes \in Seq(Byte), NEW from \in Nat, NEW v \in Seq(Byte),
           NEW l, l = Len(v), from + l <= n,
           \A x \in 1..l : bytes[from + x] = v[x]
    PROVE  Slice(from, from + l) = v
<1>1. n \in Nat /\ l \in Nat /\ n = Len(bytes)
  BY LenProperties DEF n
<1> DEFINE m == from + 1
           h == from + l
           t == SubSeq(bytes, m, h)
<1>2. \A x \in m..h : bytes[x] \in Byte
  <2>1. \A x \in m..h : x \in 1..Len(bytes)
    BY <1>1
  <2> QED
    BY <2>1, ElementOfSeq
<1>3. m \in Int /\ h \in Int /\ (m <= h => h - m + 1 = l) /\ (~(m <= h) => l = 0)
      /\ h - m + 1 = l
  BY <1>1
<1>4. /\ t \in Seq(Byte)
      /\ Len(t) = IF m <= h THEN h - m + 1 ELSE 0
      /\ \A x \in 1..h - m + 1 : t[x] = bytes[m + x - 1]
  <2> HIDE DEF m, h
  <2> QED
    BY <1>2, <1>3, SubSeqProperties
<1> HIDE DEF t
<1>5. Len(t) = Len(v)
  BY <1>3, <1>4
<1>6. ASSUME NEW x \in 1..Len(t) PROVE t[x] = v[x]
  <2>1. x \in 1..l /\ x \in 1..h - m + 1
    BY <1>3, <1>5
  <2>2. m + x - 1 = from + x
    BY <2>1
  <2>3. t[x] = bytes[m + x - 1]
    BY <1>4, <2>1
  <2>4. bytes[from + x] = v[x]
    BY <2>1
  <2> QED
    BY <2>2, <2>3, <2>4
<1>7. t = v
  BY <1>4, <1>5, <1>6, SeqEqual
<1> QED
  BY <1>7 DEF t, Slice

LEMMA PrefixAtStart ==
    ASSUME ReadAsIs, bytes \in Seq(Byte), NEW k \in Externals
    PROVE  PrefixAt(Start(k)) /\ Start(k) + plen < Start(k + 1)
<1> DEFINE a == Start(k)
           p == plen
           L == Length(k)
           w == Groups(L)
<1>1. /\ a \in Nat /\ L \in Nat /\ n \in Nat
      /\ Start(k + 1) = a + p + w + L /\ Start(k + 1) <= n
  BY ExternalIs
<1>2. \A x \in 1..p : bytes[a + x] = Prefix[x]
  BY ExternalIs
<1>3. p \in Nat /\ p = Len(Prefix) /\ Prefix \in Seq(Byte)
  BY PlenPositive, ExternalDataAssumption DEF plen
<1>4. w \in Nat \ {0}
  BY <1>1, FirstGroup
<1> HIDE DEF a, p, L, w
<1>5. a + p < Start(k + 1) /\ a + p <= n
  BY <1>1, <1>3, <1>4
<1>6. Slice(a, a + p) = Prefix
  BY <1>1, <1>2, <1>3, <1>5, SliceIs
<1> QED
  BY <1>5, <1>6 DEF a, p, PrefixAt

\* What looks like an entry where the search is looking is one.
LEMMA PrefixIsEntry ==
    ASSUME ReadAsIs, Unambiguous, AtSegments, pc = "scan",
           bytes \in Seq(Byte), i \in Nat, i + plen < n, PrefixAt(i)
    PROVE  \E k \in Externals : i = Start(k)
<1>1. n \in Nat
  BY LenProperties DEF n
<1>2. i \in 0..n - plen
  BY <1>1, PlenPositive
<1>3. PICK k \in Externals : i \in Start(k)..Start(k + 1) - 1
  BY <1>2 DEF Unambiguous
<1>4. i <= Start(k) \/ Start(k + 1) <= i
  BY DEF AtSegments
<1>5. Start(k) \in Nat /\ Start(k + 1) \in Nat
  <2>1. /\ Start(k) \in Nat /\ Groups(Length(k)) \in Nat /\ Length(k) \in Nat
        /\ Start(k + 1) = Start(k) + plen + Groups(Length(k)) + Length(k)
    BY ExternalIs
  <2> QED
    BY <2>1, PlenPositive
<1> QED
  BY <1>3, <1>4, <1>5

\* The facts about an entry that the steps need, with Start(k + 1) as a number.
LEMMA EntryIs ==
    ASSUME ReadAsIs, bytes \in Seq(Byte), NEW k \in Externals
    PROVE  /\ k \in 1..Len(file) /\ k + 1 \in 1..Len(file) + 1
           /\ Start(k) \in Nat /\ Start(k + 1) \in Nat
           /\ Start(k) + plen < Start(k + 1) /\ Start(k + 1) <= n /\ n \in Nat
           /\ Length(k) \in Nat /\ Length(k) < MaxWeight
           /\ Start(k + 1) = Start(k) + plen + Groups(Length(k)) + Length(k)
           /\ PrefixAt(Start(k))
<1>1. /\ k \in 1..Len(file) /\ k + 1 \in 1..Len(file) + 1
      /\ Start(k) \in Nat /\ n \in Nat
      /\ Length(k) \in Nat /\ Length(k) < MaxWeight
      /\ Groups(Length(k)) \in Nat
      /\ Start(k + 1) = Start(k) + plen + Groups(Length(k)) + Length(k)
      /\ Start(k + 1) <= n
  BY ExternalIs
<1>2. PrefixAt(Start(k)) /\ Start(k) + plen < Start(k + 1)
  BY PrefixAtStart
<1>3. Start(k + 1) \in Nat
  BY <1>1, PlenPositive
<1> QED
  BY <1>1, <1>2, <1>3

LEMMA EntriesAscend ==
    ASSUME ReadAsIs, bytes \in Seq(Byte),
           NEW k \in Externals, NEW m \in Externals, k < m
    PROVE  Start(k + 1) <= Start(m)
<1>1. k + 1 \in 1..Len(file) + 1 /\ m \in 1..Len(file) + 1 /\ k + 1 <= m
  <2>1. k \in 1..Len(file) /\ m \in 1..Len(file)
    BY DEF Externals
  <2> QED
    BY <2>1
<1> QED
  BY <1>1, StartsAscend

LEMMA SearchStarts == SearchInit /\ bytes \in Seq(Byte) => SearchMeans
<1> SUFFICES ASSUME SearchInit, bytes \in Seq(Byte), ReadAsIs
             PROVE  AtSegments /\ InEntry /\ Found /\ AtEnd
  BY DEF SearchMeans
<1>1. \A k \in Externals : Start(k) \in Nat
  BY EntryIs
<1> QED
  BY <1>1 DEF SearchInit, AtSegments, InEntry, Found, AtEnd

\* A step that leaves what has been found, and where the search is.
LEMMA FoundStays ==
    ASSUME Found, UNCHANGED <<file, bytes, i, locations>>
    PROVE  Found'
<1>1. Externals' = Externals
  BY MeaningStays
<1>2. \A k : /\ Start(k)' = Start(k) /\ Start(k + 1)' = Start(k + 1)
             /\ (IsTaken(k)' <=> IsTaken(k)) /\ Place(k)' = Place(k)
  BY PlacesStay
<1>3. /\ \A l \in 1..Len(locations) :
             \E k \in Externals :
                 IsTaken(k) /\ Start(k + 1) <= i /\ locations[l] = Place(k)
      /\ \A k \in Externals :
             IsTaken(k) /\ Start(k) < i =>
                 \E l \in 1..Len(locations) : locations[l] = Place(k)
  BY DEF Found
<1>4. ASSUME NEW l \in 1..Len(locations')
      PROVE  \E k \in Externals' :
                 IsTaken(k)' /\ Start(k + 1)' <= i' /\ locations'[l] = Place(k)'
  <2>1. PICK k \in Externals :
            IsTaken(k) /\ Start(k + 1) <= i /\ locations[l] = Place(k)
    BY <1>3
  <2> QED
    BY <1>1, <1>2, <2>1
<1>5. ASSUME NEW k \in Externals', IsTaken(k)', Start(k)' < i'
      PROVE  \E l \in 1..Len(locations') : locations'[l] = Place(k)'
  <2>1. IsTaken(k) /\ Start(k) < i /\ k \in Externals
    BY <1>1, <1>2, <1>5
  <2> QED
    BY <1>2, <1>3, <2>1
<1> QED
  BY <1>4, <1>5 DEF Found

LEMMA SkipSearches == IInv /\ SearchMeans /\ Skip => SearchMeans'
<1> SUFFICES ASSUME IInv, SearchMeans, Skip, ReadAsIs', Unambiguous'
             PROVE  AtSegments' /\ InEntry' /\ Found' /\ AtEnd'
  BY DEF SearchMeans
<1>1. UNCHANGED <<file, bytes>> /\ locations' = locations /\ pc = "scan"
      /\ pc' = "scan" /\ i' = i + 1 /\ ~PrefixAt(i) /\ i + plen < n
  BY DEF Skip
<1>2. /\ ReadAsIs /\ Externals' = Externals
      /\ AtSegments /\ Found
  BY <1>1, MeaningStays DEF SearchMeans
<1>3. i \in Nat /\ bytes \in Seq(Byte)
  BY DEF IInv, TypeOK
<1>4. ASSUME NEW k \in Externals
      PROVE  Start(k) \in Nat /\ Start(k + 1) \in Nat /\ i # Start(k)
  BY <1>1, <1>2, <1>3, EntryIs
<1>5. \A k : /\ Start(k)' = Start(k) /\ Start(k + 1)' = Start(k + 1)
             /\ (IsTaken(k)' <=> IsTaken(k)) /\ Place(k)' = Place(k)
  BY <1>1, PlacesStay
<1>6. AtSegments'
  <2> SUFFICES ASSUME NEW k \in Externals'
               PROVE  i' <= Start(k)' \/ Start(k + 1)' <= i'
    BY DEF AtSegments
  <2>1. i <= Start(k) \/ Start(k + 1) <= i
    BY <1>1, <1>2 DEF AtSegments
  <2> QED
    BY <1>1, <1>2, <1>3, <1>4, <1>5, <2>1
<1>7. Found'
  <2>1. ASSUME NEW l \in 1..Len(locations')
        PROVE  \E k \in Externals' :
                   IsTaken(k)' /\ Start(k + 1)' <= i' /\ locations'[l] = Place(k)'
    <3>1. PICK k \in Externals :
              IsTaken(k) /\ Start(k + 1) <= i /\ locations[l] = Place(k)
      BY <1>1, <1>2 DEF Found
    <3>2. Start(k + 1) <= i + 1
      BY <1>3, <1>4, <3>1
    <3> QED
      BY <1>1, <1>2, <1>5, <3>1, <3>2
  <2>2. ASSUME NEW k \in Externals', IsTaken(k)', Start(k)' < i'
        PROVE  \E l \in 1..Len(locations') : locations'[l] = Place(k)'
    <3>1. IsTaken(k) /\ Start(k) < i + 1 /\ k \in Externals
      BY <1>1, <1>2, <1>5, <2>2
    <3>2. Start(k) < i
      BY <1>3, <1>4, <3>1
    <3>3. PICK l \in 1..Len(locations) : locations[l] = Place(k)
      BY <1>2, <3>1, <3>2 DEF Found
    <3> QED
      BY <1>1, <1>5, <3>3
  <2> QED
    BY <2>1, <2>2 DEF Found
<1> QED
  BY <1>1, <1>6, <1>7 DEF InEntry, AtEnd

LEMMA MatchSearches == IInv /\ SearchMeans /\ Match => SearchMeans'
<1> SUFFICES ASSUME IInv, SearchMeans, Match, ReadAsIs', Unambiguous'
             PROVE  AtSegments' /\ InEntry' /\ Found' /\ AtEnd'
  BY DEF SearchMeans
<1>1. /\ UNCHANGED <<file, bytes, i, locations>> /\ pc = "scan"
      /\ pc' = "varint" /\ j' = i + plen /\ len' = 0 /\ weight' = 1
      /\ PrefixAt(i) /\ i + plen < n
  BY DEF Match
<1>2. /\ ReadAsIs /\ Unambiguous /\ Externals' = Externals
      /\ AtSegments /\ Found
  BY <1>1, MeaningStays DEF SearchMeans
<1>3. i \in Nat /\ bytes \in Seq(Byte)
  BY DEF IInv, TypeOK
<1>4. PICK k \in Externals : i = Start(k)
  BY <1>1, <1>2, <1>3, PrefixIsEntry
<1>5. /\ Length(k) \in Nat /\ Groups(Length(k)) \in Nat
      /\ Start(k + 1) = i + plen + Groups(Length(k)) + Length(k)
      /\ \A x \in 1..Groups(Length(k)) :
             bytes[i + plen + x] = Varint(Length(k))[x]
  BY <1>2, <1>4, ExternalIs
<1>6. PICK v \in Nat : v = Length(k)
  BY <1>5
<1>7. Start(k)' = Start(k) /\ Start(k + 1)' = Start(k + 1) /\ Length(k)' = v
  BY <1>1, <1>6, PlacesStay
<1>8. plen \in Nat /\ i + plen \in Nat /\ j' = i + plen
  BY <1>1, <1>3, PlenPositive
<1>9. ReadsGroups(k, v)'
  <2>1. /\ weight' * v + len' = v /\ ~(weight' > 1)
        /\ j' + Groups(v) + v = Start(k + 1)
    BY <1>1, <1>5, <1>6, <1>8
  <2>2. \A x \in 1..Groups(v) : bytes'[j' + x] = Varint(v)[x]
    BY <1>1, <1>5, <1>6, <1>8
  <2>3. Groups(v)' = Groups(v) /\ Varint(v)' = Varint(v)
    BY DEF Groups
  <2> QED
    BY <1>7, <2>1, <2>2, <2>3 DEF ReadsGroups
<1>10. InEntry'
  BY <1>1, <1>2, <1>4, <1>7, <1>9 DEF InEntry
<1>11. Found'
  BY <1>1, <1>2, FoundStays
<1> QED
  BY <1>1, <1>10, <1>11 DEF AtSegments, AtEnd

\* While there is a group to read the search reads it.
LEMMA GroupIsThere ==
    ASSUME IInv, ReadAsIs, NEW k \in Externals, NEW v \in Nat, ReadsGroups(k, v)
    PROVE  j < n /\ weight < MaxWeight /\ At(j) = Varint(v)[1]
<1>1. /\ j \in Nat /\ len \in Nat /\ weight \in Nat \ {0} /\ bytes \in Seq(Byte)
  BY DEF IInv, TypeOK
<1>2. /\ Start(k + 1) <= n /\ n \in Nat
      /\ Length(k) \in Nat /\ Length(k) < MaxWeight
  BY <1>1, EntryIs
<1>3. Groups(v) \in Nat \ {0}
  BY FirstGroup
<1>4. /\ weight * v + len = Length(k) /\ (weight > 1 => v > 0)
      /\ j + Groups(v) + Length(k) = Start(k + 1)
      /\ \A x \in 1..Groups(v) : bytes[j + x] = Varint(v)[x]
  BY DEF ReadsGroups
<1>5. j < n
  BY <1>1, <1>2, <1>3, <1>4
<1>6. weight < MaxWeight
  <2>1. MaxWeight \in Nat \ {0, 1}
    BY ExternalDataAssumption
  <2>2. CASE weight > 1
    <3>1. weight * v \in Nat
      BY <1>1
    <3>2. weight <= weight * v
      BY <1>1, <1>4, <2>2
    <3> QED
      BY <1>1, <1>2, <1>4, <2>1, <3>1, <3>2
  <2>3. CASE ~(weight > 1)
    BY <1>1, <2>1, <2>3
  <2> QED
    BY <2>2, <2>3
<1>7. At(j) = Varint(v)[1]
  <2>1. 1 \in 1..Groups(v)
    BY <1>3
  <2> QED
    BY <1>4, <2>1 DEF At
<1> QED
  BY <1>5, <1>6, <1>7

\* Taking a group apart: what it says and what it leaves.
LEMMA GroupArithmetic ==
    ASSUME NEW w \in Nat \ {0}, NEW b \in Nat \ {0}, NEW q \in Nat, NEW r \in Nat,
           NEW v, NEW l \in Nat, v = b * q + r
    PROVE  (w * b) * q + (l + r * w) = w * v + l
<1>1. w * v = w * (b * q) + w * r
  OBVIOUS
<1>2. w * (b * q) = (w * b) * q
  OBVIOUS
<1> DEFINE x == (w * b) * q
           y == r * w
<1>3. y \in Nat /\ w * r = y
  OBVIOUS
<1>4. x \in Nat
  <2>1. w * b \in Nat
    OBVIOUS
  <2> QED
    BY <2>1
<1> HIDE DEF x, y
<1>5. w * v = x + y
  BY <1>1, <1>2, <1>3 DEF x
<1> QED
  BY <1>3, <1>4, <1>5 DEF x, y

LEMMA GroupSearches == IInv /\ SearchMeans /\ Group => SearchMeans'
<1> SUFFICES ASSUME IInv, SearchMeans, Group, ReadAsIs', Unambiguous'
             PROVE  AtSegments' /\ InEntry' /\ Found' /\ AtEnd'
  BY DEF SearchMeans
<1>1. /\ UNCHANGED <<file, bytes, i, locations>> /\ pc = "varint"
      /\ j' = j + 1 /\ len' = len + (At(j) % Base) * weight
      /\ At(j) < Base => pc' = "value" /\ weight' = weight
      /\ ~(At(j) < Base) => pc' = "varint" /\ weight' = weight * Base
  BY DEF Group, TakeGroup
<1>2. /\ ReadAsIs /\ Externals' = Externals /\ Found
  BY <1>1, MeaningStays DEF SearchMeans
<1>3. PICK k \in Externals : i = Start(k) /\ \E v \in Nat : ReadsGroups(k, v)
  BY <1>1, <1>2, MeaningStays DEF SearchMeans, InEntry
<1>4. PICK v \in Nat : ReadsGroups(k, v)
  BY <1>3
<1>5. /\ j \in Nat /\ len \in Nat /\ weight \in Nat \ {0}
      /\ bytes \in Seq(Byte)
  BY DEF IInv, TypeOK
<1>6. Base \in Nat \ {0}
  BY ExternalDataAssumption
<1>7. /\ weight * v + len = Length(k)
      /\ j + Groups(v) + Length(k) = Start(k + 1)
      /\ \A x \in 1..Groups(v) : bytes[j + x] = Varint(v)[x]
  BY <1>4 DEF ReadsGroups
<1>8. At(j) = Varint(v)[1]
  BY <1>2, <1>4, GroupIsThere
<1>9. Start(k)' = Start(k) /\ Start(k + 1)' = Start(k + 1) /\ Length(k)' = Length(k)
  BY <1>1, PlacesStay
<1>10. Length(k) \in Nat
  BY <1>2, <1>5, EntryIs
<1>11. CASE v < Base
  <2>1. At(j) = v /\ Groups(v) = 1
    BY <1>8, <1>11, FirstGroup
  <2>2. At(j) % Base = v
    BY <1>6, <1>11, <2>1
  <2>3. weight * v \in Nat /\ v * weight = weight * v
    BY <1>5
  <2>4. len' = Length(k)
    BY <1>1, <1>5, <1>7, <2>2, <2>3
  <2>5. j' + len' = Start(k + 1)
    BY <1>1, <1>5, <1>7, <1>10, <2>1, <2>4
  <2>6. pc' = "value"
    BY <1>1, <1>11, <2>1
  <2> QED
    BY <1>1, <1>2, <1>3, <1>9, <2>4, <2>5, <2>6, FoundStays
      DEF InEntry, AtSegments, AtEnd
<1>12. CASE ~(v < Base)
  <2> DEFINE q == v \div Base
             r == v % Base
  <2>1. q \in Nat /\ r \in 0..Base - 1 /\ v = Base * q + r
    BY <1>6, Divide
  <2>2. q > 0
    BY <1>12, GroupsAreBytes
  <2>3. /\ At(j) = Base + r /\ Groups(v) = 1 + Groups(q)
        /\ \A x \in 1..Groups(q) : Varint(v)[1 + x] = Varint(q)[x]
    BY <1>8, <1>12, FirstGroup
  <2>4. Groups(q) \in Nat
    BY <2>1, FirstGroup
  <2> HIDE DEF q, r
  <2>5. ~(At(j) < Base)
    BY <1>6, <2>1, <2>3
  <2>6. At(j) % Base = r
    <3>1. (1 * Base + r) % Base = r
      BY <1>6, <2>1, DivideSum
    <3>2. 1 * Base + r = Base + r
      BY <1>6, <2>1
    <3> QED
      BY <2>3, <3>1, <3>2
  <2>7. weight' = weight * Base /\ len' = len + r * weight /\ pc' = "varint"
    BY <1>1, <2>5, <2>6
  <2>8. (weight * Base) * q + (len + r * weight) = weight * v + len
    BY <1>5, <1>6, <2>1, GroupArithmetic
  <2>9. weight' * q + len' = Length(k)
    BY <1>7, <2>7, <2>8
  <2>10. j' + Groups(q) + Length(k) = Start(k + 1)
    BY <1>1, <1>5, <1>7, <1>10, <2>3, <2>4
  <2>11. ASSUME NEW x \in 1..Groups(q) PROVE bytes[j' + x] = Varint(q)[x]
    <3>1. 1 + x \in 1..Groups(v) /\ j' + x = j + (1 + x)
      BY <1>1, <1>5, <2>3, <2>4
    <3>2. bytes[j + (1 + x)] = Varint(v)[1 + x]
      BY <1>7, <3>1
    <3> QED
      BY <2>3, <3>1, <3>2
  <2>12. PICK u \in Nat : u = q
    BY <2>1
  <2>13. ReadsGroups(k, u)'
    <3>1. Groups(u)' = Groups(u) /\ Varint(u)' = Varint(u)
      BY DEF Groups
    <3>2. u = q
      BY <2>12
    <3>3. weight' * u + len' = Length(k) /\ u > 0
          /\ j' + Groups(u) + Length(k) = Start(k + 1)
      BY <2>2, <2>9, <2>10, <3>2
    <3>4. \A x \in 1..Groups(u) : bytes'[j' + x] = Varint(u)[x]
      BY <1>1, <2>11, <3>2
    <3> QED
      BY <1>9, <3>1, <3>3, <3>4 DEF ReadsGroups
  <2>14. InEntry'
    BY <1>1, <1>2, <1>3, <1>9, <2>7, <2>13 DEF InEntry
  <2> QED
    BY <1>1, <1>2, <2>7, <2>14, FoundStays DEF AtSegments, AtEnd
<1> QED
  BY <1>11, <1>12

LEMMA VarintEndsSearches == IInv /\ SearchMeans /\ VarintEnds => SearchMeans'
<1> SUFFICES ASSUME IInv, SearchMeans, VarintEnds, ReadAsIs', Unambiguous' PROVE FALSE
  BY DEF SearchMeans
<1>1. /\ UNCHANGED <<file, bytes>> /\ pc = "varint"
      /\ ~(j < n /\ weight < MaxWeight)
  BY DEF VarintEnds
<1>2. ReadAsIs /\ InEntry
  BY <1>1, MeaningStays DEF SearchMeans
<1>3. PICK k \in Externals : \E v \in Nat : ReadsGroups(k, v)
  BY <1>1, <1>2 DEF InEntry
<1>4. PICK v \in Nat : ReadsGroups(k, v)
  BY <1>3
<1> QED
  BY <1>1, <1>2, <1>4, GroupIsThere

LEMMA ValueSearches == IInv /\ SearchMeans /\ Value => SearchMeans'
<1> SUFFICES ASSUME IInv, SearchMeans, Value, ReadAsIs', Unambiguous'
             PROVE  AtSegments' /\ InEntry' /\ Found' /\ AtEnd'
  BY DEF SearchMeans
<1>1. /\ UNCHANGED <<file, bytes>> /\ pc = "value" /\ pc' = "scan"
      /\ i' = j + len
      /\ IsLocation =>
             locations' = Append(locations, [from |-> j, to |-> j + len])
      /\ ~IsLocation => locations' = locations
  BY DEF Value, TakeValue
<1>2. /\ ReadAsIs /\ Externals' = Externals /\ Found /\ InEntry
  BY <1>1, MeaningStays DEF SearchMeans
<1>3. /\ i \in Nat /\ j \in Nat /\ len \in Nat /\ bytes \in Seq(Byte)
      /\ locations \in Seq([from : 0..n, to : 0..n])
  BY DEF IInv, TypeOK
<1>4. PICK k \in Externals :
          i = Start(k) /\ len = Length(k) /\ j + len = Start(k + 1)
  BY <1>1, <1>2 DEF InEntry
<1>5. /\ Start(k) \in Nat /\ Start(k + 1) \in Nat /\ Start(k) < Start(k + 1)
      /\ Start(k + 1) <= n /\ Length(k) \in Nat
  BY <1>2, <1>3, PlenPositive, EntryIs
<1>6. IsLocation <=> IsTaken(k)
  BY <1>3, <1>4, <1>5 DEF IsLocation, IsTaken
<1>7. [from |-> j, to |-> j + len] = Place(k)
  BY <1>3, <1>4, <1>5 DEF Place
<1>8. \A m : /\ Start(m)' = Start(m) /\ Start(m + 1)' = Start(m + 1)
             /\ (IsTaken(m)' <=> IsTaken(m)) /\ Place(m)' = Place(m)
  BY <1>1, PlacesStay
<1>9. i' = Start(k + 1) /\ i < i'
  BY <1>1, <1>4, <1>5
<1>10. ASSUME NEW m \in Externals
       PROVE  /\ Start(m) \in Nat /\ Start(m + 1) \in Nat
              /\ Start(m) < Start(m + 1)
              /\ m < k => Start(m + 1) <= Start(k)
              /\ k < m => Start(k + 1) <= Start(m)
              /\ m < k \/ m = k \/ k < m
  <2>1. /\ Start(m) \in Nat /\ Start(m + 1) \in Nat /\ Start(m) < Start(m + 1)
    <3>1. /\ Start(m) \in Nat /\ Start(m + 1) \in Nat
          /\ Start(m) + plen < Start(m + 1)
      BY <1>2, <1>3, EntryIs
    <3> DEFINE a == Start(m)
               b == Start(m + 1)
               h == plen
    <3>2. a \in Nat /\ b \in Nat /\ a + h < b /\ h \in Nat \ {0}
      BY <3>1, PlenPositive
    <3> HIDE DEF a, b, h
    <3>3. a < b
      BY <3>2
    <3> QED
      BY <3>1, <3>3 DEF a, b
  <2>2. /\ m < k => Start(m + 1) <= Start(k)
        /\ k < m => Start(k + 1) <= Start(m)
    BY <1>2, <1>3, EntriesAscend
  <2>3. m \in Nat /\ k \in Nat
    BY DEF Externals
  <2> QED
    BY <2>1, <2>2, <2>3
<1>11. AtSegments'
  <2> SUFFICES ASSUME NEW m \in Externals'
               PROVE  i' <= Start(m)' \/ Start(m + 1)' <= i'
    BY DEF AtSegments
  <2>1. m \in Externals
    BY <1>2
  <2> QED
    BY <1>5, <1>8, <1>9, <1>10, <2>1
<1>12. /\ Len(locations') \in Nat
       /\ Len(locations) <= Len(locations')
       /\ \A l \in 1..Len(locations) : locations'[l] = locations[l]
       /\ IsTaken(k) => locations'[Len(locations')] = Place(k)
                        /\ Len(locations') = Len(locations) + 1
       /\ ~IsTaken(k) => locations' = locations
  <2>1. Len(locations) \in Nat
    BY <1>3, LenProperties
  <2>2. CASE ~IsTaken(k)
    BY <1>1, <1>6, <2>1, <2>2
  <2>3. CASE IsTaken(k)
    <3>1. locations' = Append(locations, Place(k))
      BY <1>1, <1>6, <1>7, <2>3
    <3>2. /\ Len(locations') = Len(locations) + 1
          /\ \A l \in 1..Len(locations) : locations'[l] = locations[l]
          /\ locations'[Len(locations) + 1] = Place(k)
      <4> DEFINE S == [from : 0..n, to : 0..n]
                 place == Place(k)
      <4>1. locations \in Seq(S)
        BY <1>3
      <4> HIDE DEF S, place
      <4> QED
        BY <3>1, <4>1, AppendProperties DEF place
    <3> QED
      BY <2>1, <2>3, <3>2
  <2> QED
    BY <2>2, <2>3
<1>13. ASSUME NEW l \in 1..Len(locations')
       PROVE  \E m \in Externals' :
                  IsTaken(m)' /\ Start(m + 1)' <= i' /\ locations'[l] = Place(m)'
  <2>1. CASE l \in 1..Len(locations)
    <3>1. PICK m \in Externals :
              IsTaken(m) /\ Start(m + 1) <= i /\ locations[l] = Place(m)
      BY <1>2, <2>1 DEF Found
    <3>2. Start(m + 1) <= i'
      BY <1>3, <1>5, <1>9, <1>10, <3>1
    <3> QED
      BY <1>2, <1>8, <1>12, <2>1, <3>1, <3>2
  <2>2. CASE ~(l \in 1..Len(locations))
    <3>1. IsTaken(k) /\ locations'[l] = Place(k)
      BY <1>3, <1>12, <2>2
    <3>2. Start(k + 1) <= i'
      BY <1>5, <1>9
    <3> QED
      BY <1>2, <1>8, <3>1, <3>2
  <2> QED
    BY <2>1, <2>2
<1>14. ASSUME NEW m \in Externals', IsTaken(m)', Start(m)' < i'
       PROVE  \E l \in 1..Len(locations') : locations'[l] = Place(m)'
  <2>1. m \in Externals /\ IsTaken(m) /\ Start(m) < Start(k + 1)
    BY <1>2, <1>8, <1>9, <1>14
  <2>2. CASE m = k
    <3>1. Len(locations') \in 1..Len(locations')
      BY <1>3, <1>12, <2>1, <2>2
    <3> QED
      BY <1>8, <1>12, <2>1, <2>2, <3>1
  <2>3. CASE m # k
    <3>1. Start(m) < i
      BY <1>4, <1>5, <1>10, <2>1, <2>3
    <3>2. PICK l \in 1..Len(locations) : locations[l] = Place(m)
      BY <1>2, <2>1, <3>1 DEF Found
    <3>3. l \in 1..Len(locations')
      BY <1>3, <1>12
    <3> QED
      BY <1>8, <1>12, <3>2, <3>3
  <2> QED
    BY <2>2, <2>3
<1> QED
  BY <1>1, <1>11, <1>13, <1>14 DEF Found, InEntry, AtEnd

LEMMA FinishSearches == IInv /\ SearchMeans /\ Finish => SearchMeans'
<1> SUFFICES ASSUME IInv, SearchMeans, Finish, ReadAsIs', Unambiguous'
             PROVE  AtSegments' /\ InEntry' /\ Found' /\ AtEnd'
  BY DEF SearchMeans
<1>1. /\ UNCHANGED <<file, bytes, i, locations>> /\ pc = "scan" /\ pc' = "done"
      /\ ~(i + plen < n)
  BY DEF Finish
<1>2. /\ ReadAsIs /\ Externals' = Externals /\ n' = n /\ AtSegments /\ Found
  BY <1>1, MeaningStays DEF SearchMeans
<1>3. Found'
  BY <1>1, <1>2, FoundStays
<1>4. AtSegments'
  <2>1. \A k : Start(k)' = Start(k) /\ Start(k + 1)' = Start(k + 1)
    BY <1>1, PlacesStay
  <2> QED
    BY <1>1, <1>2, <2>1 DEF AtSegments
<1>5. AtEnd'
  <2>1. i \in Nat /\ n \in Nat
    BY DEF IInv, TypeOK, n
  <2>2. plen' = plen
    BY DEF plen
  <2> QED
    BY <1>1, <1>2, <2>1, <2>2, PlenPositive DEF AtEnd
<1> QED
  BY <1>1, <1>3, <1>4, <1>5 DEF InEntry

LEMMA SearchStays == SearchMeans /\ UNCHANGED vars => SearchMeans'
<1> SUFFICES ASSUME SearchMeans, UNCHANGED vars, ReadAsIs', Unambiguous'
             PROVE  AtSegments' /\ InEntry' /\ Found' /\ AtEnd'
  BY DEF SearchMeans
<1>1. UNCHANGED <<file, bytes, i, j, len, weight, locations, pc>>
  BY DEF vars
<1>2. /\ ReadAsIs /\ Externals' = Externals /\ n' = n
      /\ AtSegments /\ InEntry /\ Found /\ AtEnd
  BY <1>1, MeaningStays DEF SearchMeans
<1>3. \A k : /\ Start(k)' = Start(k) /\ Start(k + 1)' = Start(k + 1)
             /\ Length(k)' = Length(k)
  BY <1>1, PlacesStay
<1>4. AtSegments'
  BY <1>1, <1>2, <1>3 DEF AtSegments
<1>5. InEntry'
  <2>1. ASSUME NEW k, NEW v, ReadsGroups(k, v) PROVE ReadsGroups(k, v)'
    BY <1>1, <1>3, <2>1 DEF ReadsGroups, Groups
  <2> QED
    BY <1>1, <1>2, <1>3, <2>1 DEF InEntry
<1>6. Found'
  BY <1>1, <1>2, FoundStays
<1>7. AtEnd'
  BY <1>1, <1>2 DEF AtEnd, plen
<1> QED
  BY <1>4, <1>5, <1>6, <1>7

LEMMA SearchInductive == IInv /\ SearchMeans /\ [Next]_vars => SearchMeans'
BY SkipSearches, MatchSearches, GroupSearches, VarintEndsSearches,
   ValueSearches, FinishSearches, SearchStays
   DEF Next

----------------------------------------------------------------------------
(* The names that are returned.                                            *)

TakeOnce(q, v) == IF v \in ToSet(q) THEN q ELSE Append(q, v)

\* r is q, or q followed by v, which q does not have.
Grows(q, r, v) ==
    \A b \in 1..Len(r) :
        \/ b \in 1..Len(q) /\ r[b] = q[b]
        \/ b = Len(q) + 1 /\ r[b] = v /\ v \notin ToSet(q)

LEMMA TakeOnceIs ==
    ASSUME NEW S, NEW q \in Seq(S), NEW v \in S
    PROVE  /\ TakeOnce(q, v) \in Seq(S)
           /\ ToSet(TakeOnce(q, v)) = ToSet(q) \cup {v}
           /\ Grows(q, TakeOnce(q, v), v)
<1>1. CASE v \in ToSet(q)
  <2>1. TakeOnce(q, v) = q
    BY <1>1 DEF TakeOnce
  <2> QED
    BY <1>1, <2>1 DEF Grows
<1>2. CASE v \notin ToSet(q)
  <2> DEFINE r == Append(q, v)
  <2>1. TakeOnce(q, v) = r
    BY <1>2 DEF TakeOnce
  <2>2. r \in Seq(S) /\ Len(r) = Len(q) + 1 /\ Len(q) \in Nat
    OBVIOUS
  <2>3. r[Len(q) + 1] = v /\ \A b \in 1..Len(q) : r[b] = q[b]
    OBVIOUS
  <2>4. DOMAIN r = 1..Len(q) + 1 /\ DOMAIN q = 1..Len(q)
    BY <2>2
  <2> HIDE DEF r
  <2>5. DOMAIN r = DOMAIN q \cup {Len(q) + 1}
    BY <2>2, <2>4
  <2>6. ToSet(r) = ToSet(q) \cup {v}
    BY <2>3, <2>4, <2>5 DEF ToSet
  <2>7. \A b \in 1..Len(r) : b \in 1..Len(q) \/ b = Len(q) + 1
    BY <2>2
  <2> QED
    BY <1>2, <2>1, <2>2, <2>3, <2>6, <2>7 DEF Grows
<1> QED
  BY <1>1, <1>2

Collects(f, s, S) ==
    /\ f \in [0..Len(s) -> Seq(S)]
    /\ f[0] = <<>>
    /\ \A k \in 1..Len(s) : f[k] = TakeOnce(f[k - 1], s[k])

LEMMA DistinctIs ==
    ASSUME NEW S, NEW s \in Seq(S)
    PROVE  \E f : Collects(f, s, S) /\ Distinct(s) = f[Len(s)]
<1> DEFINE B == Seq(S)
           top == Len(s)
           step == [k \in 1..top |-> [q \in B |-> TakeOnce(q, s[k])]]
           Is(h) == h = [k \in 0..top |->
                            IF k = 0 THEN <<>>
                            ELSE IF s[k] \in ToSet(h[k - 1]) THEN h[k - 1]
                            ELSE Append(h[k - 1], s[k])]
           distinct == CHOOSE h : Is(h)
<1>1. top \in Nat /\ \A k \in 1..top : s[k] \in S
  BY LenProperties, ElementOfSeq
<1>2. <<>> \in B
  BY EmptySeq
<1>3. \A k \in 1..top, q \in B : TakeOnce(q, s[k]) \in B
  BY <1>1, TakeOnceIs
<1>4. Distinct(s) = distinct[top]
  BY DEF Distinct
<1> HIDE DEF B, top
<1>5. IsSteps(step, 1..top, B)
  BY <1>3 DEF IsSteps
<1>6. \A k \in 1..top, q \in B : step[k][q] = TakeOnce(q, s[k])
  OBVIOUS
<1> HIDE DEF step
<1>7. PICK f : Ascends(f, top, B, <<>>, step)
  BY <1>1, <1>2, <1>5, AscentExists
<1>8. ASSUME NEW k \in 1..top PROVE f[k] = TakeOnce(f[k - 1], s[k])
  <2>1. f[k - 1] \in B
    BY <1>1, <1>7, AscentIn
  <2>2. f[k] = step[k][f[k - 1]]
    BY <1>7 DEF Ascends
  <2> QED
    BY <1>6, <2>1, <2>2
<1>9. Is(f)
  <2>1. ASSUME NEW k \in 0..top
        PROVE  f[k] = IF k = 0 THEN <<>>
                      ELSE IF s[k] \in ToSet(f[k - 1]) THEN f[k - 1]
                      ELSE Append(f[k - 1], s[k])
    <3>1. CASE k = 0
      BY <1>7, <3>1 DEF Ascends
    <3>2. CASE k # 0
      <4>1. k \in 1..top
        BY <1>1, <3>2
      <4>2. f[k] = TakeOnce(f[k - 1], s[k])
        BY <1>8, <4>1
      <4> QED
        BY <3>2, <4>2 DEF TakeOnce
    <3> QED
      BY <3>1, <3>2
  <2>2. f = [k \in 0..top |-> f[k]]
    BY <1>7 DEF Ascends
  <2> QED
    BY <2>1, <2>2, Zenon
<1>10. Is(distinct)
  BY <1>9
<1> HIDE DEF distinct
<1>11. ASSUME NEW k \in 1..top, distinct[k - 1] = f[k - 1]
       PROVE  distinct[k] = f[k]
  <2>1. k \in 0..top /\ k # 0
    BY <1>1
  <2>2. distinct[k] = IF s[k] \in ToSet(distinct[k - 1]) THEN distinct[k - 1]
                      ELSE Append(distinct[k - 1], s[k])
    BY <1>10, <2>1
  <2> QED
    BY <1>8, <1>11, <2>2 DEF TakeOnce
<1>12. distinct[0] = f[0]
  <2>1. 0 \in 0..top
    BY <1>1
  <2> QED
    BY <1>7, <1>10, <2>1 DEF Ascends
<1>13. \A k \in 0..top : distinct[k] = f[k]
  <2> HIDE DEF Is
  <2>1. \A k \in 1..top : distinct[k - 1] = f[k - 1] => distinct[k] = f[k]
    BY <1>11
  <2>2. Onwards(distinct, f, top)
    BY <1>12, <2>1 DEF Onwards
  <2> QED
    BY <1>1, <2>2, SameUpwards
<1> QED
  BY <1>1, <1>4, <1>7, <1>8, <1>13 DEF Ascends, Collects, B, top

\* Distinct(s) has the elements of s, and one that comes before another has an
\* occurrence in s before any of the other.
LEMMA DistinctKeepsOrder ==
    ASSUME NEW S, NEW s \in Seq(S)
    PROVE  /\ Distinct(s) \in Seq(S)
           /\ ToSet(Distinct(s)) = {s[l] : l \in 1..Len(s)}
           /\ \A b \in 1..Len(Distinct(s)) : \A a \in 1..b - 1, m \in 1..Len(s) :
                  s[m] = Distinct(s)[b] =>
                      \E l \in 1..m - 1 : s[l] = Distinct(s)[a]
<1>1. PICK f : Collects(f, s, S) /\ Distinct(s) = f[Len(s)]
  BY DistinctIs
<1> DEFINE top == Len(s)
           Has(k) == ToSet(f[k]) = {s[l] : l \in 1..k}
           Ordered(k) ==
               \A b \in 1..Len(f[k]) : \A a \in 1..b - 1, m \in 1..k :
                   s[m] = f[k][b] => \E l \in 1..m - 1 : s[l] = f[k][a]
           M == {k \in 0..top : Has(k) /\ Ordered(k)}
<1>2. top \in Nat /\ \A k \in 1..top : s[k] \in S
  BY LenProperties, ElementOfSeq
<1>3. \A k \in 0..top : f[k] \in Seq(S)
  BY <1>1 DEF Collects
<1>4. 0 \in M
  <2>1. f[0] = <<>>
    BY <1>1 DEF Collects
  <2> QED
    BY <1>2, <2>1 DEF ToSet
<1>5. ASSUME NEW k \in 0..top - 1, k \in M PROVE k + 1 \in M
  <2> DEFINE q == f[k]
             h == k + 1
             v == s[h]
             r == f[h]
  <2>1. /\ h \in 1..top /\ h \in 0..top /\ k \in 0..top /\ h - 1 = k
        /\ v \in S
    BY <1>2
  <2>2. q \in Seq(S) /\ Len(q) \in Nat
    BY <1>3, <2>1, LenProperties
  <2>3. r = TakeOnce(q, v)
    <3> HIDE DEF h
    <3>1. f[h] = TakeOnce(f[h - 1], s[h])
      BY <1>1, <2>1 DEF Collects
    <3> QED
      BY <2>1, <3>1
  <2>4. ToSet(q) = {s[l] : l \in 1..k}
    BY <1>5
  <2>5. ASSUME NEW b \in 1..Len(q), NEW a \in 1..b - 1, NEW m \in 1..k,
               s[m] = q[b]
        PROVE  \E l \in 1..m - 1 : s[l] = q[a]
    BY <1>5, <2>5
  <2> HIDE DEF q, r, v, h
  <2>6. ToSet(r) = ToSet(q) \cup {v} /\ Grows(q, r, v)
    <3>1. /\ ToSet(TakeOnce(q, v)) = ToSet(q) \cup {v}
          /\ Grows(q, TakeOnce(q, v), v)
      BY <2>1, <2>2, TakeOnceIs
    <3> QED
      BY <2>3, <3>1
  <2>7. \A b \in 1..Len(r) :
            \/ b \in 1..Len(q) /\ r[b] = q[b]
            \/ b = Len(q) + 1 /\ r[b] = v /\ v \notin ToSet(q)
    BY <2>6 DEF Grows
  <2>8. r \in Seq(S)
    BY <1>3, <2>1 DEF r
  <2>9. Len(r) \in Nat
    BY <2>8, LenProperties
  <2>10. Has(h)
    <3>1. {s[l] : l \in 1..h} = {s[l] : l \in 1..k} \cup {s[h]}
      <4>1. 1..h = (1..k) \cup {h}
        BY <1>2 DEF h
      <4> QED
        BY <4>1
    <3> QED
      BY <2>4, <2>6, <3>1 DEF r, v
  <2>11. \A b \in 1..Len(q) : \E l \in 1..k : s[l] = q[b]
    <3>1. \A b \in 1..Len(q) : q[b] \in ToSet(q)
      BY <2>2, LenProperties DEF ToSet
    <3> QED
      BY <2>4, <3>1
  <2>12. ASSUME NEW b \in 1..Len(r), NEW a \in 1..b - 1, NEW m \in 1..h,
                s[m] = r[b]
         PROVE  \E l \in 1..m - 1 : s[l] = r[a]
    <3>1. a \in 1..Len(q) /\ r[a] = q[a]
      <4>1. a \in 1..Len(r) /\ a # Len(q) + 1
        BY <2>2, <2>7, <2>9
      <4> QED
        BY <2>7, <4>1
    <3>2. k \in Nat /\ h = k + 1 /\ m \in Nat
      BY <1>2 DEF h
    <3>3. CASE m \in 1..k
      <4>1. s[m] \in ToSet(q)
        BY <2>4, <3>3
      <4>2. b \in 1..Len(q) /\ r[b] = q[b]
        BY <2>7, <2>12, <4>1
      <4> QED
        BY <2>5, <2>12, <3>1, <3>3, <4>2
    <3>4. CASE m = h
      <4>1. PICK l \in 1..k : s[l] = q[a]
        BY <2>11, <3>1
      <4>2. l \in 1..m - 1
        BY <3>2, <3>4
      <4> QED
        BY <3>1, <4>1, <4>2
    <3> QED
      BY <3>2, <3>3, <3>4
  <2>13. Ordered(h)
    BY <2>12 DEF r
  <2> QED
    BY <2>1, <2>10, <2>13 DEF h
<1>6. \A k \in 0..top : k \in M
  <2> HIDE DEF M, top
  <2> QED
    BY <1>2, <1>4, <1>5, UpTo
<1>7. top \in 0..top
  BY <1>2
<1>8. f[top] \in Seq(S) /\ Has(top) /\ Ordered(top)
  BY <1>3, <1>6, <1>7
<1>9. Distinct(s) = f[top]
  BY <1>1
<1> QED
  BY <1>8, <1>9

\* The names that the locations are, one after the other.
Slices ==
    [k \in 1..Len(locations) |-> Slice(locations[k].from, locations[k].to)]

LEMMA PlaceIsName ==
    ASSUME ReadAsIs, bytes \in Seq(Byte), NEW k \in Externals
    PROVE  Slice(Place(k).from, Place(k).to) = file[k].value
<1> DEFINE v == file[k].value
           l == Length(k)
           from == Start(k + 1) - l
           w == Groups(l)
           a == Start(k)
           p == plen
<1>1. /\ v \in Seq(Byte) /\ l \in Nat /\ n \in Nat /\ a \in Nat /\ w \in Nat
      /\ Start(k + 1) = a + p + w + l /\ Start(k + 1) <= n
  BY ExternalIs
<1>2. \A x \in 1..l : bytes[a + p + w + x] = v[x]
  BY ExternalIs
<1>3. l = Len(v)
  BY DEF Length
<1>4. p \in Nat
  BY PlenPositive
<1>5. Place(k).from = from /\ Place(k).to = Start(k + 1)
  BY DEF Place
<1> HIDE DEF v, l, w, a, p
<1>6. /\ from = a + p + w /\ from \in Nat
      /\ from + l = Start(k + 1) /\ from + l <= n
  BY <1>1, <1>4
<1> HIDE DEF from
<1>7. \A x \in 1..l : bytes[from + x] = v[x]
  BY <1>2, <1>6
<1>8. Slice(from, from + l) = v
  BY <1>1, <1>3, <1>6, <1>7, SliceIs
<1> QED
  BY <1>5, <1>6, <1>8 DEF v

LEMMA FirstEntryIs ==
    ASSUME file \in Seq(Segment), NEW m \in Externals
    PROVE  LET k == FirstEntry(file[m].value)
           IN  k \in Externals /\ file[k].value = file[m].value /\ k <= m
<1> DEFINE v == file[m].value
           M == {k \in Externals : file[k].value = v}
<1>1. Externals \subseteq Nat
  <2>1. Len(file) \in Nat
    BY LenProperties
  <2> QED
    BY <2>1 DEF Externals
<1>2. M \in SUBSET Nat /\ m \in M
  BY <1>1
<1>3. \E k \in M : \A x \in M : k <= x
  <2> HIDE DEF M
  <2>1. M # {}
    BY <1>2
  <2> QED
    BY <1>2, <2>1, LeastNumber
<1>4. \E k \in Externals :
          file[k].value = v /\ \A x \in Externals : file[x].value = v => k <= x
  BY <1>3
<1>5. LET k == FirstEntry(v)
      IN  /\ k \in Externals /\ file[k].value = v
          /\ \A x \in Externals : file[x].value = v => k <= x
  BY <1>4 DEF FirstEntry
<1> QED
  BY <1>5

\* What the search has at its end.
AllFound ==
    /\ \A l \in 1..Len(locations) :
           \E k \in Externals : IsTaken(k) /\ locations[l] = Place(k)
    /\ \A k \in Externals :
           IsTaken(k) => \E l \in 1..Len(locations) : locations[l] = Place(k)

LEMMA AllAreFound ==
    ASSUME IInv, SearchMeans, pc = "done", ReadAsIs, Unambiguous
    PROVE  AllFound
<1>1. Found /\ i + plen >= n
  BY DEF SearchMeans, AtEnd
<1>2. ASSUME NEW k \in Externals PROVE Start(k) < i
  <2>1. bytes \in Seq(Byte) /\ i \in Nat
    BY DEF IInv, TypeOK
  <2>2. /\ Start(k) \in Nat /\ Start(k + 1) \in Nat /\ n \in Nat
        /\ Start(k) + plen < Start(k + 1) /\ Start(k + 1) <= n
    BY <2>1, EntryIs
  <2> QED
    BY <1>1, <2>1, <2>2, PlenPositive
<1> QED
  BY <1>1, <1>2 DEF Found, AllFound

LEMMA SlicesAre ==
    ASSUME IInv, ReadAsIs, AllFound
    PROVE  /\ Slices \in Seq(Seq(Byte)) /\ Len(Slices) = Len(locations)
           /\ \A l \in 1..Len(locations) :
                  \E k \in Externals :
                      /\ IsTaken(k) /\ locations[l] = Place(k)
                      /\ Slices[l] = file[k].value
           /\ \A k \in Externals :
                  IsTaken(k) =>
                      \E l \in 1..Len(locations) :
                          locations[l] = Place(k) /\ Slices[l] = file[k].value
<1>1. bytes \in Seq(Byte) /\ Len(locations) \in Nat
  BY LenProperties DEF IInv, TypeOK
<1>2. \A k \in Externals :
          /\ Slice(Place(k).from, Place(k).to) = file[k].value
          /\ file[k].value \in Seq(Byte)
  BY <1>1, PlaceIsName, ExternalIs
<1>3. \A l \in 1..Len(locations) :
          Slices[l] = Slice(locations[l].from, locations[l].to)
  BY DEF Slices
<1>4. \A l \in 1..Len(locations) : Slices[l] \in Seq(Byte)
  BY <1>2, <1>3 DEF AllFound
<1>5. Slices \in [1..Len(locations) -> Seq(Byte)]
  BY <1>4 DEF Slices
<1>6. Slices \in Seq(Seq(Byte)) /\ Len(Slices) = Len(locations)
  BY <1>1, <1>5
<1>7. ASSUME NEW l \in 1..Len(locations)
      PROVE  \E k \in Externals :
                 /\ IsTaken(k) /\ locations[l] = Place(k)
                 /\ Slices[l] = file[k].value
  <2>1. PICK k \in Externals : IsTaken(k) /\ locations[l] = Place(k)
    BY DEF AllFound
  <2> QED
    BY <1>2, <1>3, <2>1
<1>8. ASSUME NEW k \in Externals, IsTaken(k)
      PROVE  \E l \in 1..Len(locations) :
                 locations[l] = Place(k) /\ Slices[l] = file[k].value
  <2>1. PICK l \in 1..Len(locations) : locations[l] = Place(k)
    BY <1>8 DEF AllFound
  <2> QED
    BY <1>2, <1>3, <2>1
<1> QED
  BY <1>6, <1>7, <1>8

\* The names are those that the file means.
LEMMA NamesAreMeant ==
    ASSUME IInv, ReadAsIs, AllFound
    PROVE  {Slices[l] : l \in 1..Len(Slices)} = {v \in Meant : Short(v)}
<1>1. \A k \in Externals : file[k].value \in Seq(Byte)
  BY ExternalIs
<1>2. \A k \in Externals :
          IsTaken(k) <=> file[k].value # <<>> /\ Short(file[k].value)
  <2> SUFFICES ASSUME NEW k \in Externals
               PROVE  0 < Length(k) <=> file[k].value # <<>>
    BY DEF IsTaken, Short, Length
  <2>1. Length(k) \in Nat
    BY ExternalIs
  <2>2. Length(k) = 0 <=> file[k].value = <<>>
    BY <1>1, EmptySeq DEF Length
  <2> QED
    BY <2>1, <2>2
<1>3. Meant = {file[k].value : k \in Externals} \ {<<>>}
  BY DEF Meant, DataFiles, Externals
<1>4. \A l \in 1..Len(Slices) :
          \E k \in Externals : IsTaken(k) /\ Slices[l] = file[k].value
  BY SlicesAre
<1>5. \A k \in Externals :
          IsTaken(k) => \E l \in 1..Len(Slices) : Slices[l] = file[k].value
  BY SlicesAre
<1> QED
  BY <1>2, <1>3, <1>4, <1>5

LEMMA FilesAreRead ==
    ASSUME file \in Files \cup {<<>>}, bytes = Contents(file)
    PROVE  ReadAsIs
<1>1. CASE file \in Files
  BY <1>1, ExternalDataAssumption DEF ReadAsIs
<1>2. CASE file = <<>>
  BY <1>2, EmptySeq DEF ReadAsIs
<1> QED
  BY <1>1, <1>2

\* They come in the order of their first entries.
LEMMA NamesInOrder ==
    ASSUME IInv, ReadAsIs, AllFound,
           NEW b \in 1..Len(Returned), NEW a \in 1..b - 1
    PROVE  FirstEntry(Returned[a]) < FirstEntry(Returned[b])
<1>1. Slices \in Seq(Seq(Byte)) /\ Len(Slices) = Len(locations)
  BY SlicesAre
<1>2. Returned = Distinct(Slices)
  BY DEF Returned, Slices
<1>3. /\ Returned \in Seq(Seq(Byte))
      /\ ToSet(Returned) = {Slices[l] : l \in 1..Len(Slices)}
      /\ \A m \in 1..Len(Slices) :
             Slices[m] = Returned[b] =>
                 \E l \in 1..m - 1 : Slices[l] = Returned[a]
  BY <1>1, <1>2, DistinctKeepsOrder
<1>4. PICK x \in 1..Len(Slices) : Slices[x] = Returned[b]
  <2>1. Returned[b] \in ToSet(Returned)
    BY <1>3, LenProperties DEF ToSet
  <2> QED
    BY <1>3, <2>1
<1>5. PICK y \in Externals : IsTaken(y) /\ file[y].value = Returned[b]
  BY <1>1, <1>4, SlicesAre
<1> DEFINE k == FirstEntry(Returned[b])
<1>6. k \in Externals /\ file[k].value = Returned[b]
  BY <1>5, FirstEntryIs DEF ReadAsIs
<1>7. IsTaken(k)
  BY <1>5, <1>6 DEF IsTaken, Length
<1> HIDE DEF k
<1>8. PICK m \in 1..Len(locations) :
          locations[m] = Place(k) /\ Slices[m] = file[k].value
  BY <1>6, <1>7, SlicesAre
<1>9. PICK l \in 1..m - 1 : Slices[l] = Returned[a]
  BY <1>1, <1>3, <1>6, <1>8
<1>10. l \in 1..Len(locations) /\ m \in 1..Len(locations) /\ l < m
  <2>1. Len(locations) \in Nat
    BY LenProperties DEF IInv, TypeOK
  <2> QED
    BY <2>1
<1>11. PICK z \in Externals :
           locations[l] = Place(z) /\ Slices[l] = file[z].value
  BY <1>10, SlicesAre
<1>12. locations[l].to + plen < locations[m].from
  BY <1>10 DEF IInv, LocationsApart
<1>13. Start(z + 1) + plen < Start(k + 1) - Length(k)
  BY <1>8, <1>11, <1>12 DEF Place
<1>14. bytes \in Seq(Byte)
  BY DEF IInv, TypeOK
<1>15. /\ Start(k) \in Nat /\ Start(k + 1) \in Nat /\ Length(k) \in Nat
       /\ k \in 1..Len(file)
  BY <1>6, <1>14, EntryIs
<1>16. /\ Start(z) \in Nat /\ Start(z + 1) \in Nat
       /\ Start(z) + plen < Start(z + 1)
       /\ z \in 1..Len(file)
  BY <1>14, EntryIs
<1>17. k < z => Start(k + 1) <= Start(z)
  BY <1>6, <1>14, EntriesAscend
<1>18. z # k /\ ~(k < z)
  <2> DEFINE zs == Start(z)
             ze == Start(z + 1)
             ks == Start(k)
             ke == Start(k + 1)
             c == Length(k)
             h == plen
  <2>1. ze + h < ke - c /\ zs + h < ze /\ (k < z => ke <= zs)
    BY <1>13, <1>16, <1>17
  <2>2. /\ zs \in Nat /\ ze \in Nat /\ ks \in Nat /\ ke \in Nat
        /\ c \in Nat /\ h \in Nat
    BY <1>15, <1>16, PlenPositive
  <2>3. z = k => ze = ke
    OBVIOUS
  <2> HIDE DEF zs, ze, ks, ke, c, h
  <2>4. ze < ke
    BY <2>1, <2>2
  <2>5. ~(ke <= zs)
    BY <2>1, <2>2
  <2>6. ze # ke
    BY <2>2, <2>4
  <2> QED
    BY <2>1, <2>3, <2>5, <2>6
<1>19. Len(file) \in Nat
  BY LenProperties DEF ReadAsIs
<1>20. z < k
  BY <1>15, <1>16, <1>18, <1>19
<1>21. FirstEntry(Returned[a]) \in Externals /\ FirstEntry(Returned[a]) <= z
  BY <1>9, <1>11, FirstEntryIs DEF ReadAsIs
<1>22. FirstEntry(Returned[a]) \in Nat
  BY <1>19, <1>21 DEF Externals
<1>23. k \in Nat /\ z \in Nat
  BY <1>15, <1>16, <1>19
<1> QED
  BY <1>20, <1>21, <1>22, <1>23 DEF k

LEMMA ReturnsAll ==
    ASSUME IInv, SearchMeans, file \in Files \cup {<<>>}
    PROVE  FindsAll
<1> SUFFICES ASSUME pc = "done", bytes = Contents(file), Unambiguous
             PROVE  IsListOfMeant(Returned)
  BY DEF FindsAll
<1>1. ReadAsIs
  BY FilesAreRead
<1>2. AllFound
  BY <1>1, AllAreFound
<1>3. Slices \in Seq(Seq(Byte)) /\ Returned = Distinct(Slices)
  BY <1>1, <1>2, SlicesAre DEF Returned, Slices
<1>4. /\ Returned \in Seq(Seq(Byte))
      /\ ToSet(Returned) = {Slices[l] : l \in 1..Len(Slices)}
  BY <1>3, DistinctKeepsOrder
<1>5. ToSet(Returned) = {v \in Meant : Short(v)}
  BY <1>1, <1>2, <1>4, NamesAreMeant
<1>6. ASSUME NEW k \in 1..Len(Returned), NEW m \in 1..Len(Returned), k < m
      PROVE  FirstEntry(Returned[k]) < FirstEntry(Returned[m])
  <2>1. Len(Returned) \in Nat
    BY <1>4, LenProperties
  <2>2. k \in 1..m - 1
    BY <1>6, <2>1
  <2> QED
    BY <1>1, <1>2, <2>2, NamesInOrder
<1> QED
  BY <1>5, <1>6 DEF IsListOfMeant

LEMMA SearchInvariant == Spec => [](IInv /\ SearchMeans /\ file \in Files)
<1>1. Init => IInv /\ SearchMeans /\ file \in Files
  <2>1. Init => bytes \in Seq(Byte)
    BY Initially DEF IInv, TypeOK
  <2> QED
    BY <2>1, Initially, SearchStarts DEF Init
<1>2. file \in Files /\ [Next]_vars => (file \in Files)'
  BY DEF Next, vars, Skip, Match, Group, TakeGroup, VarintEnds, Value,
     TakeValue, Finish
<1>3. IInv /\ SearchMeans /\ file \in Files /\ [Next]_vars
          => (IInv /\ SearchMeans /\ file \in Files)'
  BY <1>2, Inductive, SearchInductive
<1> QED
  BY <1>1, <1>3, PTL DEF Spec

\* In every file that nothing else in it makes ambiguous, and with every prefix,
\* base and limit, the search finds the names that the model's tensors refer to,
\* each once and in their order, and nothing else.
THEOREM FindsAllNames == Spec => []FindsAll
<1>1. IInv /\ SearchMeans /\ file \in Files => FindsAll
  BY ReturnsAll
<1> QED
  BY <1>1, SearchInvariant, PTL

==============================================================================
