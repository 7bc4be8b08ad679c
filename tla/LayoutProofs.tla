---------------------------- MODULE LayoutProofs ----------------------------
(***************************************************************************)
(* Theorems about Layout, for arrays of any number of dimensions of any    *)
(* size.                                                                   *)
(*                                                                         *)
(* The operators of Layout are recursive functions.  Each is first given a *)
(* recurrence that holds of it (Products, Suffixes, RowDigits, ColDigits), *)
(* and then the two loops are shown to walk along two further ones: Tails, *)
(* what is left of a row-major position, and Heads, what has been put      *)
(* together of a column-major one.                                         *)
(***************************************************************************)
EXTENDS Layout, DataLemmas, SequenceTheorems

----------------------------------------------------------------------------
(* The recurrences.                                                        *)

\* P[k] is the product of the first k dimensions, R[k] that of the others.
Products(P, s) ==
    /\ P \in [0..Len(s) -> Nat]
    /\ P[0] = 1
    /\ \A k \in 1..Len(s) : P[k] = P[k - 1] * s[k]

Suffixes(R, s) ==
    /\ R \in [0..Len(s) -> Nat]
    /\ R[Len(s)] = 1
    /\ \A k \in 0..Len(s) - 1 : R[k] = R[k + 1] * s[k + 1]

\* The indices of the elements of an array.
Digits(s) == {ix \in [1..Len(s) -> Nat] : \A k \in 1..Len(s) : ix[k] < s[k]}

\* The two orders, by Horner's rule.
RowDigits(r, s, ix) ==
    /\ r \in [0..Len(s) -> Nat]
    /\ r[0] = 0
    /\ \A k \in 1..Len(s) : r[k] = r[k - 1] * s[k] + ix[k]

ColDigits(c, s, ix) ==
    /\ c \in [0..Len(s) -> Nat]
    /\ c[Len(s)] = 0
    /\ \A k \in 0..Len(s) - 1 : c[k] = c[k + 1] * s[k + 1] + ix[k + 1]

\* The two orders, as sums of multiples of strides.
Tails(t, s, ix, R) ==
    /\ t \in [0..Len(s) -> Nat]
    /\ t[Len(s)] = 0
    /\ \A k \in 0..Len(s) - 1 : t[k] = ix[k + 1] * R[k + 1] + t[k + 1]

Heads(u, s, ix, P) ==
    /\ u \in [0..Len(s) -> Nat]
    /\ u[0] = 0
    /\ \A k \in 1..Len(s) : u[k] = u[k - 1] + ix[k] * P[k - 1]

LEMMA DimsAreNumbers ==
    ASSUME NEW s \in Seq(Nat)
    PROVE  Len(s) \in Nat /\ \A k \in 1..Len(s) : s[k] \in Nat
BY ElementOfSeq, LenProperties

LEMMA ProductsExist ==
    ASSUME NEW s \in Seq(Nat)
    PROVE  \E P : Products(P, s)
<1> DEFINE step == [k \in 1..Len(s) |-> [v \in Nat |-> v * s[k]]]
<1>1. Len(s) \in Nat /\ \A k \in 1..Len(s) : s[k] \in Nat
  BY DimsAreNumbers
<1>2. IsSteps(step, 1..Len(s), Nat)
  BY <1>1 DEF IsSteps
<1>3. \A k \in 1..Len(s), v \in Nat : step[k][v] = v * s[k]
  OBVIOUS
<1> HIDE DEF step
<1>4. PICK P : Ascends(P, Len(s), Nat, 1, step)
  BY <1>1, <1>2, AscentExists
<1>5. ASSUME NEW k \in 1..Len(s) PROVE P[k] = P[k - 1] * s[k]
  <2>1. P[k - 1] \in Nat
    BY <1>1, <1>4, AscentIn
  <2>2. P[k] = step[k][P[k - 1]]
    BY <1>4 DEF Ascends
  <2> QED
    BY <1>3, <2>1, <2>2
<1> QED
  BY <1>4, <1>5 DEF Ascends, Products

LEMMA SuffixesExist ==
    ASSUME NEW s \in Seq(Nat)
    PROVE  \E R : Suffixes(R, s)
<1> DEFINE step == [k \in 0..Len(s) - 1 |-> [v \in Nat |-> v * s[k + 1]]]
<1>1. Len(s) \in Nat /\ \A k \in 1..Len(s) : s[k] \in Nat
  BY DimsAreNumbers
<1>2. IsSteps(step, 0..Len(s) - 1, Nat)
  BY <1>1 DEF IsSteps
<1>3. \A k \in 0..Len(s) - 1, v \in Nat : step[k][v] = v * s[k + 1]
  OBVIOUS
<1> HIDE DEF step
<1>4. PICK R : Descends(R, Len(s), Nat, 1, step)
  BY <1>1, <1>2, DescentExists
<1>5. ASSUME NEW k \in 0..Len(s) - 1 PROVE R[k] = R[k + 1] * s[k + 1]
  <2>1. R[k + 1] \in Nat
    BY <1>1, <1>4, DescentIn
  <2>2. R[k] = step[k][R[k + 1]]
    BY <1>4 DEF Descends
  <2> QED
    BY <1>3, <2>1, <2>2
<1> QED
  BY <1>4, <1>5 DEF Descends, Suffixes

LEMMA TailsExist ==
    ASSUME NEW s \in Seq(Nat), NEW ix \in Digits(s), NEW R, Suffixes(R, s)
    PROVE  \E t : Tails(t, s, ix, R)
<1> DEFINE step == [k \in 0..Len(s) - 1 |->
                       [v \in Nat |-> ix[k + 1] * R[k + 1] + v]]
<1>1. Len(s) \in Nat
  BY DimsAreNumbers
<1>2. \A k \in 0..Len(s) - 1 : ix[k + 1] * R[k + 1] \in Nat
  <2> SUFFICES ASSUME NEW k \in 0..Len(s) - 1 PROVE ix[k + 1] * R[k + 1] \in Nat
    OBVIOUS
  <2>1. k + 1 \in 1..Len(s) /\ k + 1 \in 0..Len(s)
    BY <1>1
  <2>2. ix[k + 1] \in Nat /\ R[k + 1] \in Nat
    BY <2>1 DEF Digits, Suffixes
  <2> QED
    BY <2>2
<1>3. IsSteps(step, 0..Len(s) - 1, Nat)
  BY <1>2 DEF IsSteps
<1>4. \A k \in 0..Len(s) - 1, v \in Nat : step[k][v] = ix[k + 1] * R[k + 1] + v
  OBVIOUS
<1> HIDE DEF step
<1>5. PICK t : Descends(t, Len(s), Nat, 0, step)
  BY <1>1, <1>3, DescentExists
<1>6. ASSUME NEW k \in 0..Len(s) - 1 PROVE t[k] = ix[k + 1] * R[k + 1] + t[k + 1]
  <2>1. t[k + 1] \in Nat
    BY <1>1, <1>5, DescentIn
  <2>2. t[k] = step[k][t[k + 1]]
    BY <1>5 DEF Descends
  <2> QED
    BY <1>4, <2>1, <2>2
<1> QED
  BY <1>5, <1>6 DEF Descends, Tails

LEMMA HeadsExist ==
    ASSUME NEW s \in Seq(Nat), NEW ix \in Digits(s), NEW P, Products(P, s)
    PROVE  \E u : Heads(u, s, ix, P)
<1> DEFINE step == [k \in 1..Len(s) |-> [v \in Nat |-> v + ix[k] * P[k - 1]]]
<1>1. Len(s) \in Nat
  BY DimsAreNumbers
<1>2. \A k \in 1..Len(s) : ix[k] * P[k - 1] \in Nat
  <2> SUFFICES ASSUME NEW k \in 1..Len(s) PROVE ix[k] * P[k - 1] \in Nat
    OBVIOUS
  <2>1. k - 1 \in 0..Len(s)
    BY <1>1
  <2>2. ix[k] \in Nat /\ P[k - 1] \in Nat
    BY <2>1 DEF Digits, Products
  <2> QED
    BY <2>2
<1>3. IsSteps(step, 1..Len(s), Nat)
  BY <1>2 DEF IsSteps
<1>4. \A k \in 1..Len(s), v \in Nat : step[k][v] = v + ix[k] * P[k - 1]
  OBVIOUS
<1> HIDE DEF step
<1>5. PICK u : Ascends(u, Len(s), Nat, 0, step)
  BY <1>1, <1>3, AscentExists
<1>6. ASSUME NEW k \in 1..Len(s) PROVE u[k] = u[k - 1] + ix[k] * P[k - 1]
  <2>1. u[k - 1] \in Nat
    BY <1>1, <1>5, AscentIn
  <2>2. u[k] = step[k][u[k - 1]]
    BY <1>5 DEF Ascends
  <2> QED
    BY <1>4, <2>1, <2>2
<1> QED
  BY <1>5, <1>6 DEF Ascends, Heads

----------------------------------------------------------------------------
(* The operators of Layout follow the recurrences.                         *)

LEMMA SizeIs ==
    ASSUME NEW s \in Seq(Nat), NEW P, Products(P, s)
    PROVE  Size(s) = P[Len(s)]
<1> DEFINE IsProd(h) ==
               h = [k \in 0..Len(s) |-> IF k = 0 THEN 1 ELSE h[k - 1] * s[k]]
           prod == CHOOSE h : IsProd(h)
<1>1. Len(s) \in Nat
  BY DimsAreNumbers
<1>2. IsProd(P)
  BY <1>1 DEF Products
<1>3. IsProd(prod)
  BY <1>2
<1>4. Size(s) = prod[Len(s)]
  BY DEF Size
<1> HIDE DEF prod
<1>5. prod[0] = P[0]
  BY <1>1, <1>3 DEF Products
<1>6. \A k \in 1..Len(s) : prod[k - 1] = P[k - 1] => prod[k] = P[k]
  BY <1>1, <1>3 DEF Products
<1>7. \A k \in 0..Len(s) : prod[k] = P[k]
  <2>1. Onwards(prod, P, Len(s))
    BY <1>1, <1>5, <1>6 DEF Onwards
  <2> QED
    BY <1>1, <2>1, SameUpwards
<1> QED
  BY <1>1, <1>4, <1>7

LEMMA CmStrideIs ==
    ASSUME NEW s \in Seq(Nat), NEW P, Products(P, s)
    PROVE  \A k \in 1..Len(s) : CmStride(s)[k] = P[k - 1]
<1> DEFINE IsStride(h) ==
               h = [k \in 1..Len(s) |-> IF k = 1 THEN 1 ELSE h[k - 1] * s[k - 1]]
           stride == CHOOSE h : IsStride(h)
           f == [k \in 1..Len(s) |-> P[k - 1]]
<1>1. Len(s) \in Nat
  BY DimsAreNumbers
<1>2. IsStride(f)
  <2> SUFFICES ASSUME NEW k \in 1..Len(s)
               PROVE  f[k] = IF k = 1 THEN 1 ELSE f[k - 1] * s[k - 1]
    OBVIOUS
  <2>1. CASE k = 1
    BY <2>1 DEF Products
  <2>2. CASE k # 1
    <3>1. k - 1 \in 1..Len(s)
      BY <1>1, <2>2
    <3> QED
      BY <2>2, <3>1 DEF Products
  <2> QED
    BY <2>1, <2>2
<1>3. IsStride(stride)
  BY <1>2
<1>4. CmStride(s) = stride
  BY DEF CmStride
<1> HIDE DEF stride
<1> DEFINE g == [k \in 0..Len(s) |-> IF k = 0 THEN P[0] ELSE stride[k]]
           h == [k \in 0..Len(s) |-> IF k = 0 THEN P[0] ELSE P[k - 1]]
<1>5. \A k \in 1..Len(s) : g[k - 1] = h[k - 1] => g[k] = h[k]
  <2> SUFFICES ASSUME NEW k \in 1..Len(s), g[k - 1] = h[k - 1]
               PROVE  stride[k] = P[k - 1]
    OBVIOUS
  <2>1. CASE k = 1
    BY <1>3, <2>1 DEF Products
  <2>2. CASE k # 1
    <3>1. k - 1 \in 1..Len(s)
      BY <1>1, <2>2
    <3>2. stride[k - 1] = P[(k - 1) - 1]
      BY <3>1
    <3>3. stride[k] = stride[k - 1] * s[k - 1]
      BY <1>3, <2>2
    <3> QED
      BY <3>1, <3>2, <3>3 DEF Products
  <2> QED
    BY <2>1, <2>2
<1>6. g[0] = h[0]
  BY <1>1
<1>7. \A k \in 0..Len(s) : g[k] = h[k]
  <2> HIDE DEF g, h
  <2>1. Onwards(g, h, Len(s))
    BY <1>5, <1>6 DEF Onwards
  <2> QED
    BY <1>1, <2>1, SameUpwards
<1>8. ASSUME NEW k \in 1..Len(s) PROVE stride[k] = P[k - 1]
  <2>1. g[k] = h[k] /\ k \in 0..Len(s) /\ k # 0
    BY <1>7
  <2> QED
    BY <2>1
<1> QED
  BY <1>4, <1>8

LEMMA RmStrideIs ==
    ASSUME NEW s \in Seq(Nat), NEW R, Suffixes(R, s)
    PROVE  \A k \in 1..Len(s) : RmStride(s)[k] = R[k]
<1> DEFINE IsStride(h) ==
               h = [k \in 1..Len(s) |->
                       IF k = Len(s) THEN 1 ELSE h[k + 1] * s[k + 1]]
           stride == CHOOSE h : IsStride(h)
           f == [k \in 1..Len(s) |-> R[k]]
<1>1. Len(s) \in Nat
  BY DimsAreNumbers
<1>2. IsStride(f)
  <2> SUFFICES ASSUME NEW k \in 1..Len(s)
               PROVE  f[k] = IF k = Len(s) THEN 1 ELSE f[k + 1] * s[k + 1]
    OBVIOUS
  <2>1. CASE k = Len(s)
    BY <2>1 DEF Suffixes
  <2>2. CASE k # Len(s)
    <3>1. k + 1 \in 1..Len(s) /\ k \in 0..Len(s) - 1
      BY <1>1, <2>2
    <3> QED
      BY <2>2, <3>1 DEF Suffixes
  <2> QED
    BY <2>1, <2>2
<1>3. IsStride(stride)
  BY <1>2
<1>4. RmStride(s) = stride
  BY DEF RmStride
<1> HIDE DEF stride
<1> DEFINE g == [k \in 0..Len(s) |-> IF k = 0 THEN R[0] ELSE stride[k]]
<1>5. ASSUME NEW k \in 1..Len(s), g[k] = R[k] PROVE g[k - 1] = R[k - 1]
  <2>1. CASE k = 1
    BY <1>1, <2>1
  <2>2. CASE k # 1
    <3>1. k - 1 \in 1..Len(s) /\ k - 1 # Len(s) /\ (k - 1) + 1 = k
          /\ k - 1 \in 0..Len(s) - 1
      BY <1>1, <2>2
    <3>2. stride[k - 1] = stride[k] * s[k]
      BY <1>3, <3>1
    <3>3. R[k - 1] = R[k] * s[k]
      BY <3>1 DEF Suffixes
    <3>4. stride[k] = R[k]
      BY <1>5
    <3> QED
      BY <3>1, <3>2, <3>3, <3>4
  <2> QED
    BY <2>1, <2>2
<1>6. g[Len(s)] = R[Len(s)]
  BY <1>1, <1>3 DEF Suffixes
<1>7. \A k \in 0..Len(s) : g[k] = R[k]
  <2> HIDE DEF g
  <2>1. Backwards(g, R, Len(s))
    BY <1>5, <1>6 DEF Backwards
  <2> QED
    BY <1>1, <2>1, SameDownwards
<1>8. ASSUME NEW k \in 1..Len(s) PROVE stride[k] = R[k]
  <2>1. g[k] = R[k] /\ k \in 0..Len(s) /\ k # 0
    BY <1>7
  <2> QED
    BY <2>1
<1> QED
  BY <1>4, <1>8

LEMMA RowMajorIs ==
    ASSUME NEW s \in Seq(Nat), NEW ix, NEW r, RowDigits(r, s, ix)
    PROVE  RowMajor(s, ix) = r[Len(s)]
<1> DEFINE IsHorner(h) ==
               h = [k \in 0..Len(s) |->
                       IF k = 0 THEN 0 ELSE h[k - 1] * s[k] + ix[k]]
           horner == CHOOSE h : IsHorner(h)
<1>1. Len(s) \in Nat
  BY DimsAreNumbers
<1>2. IsHorner(r)
  BY <1>1 DEF RowDigits
<1>3. IsHorner(horner)
  BY <1>2
<1>4. RowMajor(s, ix) = horner[Len(s)]
  BY DEF RowMajor
<1> HIDE DEF horner
<1>5. horner[0] = r[0]
  BY <1>1, <1>3 DEF RowDigits
<1>6. ASSUME NEW k \in 1..Len(s), horner[k - 1] = r[k - 1]
      PROVE  horner[k] = r[k]
  <2>1. horner[k] = horner[k - 1] * s[k] + ix[k]
    BY <1>1, <1>3
  <2>2. r[k] = r[k - 1] * s[k] + ix[k]
    BY DEF RowDigits
  <2> QED
    BY <1>6, <2>1, <2>2
<1>7. \A k \in 0..Len(s) : horner[k] = r[k]
  <2>1. Onwards(horner, r, Len(s))
    BY <1>1, <1>5, <1>6 DEF Onwards
  <2> QED
    BY <1>1, <2>1, SameUpwards
<1> QED
  BY <1>1, <1>4, <1>7

LEMMA ColMajorIs ==
    ASSUME NEW s \in Seq(Nat), NEW ix, NEW c, ColDigits(c, s, ix)
    PROVE  ColMajor(s, ix) = c[0]
<1> DEFINE IsHorner(h) ==
               h = [k \in 1..Len(s) + 1 |->
                       IF k = Len(s) + 1 THEN 0 ELSE h[k + 1] * s[k] + ix[k]]
           horner == CHOOSE h : IsHorner(h)
           f == [k \in 1..Len(s) + 1 |-> c[k - 1]]
           g == [k \in 0..Len(s) |-> horner[k + 1]]
<1>1. Len(s) \in Nat
  BY DimsAreNumbers
<1>2. IsHorner(f)
  <2> SUFFICES ASSUME NEW k \in 1..Len(s) + 1
               PROVE  f[k] = IF k = Len(s) + 1 THEN 0 ELSE f[k + 1] * s[k] + ix[k]
    OBVIOUS
  <2>1. CASE k = Len(s) + 1
    BY <1>1, <2>1 DEF ColDigits
  <2>2. CASE k # Len(s) + 1
    <3>1. k + 1 \in 1..Len(s) + 1 /\ k - 1 \in 0..Len(s) - 1
          /\ (k - 1) + 1 = k /\ (k + 1) - 1 = k
      BY <1>1, <2>2
    <3>2. c[k - 1] = c[k] * s[k] + ix[k]
      BY <3>1 DEF ColDigits
    <3> QED
      BY <2>2, <3>1, <3>2
  <2> QED
    BY <2>1, <2>2
<1>3. IsHorner(horner)
  BY <1>2
<1>4. ColMajor(s, ix) = horner[1]
  BY DEF ColMajor
<1> HIDE DEF horner
<1>5. g[Len(s)] = c[Len(s)]
  BY <1>1, <1>3 DEF ColDigits
<1>6. ASSUME NEW k \in 1..Len(s), g[k] = c[k] PROVE g[k - 1] = c[k - 1]
  <2>1. k - 1 \in 0..Len(s) - 1 /\ (k - 1) + 1 = k /\ k \in 0..Len(s)
        /\ k \in 1..Len(s) + 1 /\ k # Len(s) + 1
    BY <1>1
  <2>2. horner[k] = horner[k + 1] * s[k] + ix[k]
    BY <1>3, <2>1
  <2>3. c[k - 1] = c[k] * s[k] + ix[k]
    BY <2>1 DEF ColDigits
  <2>4. horner[k + 1] = c[k]
    BY <1>6, <2>1
  <2> QED
    BY <2>1, <2>2, <2>3, <2>4
<1>7. \A k \in 0..Len(s) : g[k] = c[k]
  <2> HIDE DEF g
  <2>1. Backwards(g, c, Len(s))
    BY <1>5, <1>6 DEF Backwards
  <2> QED
    BY <1>1, <2>1, SameDownwards
<1>8. g[0] = horner[1]
  BY <1>1
<1> QED
  BY <1>1, <1>4, <1>7, <1>8

----------------------------------------------------------------------------
(* What the inner loops compute.                                           *)

\* The k-th step of a translation takes the digit d[k] from what is left, t, and
\* adds it to what has been put together, u.
Walks(from, to, by, t, u, d) ==
    /\ Len(by) \in Nat
    /\ t \in [0..Len(by) -> Nat] /\ u \in [0..Len(by) -> Nat]
    /\ u[0] = 0
    /\ \A k \in 1..Len(by) :
           /\ d[k] \in Nat
           /\ t[k] < from[by[k]] /\ from[by[k]] \in Nat
           /\ t[k - 1] = d[k] * from[by[k]] + t[k]
           /\ u[k] = u[k - 1] + d[k] * to[by[k]]

LEMMA TranslateIs ==
    ASSUME NEW from, NEW to, NEW by, NEW t, NEW u, NEW d,
           Walks(from, to, by, t, u, d)
    PROVE  Translate(t[0], from, to, by) = u[Len(by)]
<1> DEFINE IsRest(h) ==
               h = [k \in 0..Len(by) |->
                       IF k = 0 THEN t[0] ELSE h[k - 1] % from[by[k]]]
           rest == CHOOSE h : IsRest(h)
           IsSum(h) ==
               h = [k \in 0..Len(by) |->
                       IF k = 0 THEN 0
                       ELSE h[k - 1] + (rest[k - 1] \div from[by[k]]) * to[by[k]]]
           sum == CHOOSE h : IsSum(h)
<1>0. /\ Len(by) \in Nat
      /\ t \in [0..Len(by) -> Nat] /\ u \in [0..Len(by) -> Nat]
      /\ u[0] = 0
  BY DEF Walks
<1>1. ASSUME NEW k \in 1..Len(by)
      PROVE  /\ t[k - 1] % from[by[k]] = t[k]
             /\ t[k - 1] \div from[by[k]] = d[k]
  <2> DEFINE b == from[by[k]]
  <2>1. t[k] \in Nat /\ d[k] \in Nat /\ b \in Nat
        /\ t[k] < b /\ t[k - 1] = d[k] * b + t[k]
    <3>1. k \in 0..Len(by)
      BY <1>0
    <3> QED
      BY <1>0, <3>1 DEF Walks
  <2> HIDE DEF b
  <2>2. b \in Nat \ {0} /\ t[k] \in 0..b - 1
    BY <2>1
  <2>3. (d[k] * b + t[k]) \div b = d[k] /\ (d[k] * b + t[k]) % b = t[k]
    BY <2>1, <2>2, DivideSum
  <2> QED
    BY <2>1, <2>3 DEF b
<1>2. IsRest(t)
  BY <1>0, <1>1
<1>3. IsRest(rest)
  BY <1>2
<1>4. Translate(t[0], from, to, by) = sum[Len(by)]
  BY DEF Translate
<1> HIDE DEF rest
<1>5. ASSUME NEW k \in 1..Len(by), rest[k - 1] = t[k - 1] PROVE rest[k] = t[k]
  <2>1. k \in 0..Len(by) /\ k # 0
    BY <1>0
  <2>2. rest[k] = rest[k - 1] % from[by[k]]
    BY <1>3, <2>1
  <2> QED
    BY <1>1, <1>5, <2>2
<1>6. rest[0] = t[0]
  BY <1>0, <1>3
<1>7. \A k \in 0..Len(by) : rest[k] = t[k]
  <2> DEFINE top == Len(by)
  <2>1. top \in Nat /\ rest[0] = t[0]
    BY <1>0, <1>6
  <2>2. \A k \in 1..top : rest[k - 1] = t[k - 1] => rest[k] = t[k]
    BY <1>5
  <2> HIDE DEF top
  <2>3. \A k \in 0..top : rest[k] = t[k]
    <3>1. Onwards(rest, t, top)
      BY <2>1, <2>2 DEF Onwards
    <3> QED
      BY <2>1, <3>1, SameUpwards
  <2> QED
    BY <2>3 DEF top
<1>8. ASSUME NEW k \in 1..Len(by)
      PROVE  rest[k - 1] \div from[by[k]] = d[k]
  <2>1. k - 1 \in 0..Len(by)
    BY <1>0
  <2> QED
    BY <1>1, <1>7, <2>1
<1>9. ASSUME NEW k \in 1..Len(by) PROVE u[k] = u[k - 1] + d[k] * to[by[k]]
  BY DEF Walks
<1>10. IsSum(u)
  BY <1>0, <1>8, <1>9
<1>11. IsSum(sum)
  BY <1>10
<1> HIDE DEF sum
<1>12. sum[0] = u[0]
  BY <1>0, <1>11
<1>13. ASSUME NEW k \in 1..Len(by), sum[k - 1] = u[k - 1] PROVE sum[k] = u[k]
  <2>1. k \in 0..Len(by) /\ k # 0
    BY <1>0
  <2>2. sum[k] = sum[k - 1] + (rest[k - 1] \div from[by[k]]) * to[by[k]]
    BY <1>11, <2>1
  <2> QED
    BY <1>8, <1>9, <1>13, <2>2
<1>14. \A k \in 0..Len(by) : sum[k] = u[k]
  <2> DEFINE top == Len(by)
  <2>1. top \in Nat /\ sum[0] = u[0]
    BY <1>0, <1>12
  <2>2. \A k \in 1..top : sum[k - 1] = u[k - 1] => sum[k] = u[k]
    BY <1>13
  <2> HIDE DEF top
  <2>3. \A k \in 0..top : sum[k] = u[k]
    <3>1. Onwards(sum, u, top)
      BY <2>1, <2>2 DEF Onwards
    <3> QED
      BY <2>1, <3>1, SameUpwards
  <2> QED
    BY <2>3 DEF top
<1> QED
  BY <1>0, <1>4, <1>14

LEMMA RowDigitsExist ==
    ASSUME NEW s \in Seq(Nat), NEW ix \in Digits(s)
    PROVE  \E r : RowDigits(r, s, ix)
<1> DEFINE step == [k \in 1..Len(s) |-> [v \in Nat |-> v * s[k] + ix[k]]]
<1>1. Len(s) \in Nat /\ \A k \in 1..Len(s) : s[k] \in Nat /\ ix[k] \in Nat
  BY DimsAreNumbers DEF Digits
<1>2. IsSteps(step, 1..Len(s), Nat)
  <2>1. ASSUME NEW k \in 1..Len(s), NEW v \in Nat PROVE v * s[k] + ix[k] \in Nat
    <3>1. v * s[k] \in Nat
      BY <1>1, ProductIsNat
    <3> QED
      BY <1>1, <3>1
  <2> QED
    BY <2>1 DEF IsSteps
<1>3. \A k \in 1..Len(s), v \in Nat : step[k][v] = v * s[k] + ix[k]
  OBVIOUS
<1> HIDE DEF step
<1>4. PICK r : Ascends(r, Len(s), Nat, 0, step)
  BY <1>1, <1>2, AscentExists
<1>5. ASSUME NEW k \in 1..Len(s) PROVE r[k] = r[k - 1] * s[k] + ix[k]
  <2>1. r[k - 1] \in Nat
    BY <1>1, <1>4, AscentIn
  <2>2. r[k] = step[k][r[k - 1]]
    BY <1>4 DEF Ascends
  <2> QED
    BY <1>3, <2>1, <2>2
<1> QED
  BY <1>4, <1>5 DEF Ascends, RowDigits

LEMMA ColDigitsExist ==
    ASSUME NEW s \in Seq(Nat), NEW ix \in Digits(s)
    PROVE  \E c : ColDigits(c, s, ix)
<1> DEFINE step == [k \in 0..Len(s) - 1 |->
                       [v \in Nat |-> v * s[k + 1] + ix[k + 1]]]
<1>1. Len(s) \in Nat /\ \A k \in 1..Len(s) : s[k] \in Nat /\ ix[k] \in Nat
  BY DimsAreNumbers DEF Digits
<1>2. IsSteps(step, 0..Len(s) - 1, Nat)
  <2>1. ASSUME NEW k \in 0..Len(s) - 1, NEW v \in Nat
        PROVE  v * s[k + 1] + ix[k + 1] \in Nat
    <3>1. s[k + 1] \in Nat /\ ix[k + 1] \in Nat
      BY <1>1
    <3>2. v * s[k + 1] \in Nat
      BY <3>1, ProductIsNat
    <3> QED
      BY <3>1, <3>2
  <2> QED
    BY <2>1 DEF IsSteps
<1>3. \A k \in 0..Len(s) - 1, v \in Nat : step[k][v] = v * s[k + 1] + ix[k + 1]
  OBVIOUS
<1> HIDE DEF step
<1>4. PICK c : Descends(c, Len(s), Nat, 0, step)
  BY <1>1, <1>2, DescentExists
<1>5. ASSUME NEW k \in 0..Len(s) - 1
      PROVE  c[k] = c[k + 1] * s[k + 1] + ix[k + 1]
  <2>1. c[k + 1] \in Nat
    BY <1>1, <1>4, DescentIn
  <2>2. c[k] = step[k][c[k + 1]]
    BY <1>4 DEF Descends
  <2> QED
    BY <1>3, <2>1, <2>2
<1> QED
  BY <1>4, <1>5 DEF Descends, ColDigits

\* An index that is smaller than a dimension: a block of it fits.
LEMMA BlockFits ==
    ASSUME NEW d \in Nat, NEW m \in Nat, NEW b \in Nat, NEW x \in Nat,
           d < m, x < b
    PROVE  d * b + x < m * b
<1>1. d * b <= (m - 1) * b
  OBVIOUS
<1>2. (m - 1) * b = m * b - b
  OBVIOUS
<1>3. d * b \in Nat /\ m * b \in Nat
  OBVIOUS
<1> QED
  BY <1>1, <1>2, <1>3

\* What is left is less than a stride, and what has been put together too.
LEMMA TailsFit ==
    ASSUME NEW s \in Seq(Nat), NEW ix \in Digits(s), NEW R, NEW t,
           Suffixes(R, s), Tails(t, s, ix, R)
    PROVE  \A k \in 0..Len(s) : t[k] < R[k]
<1> DEFINE M == {k \in 0..Len(s) : t[k] < R[k]}
<1>1. Len(s) \in Nat
  BY DimsAreNumbers
<1>2. Len(s) \in M
  BY <1>1 DEF Suffixes, Tails
<1>3. ASSUME NEW k \in 1..Len(s), k \in M PROVE k - 1 \in M
  <2>1. k \in 0..Len(s) /\ k - 1 \in 0..Len(s) - 1 /\ (k - 1) + 1 = k
    BY <1>1
  <2>2. s[k] \in Nat /\ ix[k] \in Nat /\ ix[k] < s[k] /\ R[k] \in Nat /\ t[k] \in Nat
    BY <2>1, DimsAreNumbers DEF Digits, Suffixes, Tails
  <2>3. t[k - 1] = ix[k] * R[k] + t[k] /\ R[k - 1] = R[k] * s[k]
    BY <2>1 DEF Suffixes, Tails
  <2>4. ix[k] * R[k] + t[k] < s[k] * R[k]
    BY <1>3, <2>2, BlockFits
  <2>5. s[k] * R[k] = R[k] * s[k]
    BY <2>2
  <2> QED
    BY <2>1, <2>3, <2>4, <2>5
<1> HIDE DEF M
<1>4. \A k \in 0..Len(s) : k \in M
  BY <1>1, <1>2, <1>3, DownTo
<1> QED
  BY <1>4 DEF M

LEMMA HeadsFit ==
    ASSUME NEW s \in Seq(Nat), NEW ix \in Digits(s), NEW P, NEW u,
           Products(P, s), Heads(u, s, ix, P)
    PROVE  \A k \in 0..Len(s) : u[k] < P[k]
<1> DEFINE M == {k \in 0..Len(s) : u[k] < P[k]}
<1>1. Len(s) \in Nat
  BY DimsAreNumbers
<1>2. 0 \in M
  BY <1>1 DEF Products, Heads
<1>3. ASSUME NEW k \in 0..Len(s) - 1, k \in M PROVE k + 1 \in M
  <2>1. k \in 0..Len(s) /\ k + 1 \in 1..Len(s) /\ (k + 1) - 1 = k
        /\ k + 1 \in 0..Len(s)
    BY <1>1
  <2>2. /\ s[k + 1] \in Nat /\ ix[k + 1] \in Nat /\ ix[k + 1] < s[k + 1]
        /\ P[k] \in Nat /\ u[k] \in Nat
    BY <2>1, DimsAreNumbers DEF Digits, Products, Heads
  <2>3. u[k + 1] = u[k] + ix[k + 1] * P[k] /\ P[k + 1] = P[k] * s[k + 1]
    BY <2>1 DEF Products, Heads
  <2>4. ix[k + 1] * P[k] + u[k] < s[k + 1] * P[k]
    BY <1>3, <2>2, BlockFits
  <2>5. /\ s[k + 1] * P[k] = P[k] * s[k + 1]
        /\ ix[k + 1] * P[k] + u[k] = u[k] + ix[k + 1] * P[k]
    BY <2>2
  <2> QED
    BY <2>1, <2>3, <2>4, <2>5
<1> HIDE DEF M
<1>4. \A k \in 0..Len(s) : k \in M
  BY <1>1, <1>2, <1>3, UpTo
<1> QED
  BY <1>4 DEF M

\* The sums are the positions that Horner's rule gives.
LEMMA TailsAreRowMajor ==
    ASSUME NEW s \in Seq(Nat), NEW ix \in Digits(s), NEW R, NEW t,
           Suffixes(R, s), Tails(t, s, ix, R)
    PROVE  RowMajor(s, ix) = t[0]
<1>1. Len(s) \in Nat
  BY DimsAreNumbers
<1>2. PICK r : RowDigits(r, s, ix)
  BY RowDigitsExist
<1> DEFINE f == [k \in 0..Len(s) |-> r[k] * R[k] + t[k]]
           g == [k \in 0..Len(s) |-> t[0]]
<1>3. f[0] = g[0]
  <2>1. R[0] \in Nat /\ t[0] \in Nat /\ r[0] = 0
    BY <1>1, <1>2 DEF Suffixes, Tails, RowDigits
  <2> QED
    BY <1>1, <2>1
<1>4. ASSUME NEW k \in 1..Len(s), f[k - 1] = g[k - 1] PROVE f[k] = g[k]
  <2>1. k \in 0..Len(s) /\ k - 1 \in 0..Len(s) - 1 /\ (k - 1) + 1 = k
        /\ k - 1 \in 0..Len(s)
    BY <1>1
  <2>2. s[k] \in Nat /\ ix[k] \in Nat /\ R[k] \in Nat /\ t[k] \in Nat
        /\ r[k - 1] \in Nat
    BY <1>2, <2>1, DimsAreNumbers DEF Digits, Suffixes, Tails, RowDigits
  <2>3. t[k - 1] = ix[k] * R[k] + t[k] /\ R[k - 1] = R[k] * s[k]
    BY <2>1 DEF Suffixes, Tails
  <2>4. r[k] = r[k - 1] * s[k] + ix[k]
    BY <1>2 DEF RowDigits
  <2>5. (r[k - 1] * s[k] + ix[k]) * R[k] = r[k - 1] * (R[k] * s[k]) + ix[k] * R[k]
    <3> DEFINE a == r[k - 1]
               b == s[k]
               c == ix[k]
               d == R[k]
    <3>1. a \in Nat /\ b \in Nat /\ c \in Nat /\ d \in Nat
      BY <2>2
    <3> HIDE DEF a, b, c, d
    <3>2. (a * b + c) * d = a * (d * b) + c * d
      BY <3>1
    <3> QED
      BY <3>2 DEF a, b, c, d
  <2>6. r[k] * R[k] + t[k] = r[k - 1] * R[k - 1] + t[k - 1]
    <3> DEFINE A == r[k - 1] * (R[k] * s[k])
               B == ix[k] * R[k]
    <3>1. A \in Nat /\ B \in Nat
      <4>1. R[k] * s[k] \in Nat
        BY <2>2, ProductIsNat, Zenon
      <4> QED
        BY <2>2, <4>1, ProductIsNat, Zenon
    <3>2. r[k] * R[k] = A + B
      BY <2>4, <2>5
    <3>3. r[k - 1] * R[k - 1] = A /\ t[k - 1] = B + t[k]
      BY <2>3
    <3> HIDE DEF A, B
    <3> QED
      BY <2>2, <3>1, <3>2, <3>3
  <2> QED
    BY <1>4, <2>1, <2>6
<1>5. f[Len(s)] = g[Len(s)]
  <2> HIDE DEF f, g
  <2>1. \A k \in 0..Len(s) : f[k] = g[k]
    <3>1. Onwards(f, g, Len(s))
      BY <1>1, <1>3, <1>4 DEF Onwards
    <3> QED
      BY <1>1, <3>1, SameUpwards
  <2> QED
    BY <1>1, <2>1
<1>6. r[Len(s)] \in Nat /\ R[Len(s)] = 1 /\ t[Len(s)] = 0
  <2>1. r[Len(s)] \in Nat
    BY <1>1, <1>2 DEF RowDigits
  <2>2. R[Len(s)] = 1
    BY DEF Suffixes
  <2>3. t[Len(s)] = 0
    BY DEF Tails
  <2> QED
    BY <2>1, <2>2, <2>3
<1>7. r[Len(s)] = t[0]
  BY <1>1, <1>5, <1>6
<1> QED
  BY <1>2, <1>7, RowMajorIs

LEMMA HeadsAreColMajor ==
    ASSUME NEW s \in Seq(Nat), NEW ix \in Digits(s), NEW P, NEW u,
           Products(P, s), Heads(u, s, ix, P)
    PROVE  ColMajor(s, ix) = u[Len(s)]
<1>1. Len(s) \in Nat
  BY DimsAreNumbers
<1>2. PICK c : ColDigits(c, s, ix)
  BY ColDigitsExist
<1> DEFINE f == [k \in 0..Len(s) |-> u[k] + c[k] * P[k]]
           g == [k \in 0..Len(s) |-> c[0]]
<1>3. f[0] = g[0]
  <2>1. P[0] = 1 /\ u[0] = 0
    BY DEF Products, Heads
  <2>2. c[0] \in Nat
    BY <1>1, <1>2 DEF ColDigits
  <2> QED
    BY <1>1, <2>1, <2>2
<1>4. ASSUME NEW k \in 1..Len(s), f[k - 1] = g[k - 1] PROVE f[k] = g[k]
  <2>1. k \in 0..Len(s) /\ k - 1 \in 0..Len(s) - 1 /\ (k - 1) + 1 = k
        /\ k - 1 \in 0..Len(s)
    BY <1>1
  <2>2. s[k] \in Nat /\ ix[k] \in Nat /\ P[k - 1] \in Nat /\ u[k - 1] \in Nat
        /\ c[k] \in Nat
    BY <1>2, <2>1, DimsAreNumbers DEF Digits, Products, Heads, ColDigits
  <2>3. u[k] = u[k - 1] + ix[k] * P[k - 1] /\ P[k] = P[k - 1] * s[k]
    BY <2>1 DEF Products, Heads
  <2>4. c[k - 1] = c[k] * s[k] + ix[k]
    BY <1>2, <2>1 DEF ColDigits
  <2>5. (c[k] * s[k] + ix[k]) * P[k - 1] = c[k] * (P[k - 1] * s[k]) + ix[k] * P[k - 1]
    <3> DEFINE a == c[k]
               b == s[k]
               d == ix[k]
               e == P[k - 1]
    <3>1. a \in Nat /\ b \in Nat /\ d \in Nat /\ e \in Nat
      BY <2>2
    <3> HIDE DEF a, b, d, e
    <3>2. (a * b + d) * e = a * (e * b) + d * e
      BY <3>1
    <3> QED
      BY <3>2 DEF a, b, d, e
  <2>6. u[k] + c[k] * P[k] = u[k - 1] + c[k - 1] * P[k - 1]
    <3> DEFINE A == c[k] * (P[k - 1] * s[k])
               B == ix[k] * P[k - 1]
    <3>1. A \in Nat /\ B \in Nat
      <4>1. P[k - 1] * s[k] \in Nat
        BY <2>2, ProductIsNat, Zenon
      <4> QED
        BY <2>2, <4>1, ProductIsNat, Zenon
    <3>2. c[k - 1] * P[k - 1] = A + B
      BY <2>4, <2>5
    <3>3. c[k] * P[k] = A /\ u[k] = u[k - 1] + B
      BY <2>3
    <3> HIDE DEF A, B
    <3> QED
      BY <2>2, <3>1, <3>2, <3>3
  <2> QED
    BY <1>4, <2>1, <2>6
<1>5. f[Len(s)] = g[Len(s)]
  <2> HIDE DEF f, g
  <2>1. \A k \in 0..Len(s) : f[k] = g[k]
    <3>1. Onwards(f, g, Len(s))
      BY <1>1, <1>3, <1>4 DEF Onwards
    <3> QED
      BY <1>1, <3>1, SameUpwards
  <2> QED
    BY <1>1, <2>1
<1>6. P[Len(s)] \in Nat /\ c[Len(s)] = 0 /\ u[Len(s)] \in Nat
  <2>1. P[Len(s)] \in Nat
    BY <1>1 DEF Products
  <2>2. c[Len(s)] = 0
    BY <1>2 DEF ColDigits
  <2>3. u[Len(s)] \in Nat
    BY <1>1 DEF Heads
  <2> QED
    BY <2>1, <2>2, <2>3
<1>7. u[Len(s)] = c[0]
  BY <1>1, <1>5, <1>6
<1> QED
  BY <1>2, <1>7, ColMajorIs

----------------------------------------------------------------------------
(* The size of an array, and an array that is not empty.                   *)

LEMMA SizeIsSuffix ==
    ASSUME NEW s \in Seq(Nat), NEW P, NEW R, Products(P, s), Suffixes(R, s)
    PROVE  P[Len(s)] = R[0]
<1>1. Len(s) \in Nat
  BY DimsAreNumbers
<1> DEFINE f == [k \in 0..Len(s) |-> P[k] * R[k]]
           g == [k \in 0..Len(s) |-> R[0]]
<1>2. f[0] = g[0]
  <2>1. P[0] = 1 /\ R[0] \in Nat
    BY <1>1 DEF Products, Suffixes
  <2> QED
    BY <1>1, <2>1
<1>3. ASSUME NEW k \in 1..Len(s), f[k - 1] = g[k - 1] PROVE f[k] = g[k]
  <2>1. k \in 0..Len(s) /\ k - 1 \in 0..Len(s) - 1 /\ (k - 1) + 1 = k
        /\ k - 1 \in 0..Len(s)
    BY <1>1
  <2>2. s[k] \in Nat /\ P[k - 1] \in Nat /\ R[k] \in Nat
    BY <2>1, DimsAreNumbers DEF Products, Suffixes
  <2>3. P[k] = P[k - 1] * s[k] /\ R[k - 1] = R[k] * s[k]
    BY <2>1 DEF Products, Suffixes
  <2>4. (P[k - 1] * s[k]) * R[k] = P[k - 1] * (R[k] * s[k])
    BY <2>2, Regroup, Zenon
  <2>5. P[k] * R[k] = P[k - 1] * R[k - 1]
    BY <2>3, <2>4
  <2> QED
    BY <1>3, <2>1, <2>5
<1>4. f[Len(s)] = g[Len(s)]
  <2> HIDE DEF f, g
  <2>1. \A k \in 0..Len(s) : f[k] = g[k]
    <3>1. Onwards(f, g, Len(s))
      BY <1>1, <1>2, <1>3 DEF Onwards
    <3> QED
      BY <1>1, <3>1, SameUpwards
  <2> QED
    BY <1>1, <2>1
<1>5. P[Len(s)] \in Nat /\ R[Len(s)] = 1
  <2>1. Len(s) \in 0..Len(s)
    BY <1>1
  <2>2. P[Len(s)] \in Nat
    BY <2>1 DEF Products
  <2>3. R[Len(s)] = 1
    BY DEF Suffixes
  <2> QED
    BY <2>2, <2>3
<1> QED
  BY <1>1, <1>4, <1>5

LEMMA SizeIsNat ==
    ASSUME NEW s \in Seq(Nat)
    PROVE  Size(s) \in Nat
<1>1. PICK P : Products(P, s)
  BY ProductsExist
<1>2. P[Len(s)] \in Nat
  BY <1>1, DimsAreNumbers DEF Products
<1> QED
  BY <1>1, <1>2, SizeIs

\* A product is zero as soon as one factor is.
LEMMA FactorsPositive ==
    ASSUME NEW a \in Nat, NEW b \in Nat, a * b > 0
    PROVE  a > 0 /\ b > 0
<1>1. a # 0
  <2> SUFFICES ASSUME a = 0 PROVE FALSE
    OBVIOUS
  <2>1. a * b = 0
    OBVIOUS
  <2> QED
    BY <2>1
<1>2. b # 0
  <2> SUFFICES ASSUME b = 0 PROVE FALSE
    OBVIOUS
  <2>1. a * b = 0
    OBVIOUS
  <2> QED
    BY <2>1
<1> QED
  BY <1>1, <1>2

LEMMA ProductsPositive ==
    ASSUME NEW s \in Seq(Nat), NEW P, Products(P, s), P[Len(s)] > 0
    PROVE  /\ \A k \in 0..Len(s) : P[k] > 0
           /\ \A k \in 1..Len(s) : s[k] > 0
<1> DEFINE M == {k \in 0..Len(s) : P[k] > 0}
<1>1. Len(s) \in Nat
  BY DimsAreNumbers
<1>2. Len(s) \in M
  BY <1>1
<1>3. ASSUME NEW k \in 1..Len(s), P[k] > 0 PROVE P[k - 1] > 0 /\ s[k] > 0
  <2>1. k - 1 \in 0..Len(s)
    BY <1>1
  <2>2. s[k] \in Nat /\ P[k - 1] \in Nat
    BY <2>1, DimsAreNumbers DEF Products
  <2>3. P[k] = P[k - 1] * s[k]
    BY DEF Products
  <2> QED
    BY <1>3, <2>2, <2>3, FactorsPositive
<1>4. ASSUME NEW k \in 1..Len(s), k \in M PROVE k - 1 \in M
  BY <1>1, <1>3, <1>4
<1>5. \A k \in 0..Len(s) : k \in M
  <2> HIDE DEF M
  <2> QED
    BY <1>1, <1>2, <1>4, DownTo
<1>6. \A k \in 0..Len(s) : P[k] > 0
  BY <1>5
<1>7. ASSUME NEW k \in 1..Len(s) PROVE s[k] > 0
  BY <1>1, <1>3, <1>6
<1> QED
  BY <1>6, <1>7

LEMMA SuffixesPositive ==
    ASSUME NEW s \in Seq(Nat), NEW R, Suffixes(R, s), R[0] > 0
    PROVE  \A k \in 0..Len(s) : R[k] > 0
<1> DEFINE M == {k \in 0..Len(s) : R[k] > 0}
<1>1. Len(s) \in Nat
  BY DimsAreNumbers
<1>2. 0 \in M
  BY <1>1
<1>3. ASSUME NEW k \in 0..Len(s) - 1, k \in M PROVE k + 1 \in M
  <2>1. k + 1 \in 0..Len(s) /\ k + 1 \in 1..Len(s)
    BY <1>1
  <2>2. s[k + 1] \in Nat /\ R[k + 1] \in Nat
    BY <2>1, DimsAreNumbers DEF Suffixes
  <2>3. R[k] = R[k + 1] * s[k + 1]
    BY DEF Suffixes
  <2>4. R[k + 1] > 0
    BY <1>3, <2>2, <2>3, FactorsPositive
  <2> QED
    BY <2>1, <2>4
<1>4. \A k \in 0..Len(s) : k \in M
  <2> HIDE DEF M
  <2> QED
    BY <1>1, <1>2, <1>3, UpTo
<1> QED
  BY <1>4

LEMMA StridesArePositive ==
    ASSUME NEW s \in Seq(Nat), Size(s) > 0, NEW k \in 1..Len(s)
    PROVE  RmStride(s)[k] > 0 /\ CmStride(s)[k] > 0
<1>1. PICK P : Products(P, s)
  BY ProductsExist
<1>2. PICK R : Suffixes(R, s)
  BY SuffixesExist
<1>3. P[Len(s)] > 0 /\ R[0] > 0
  BY <1>1, <1>2, SizeIs, SizeIsSuffix
<1>4. k \in 0..Len(s) /\ k - 1 \in 0..Len(s)
  BY DimsAreNumbers
<1>5. R[k] > 0
  BY <1>2, <1>3, <1>4, SuffixesPositive
<1>6. P[k - 1] > 0
  BY <1>1, <1>3, <1>4, ProductsPositive
<1> QED
  BY <1>1, <1>2, <1>5, <1>6, RmStrideIs, CmStrideIs

----------------------------------------------------------------------------
(* The loops translate one order into the other.                           *)

LEMMA RowMajorInCells ==
    ASSUME NEW s \in Seq(Nat), NEW ix \in Digits(s)
    PROVE  RowMajor(s, ix) \in 0..Size(s) - 1
<1>1. PICK P : Products(P, s)
  BY ProductsExist
<1>2. PICK R : Suffixes(R, s)
  BY SuffixesExist
<1>3. PICK t : Tails(t, s, ix, R)
  BY <1>2, TailsExist
<1>4. 0 \in 0..Len(s)
  BY DimsAreNumbers
<1>5. t[0] \in Nat /\ t[0] < R[0]
  BY <1>2, <1>3, <1>4, TailsFit DEF Tails
<1>6. Size(s) = R[0] /\ Size(s) \in Nat
  BY <1>1, <1>2, SizeIs, SizeIsSuffix, SizeIsNat
<1>7. RowMajor(s, ix) = t[0]
  BY <1>2, <1>3, TailsAreRowMajor
<1> QED
  BY <1>5, <1>6, <1>7

LEMMA ColMajorInCells ==
    ASSUME NEW s \in Seq(Nat), NEW ix \in Digits(s)
    PROVE  ColMajor(s, ix) \in 0..Size(s) - 1
<1>1. PICK P : Products(P, s)
  BY ProductsExist
<1>2. PICK u : Heads(u, s, ix, P)
  BY <1>1, HeadsExist
<1>3. Len(s) \in 0..Len(s)
  BY DimsAreNumbers
<1>4. u[Len(s)] \in Nat /\ u[Len(s)] < P[Len(s)]
  BY <1>1, <1>2, <1>3, HeadsFit DEF Heads
<1>5. Size(s) = P[Len(s)] /\ Size(s) \in Nat
  BY <1>1, SizeIs, SizeIsNat
<1>6. ColMajor(s, ix) = u[Len(s)]
  BY <1>1, <1>2, HeadsAreColMajor
<1> QED
  BY <1>4, <1>5, <1>6

\* Of an array of one dimension or none the two orders are the same.
LEMMA FlatOrders ==
    ASSUME NEW s \in Seq(Nat), NEW ix \in Digits(s), Len(s) <= 1
    PROVE  RowMajor(s, ix) = ColMajor(s, ix)
<1>1. PICK P : Products(P, s)
  BY ProductsExist
<1>2. PICK R : Suffixes(R, s)
  BY SuffixesExist
<1>3. PICK t : Tails(t, s, ix, R)
  BY <1>2, TailsExist
<1>4. PICK u : Heads(u, s, ix, P)
  BY <1>1, HeadsExist
<1>5. t[0] = u[Len(s)]
  <2>1. CASE Len(s) = 0
    <3>1. t[0] = 0
      BY <1>3, <2>1 DEF Tails
    <3>2. u[Len(s)] = 0
      BY <1>4, <2>1 DEF Heads
    <3> QED
      BY <3>1, <3>2
  <2>2. CASE Len(s) = 1
    <3>1. ix[1] \in Nat
      BY <2>2 DEF Digits
    <3>2. t[0] = ix[1] * R[1] + t[1] /\ t[1] = 0 /\ R[1] = 1
      BY <1>2, <1>3, <2>2 DEF Tails, Suffixes
    <3>3. u[1] = u[0] + ix[1] * P[0] /\ u[0] = 0 /\ P[0] = 1
      BY <1>1, <1>4, <2>2 DEF Heads, Products
    <3> QED
      BY <2>2, <3>1, <3>2, <3>3
  <2>3. Len(s) = 0 \/ Len(s) = 1
    <3> DEFINE n == Len(s)
    <3>1. n \in Nat /\ n <= 1
      BY DimsAreNumbers
    <3> HIDE DEF n
    <3>2. n = 0 \/ n = 1
      BY <3>1
    <3> QED
      BY <3>2 DEF n
  <2> QED
    BY <2>1, <2>2, <2>3
<1> QED
  BY <1>1, <1>2, <1>3, <1>4, <1>5, TailsAreRowMajor, HeadsAreColMajor

\* permute_colrow writes to the row-major position of an element what it reads
\* from its column-major one.
LEMMA ColIndexIs ==
    ASSUME NEW s \in Seq(Nat), NEW ix \in Digits(s)
    PROVE  ColIndex(s, RowMajor(s, ix)) = ColMajor(s, ix)
<1>1. PICK P : Products(P, s)
  BY ProductsExist
<1>2. PICK R : Suffixes(R, s)
  BY SuffixesExist
<1>3. PICK t : Tails(t, s, ix, R)
  BY <1>2, TailsExist
<1>4. PICK u : Heads(u, s, ix, P)
  BY <1>1, HeadsExist
<1>5. Len(s) \in Nat
  BY DimsAreNumbers
<1>6. CASE Len(s) <= 1
  BY <1>6, FlatOrders DEF ColIndex
<1>7. CASE ~ (Len(s) <= 1)
  <2> DEFINE by == Upwards(s)
  <2>1. Len(by) = Len(s) /\ \A k \in 1..Len(s) : by[k] = k
    BY <1>5 DEF Upwards
  <2>2. ASSUME NEW k \in 1..Len(s)
        PROVE  /\ ix[k] \in Nat
               /\ t[k] < RmStride(s)[k] /\ RmStride(s)[k] \in Nat
               /\ t[k - 1] = ix[k] * RmStride(s)[k] + t[k]
               /\ u[k] = u[k - 1] + ix[k] * CmStride(s)[k]
    <3>1. k \in 0..Len(s) /\ k - 1 \in 0..Len(s) - 1 /\ (k - 1) + 1 = k
      BY <1>5
    <3>2. RmStride(s)[k] = R[k] /\ CmStride(s)[k] = P[k - 1]
      BY <1>1, <1>2, RmStrideIs, CmStrideIs
    <3>3. ix[k] \in Nat /\ R[k] \in Nat
      BY <1>2, <3>1 DEF Digits, Suffixes
    <3>4. t[k] < R[k]
      BY <1>2, <1>3, <3>1, TailsFit
    <3>5. t[k - 1] = ix[k] * R[k] + t[k]
      BY <1>3, <3>1 DEF Tails
    <3>6. u[k] = u[k - 1] + ix[k] * P[k - 1]
      BY <1>4 DEF Heads
    <3> QED
      BY <3>2, <3>3, <3>4, <3>5, <3>6
  <2>3. t \in [0..Len(s) -> Nat] /\ u \in [0..Len(s) -> Nat] /\ u[0] = 0
    BY <1>3, <1>4 DEF Tails, Heads
  <2> HIDE DEF by
  <2>4. Walks(RmStride(s), CmStride(s), by, t, u, ix)
    BY <1>5, <2>1, <2>2, <2>3 DEF Walks
  <2>5. Translate(t[0], RmStride(s), CmStride(s), by) = u[Len(by)]
    BY <2>4, TranslateIs
  <2>6. ColIndex(s, t[0]) = u[Len(s)]
    BY <1>7, <2>1, <2>5 DEF ColIndex, by
  <2> QED
    BY <1>1, <1>2, <1>3, <1>4, <2>6, TailsAreRowMajor, HeadsAreColMajor
<1> QED
  BY <1>6, <1>7

\* permute_rowcol, the other way round: it peels the last dimension first.
LEMMA RowIndexIs ==
    ASSUME NEW s \in Seq(Nat), NEW ix \in Digits(s)
    PROVE  RowIndex(s, ColMajor(s, ix)) = RowMajor(s, ix)
<1>1. PICK P : Products(P, s)
  BY ProductsExist
<1>2. PICK R : Suffixes(R, s)
  BY SuffixesExist
<1>3. PICK t : Tails(t, s, ix, R)
  BY <1>2, TailsExist
<1>4. PICK u : Heads(u, s, ix, P)
  BY <1>1, HeadsExist
<1> DEFINE n == Len(s)
<1>5. n \in Nat
  BY DimsAreNumbers
<1>6. CASE Len(s) <= 1
  BY <1>6, FlatOrders DEF RowIndex
<1>7. CASE ~ (Len(s) <= 1)
  <2> DEFINE by == Downwards(s)
             head == [k \in 0..n |-> u[n - k]]
             tail == [k \in 0..n |-> t[n - k]]
             digit == [k \in 1..n |-> ix[n + 1 - k]]
  <2>1. Len(by) = n /\ \A k \in 1..n : by[k] = n + 1 - k
    BY <1>5 DEF Downwards
  <2>2. ASSUME NEW k \in 1..n
        PROVE  /\ digit[k] \in Nat
               /\ head[k] < CmStride(s)[by[k]] /\ CmStride(s)[by[k]] \in Nat
               /\ head[k - 1] = digit[k] * CmStride(s)[by[k]] + head[k]
               /\ tail[k] = tail[k - 1] + digit[k] * RmStride(s)[by[k]]
    <3> DEFINE j == n + 1 - k
    <3>1. /\ j \in 1..n /\ j - 1 \in 0..n /\ j \in 0..n /\ j - 1 \in 0..n - 1
          /\ (j - 1) + 1 = j /\ n - k = j - 1 /\ n - (k - 1) = j
          /\ k \in 0..n /\ k - 1 \in 0..n
      BY <1>5
    <3>2. /\ head[k] = u[j - 1] /\ head[k - 1] = u[j]
          /\ tail[k] = t[j - 1] /\ tail[k - 1] = t[j]
          /\ digit[k] = ix[j] /\ by[k] = j
      BY <2>1, <3>1
    <3> HIDE DEF j, head, tail, digit, by
    <3>3. RmStride(s)[j] = R[j] /\ CmStride(s)[j] = P[j - 1]
      BY <1>1, <1>2, <3>1, RmStrideIs, CmStrideIs
    <3>4. /\ ix[j] \in Nat /\ R[j] \in Nat /\ P[j - 1] \in Nat
          /\ u[j - 1] \in Nat /\ t[j] \in Nat
      BY <1>1, <1>2, <1>3, <1>4, <3>1 DEF Digits, Products, Suffixes, Tails, Heads
    <3>5. u[j - 1] < P[j - 1]
      BY <1>1, <1>4, <3>1, HeadsFit
    <3>6. t[j - 1] = ix[j] * R[j] + t[j]
      BY <1>3, <3>1 DEF Tails
    <3>7. u[j] = u[j - 1] + ix[j] * P[j - 1]
      BY <1>4, <3>1 DEF Heads
    <3>8. ix[j] * P[j - 1] \in Nat /\ ix[j] * R[j] \in Nat
      BY <3>4, ProductIsNat, Zenon
    <3>9. /\ u[j] = ix[j] * P[j - 1] + u[j - 1]
          /\ t[j - 1] = t[j] + ix[j] * R[j]
      <4> DEFINE A == ix[j] * P[j - 1]
                 B == ix[j] * R[j]
      <4>1. A \in Nat /\ B \in Nat /\ u[j] = u[j - 1] + A /\ t[j - 1] = B + t[j]
        BY <3>6, <3>7, <3>8, Zenon
      <4> HIDE DEF A, B
      <4>2. u[j] = A + u[j - 1] /\ t[j - 1] = t[j] + B
        BY <3>4, <4>1
      <4> QED
        BY <4>2 DEF A, B
    <3> QED
      BY <3>2, <3>3, <3>4, <3>5, <3>9
  <2>3. head \in [0..n -> Nat] /\ tail \in [0..n -> Nat]
    <3>1. \A k \in 0..n : n - k \in 0..n
      BY <1>5
    <3> QED
      BY <1>3, <1>4, <3>1 DEF Tails, Heads
  <2>4. head[0] = u[n] /\ tail[0] = 0 /\ tail[n] = t[0]
    <3>1. 0 \in 0..n /\ n \in 0..n /\ n - 0 = n /\ n - n = 0
      BY <1>5
    <3>2. t[n] = 0
      BY <1>3 DEF Tails
    <3> QED
      BY <3>1, <3>2
  <2> HIDE DEF by, head, tail, digit
  <2>5. Walks(CmStride(s), RmStride(s), by, head, tail, digit)
    BY <1>5, <2>1, <2>2, <2>3, <2>4 DEF Walks
  <2>6. Translate(head[0], CmStride(s), RmStride(s), by) = tail[Len(by)]
    BY <2>5, TranslateIs
  <2>7. RowIndex(s, u[n]) = t[0]
    BY <1>7, <2>1, <2>4, <2>6 DEF RowIndex, by
  <2> QED
    BY <1>1, <1>2, <1>3, <1>4, <2>7, TailsAreRowMajor, HeadsAreColMajor
<1> QED
  BY <1>6, <1>7

----------------------------------------------------------------------------
(* Every position belongs to an element.                                   *)

\* A position divided by the strides of the dimensions gives, before each
\* remainder is taken, Horner's rule.
LEMMA RowMajorReaches ==
    ASSUME NEW s \in Seq(Nat), NEW p \in 0..Size(s) - 1
    PROVE  \E ix \in Digits(s) : RowMajor(s, ix) = p
<1>1. PICK P : Products(P, s)
  BY ProductsExist
<1>2. PICK R : Suffixes(R, s)
  BY SuffixesExist
<1>3. Len(s) \in Nat
  BY DimsAreNumbers
<1>4. Size(s) = R[0] /\ Size(s) \in Nat /\ Size(s) > 0 /\ p \in Nat /\ p < R[0]
  BY <1>1, <1>2, SizeIs, SizeIsSuffix, SizeIsNat
<1>5. ASSUME NEW k \in 0..Len(s) PROVE R[k] \in Nat \ {0}
  <2>1. R[0] > 0
    BY <1>4
  <2>2. R[k] > 0
    BY <1>2, <2>1, SuffixesPositive
  <2>3. R[k] \in Nat
    BY <1>2 DEF Suffixes
  <2> QED
    BY <2>2, <2>3
<1>6. \A k \in 1..Len(s) : s[k] \in Nat \ {0}
  <2>1. P[Len(s)] > 0
    BY <1>1, <1>4, SizeIs
  <2> QED
    BY <1>1, <2>1, ProductsPositive, DimsAreNumbers
<1> DEFINE r == [k \in 0..Len(s) |-> p \div R[k]]
           ix == [k \in 1..Len(s) |-> (p \div R[k]) % s[k]]
<1>7. ASSUME NEW k \in 0..Len(s) PROVE p \div R[k] \in Nat
  BY <1>4, <1>5, Divide
<1>8. ASSUME NEW k \in 1..Len(s)
      PROVE  /\ (p \div R[k]) % s[k] \in 0..s[k] - 1
             /\ p \div R[k] = (p \div R[k - 1]) * s[k] + ((p \div R[k]) % s[k])
  <2> DEFINE q == p \div R[k]
  <2>1. k \in 0..Len(s) /\ k - 1 \in 0..Len(s) - 1 /\ (k - 1) + 1 = k
    BY <1>3
  <2>2. q \in Nat /\ R[k] \in Nat \ {0} /\ s[k] \in Nat \ {0}
    BY <1>5, <1>6, <1>7, <2>1
  <2>3. R[k - 1] = R[k] * s[k]
    BY <1>2, <2>1 DEF Suffixes
  <2>4. q \div s[k] = p \div R[k - 1]
    <3>1. p \in Nat
      BY <1>4
    <3> DEFINE a == R[k]
               b == s[k]
    <3>2. a \in Nat \ {0} /\ b \in Nat \ {0}
      BY <2>2
    <3>3. q = p \div a /\ R[k - 1] = a * b
      BY <2>3
    <3> HIDE DEF q, a, b
    <3>4. Together(p, a, b)
      BY <3>1, <3>2, DivideTwice
    <3>5. (p \div a) \div b = p \div (a * b)
      BY <3>4 DEF Together
    <3> QED
      BY <3>3, <3>5 DEF b
  <2> HIDE DEF q
  <2>5. q % s[k] \in 0..s[k] - 1 /\ q = s[k] * (q \div s[k]) + (q % s[k])
        /\ q \div s[k] \in Nat
    BY <2>2, Divide
  <2>6. s[k] * (q \div s[k]) = (q \div s[k]) * s[k]
    BY <2>2, <2>5
  <2> QED
    BY <2>4, <2>5, <2>6 DEF q
<1>9. ix \in Digits(s)
  <2>1. \A k \in 1..Len(s) : ix[k] \in Nat /\ ix[k] < s[k]
    BY <1>6, <1>8
  <2> QED
    BY <2>1 DEF Digits
<1>10. RowDigits(r, s, ix)
  <2>1. r \in [0..Len(s) -> Nat]
    BY <1>7
  <2>2. r[0] = 0
    BY <1>3, <1>4, DivideSmall
  <2>3. ASSUME NEW k \in 1..Len(s) PROVE r[k] = r[k - 1] * s[k] + ix[k]
    <3>1. k \in 0..Len(s) /\ k - 1 \in 0..Len(s)
      BY <1>3
    <3>2. r[k] = p \div R[k] /\ r[k - 1] = p \div R[k - 1]
          /\ ix[k] = (p \div R[k]) % s[k]
      BY <3>1
    <3> QED
      BY <1>8, <3>2
  <2> QED
    BY <2>1, <2>2, <2>3 DEF RowDigits
<1>11. r[Len(s)] = p
  <2>1. R[Len(s)] = 1 /\ Len(s) \in 0..Len(s)
    BY <1>2, <1>3 DEF Suffixes
  <2> QED
    BY <1>4, <2>1
<1> HIDE DEF r, ix
<1>12. RowMajor(s, ix) = r[Len(s)]
  BY <1>10, RowMajorIs
<1> QED
  BY <1>9, <1>11, <1>12

LEMMA ColMajorReaches ==
    ASSUME NEW s \in Seq(Nat), NEW p \in 0..Size(s) - 1
    PROVE  \E ix \in Digits(s) : ColMajor(s, ix) = p
<1>1. PICK P : Products(P, s)
  BY ProductsExist
<1>2. Len(s) \in Nat
  BY DimsAreNumbers
<1>3. Size(s) = P[Len(s)] /\ Size(s) \in Nat /\ Size(s) > 0 /\ p \in Nat
      /\ p < P[Len(s)]
  BY <1>1, SizeIs, SizeIsNat
<1>4. ASSUME NEW k \in 0..Len(s) PROVE P[k] \in Nat \ {0}
  <2>1. P[Len(s)] > 0
    BY <1>3
  <2>2. P[k] > 0
    BY <1>1, <2>1, ProductsPositive
  <2>3. P[k] \in Nat
    BY <1>1 DEF Products
  <2> QED
    BY <2>2, <2>3
<1>5. \A k \in 1..Len(s) : s[k] \in Nat \ {0}
  BY <1>1, <1>3, ProductsPositive, DimsAreNumbers
<1> DEFINE c == [k \in 0..Len(s) |-> p \div P[k]]
           ix == [k \in 1..Len(s) |-> (p \div P[k - 1]) % s[k]]
<1>6. ASSUME NEW k \in 0..Len(s) PROVE p \div P[k] \in Nat
  BY <1>3, <1>4, Divide
<1>7. ASSUME NEW k \in 1..Len(s)
      PROVE  /\ (p \div P[k - 1]) % s[k] \in 0..s[k] - 1
             /\ p \div P[k - 1] = (p \div P[k]) * s[k] + ((p \div P[k - 1]) % s[k])
  <2> DEFINE q == p \div P[k - 1]
  <2>1. k - 1 \in 0..Len(s)
    BY <1>2
  <2>2. q \in Nat /\ P[k - 1] \in Nat \ {0} /\ s[k] \in Nat \ {0}
    BY <1>4, <1>5, <1>6, <2>1
  <2>3. P[k] = P[k - 1] * s[k]
    BY <1>1 DEF Products
  <2>4. q \div s[k] = p \div P[k]
    <3>1. p \in Nat
      BY <1>3
    <3> DEFINE a == P[k - 1]
               b == s[k]
    <3>2. a \in Nat \ {0} /\ b \in Nat \ {0}
      BY <2>2
    <3>3. q = p \div a /\ P[k] = a * b
      BY <2>3
    <3> HIDE DEF q, a, b
    <3>4. Together(p, a, b)
      BY <3>1, <3>2, DivideTwice
    <3>5. (p \div a) \div b = p \div (a * b)
      BY <3>4 DEF Together
    <3> QED
      BY <3>3, <3>5 DEF b
  <2> HIDE DEF q
  <2>5. q % s[k] \in 0..s[k] - 1 /\ q = s[k] * (q \div s[k]) + (q % s[k])
        /\ q \div s[k] \in Nat
    BY <2>2, Divide
  <2>6. s[k] * (q \div s[k]) = (q \div s[k]) * s[k]
    BY <2>2, <2>5
  <2> QED
    BY <2>4, <2>5, <2>6 DEF q
<1>8. ix \in Digits(s)
  <2>1. \A k \in 1..Len(s) : ix[k] \in Nat /\ ix[k] < s[k]
    BY <1>5, <1>7
  <2> QED
    BY <2>1 DEF Digits
<1>9. ColDigits(c, s, ix)
  <2>1. c \in [0..Len(s) -> Nat]
    BY <1>6
  <2>2. c[Len(s)] = 0
    BY <1>2, <1>3, DivideSmall
  <2>3. ASSUME NEW k \in 0..Len(s) - 1
        PROVE  c[k] = c[k + 1] * s[k + 1] + ix[k + 1]
    <3>1. k \in 0..Len(s) /\ k + 1 \in 0..Len(s) /\ k + 1 \in 1..Len(s)
          /\ (k + 1) - 1 = k
      BY <1>2
    <3>2. c[k] = p \div P[k] /\ c[k + 1] = p \div P[k + 1]
          /\ ix[k + 1] = (p \div P[k]) % s[k + 1]
      BY <3>1
    <3>3. p \div P[k] = (p \div P[k + 1]) * s[k + 1] + ((p \div P[k]) % s[k + 1])
      BY <1>7, <3>1
    <3> QED
      BY <3>2, <3>3
  <2> QED
    BY <2>1, <2>2, <2>3 DEF ColDigits
<1>10. c[0] = p
  <2>1. P[0] = 1 /\ 0 \in 0..Len(s)
    BY <1>1, <1>2 DEF Products
  <2> QED
    BY <1>3, <2>1
<1> HIDE DEF c, ix
<1>11. ColMajor(s, ix) = c[0]
  BY <1>9, ColMajorIs
<1> QED
  BY <1>8, <1>10, <1>11

LEMMA ColIndexInCells ==
    ASSUME NEW s \in Seq(Nat), NEW p \in 0..Size(s) - 1
    PROVE  ColIndex(s, p) \in 0..Size(s) - 1
<1>1. PICK ix \in Digits(s) : RowMajor(s, ix) = p
  BY RowMajorReaches
<1> QED
  BY <1>1, ColIndexIs, ColMajorInCells

LEMMA RowIndexInCells ==
    ASSUME NEW s \in Seq(Nat), NEW p \in 0..Size(s) - 1
    PROVE  RowIndex(s, p) \in 0..Size(s) - 1
<1>1. PICK ix \in Digits(s) : ColMajor(s, ix) = p
  BY ColMajorReaches
<1> QED
  BY <1>1, RowIndexIs, RowMajorInCells

\* The second loop undoes the first.
LEMMA RowIndexUndoesColIndex ==
    ASSUME NEW s \in Seq(Nat), NEW p \in 0..Size(s) - 1
    PROVE  ColIndex(s, RowIndex(s, p)) = p
<1>1. PICK ix \in Digits(s) : ColMajor(s, ix) = p
  BY ColMajorReaches
<1> QED
  BY <1>1, RowIndexIs, ColIndexIs

----------------------------------------------------------------------------
(* The loops.                                                              *)

LEMMA ShapesAreSequences == ASSUME NEW s \in Shapes PROVE s \in Seq(Nat)
<1>1. PICK r \in 0..MaxRank : s \in [1..r -> 0..MaxDim]
  BY DEF Shapes
<1>2. r \in Nat
  BY <1>1, LayoutBoundsAssumption
<1>3. \A k \in 1..r : s[k] \in Nat
  BY <1>1, LayoutBoundsAssumption
<1> QED
  BY <1>1, <1>2, <1>3, IsASeq

LEMMA MultiIndicesAreDigits ==
    ASSUME NEW s, NEW ix \in MultiIndices(s)
    PROVE  ix \in Digits(s)
BY LayoutBoundsAssumption DEF MultiIndices, Digits

\* What has been copied so far is what the two permutations say.
Copied ==
    /\ TypeOK
    /\ \A i \in Cells : phase # "in" \/ i < pos => tensor[i] = ColIndex(shape, i)
    /\ \A i \in Cells :
          phase = "done" \/ (phase = "out" /\ i < pos) => back[i] = i

LEMMA CopiedInductive == Spec => []Copied
<1>1. Init => Copied
  <2> SUFFICES ASSUME Init PROVE Copied
    OBVIOUS
  <2>1. shape \in Seq(Nat) /\ Size(shape) \in Nat
    BY ShapesAreSequences, SizeIsNat DEF Init
  <2> QED
    BY <2>1 DEF Init, Copied, TypeOK, Cells, Elements, Buffer, Element
<1>2. Copied /\ [Next]_vars => Copied'
  <2> SUFFICES ASSUME Copied, [Next]_vars PROVE Copied'
    OBVIOUS
  <2>1. shape' = shape
    BY DEF Next, ColRowStep, ModelReturnsInput, RowColStep, Return, vars
  <2>2. shape \in Seq(Nat) /\ Size(shape) \in Nat /\ Cells' = Cells
    BY <2>1, ShapesAreSequences, SizeIsNat DEF Copied, TypeOK, Cells
  <2>3. CASE ColRowStep
    <3>1. pos \in Cells /\ pos \in Nat
      BY <2>2, <2>3 DEF ColRowStep, Copied, TypeOK, Cells
    <3>2. ColIndex(shape, pos) \in Cells
      BY <2>2, <3>1, ColIndexInCells DEF Cells
    <3> QED
      BY <2>2, <2>3, <3>1, <3>2
        DEF ColRowStep, Copied, TypeOK, Cells, Elements, Element
  <2>4. CASE ModelReturnsInput
    BY <2>2, <2>4 DEF ModelReturnsInput, Copied, TypeOK, Cells, Elements
  <2>5. CASE RowColStep
    <3>1. pos \in Cells /\ pos \in Nat
      BY <2>2, <2>5 DEF RowColStep, Copied, TypeOK, Cells
    <3> DEFINE row == RowIndex(shape, pos)
    <3>2. row \in Cells /\ ColIndex(shape, row) = pos
      BY <2>2, <3>1, RowIndexInCells, RowIndexUndoesColIndex DEF Cells
    <3>3. tensor[row] = pos
      BY <2>5, <3>2 DEF Copied, RowColStep
    <3> HIDE DEF row
    <3>4. back' = [back EXCEPT ![pos] = pos] /\ pos \in Elements
      BY <2>5, <3>1, <3>3 DEF RowColStep, row, Elements, Element
    <3> QED
      BY <2>2, <2>5, <3>1, <3>4
        DEF RowColStep, Copied, TypeOK, Cells, Elements
  <2>6. CASE Return
    BY <2>2, <2>6 DEF Return, Copied, TypeOK, Cells, Elements
  <2>7. CASE UNCHANGED vars
    BY <2>2, <2>7 DEF vars, Copied, TypeOK, Cells, Elements
  <2> QED
    BY <2>3, <2>4, <2>5, <2>6, <2>7 DEF Next
<1> QED
  BY <1>1, <1>2, PTL DEF Spec

\* The buffers keep their size and hold elements of the R array, or nothing yet.
THEOREM TypeCorrect == Spec => []TypeOK
<1>1. Copied => TypeOK
  BY DEF Copied
<1> QED
  BY <1>1, CopiedInductive, PTL

\* An array of any shape is copied inside its buffers: no position that the two
\* loops compute is outside.
THEOREM CopiesInBounds == Spec => []ReadsInBounds
<1>1. Copied => ReadsInBounds
  <2> SUFFICES ASSUME Copied, pos \in Cells
               PROVE  /\ ColIndex(shape, pos) \in Cells
                      /\ RowIndex(shape, pos) \in Cells
    BY DEF ReadsInBounds
  <2>1. shape \in Seq(Nat)
    BY ShapesAreSequences DEF Copied, TypeOK
  <2> QED
    BY <2>1, ColIndexInCells, RowIndexInCells DEF Cells
<1> QED
  BY <1>1, CopiedInductive, PTL

\* Neither loop divides by a stride of zero: while there is an element to copy,
\* no dimension is zero.
THEOREM DividesByStrides == Spec => []StridesNonZero
<1>1. Copied => StridesNonZero
  <2> SUFFICES ASSUME Copied, pos \in Cells, NEW k \in 1..Len(shape)
               PROVE  RmStride(shape)[k] > 0 /\ CmStride(shape)[k] > 0
    BY DEF StridesNonZero
  <2>1. shape \in Seq(Nat)
    BY ShapesAreSequences DEF Copied, TypeOK
  <2>2. Size(shape) > 0
    BY <2>1, SizeIsNat DEF Cells
  <2> QED
    BY <2>1, <2>2, StridesArePositive
<1> QED
  BY <1>1, CopiedInductive, PTL

\* The tensor that an array of any shape is copied into holds its elements in
\* row-major order.
THEOREM CopiesRowMajor == Spec => []TensorIsRowMajor
<1>1. Copied => TensorIsRowMajor
  <2> SUFFICES ASSUME Copied, NEW ix \in MultiIndices(shape),
                      phase # "in" \/ RowMajor(shape, ix) < pos
               PROVE  tensor[RowMajor(shape, ix)] = ColMajor(shape, ix)
    BY DEF TensorIsRowMajor, Element
  <2>1. shape \in Seq(Nat) /\ ix \in Digits(shape)
    BY ShapesAreSequences, MultiIndicesAreDigits DEF Copied, TypeOK
  <2> DEFINE rm == RowMajor(shape, ix)
  <2>2. rm \in Cells /\ ColIndex(shape, rm) = ColMajor(shape, ix)
    BY <2>1, RowMajorInCells, ColIndexIs DEF Cells
  <2> HIDE DEF rm
  <2>3. tensor[rm] = ColIndex(shape, rm)
    BY <2>2 DEF Copied, rm
  <2> QED
    BY <2>2, <2>3 DEF rm
<1> QED
  BY <1>1, CopiedInductive, PTL

\* An array of any shape comes back from a model that returns its input as it
\* was given to it.
THEOREM CopiesBack == Spec => []RoundTrip
<1>1. Copied => RoundTrip
  BY DEF Copied, RoundTrip, Element
<1> QED
  BY <1>1, CopiedInductive, PTL

==============================================================================
