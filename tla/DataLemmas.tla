------------------------------ MODULE DataLemmas ------------------------------
(***************************************************************************)
(* Facts about numbers and recursive functions that the proofs cite.       *)
(*                                                                         *)
(* The induction theorems of the library take a predicate as a parameter;  *)
(* here a predicate is the set of the numbers that have it, and induction  *)
(* says which numbers a set contains.                                      *)
(***************************************************************************)
EXTENDS Integers, FiniteSetTheorems, WellFoundedInduction, TLAPS

----------------------------------------------------------------------------
(* Induction.                                                              *)

LEMMA LeastNumber ==
    ASSUME NEW M \in SUBSET Nat, M # {}
    PROVE  \E m \in M : \A k \in M : m <= k
<1> DEFINE R == OpToRel(<, Nat)
<1>1. \A x, y \in Nat : <<y, x>> \in R <=> y < x
  BY DEF OpToRel
<1>2. IsWellFoundedOn(R, Nat)
  BY NatLessThanWellFounded
<1> HIDE DEF R
<1>3. PICK m \in M : \A k \in M : <<k, m>> \notin R
  BY <1>2, WFMin
<1>4. ASSUME NEW k \in M PROVE m <= k
  <2>1. ~ (k < m)
    BY <1>1, <1>3
  <2> QED
    BY <2>1
<1> QED
  BY <1>4

\* From below: a set that contains 0, and with each number the next one.
LEMMA UpTo ==
    ASSUME NEW top \in Nat, NEW M, 0 \in M,
           \A k \in 0..top - 1 : k \in M => k + 1 \in M
    PROVE  \A k \in 0..top : k \in M
<1> SUFFICES ASSUME ~ \A k \in 0..top : k \in M PROVE FALSE
  OBVIOUS
<1> DEFINE Missing == {k \in 0..top : k \notin M}
<1>1. Missing \in SUBSET Nat /\ Missing # {}
  OBVIOUS
<1>2. PICK m \in Missing : \A k \in Missing : m <= k
  <2> HIDE DEF Missing
  <2> QED
    BY <1>1, LeastNumber
<1>3. m # 0 /\ m - 1 \in 0..top - 1 /\ m - 1 \notin Missing
  BY <1>2
<1>4. m - 1 \in M
  BY <1>3
<1>5. (m - 1) + 1 = m
  BY <1>2
<1> QED
  BY <1>2, <1>3, <1>4, <1>5

\* From above.
LEMMA DownTo ==
    ASSUME NEW top \in Nat, NEW M, top \in M,
           \A k \in 1..top : k \in M => k - 1 \in M
    PROVE  \A k \in 0..top : k \in M
<1> DEFINE Mirror == {k \in 0..top : top - k \in M}
<1>1. 0 \in Mirror
  OBVIOUS
<1>2. \A k \in 0..top - 1 : k \in Mirror => k + 1 \in Mirror
  <2> SUFFICES ASSUME NEW k \in 0..top - 1, k \in Mirror PROVE k + 1 \in Mirror
    OBVIOUS
  <2>1. top - k \in 1..top /\ top - k \in M
    OBVIOUS
  <2>2. (top - k) - 1 \in M
    BY <2>1
  <2>3. (top - k) - 1 = top - (k + 1) /\ k + 1 \in 0..top
    OBVIOUS
  <2> QED
    BY <2>2, <2>3
<1>3. \A k \in 0..top : k \in Mirror
  <2> HIDE DEF Mirror
  <2> QED
    BY <1>1, <1>2, UpTo
<1> SUFFICES ASSUME NEW k \in 0..top PROVE k \in M
  OBVIOUS
<1>4. top - k \in 0..top /\ top - (top - k) = k
  OBVIOUS
<1>5. top - (top - k) \in M
  BY <1>3, <1>4
<1> QED
  BY <1>4, <1>5

\* From all smaller numbers.
LEMMA FromSmaller ==
    ASSUME NEW M,
           \A m \in Nat : (\A k \in 0..m - 1 : k \in M) => m \in M
    PROVE  Nat \subseteq M
<1> SUFFICES ASSUME ~ (Nat \subseteq M) PROVE FALSE
  OBVIOUS
<1> DEFINE Missing == {k \in Nat : k \notin M}
<1>1. Missing \in SUBSET Nat /\ Missing # {}
  OBVIOUS
<1>2. PICK m \in Missing : \A k \in Missing : m <= k
  <2> HIDE DEF Missing
  <2> QED
    BY <1>1, LeastNumber
<1>3. \A k \in 0..m - 1 : k \in M
  BY <1>2
<1> QED
  BY <1>2, <1>3

----------------------------------------------------------------------------
(* Recursive functions.                                                    *)

\* The recursion that steps at k from v to step[k][v]: from 0 upwards, or from
\* top downwards.
IsSteps(step, places, V) == step \in [places -> [V -> V]]

Ascends(f, top, V, first, step) ==
    /\ f \in [0..top -> V]
    /\ f[0] = first
    /\ \A k \in 1..top : f[k] = step[k][f[k - 1]]

Descends(f, top, V, last, step) ==
    /\ f \in [0..top -> V]
    /\ f[top] = last
    /\ \A k \in 0..top - 1 : f[k] = step[k][f[k + 1]]

LEMMA AscentExists ==
    ASSUME NEW top \in Nat, NEW V, NEW first \in V, NEW step,
           IsSteps(step, 1..top, V)
    PROVE  \E f : Ascends(f, top, V, first, step)
<1> USE DEF IsSteps
<1> DEFINE Follows(f, m) ==
               f[0] = first /\ \A k \in 1..m : f[k] = step[k][f[k - 1]]
           M == {m \in 0..top : \E f \in [0..m -> V] : Follows(f, m)}
<1>1. 0 \in M
  <2> DEFINE f == [k \in 0..0 |-> first]
  <2>1. f \in [0..0 -> V]
    OBVIOUS
  <2>2. Follows(f, 0)
    OBVIOUS
  <2> HIDE DEF f, Follows
  <2>3. 0 \in 0..top
    OBVIOUS
  <2> QED
    BY <2>1, <2>2, <2>3
<1>2. ASSUME NEW m \in 0..top - 1, m \in M PROVE m + 1 \in M
  <2>1. PICK f \in [0..m -> V] : Follows(f, m)
    BY <1>2
  <2> DEFINE g == [k \in 0..m + 1 |->
                      IF k = m + 1 THEN step[m + 1][f[m]] ELSE f[k]]
  <2>2. m + 1 \in 1..top /\ m \in 0..m /\ f[m] \in V
    OBVIOUS
  <2>3. step[m + 1][f[m]] \in V
    BY <2>2
  <2>4. g \in [0..m + 1 -> V]
    BY <2>3
  <2>5. g[0] = first
    BY <2>1
  <2>6. ASSUME NEW k \in 1..m + 1 PROVE g[k] = step[k][g[k - 1]]
    <3>1. k - 1 \in 0..m /\ g[k - 1] = f[k - 1]
      OBVIOUS
    <3>2. CASE k = m + 1
      BY <3>1, <3>2
    <3>3. CASE k # m + 1
      <4>1. k \in 1..m /\ g[k] = f[k]
        BY <3>3
      <4> QED
        BY <2>1, <3>1, <4>1
    <3> QED
      BY <3>2, <3>3
  <2> HIDE DEF g
  <2>7. Follows(g, m + 1)
    BY <2>5, <2>6
  <2> HIDE DEF Follows
  <2>8. m + 1 \in 0..top
    OBVIOUS
  <2> QED
    BY <2>4, <2>7, <2>8
<1>3. top \in M
  <2> HIDE DEF M
  <2>1. \A k \in 0..top : k \in M
    BY <1>1, <1>2, UpTo
  <2> QED
    BY <2>1
<1> QED
  BY <1>3 DEF Ascends

LEMMA AscentIn ==
    ASSUME NEW top \in Nat, NEW V, NEW first, NEW step, NEW f,
           Ascends(f, top, V, first, step), NEW k \in 1..top
    PROVE  k - 1 \in 0..top /\ f[k - 1] \in V
<1>1. k - 1 \in 0..top
  OBVIOUS
<1> QED
  BY <1>1 DEF Ascends

LEMMA DescentExists ==
    ASSUME NEW top \in Nat, NEW V, NEW last \in V, NEW step,
           IsSteps(step, 0..top - 1, V)
    PROVE  \E f : Descends(f, top, V, last, step)
<1> DEFINE mirrored == [k \in 1..top |-> step[top - k]]
<1>1. IsSteps(mirrored, 1..top, V)
  <2>1. \A k \in 1..top : top - k \in 0..top - 1
    OBVIOUS
  <2> QED
    BY <2>1 DEF IsSteps
<1>2. \A k \in 1..top : mirrored[k] = step[top - k]
  OBVIOUS
<1> HIDE DEF mirrored
<1>3. PICK g : Ascends(g, top, V, last, mirrored)
  BY <1>1, AscentExists
<1> DEFINE f == [k \in 0..top |-> g[top - k]]
<1>4. f \in [0..top -> V]
  BY <1>3 DEF Ascends
<1>5. f[top] = last
  BY <1>3 DEF Ascends
<1>6. ASSUME NEW k \in 0..top - 1 PROVE f[k] = step[k][f[k + 1]]
  <2>1. /\ top - k \in 1..top /\ top - (top - k) = k
        /\ (top - k) - 1 = top - (k + 1)
        /\ f[k] = g[top - k] /\ f[k + 1] = g[top - (k + 1)]
    OBVIOUS
  <2>2. g[top - k] = mirrored[top - k][g[(top - k) - 1]]
    BY <1>3, <2>1 DEF Ascends
  <2> HIDE DEF f
  <2> QED
    BY <1>2, <2>1, <2>2
<1> HIDE DEF f
<1> QED
  BY <1>4, <1>5, <1>6 DEF Descends

LEMMA DescentIn ==
    ASSUME NEW top \in Nat, NEW V, NEW last, NEW step, NEW f,
           Descends(f, top, V, last, step), NEW k \in 0..top - 1
    PROVE  k + 1 \in 0..top /\ f[k + 1] \in V
<1>1. k + 1 \in 0..top
  OBVIOUS
<1> QED
  BY <1>1 DEF Descends

\* Where f and g agree they agree one step further.
Onwards(f, g, top) ==
    f[0] = g[0] /\ \A k \in 1..top : f[k - 1] = g[k - 1] => f[k] = g[k]

Backwards(f, g, top) ==
    f[top] = g[top] /\ \A k \in 1..top : f[k] = g[k] => f[k - 1] = g[k - 1]

\* Two functions that agree at 0, and wherever they agreed before, agree.
LEMMA SameUpwards ==
    ASSUME NEW top \in Nat, NEW f, NEW g, Onwards(f, g, top)
    PROVE  \A k \in 0..top : f[k] = g[k]
<1> DEFINE M == {k \in 0..top : f[k] = g[k]}
<1>1. 0 \in M
  BY DEF Onwards
<1>2. ASSUME NEW k \in 0..top - 1, k \in M PROVE k + 1 \in M
  <2>1. k + 1 \in 1..top /\ (k + 1) - 1 = k
    OBVIOUS
  <2>2. f[k + 1] = g[k + 1]
    BY <1>2, <2>1 DEF Onwards
  <2> QED
    BY <2>1, <2>2
<1> HIDE DEF M
<1>3. \A k \in 0..top : k \in M
  BY <1>1, <1>2, UpTo
<1> QED
  BY <1>3 DEF M

LEMMA SameDownwards ==
    ASSUME NEW top \in Nat, NEW f, NEW g, Backwards(f, g, top)
    PROVE  \A k \in 0..top : f[k] = g[k]
<1> DEFINE M == {k \in 0..top : f[k] = g[k]}
<1>1. top \in M
  BY DEF Backwards
<1>2. ASSUME NEW k \in 1..top, k \in M PROVE k - 1 \in M
  BY <1>2 DEF Backwards
<1> HIDE DEF M
<1>3. \A k \in 0..top : k \in M
  BY <1>1, <1>2, DownTo
<1> QED
  BY <1>3 DEF M

----------------------------------------------------------------------------
(* Products.                                                               *)

LEMMA ProductIsNat ==
    ASSUME NEW a \in Nat, NEW b \in Nat
    PROVE  a * b \in Nat
OBVIOUS

LEMMA Regroup ==
    ASSUME NEW a \in Nat, NEW b \in Nat, NEW c \in Nat
    PROVE  (a * b) * c = a * (c * b)
OBVIOUS

----------------------------------------------------------------------------
(* Division.                                                               *)

LEMMA Divide ==
    ASSUME NEW x \in Nat, NEW d \in Nat \ {0}
    PROVE  /\ x \div d \in Nat
           /\ x % d \in 0..d - 1
           /\ x = d * (x \div d) + (x % d)
OBVIOUS

LEMMA DivideSum ==
    ASSUME NEW d \in Nat \ {0}, NEW q \in Nat, NEW r \in 0..d - 1
    PROVE  /\ (q * d + r) \div d = q
           /\ (q * d + r) % d = r
OBVIOUS

LEMMA DivideSmall ==
    ASSUME NEW x \in Nat, NEW d \in Nat, x < d
    PROVE  x \div d = 0
<1>1. (0 * d + x) \div d = 0
  BY DivideSum
<1>2. 0 * d + x = x
  OBVIOUS
<1> QED
  BY <1>1, <1>2

\* Division by a product, one factor at a time.
\* To divide by a and then by b is to divide by their product.
Together(x, a, b) == (x \div a) \div b = x \div (a * b)

LEMMA DivideTwice ==
    ASSUME NEW x \in Nat, NEW a \in Nat \ {0}, NEW b \in Nat \ {0}
    PROVE  Together(x, a, b) /\ a * b \in Nat \ {0}
<1> DEFINE q == x \div a
           r == x % a
           Q == q \div b
           R == q % b
<1>1. q \in Nat /\ r \in 0..a - 1 /\ x = a * q + r
  BY Divide
<1>2. Q \in Nat /\ R \in 0..b - 1 /\ q = b * Q + R
  BY <1>1, Divide
<1> HIDE DEF q, r, Q, R
<1>3. a * b \in Nat \ {0}
  <2>1. a * b >= 1
    OBVIOUS
  <2> QED
    BY <2>1
<1>4. x = Q * (a * b) + (a * R + r)
  <2>1. a * (b * Q + R) = Q * (a * b) + a * R
    BY <1>2
  <2> QED
    BY <1>1, <1>2, <2>1
<1>5. a * R + r \in 0..(a * b) - 1
  <2>1. a * R <= a * (b - 1)
    BY <1>2
  <2>2. a * (b - 1) = a * b - a
    OBVIOUS
  <2>3. a * R \in Nat
    BY <1>2
  <2> QED
    BY <1>1, <1>3, <2>1, <2>2, <2>3
<1>6. x \div (a * b) = Q
  BY <1>2, <1>3, <1>4, <1>5, DivideSum
<1> QED
  BY <1>3, <1>6 DEF Q, q, Together

----------------------------------------------------------------------------
(* Powers of two, which are the numbers of subsets.                        *)

LEMMA PowerIsNat == ASSUME NEW n \in Nat PROVE 2 ^ n \in Nat
<1>1. IsFiniteSet(1..n) /\ Cardinality(1..n) = n
  BY FS_Interval
<1>2. IsFiniteSet(SUBSET (1..n)) /\ Cardinality(SUBSET (1..n)) = 2 ^ n
  BY <1>1, FS_SUBSET
<1> QED
  BY <1>2, FS_CardinalityType

LEMMA ZerothPower == 2 ^ 0 = 1
OBVIOUS

\* The subsets of 1..n + 1 are those of 1..n, without n + 1 and with it.
LEMMA NextPower ==
    ASSUME NEW n \in Nat
    PROVE  2 ^ (n + 1) = 2 * 2 ^ n
<1> DEFINE A == SUBSET (1..n)
           B == {T \cup {n + 1} : T \in A}
           f == [T \in A |-> T \cup {n + 1}]
<1>1. IsFiniteSet(A) /\ Cardinality(A) = 2 ^ n
  <2>1. IsFiniteSet(1..n) /\ Cardinality(1..n) = n
    BY FS_Interval
  <2> QED
    BY <2>1, FS_SUBSET
<1>2. ExistsBijection(A, B)
  <2>1. f \in [A -> B]
    OBVIOUS
  <2>2. ASSUME NEW S \in A, NEW T \in A, f[S] = f[T] PROVE S = T
    <3>1. n + 1 \notin S /\ n + 1 \notin T
      OBVIOUS
    <3> QED
      BY <2>2, <3>1
  <2>3. \A U \in B : \E T \in A : f[T] = U
    OBVIOUS
  <2> HIDE DEF f, A, B
  <2>4. f \in Bijection(A, B)
    BY <2>1, <2>2, <2>3 DEF Bijection, Injection, Surjection, IsInjective
  <2> QED
    BY <2>4 DEF ExistsBijection
<1>3. IsFiniteSet(B) /\ Cardinality(B) = 2 ^ n
  <2> HIDE DEF A, B
  <2> QED
    BY <1>1, <1>2, FS_Bijection
<1>4. A \cap B = {}
  <2>1. \A T \in A : n + 1 \notin T
    OBVIOUS
  <2>2. \A T \in B : n + 1 \in T
    OBVIOUS
  <2> QED
    BY <2>1, <2>2
<1>5. SUBSET (1..n + 1) = A \cup B
  <2>1. ASSUME NEW T \in SUBSET (1..n + 1) PROVE T \in A \cup B
    <3>1. CASE n + 1 \in T
      <4> DEFINE R == T \ {n + 1}
      <4>1. R \in A
        OBVIOUS
      <4>2. T = R \cup {n + 1}
        BY <3>1
      <4> QED
        BY <4>1, <4>2
    <3>2. CASE n + 1 \notin T
      BY <3>2
    <3> QED
      BY <3>1, <3>2
  <2>2. ASSUME NEW T \in A PROVE T \in SUBSET (1..n + 1)
    OBVIOUS
  <2>3. ASSUME NEW T \in B PROVE T \in SUBSET (1..n + 1)
    <3>1. PICK R \in SUBSET (1..n) : T = R \cup {n + 1}
      OBVIOUS
    <3>2. 1..n \subseteq 1..n + 1 /\ n + 1 \in 1..n + 1
      OBVIOUS
    <3> QED
      BY <3>1, <3>2
  <2> QED
    BY <2>1, <2>2, <2>3
<1>6. Cardinality(SUBSET (1..n + 1)) = 2 ^ (n + 1)
  <2>1. n + 1 \in Nat
    OBVIOUS
  <2>2. IsFiniteSet(1..n + 1) /\ Cardinality(1..n + 1) = n + 1
    BY FS_Interval
  <2> QED
    BY <2>2, FS_SUBSET
<1>7. Cardinality(A \cup B) = 2 ^ n + 2 ^ n - 0
  <2> HIDE DEF A, B
  <2> QED
    BY <1>1, <1>3, <1>4, FS_Union, FS_EmptySet
<1>8. Cardinality(SUBSET (1..n + 1)) = 2 ^ n + 2 ^ n - 0
  BY <1>5, <1>7, Zenon
<1>9. 2 ^ n \in Nat
  BY PowerIsNat
<1> HIDE DEF A, B
<1> QED
  BY <1>6, <1>8, <1>9

LEMMA PowersArePositive == \A n \in Nat : 2 ^ n \in Nat \ {0}
<1> DEFINE M == {m \in Nat : 2 ^ m # 0}
<1>1. \A m \in Nat : (\A k \in 0..m - 1 : k \in M) => m \in M
  <2> SUFFICES ASSUME NEW m \in Nat, \A k \in 0..m - 1 : k \in M PROVE 2 ^ m # 0
    OBVIOUS
  <2>1. CASE m = 0
    BY <2>1, ZerothPower
  <2>2. CASE m # 0
    <3> DEFINE k == m - 1
    <3>1. k \in Nat /\ k + 1 = m /\ k \in 0..m - 1
      BY <2>2
    <3> HIDE DEF k
    <3>2. 2 ^ k # 0 /\ 2 ^ k \in Nat /\ 2 ^ (k + 1) = 2 * 2 ^ k
      BY <3>1, NextPower, PowerIsNat
    <3> QED
      BY <3>1, <3>2
  <2> QED
    BY <2>1, <2>2
<1>2. Nat \subseteq M
  <2> HIDE DEF M
  <2> QED
    BY <1>1, FromSmaller
<1> QED
  BY <1>2, PowerIsNat

\* A power is a multiple of the lesser ones.
LEMMA PowerOfSum ==
    ASSUME NEW a \in Nat, NEW b \in Nat
    PROVE  2 ^ (a + b) = 2 ^ a * 2 ^ b
<1> DEFINE M == {m \in Nat : 2 ^ (a + m) = 2 ^ a * 2 ^ m}
<1>1. \A m \in Nat : (\A k \in 0..m - 1 : k \in M) => m \in M
  <2> SUFFICES ASSUME NEW m \in Nat, \A k \in 0..m - 1 : k \in M
               PROVE  2 ^ (a + m) = 2 ^ a * 2 ^ m
    OBVIOUS
  <2>1. CASE m = 0
    <3>1. 2 ^ a \in Nat /\ a + m = a /\ 2 ^ m = 1
      BY <2>1, PowerIsNat, ZerothPower
    <3> QED
      BY <3>1
  <2>2. CASE m # 0
    <3> DEFINE k == m - 1
               h == a + k
    <3>1. k \in Nat /\ k + 1 = m /\ k \in 0..m - 1
      BY <2>2
    <3>2. h \in Nat /\ h + 1 = a + m
      BY <3>1
    <3>3. 2 ^ h = 2 ^ a * 2 ^ k
      BY <3>1
    <3> HIDE DEF h, k
    <3>4. 2 ^ (h + 1) = 2 * 2 ^ h /\ 2 ^ (k + 1) = 2 * 2 ^ k
      BY <3>1, <3>2, NextPower
    <3>5. 2 ^ a \in Nat /\ 2 ^ k \in Nat
      BY <3>1, PowerIsNat
    <3>6. 2 ^ (a + m) = 2 * (2 ^ a * 2 ^ k) /\ 2 ^ m = 2 * 2 ^ k
      BY <3>1, <3>2, <3>3, <3>4
    <3> QED
      BY <3>5, <3>6
  <2> QED
    BY <2>1, <2>2
<1>2. Nat \subseteq M
  <2> HIDE DEF M
  <2> QED
    BY <1>1, FromSmaller
<1> QED
  BY <1>2

LEMMA PowersAscend ==
    ASSUME NEW a \in Nat, NEW b \in Nat, a <= b
    PROVE  2 ^ a <= 2 ^ b
<1> DEFINE c == b - a
<1>1. c \in Nat /\ a + c = b
  OBVIOUS
<1> HIDE DEF c
<1>2. 2 ^ b = 2 ^ a * 2 ^ c
  BY <1>1, PowerOfSum
<1>3. 2 ^ a \in Nat /\ 2 ^ c \in Nat \ {0}
  BY <1>1, PowersArePositive
<1> QED
  BY <1>2, <1>3

==============================================================================
