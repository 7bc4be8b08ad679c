---------------------------- MODULE ConvertProofs ----------------------------
(***************************************************************************)
(* What becomes of the elements, for all widths of the types: the          *)
(* conversions keep to their types, and they lose nothing that the type    *)
(* they convert to can hold.                                               *)
(***************************************************************************)
EXTENDS Convert, DataLemmas

----------------------------------------------------------------------------
(* Rounding.                                                               *)

Limit == 2 ^ (LongBits + 1)

\* A whole number of halves that a significand of so many bits can hold.
Holds(m, bits) == \E s \in 0..2 ^ bits, e \in Nat : m = s * 2 ^ e

LEMMA Widths ==
    /\ IntBits \in Nat \ {0} /\ LongBits \in Nat \ {0} /\ ByteBits \in Nat \ {0}
    /\ FloatBits \in Nat \ {0} /\ DoubleBits \in Nat \ {0}
    /\ ByteBits < IntBits /\ FloatBits < IntBits
    /\ IntBits <= DoubleBits /\ DoubleBits < LongBits
    /\ Limit \in Nat \ {0}
<1>1. LongBits + 1 \in Nat
  BY WidthsAssumption
<1> QED
  BY <1>1, WidthsAssumption, PowersArePositive DEF Limit

\* The unit of the last place of m is 2^e.
IsUnit(m, bits, e) ==
    /\ m \div 2 ^ e < 2 ^ bits
    /\ e = 0 \/ m \div 2 ^ (e - 1) >= 2 ^ bits

LEMMA HalfPower ==
    ASSUME NEW e \in Nat \ {0}
    PROVE  /\ e - 1 \in Nat /\ 2 ^ e = 2 * 2 ^ (e - 1)
           /\ 2 ^ e \div 2 = 2 ^ (e - 1) /\ 2 ^ e # 1
<1> DEFINE h == e - 1
<1>1. h \in Nat /\ h + 1 = e
  OBVIOUS
<1> HIDE DEF h
<1>2. 2 ^ (h + 1) = 2 * 2 ^ h /\ 2 ^ h \in Nat \ {0}
  BY <1>1, NextPower, PowersArePositive
<1>3. 2 ^ e = 2 * 2 ^ h
  BY <1>1, <1>2
<1>4. (2 ^ h * 2 + 0) \div 2 = 2 ^ h
  BY <1>2, DivideSum
<1>5. 2 ^ h * 2 + 0 = 2 * 2 ^ h
  BY <1>2
<1>6. 2 ^ e # 1
  BY <1>2, <1>3
<1>7. 2 ^ e \div 2 = 2 ^ h
  BY <1>3, <1>4, <1>5
<1> QED
  BY <1>1, <1>3, <1>6, <1>7 DEF h

LEMMA HasUnit ==
    ASSUME NEW m \in 0..Limit, NEW bits \in Nat \ {0}
    PROVE  \E e \in 0..LongBits + 1 : IsUnit(m, bits, e)
<1> DEFINE top == LongBits + 1
           M == {e \in 0..top : m \div 2 ^ e < 2 ^ bits}
<1>1. top \in Nat /\ m \in Nat
  BY Widths
<1>2. 2 ^ bits >= 2
  <2>1. 2 ^ bits = 2 * 2 ^ (bits - 1) /\ bits - 1 \in Nat
    BY HalfPower
  <2>2. 2 ^ (bits - 1) \in Nat \ {0}
    BY <2>1, PowersArePositive
  <2> QED
    BY <2>1, <2>2
<1>3. m \div 2 ^ top <= 1
  <2> DEFINE q == m \div Limit
  <2>1. /\ q \in Nat /\ m % Limit \in 0..Limit - 1
        /\ m = Limit * q + (m % Limit)
    BY <1>1, Widths, Divide
  <2> HIDE DEF q
  <2>2. ASSUME q >= 2 PROVE FALSE
    <3>1. Limit * q >= Limit * 2
      BY <2>1, <2>2, Widths
    <3>2. Limit * q \in Nat
      BY <2>1, Widths
    <3> QED
      BY <2>1, <3>1, <3>2, Widths
  <2>3. q <= 1
    BY <2>1, <2>2
  <2> QED
    BY <2>3 DEF q, Limit
<1>4. \A e \in 0..top : m \div 2 ^ e \in Nat
  <2>1. \A e \in 0..top : 2 ^ e \in Nat \ {0}
    BY <1>1, PowersArePositive
  <2> QED
    BY <1>1, <2>1, Divide
<1>5. 2 ^ bits \in Nat
  BY PowerIsNat
<1>6. top \in M
  BY <1>1, <1>2, <1>3, <1>4, <1>5
<1>7. M \in SUBSET Nat /\ M # {}
  BY <1>1, <1>6
<1>8. PICK e \in M : \A k \in M : e <= k
  <2> HIDE DEF M
  <2> QED
    BY <1>7, LeastNumber
<1>9. ASSUME e # 0 PROVE m \div 2 ^ (e - 1) >= 2 ^ bits
  <2>1. e - 1 \in 0..top /\ ~(e <= e - 1)
    BY <1>1, <1>9
  <2>2. ~(m \div 2 ^ (e - 1) < 2 ^ bits)
    BY <1>8, <2>1
  <2> QED
    BY <1>4, <1>5, <2>1, <2>2
<1> QED
  BY <1>9 DEF IsUnit

\* m in units, the nearest whole number of them.
Nearest(m, unit) ==
    LET down == m \div unit
        rest == m % unit
        near == IF 2 * rest > unit \/ (2 * rest = unit /\ down % 2 = 1)
                THEN down + 1 ELSE down
    IN  near * unit

\* What the definition of Rounded says.
LEMMA RoundedIs ==
    ASSUME NEW n \in -Limit..Limit, NEW bits \in Nat \ {0}
    PROVE  \E e \in 0..LongBits + 1 :
               /\ IsUnit(Magnitude(n), bits, e)
               /\ Rounded(n, bits) = IF n < 0 THEN -Nearest(Magnitude(n), 2 ^ e)
                                     ELSE Nearest(Magnitude(n), 2 ^ e)
<1> DEFINE m == Magnitude(n)
           U == {2 ^ e : e \in 0..LongBits + 1}
           Is(u) == /\ m \div u < 2 ^ bits
                    /\ u = 1 \/ m \div (u \div 2) >= 2 ^ bits
           unit == CHOOSE u \in U : Is(u)
<1>1. m \in 0..Limit
  BY Widths DEF Magnitude
<1>2. LongBits + 1 \in Nat
  BY Widths
<1>3. Rounded(n, bits) = IF n < 0 THEN -Nearest(m, unit) ELSE Nearest(m, unit)
  BY DEF Rounded, Nearest
<1> HIDE DEF m
<1>4. ASSUME NEW e \in 0..LongBits + 1 PROVE Is(2 ^ e) <=> IsUnit(m, bits, e)
  <2>1. CASE e = 0
    BY <2>1, ZerothPower DEF IsUnit
  <2>2. CASE e # 0
    <3>1. e \in Nat \ {0}
      BY <1>2, <2>2
    <3>2. 2 ^ e \div 2 = 2 ^ (e - 1) /\ 2 ^ e # 1
      BY <3>1, HalfPower
    <3> QED
      BY <2>2, <3>2 DEF IsUnit
  <2> QED
    BY <2>1, <2>2
<1>5. \E u \in U : Is(u)
  <2>1. PICK e \in 0..LongBits + 1 : IsUnit(m, bits, e)
    BY <1>1, HasUnit
  <2> QED
    BY <1>4, <2>1
<1>6. unit \in U /\ Is(unit)
  <2> HIDE DEF U, Is
  <2> QED
    BY <1>5
<1> HIDE DEF unit
<1>7. PICK e \in 0..LongBits + 1 : unit = 2 ^ e
  BY <1>6
<1>8. IsUnit(m, bits, e)
  BY <1>4, <1>6, <1>7
<1> QED
  BY <1>3, <1>7, <1>8 DEF m

\* A rounded number has a significand that is short enough, and rounding does
\* not lead beyond the limit, which is a power of two.
LEMMA NearestHolds ==
    ASSUME NEW m \in 0..Limit, NEW bits \in Nat \ {0},
           NEW e \in 0..LongBits + 1, IsUnit(m, bits, e)
    PROVE  /\ Nearest(m, 2 ^ e) \in 0..Limit
           /\ Holds(Nearest(m, 2 ^ e), bits)
<1> DEFINE u == 2 ^ e
           q == m \div u
           r == m % u
           near == IF 2 * r > u \/ (2 * r = u /\ q % 2 = 1) THEN q + 1 ELSE q
           c == 2 ^ (LongBits + 1 - e)
<1>1. /\ e \in Nat /\ LongBits + 1 - e \in Nat /\ m \in Nat
      /\ (LongBits + 1 - e) + e = LongBits + 1
  BY Widths
<1>2. u \in Nat \ {0} /\ c \in Nat \ {0} /\ 2 ^ bits \in Nat
  BY <1>1, PowersArePositive
<1>3. Limit = c * u
  BY <1>1, PowerOfSum DEF Limit
<1>4. q \in Nat /\ r \in 0..u - 1 /\ m = u * q + r
  BY <1>1, <1>2, Divide
<1>5. q < 2 ^ bits
  BY DEF IsUnit
<1>6. Nearest(m, u) = near * u
  BY DEF Nearest
<1> HIDE DEF u, q, r, c
<1>7. near = q \/ (near = q + 1 /\ r > 0)
  BY <1>2, <1>4
<1>8. near \in Nat /\ near <= q + 1
  BY <1>4, <1>7
<1> HIDE DEF near
<1>9. near <= c
  <2>1. u * q + r <= c * u
    BY <1>3, <1>4
  <2>2. ASSUME near > c PROVE FALSE
    <3>1. q >= c /\ (q = c => r > 0)
      BY <1>2, <1>4, <1>7, <2>2
    <3>2. u * q >= u * c /\ u * c = c * u /\ u * q \in Nat /\ u * c \in Nat
      BY <1>2, <1>4, <3>1
    <3>3. CASE q = c
      BY <1>4, <2>1, <3>1, <3>2, <3>3
    <3>4. CASE q > c
      <4>1. u * q >= u * (c + 1) /\ u * (c + 1) = u * c + u
        BY <1>2, <1>4, <3>4
      <4> QED
        BY <1>2, <1>4, <2>1, <3>2, <4>1
    <3> QED
      BY <1>2, <1>4, <3>1, <3>3, <3>4
  <2> QED
    BY <1>2, <1>8, <2>2
<1>10. near * u \in 0..Limit
  <2>1. near * u <= c * u /\ near * u \in Nat /\ c * u \in Nat
    BY <1>2, <1>8, <1>9
  <2> QED
    BY <1>3, <2>1
<1>11. near \in 0..2 ^ bits
  BY <1>2, <1>4, <1>5, <1>8
<1> QED
  BY <1>1, <1>6, <1>10, <1>11 DEF Holds, u

LEMMA NearestDivides ==
    ASSUME NEW k \in Nat, NEW unit \in Nat \ {0}
    PROVE  Nearest(k * unit, unit) = k * unit
<1>1. (k * unit + 0) \div unit = k /\ (k * unit + 0) % unit = 0
  BY DivideSum
<1>2. k * unit + 0 = k * unit
  OBVIOUS
<1> DEFINE m == k * unit
<1>3. m \div unit = k /\ m % unit = 0
  BY <1>1, <1>2
<1> HIDE DEF m
<1>4. Nearest(m, unit) = k * unit
  BY <1>3 DEF Nearest
<1> QED
  BY <1>4 DEF m

\* A number with a short significand is its own rounding.
LEMMA NearestExact ==
    ASSUME NEW m \in 0..Limit, NEW bits \in Nat \ {0}, Holds(m, bits),
           NEW e \in 0..LongBits + 1, IsUnit(m, bits, e)
    PROVE  Nearest(m, 2 ^ e) = m
<1>1. PICK s \in 0..2 ^ bits, g \in Nat : m = s * 2 ^ g
  BY DEF Holds
<1>2. e \in Nat /\ m \in Nat /\ s \in Nat
  BY Widths, PowerIsNat
<1>3. CASE e <= g
  <2> DEFINE h == g - e
  <2>1. h \in Nat /\ h + e = g
    BY <1>2, <1>3
  <2> HIDE DEF h
  <2>2. 2 ^ g = 2 ^ h * 2 ^ e
    BY <1>2, <2>1, PowerOfSum
  <2>3. 2 ^ h \in Nat /\ 2 ^ e \in Nat \ {0}
    BY <1>2, <2>1, PowersArePositive
  <2> DEFINE k == s * 2 ^ h
  <2>4. k \in Nat /\ m = k * 2 ^ e
    BY <1>1, <1>2, <2>2, <2>3
  <2> HIDE DEF k
  <2> QED
    BY <2>3, <2>4, NearestDivides
<1>4. CASE e > g
  <2> DEFINE f == e - 1
             b == bits - 1
             q == m \div 2 ^ f
  <2>1. f \in Nat /\ e # 0 /\ g <= f /\ b \in Nat
    BY <1>1, <1>2, <1>4
  <2>2. 2 ^ e = 2 * 2 ^ f /\ 2 ^ bits = 2 * 2 ^ b
    BY <1>2, <2>1, HalfPower
  <2>3. 2 ^ f \in Nat \ {0} /\ 2 ^ b \in Nat /\ 2 ^ g \in Nat /\ 2 ^ bits \in Nat
        /\ 2 ^ g <= 2 ^ f /\ 2 ^ e \in Nat \ {0}
    BY <1>1, <1>2, <2>1, PowersArePositive, PowersAscend
  <2>4. q \in Nat /\ m % 2 ^ f \in 0..2 ^ f - 1 /\ m = 2 ^ f * q + (m % 2 ^ f)
    BY <1>2, <2>3, Divide
  <2>5. q >= 2 ^ bits
    BY <2>1 DEF IsUnit
  <2> HIDE DEF f, b, q
  <2>6. m >= 2 ^ f * 2 ^ bits
    <3>1. 2 ^ f * q >= 2 ^ f * 2 ^ bits /\ 2 ^ f * q \in Nat
      BY <2>3, <2>4, <2>5
    <3> QED
      BY <2>3, <2>4, <3>1
  <2>7. m <= 2 ^ f * 2 ^ bits
    <3>1. s * 2 ^ g <= 2 ^ bits * 2 ^ g
      BY <1>1, <1>2, <2>3
    <3>2. 2 ^ bits * 2 ^ g <= 2 ^ bits * 2 ^ f
      BY <2>3
    <3> QED
      BY <1>1, <1>2, <2>3, <3>1, <3>2
  <2>8. m = 2 ^ b * 2 ^ e
    BY <1>2, <2>2, <2>3, <2>6, <2>7
  <2> QED
    BY <2>3, <2>8, NearestDivides
<1> QED
  BY <1>1, <1>2, <1>3, <1>4

LEMMA RoundedHolds ==
    ASSUME NEW n \in -Limit..Limit, NEW bits \in Nat \ {0}
    PROVE  /\ Rounded(n, bits) \in -Limit..Limit
           /\ Holds(Magnitude(Rounded(n, bits)), bits)
<1> DEFINE m == Magnitude(n)
<1>1. m \in 0..Limit
  BY Widths DEF Magnitude
<1>2. PICK e \in 0..LongBits + 1 :
          /\ IsUnit(m, bits, e)
          /\ Rounded(n, bits) = IF n < 0 THEN -Nearest(m, 2 ^ e)
                                ELSE Nearest(m, 2 ^ e)
  BY RoundedIs
<1> HIDE DEF m
<1> DEFINE r == Nearest(m, 2 ^ e)
<1>3. r \in 0..Limit /\ Holds(r, bits)
  BY <1>1, <1>2, NearestHolds
<1> HIDE DEF r
<1>4. Rounded(n, bits) \in {r, -r}
  BY <1>2 DEF r
<1>5. Magnitude(Rounded(n, bits)) = r
  BY <1>3, <1>4, Widths DEF Magnitude
<1> QED
  BY <1>3, <1>4, <1>5, Widths

LEMMA RoundedExact ==
    ASSUME NEW n \in -Limit..Limit, NEW bits \in Nat \ {0},
           Holds(Magnitude(n), bits)
    PROVE  Rounded(n, bits) = n
<1> DEFINE m == Magnitude(n)
<1>1. m \in 0..Limit /\ n = IF n < 0 THEN -m ELSE m
  BY Widths DEF Magnitude
<1>2. PICK e \in 0..LongBits + 1 :
          /\ IsUnit(m, bits, e)
          /\ Rounded(n, bits) = IF n < 0 THEN -Nearest(m, 2 ^ e)
                                ELSE Nearest(m, 2 ^ e)
  BY RoundedIs
<1>3. Nearest(m, 2 ^ e) = m
  <2> HIDE DEF m
  <2> QED
    BY <1>1, <1>2, NearestExact DEF m
<1> QED
  BY <1>1, <1>2, <1>3

\* The floating-point numbers are NaN and what their significands can hold.
LEMMA RealsAre ==
    ASSUME NEW bits \in Nat \ {0}, NEW v
    PROVE  v \in Reals(bits) <=>
               \/ v = NaN
               \/ \E n \in -Limit..Limit :
                      v = Halves(n) /\ Holds(Magnitude(n), bits)
<1>1. Reals(bits) = {NaN} \cup {Halves(Rounded(n, bits)) : n \in -Limit..Limit}
  BY DEF Reals, Limit
<1>2. ASSUME NEW n \in -Limit..Limit
      PROVE  \E k \in -Limit..Limit :
                 Rounded(n, bits) = k /\ Holds(Magnitude(k), bits)
  BY RoundedHolds
<1>3. ASSUME NEW n \in -Limit..Limit, Holds(Magnitude(n), bits)
      PROVE  Halves(n) \in {Halves(Rounded(k, bits)) : k \in -Limit..Limit}
  BY <1>3, RoundedExact
<1> QED
  BY <1>1, <1>2, <1>3

----------------------------------------------------------------------------
(* The conversions.                                                        *)

LEMMA HoldsMore ==
    ASSUME NEW a \in Nat, NEW b \in Nat, a <= b, NEW m, Holds(m, a)
    PROVE  Holds(m, b)
<1>1. 2 ^ a <= 2 ^ b /\ 2 ^ a \in Nat /\ 2 ^ b \in Nat
  BY PowersAscend, PowerIsNat
<1>2. PICK s \in 0..2 ^ a, e \in Nat : m = s * 2 ^ e
  BY DEF Holds
<1>3. s \in 0..2 ^ b
  BY <1>1
<1> QED
  BY <1>2, <1>3 DEF Holds

LEMMA HoldsSmall ==
    ASSUME NEW bits \in Nat, NEW m \in 0..2 ^ bits
    PROVE  Holds(m, bits) /\ Holds(2 * m, bits)
<1>1. 2 ^ bits \in Nat /\ 2 ^ 1 = 2
  BY PowerIsNat
<1>2. m = m * 2 ^ 0 /\ 2 * m = m * 2 ^ 1
  BY <1>1, ZerothPower
<1> QED
  BY <1>2 DEF Holds

LEMMA WholeIs ==
    ASSUME NEW k \in Int
    PROVE  /\ Whole(k) = Halves(2 * k) /\ ~Whole(k).nan
           /\ Whole(k).halves = 2 * k /\ Trunc(Whole(k)) = k
<1>1. Whole(k) = Halves(2 * k) /\ Whole(k).halves = 2 * k /\ ~Whole(k).nan
  BY DEF Whole, Halves
<1>2. \A m \in Nat : (2 * m) \div 2 = m
  OBVIOUS
<1>3. CASE k < 0
  <2>1. -k \in Nat /\ -(2 * k) = 2 * (-k) /\ 2 * k < 0
    BY <1>3
  <2> QED
    BY <1>1, <1>2, <2>1 DEF Trunc
<1>4. CASE k >= 0
  BY <1>1, <1>2, <1>4 DEF Trunc
<1> QED
  BY <1>1, <1>3, <1>4

\* The integers of some width, and their numbers of halves.
LEMMA SignedIs ==
    ASSUME NEW bits \in Nat \ {0}, NEW k \in Signed(bits)
    PROVE  k \in Int /\ Magnitude(2 * k) \in 0..2 ^ bits
<1>1. 2 ^ bits = 2 * 2 ^ (bits - 1) /\ bits - 1 \in Nat
  BY HalfPower
<1>2. 2 ^ (bits - 1) \in Nat
  BY <1>1, PowerIsNat
<1> QED
  BY <1>1, <1>2 DEF Signed, Magnitude

LEMMA SignedInLimit ==
    ASSUME NEW bits \in Nat \ {0}, bits <= LongBits, NEW k \in Signed(bits)
    PROVE  2 * k \in -Limit..Limit
<1>1. k \in Int /\ Magnitude(2 * k) \in 0..2 ^ bits
  BY SignedIs
<1>2. 2 ^ bits \in Nat /\ 2 ^ bits <= Limit
  BY Widths, PowersAscend, PowerIsNat DEF Limit
<1> QED
  BY <1>1, <1>2, Widths DEF Magnitude

LEMMA LowestIs ==
    /\ -(2 ^ (IntBits - 1)) \in Signed(IntBits)
    /\ 0 \in Signed(IntBits) /\ 1 \in Signed(IntBits)
<1>1. 2 ^ (IntBits - 1) \in Nat \ {0} /\ IntBits - 1 \in Nat \ {0}
  BY Widths, PowersArePositive
<1>2. 2 ^ (IntBits - 1) # 1
  BY <1>1, HalfPower
<1> QED
  BY <1>1, <1>2 DEF Signed

\* No number is NA, so that what is stored and what is shown differ from it at
\* -2^31 only.
LEMMA NumbersAreNotNA ==
    /\ NaN # IntNA /\ NaN.nan /\ IntNA.nan
    /\ \A n : Halves(n) # IntNA /\ Halves(n) # NaN /\ ~Halves(n).nan
    /\ \A k : Whole(k) # IntNA /\ Whole(k) # NaN /\ ~Whole(k).nan
    /\ Lowest # IntNA
<1>1. NaN # IntNA /\ NaN.nan /\ IntNA.nan
  BY DEF NaN, IntNA
<1>2. \A n : Halves(n) # IntNA /\ Halves(n) # NaN /\ ~Halves(n).nan
  <2>1. ASSUME NEW n PROVE ~Halves(n).nan
    BY DEF Halves
  <2> QED
    BY <1>1, <2>1
<1>3. \A k : Whole(k) # IntNA /\ Whole(k) # NaN /\ ~Whole(k).nan
  BY <1>2 DEF Whole
<1> QED
  BY <1>1, <1>2, <1>3 DEF Lowest

\* What an R vector of doubles holds is a NaN or a number, and is stored as it
\* is; what another one holds is stored as a whole number.
LEMMA RValueIs ==
    ASSUME NEW r \in RTypes, NEW v \in RValues(r)
    PROVE  /\ r = "double" =>
                  /\ Stored(v) = v
                  /\ v = NaN \/ \E n \in -Limit..Limit :
                                    v = Halves(n) /\ Holds(Magnitude(n), DoubleBits)
           /\ r # "double" =>
                  /\ v = IntNA \/ Stored(v) = v
                  /\ \E k \in Signed(IntBits) : Stored(v) = Whole(k)
<1>1. CASE r = "double"
  <2>1. v \in Reals(DoubleBits)
    BY <1>1 DEF RValues, Doubles
  <2>2. v = NaN \/ \E n \in -Limit..Limit :
                       v = Halves(n) /\ Holds(Magnitude(n), DoubleBits)
    BY <2>1, RealsAre, Widths
  <2>3. v # IntNA
    BY <2>2, NumbersAreNotNA
  <2> QED
    BY <1>1, <2>2, <2>3 DEF Stored
<1>2. CASE r # "double"
  <2>1. v = IntNA \/ \E k \in Signed(IntBits) : v = Whole(k)
    <3>1. CASE r = "integer"
      <4>1. PICK k \in Signed(IntBits) : v = Shown(Whole(k))
        BY <3>1 DEF RValues
      <4> QED
        BY <4>1 DEF Shown
    <3>2. CASE r = "logical"
      BY <3>2, LowestIs DEF RValues
    <3> QED
      BY <1>2, <3>1, <3>2 DEF RTypes
  <2>2. CASE v = IntNA
    BY <1>2, <2>2, LowestIs DEF Stored, Lowest
  <2>3. CASE v # IntNA
    BY <1>2, <2>1, <2>3 DEF Stored
  <2> QED
    BY <2>2, <2>3
<1> QED
  BY <1>1, <1>2

\* What is stored is a NaN or a number of halves in the limit.
LEMMA StoredIs ==
    ASSUME NEW r \in RTypes, NEW v \in RValues(r)
    PROVE  Stored(v) = NaN \/ \E n \in -Limit..Limit : Stored(v) = Halves(n)
<1>1. CASE r = "double"
  BY <1>1, RValueIs
<1>2. CASE r # "double"
  <2>1. PICK k \in Signed(IntBits) : Stored(v) = Whole(k)
    BY <1>2, RValueIs
  <2>2. 2 * k \in -Limit..Limit
    BY Widths, SignedInLimit
  <2> QED
    BY <2>1, <2>2 DEF Whole
<1> QED
  BY <1>1, <1>2

LEMMA FloatingIs ==
    ASSUME NEW bits \in Nat \ {0}, NEW v,
           v = NaN \/ \E n \in -Limit..Limit : v = Halves(n)
    PROVE  ToFloating(v, bits) \in Reals(bits)
<1>1. CASE v = NaN
  BY <1>1, RealsAre DEF ToFloating, NaN
<1>2. CASE \E n \in -Limit..Limit : v = Halves(n)
  <2>1. PICK n \in -Limit..Limit : v = Halves(n)
    BY <1>2
  <2>2. ToFloating(v, bits) = Halves(Rounded(n, bits))
    BY <2>1 DEF ToFloating, Halves
  <2> QED
    BY <2>2 DEF Reals, Limit
<1> QED
  BY <1>1, <1>2

LEMMA FloatingExact ==
    ASSUME NEW bits \in Nat \ {0}, NEW n \in -Limit..Limit,
           Holds(Magnitude(n), bits)
    PROVE  ToFloating(Halves(n), bits) = Halves(n)
BY RoundedExact DEF ToFloating, Halves

LEMMA FloatingStays ==
    ASSUME NEW bits \in Nat \ {0}, NEW v \in Reals(bits)
    PROVE  ToFloating(v, bits) = v
<1>1. CASE v = NaN
  BY <1>1 DEF ToFloating, NaN
<1>2. CASE v # NaN
  <2>1. PICK n \in -Limit..Limit : v = Halves(n) /\ Holds(Magnitude(n), bits)
    BY <1>2, RealsAre
  <2> QED
    BY <2>1, FloatingExact
<1> QED
  BY <1>1, <1>2

LEMMA IntegersAre ==
    ASSUME NEW bits \in Nat \ {0}, NEW v
    PROVE  /\ ToInteger(v, bits) \subseteq {Whole(k) : k \in Signed(bits)}
           /\ \A k \in Signed(bits) :
                  v = Whole(k) => ToInteger(v, bits) = {Whole(k)}
<1>1. ToInteger(v, bits) \subseteq {Whole(k) : k \in Signed(bits)}
  BY DEF ToInteger, FitsAfterTrunc
<1>2. ASSUME NEW k \in Signed(bits), v = Whole(k)
      PROVE  ToInteger(v, bits) = {Whole(k)}
  <2>1. ~v.nan /\ Trunc(v) = k
    BY <1>2, SignedIs, WholeIs
  <2> QED
    BY <2>1 DEF ToInteger, FitsAfterTrunc
<1> QED
  BY <1>1, <1>2

\* What the tensor gets is of its type.
LEMMA TensorIs ==
    ASSUME NEW r \in RTypes, NEW t \in ElementTypes, Convertible(r, t),
           NEW v \in RValues(r), NEW e \in ToTensor(t, Stored(v))
    PROVE  e \in Elements(t)
<1> DEFINE s == Stored(v)
<1>1. s = NaN \/ \E n \in -Limit..Limit : s = Halves(n)
  BY StoredIs
<1>2. CASE t = "float"
  BY <1>1, <1>2, Widths, FloatingIs DEF ToTensor, Elements, Floats
<1>3. CASE t = "double"
  BY <1>1, <1>3, Widths, FloatingIs DEF ToTensor, Elements, Doubles
<1>4. CASE t = "int32"
  BY <1>4, Widths, IntegersAre DEF ToTensor, Elements
<1>5. CASE t = "int64"
  BY <1>5, Widths, IntegersAre DEF ToTensor, Elements
<1>6. CASE t = "bool"
  <2>1. r # "double"
    BY <1>6 DEF Convertible
  <2>2. PICK k \in Signed(IntBits) : s = Whole(k)
    BY <2>1, RValueIs
  <2>3. k \in Int /\ Trunc(s) = k
    BY <2>2, Widths, SignedIs, WholeIs
  <2> DEFINE size == 2 ^ ByteBits
  <2>4. size \in Nat \ {0}
    BY Widths, PowersArePositive
  <2>5. e = Whole(k % size)
    BY <1>6, <2>3 DEF ToTensor
  <2>6. Elements(t) = {Whole(m) : m \in 0..size - 1}
    BY <1>6 DEF Elements
  <2> HIDE DEF size
  <2>7. k % size \in 0..size - 1
    BY <2>3, <2>4
  <2> QED
    BY <2>5, <2>6, <2>7
<1> QED
  BY <1>2, <1>3, <1>4, <1>5, <1>6 DEF ElementTypes

\* What the result gets of an element is of its type.
LEMMA ResultIs ==
    ASSUME NEW t \in ElementTypes, NEW e \in Elements(t)
    PROVE  FromTensor(t, e) \in ResultValues(t)
<1>1. CASE t = "float"
  <2>1. e \in Reals(FloatBits)
    BY <1>1 DEF Elements, Floats
  <2>2. e \in Reals(DoubleBits)
    <3>1. CASE e = NaN
      BY <3>1, Widths, RealsAre
    <3>2. CASE e # NaN
      <4>1. PICK n \in -Limit..Limit :
                e = Halves(n) /\ Holds(Magnitude(n), FloatBits)
        BY <2>1, <3>2, Widths, RealsAre
      <4>2. Holds(Magnitude(n), DoubleBits)
        <5>1. FloatBits <= DoubleBits /\ FloatBits \in Nat /\ DoubleBits \in Nat
          BY Widths
        <5> QED
          BY <4>1, <5>1, HoldsMore
      <4> QED
        BY <4>1, <4>2, Widths, RealsAre
    <3> QED
      BY <3>1, <3>2
  <2> QED
    BY <1>1, <2>2 DEF FromTensor, ResultValues, Doubles
<1>2. CASE t = "double"
  BY <1>2 DEF FromTensor, ResultValues, Elements
<1>3. CASE t = "int32"
  BY <1>3 DEF FromTensor, ResultValues, RValues, Elements
<1>5. CASE t = "bool"
  BY <1>5 DEF FromTensor, ResultValues
<1>4. CASE t = "int64"
  <2>1. PICK k \in Signed(LongBits) : e = Whole(k)
    BY <1>4 DEF Elements
  <2>2. k \in Int /\ 2 * k \in -Limit..Limit
    BY Widths, SignedInLimit, SignedIs
  <2>3. e = Halves(2 * k)
    BY <2>1, <2>2, WholeIs
  <2>4. ToFloating(e, DoubleBits) \in Doubles
    BY <2>2, <2>3, Widths, FloatingIs DEF Doubles
  <2> QED
    BY <1>4, <2>4 DEF FromTensor, ResultValues
<1> QED
  BY <1>1, <1>2, <1>3, <1>4, <1>5 DEF ElementTypes

\* A value that the element type can hold is not changed on its way in, nor on
\* its way out, where only R's reading of -2^31 changes it.
LEMMA ThereAndBack ==
    ASSUME NEW r \in RTypes, NEW t \in ElementTypes, Convertible(r, t),
           NEW v \in RValues(r), v \in Elements(t), NEW e \in ToTensor(t, v)
    PROVE  FromTensor(t, e) = v \/ (t = "int32" /\ v = Lowest)
<1>1. CASE t = "float"
  <2>1. e = ToFloating(v, FloatBits)
    BY <1>1 DEF ToTensor
  <2>2. v \in Reals(FloatBits)
    BY <1>1 DEF Elements, Floats
  <2>3. e = v
    BY <2>1, <2>2, Widths, FloatingStays
  <2> QED
    BY <1>1, <2>3 DEF FromTensor
<1>2. CASE t = "double"
  <2>1. e = ToFloating(v, DoubleBits)
    BY <1>2 DEF ToTensor
  <2>2. v \in Reals(DoubleBits)
    BY <1>2 DEF Elements, Doubles
  <2>3. e = v
    BY <2>1, <2>2, Widths, FloatingStays
  <2> QED
    BY <1>2, <2>3 DEF FromTensor
<1>3. CASE t = "int32"
  <2>1. e \in ToInteger(v, IntBits)
    BY <1>3 DEF ToTensor
  <2>2. \E k \in Signed(IntBits) : v = Whole(k)
    BY <1>3 DEF Elements
  <2>3. e = v
    BY <2>1, <2>2, Widths, IntegersAre
  <2> QED
    BY <1>3, <2>3 DEF FromTensor, Shown
<1>4. CASE t = "int64"
  <2>1. e \in ToInteger(v, LongBits)
    BY <1>4 DEF ToTensor
  <2>2. PICK k \in Signed(LongBits) : v = Whole(k)
    BY <1>4 DEF Elements
  <2>3. e = v
    BY <2>1, <2>2, Widths, IntegersAre
  <2>4. k \in Int /\ 2 * k \in -Limit..Limit /\ v = Halves(2 * k)
    BY <2>2, Widths, SignedInLimit, SignedIs, WholeIs
  <2>5. ToFloating(v, DoubleBits) = v
    <3>1. CASE r = "double"
      <4>1. v \in Reals(DoubleBits)
        BY <3>1 DEF RValues, Doubles
      <4> QED
        BY <4>1, Widths, FloatingStays
    <3>2. CASE r # "double"
      <4>1. PICK l \in Signed(IntBits) : v = Whole(l)
        BY <2>2, <3>2, RValueIs, NumbersAreNotNA
      <4>2. /\ l \in Int /\ 2 * l \in -Limit..Limit /\ v = Halves(2 * l)
            /\ Magnitude(2 * l) \in 0..2 ^ IntBits
        BY <4>1, Widths, SignedInLimit, SignedIs, WholeIs
      <4>3. Holds(Magnitude(2 * l), IntBits)
        BY <4>2, Widths, HoldsSmall
      <4>4. Holds(Magnitude(2 * l), DoubleBits)
        <5>1. IntBits <= DoubleBits /\ IntBits \in Nat /\ DoubleBits \in Nat
          BY Widths
        <5> QED
          BY <4>3, <5>1, HoldsMore
      <4> QED
        BY <4>2, <4>4, Widths, FloatingExact
    <3> QED
      BY <3>1, <3>2
  <2> QED
    BY <1>4, <2>3, <2>5 DEF FromTensor
<1>5. CASE t = "bool"
  <2> DEFINE size == 2 ^ ByteBits
  <2>1. PICK k \in 0..size - 1 : v = Whole(k)
    BY <1>5 DEF Elements
  <2>2. size \in Nat \ {0}
    BY Widths, PowersArePositive
  <2>3. e = Whole(Trunc(v) % size)
    BY <1>5 DEF ToTensor
  <2> HIDE DEF size
  <2>4. k \in Int /\ k % size = k
    BY <2>2
  <2>5. Trunc(v) = k
    BY <2>1, <2>4, WholeIs
  <2>6. e = v
    BY <2>1, <2>3, <2>4, <2>5
  <2> QED
    BY <1>5, <2>6 DEF FromTensor
<1> QED
  BY <1>1, <1>2, <1>3, <1>4, <1>5 DEF ElementTypes

\* What the element type can hold is a number or a NaN, and is stored as it is.
LEMMA ElementsAreStored ==
    ASSUME NEW t \in ElementTypes, NEW e \in Elements(t)
    PROVE  Stored(e) = e
<1>1. CASE t \in {"float", "double"}
  <2>1. \E bits \in Nat \ {0} : e \in Reals(bits)
    BY <1>1, Widths DEF Elements, Floats, Doubles
  <2>2. e = NaN \/ \E n \in -Limit..Limit : e = Halves(n)
    BY <2>1, RealsAre
  <2> QED
    BY <2>2, NumbersAreNotNA DEF Stored
<1>2. CASE t \in {"int32", "int64", "bool"}
  <2>1. \E k : e = Whole(k)
    BY <1>2 DEF Elements
  <2> QED
    BY <2>1, NumbersAreNotNA DEF Stored
<1> QED
  BY <1>1, <1>2 DEF ElementTypes

\* An NA among doubles stays a NaN in a floating-point tensor and after it.
LEMMA NaNComesBack ==
    ASSUME NEW v \in RValues("double"), IsNA(v),
           NEW t \in {"float", "double"}, NEW e \in ToTensor(t, Stored(v))
    PROVE  FromTensor(t, e).nan
<1>1. Stored(v) = v /\ v.nan
  BY RValueIs DEF RTypes, IsNA
<1>2. e = NaN
  BY <1>1 DEF ToTensor, ToFloating
<1>3. FromTensor(t, e) = e
  BY DEF FromTensor
<1> QED
  BY <1>2, <1>3, NumbersAreNotNA

\* Of an int64 up to the doubles' limit nothing is lost, and of an int32 nothing
\* but -2^31, which is NA.
LEMMA ExactOutput ==
    ASSUME NEW t \in ElementTypes, NEW e \in Elements(t),
           t = "int64" => ~(Magnitude(Trunc(e)) > 2 ^ DoubleBits)
    PROVE  \/ FromTensor(t, e) = e
           \/ t = "int32" /\ e = Lowest /\ FromTensor(t, e) = IntNA
<1>1. CASE t = "int32"
  BY <1>1 DEF FromTensor, Shown
<1>3. CASE t \notin {"int32", "int64"}
  BY <1>3 DEF FromTensor
<1>2. CASE t = "int64"
  <2>1. PICK k \in Signed(LongBits) : e = Whole(k)
    BY <1>2 DEF Elements
  <2>2. /\ k \in Int /\ 2 * k \in -Limit..Limit
        /\ e = Halves(2 * k) /\ Trunc(e) = k
    BY <2>1, Widths, SignedInLimit, SignedIs, WholeIs
  <2>3. 2 ^ DoubleBits \in Nat
    BY Widths, PowerIsNat
  <2>4. Magnitude(k) \in 0..2 ^ DoubleBits
    BY <1>2, <2>2, <2>3 DEF Magnitude
  <2>5. Magnitude(2 * k) = 2 * Magnitude(k)
    BY <2>2 DEF Magnitude
  <2>6. Holds(Magnitude(2 * k), DoubleBits)
    BY <2>4, <2>5, Widths, HoldsSmall
  <2> QED
    BY <1>2, <2>2, <2>6, Widths, FloatingExact DEF FromTensor
<1> QED
  BY <1>1, <1>2, <1>3

----------------------------------------------------------------------------
(* The element on its way.                                                 *)

IInv ==
    /\ rtype \in RTypes /\ etype \in Types /\ x \in RValues(rtype)
    /\ same \in BOOLEAN
    /\ pc \in {"call", "input", "output", "returned", "stopped"}
    /\ pc \in {"input", "output", "returned"} =>
           /\ ~HasNA
           /\ etype \in ElementTypes /\ Convertible(rtype, etype)
           /\ elem \in Elements(etype)
           /\ pc = "input" \/ same => elem \in ToTensor(etype, Stored(x))
    /\ pc = "returned" => y = FromTensor(etype, elem)

LEMMA Initially == Init => IInv
BY DEF Init, IInv

LEMMA Inductive == IInv /\ [Next]_vars => IInv'
<1> SUFFICES ASSUME IInv, [Next]_vars PROVE IInv'
  OBVIOUS
<1>1. UNCHANGED <<rtype, etype, x>>
  BY DEF Next, Stop, MakeInputTensor, ModelRuns, ReadOutputTensor, vars
<1>2. HasNA' = HasNA
  BY <1>1 DEF HasNA, IsNA
<1>3. CASE Stop
  BY <1>1, <1>3 DEF Stop, IInv
<1>4. CASE MakeInputTensor
  <2>1. /\ pc' = "input" /\ same' = same /\ ~HasNA /\ Convertible(rtype, etype)
        /\ elem' \in ToTensor(etype, Stored(x))
    BY <1>4 DEF MakeInputTensor
  <2>2. etype \in ElementTypes
    BY <2>1 DEF Convertible, ElementTypes
  <2>3. elem' \in Elements(etype)
    BY <2>1, <2>2, TensorIs DEF IInv
  <2> QED
    BY <1>1, <1>2, <2>1, <2>2, <2>3 DEF IInv
<1>5. CASE ModelRuns
  <2>1. /\ pc = "input" /\ pc' = "output" /\ elem' \in Elements(etype)
        /\ same' = (elem' = elem)
    BY <1>5 DEF ModelRuns
  <2>2. same' \in BOOLEAN /\ (same' => elem' = elem)
    BY <2>1
  <2> QED
    BY <1>1, <1>2, <2>1, <2>2 DEF IInv
<1>6. CASE ReadOutputTensor
  <2>1. /\ pc = "output" /\ pc' = "returned" /\ UNCHANGED <<elem, same>>
        /\ y' = FromTensor(etype, elem)
    BY <1>6 DEF ReadOutputTensor
  <2> QED
    BY <1>1, <1>2, <2>1 DEF IInv
<1>7. CASE UNCHANGED vars
  BY <1>1, <1>2, <1>7 DEF vars, IInv
<1> QED
  BY <1>3, <1>4, <1>5, <1>6, <1>7 DEF Next

LEMMA Invariant == Spec => []IInv
BY Initially, Inductive, PTL DEF Spec

\* The two switches give the tensor and the result what their types can hold:
\* in particular, what an R vector of doubles can hold as the result.
THEOREM TypeCorrect == Spec => []TypeOK
<1>1. IInv => TypeOK
  BY ResultIs DEF IInv, TypeOK
<1> QED
  BY <1>1, Invariant, PTL

\* A model that returns its input gives back, for every pair of types that the
\* switch lets through, the number that went in if the element type can hold it
\* (the double -2^31 through an int32 apart, which is NA in R), and no number
\* for an NA (an NA among doubles through an integer apart).
THEOREM ValuesComeBack == Spec => []ComesBack
<1>1. IInv => ComesBack
  <2> SUFFICES ASSUME IInv, pc = "returned", same
               PROVE  ComesBack
    BY DEF ComesBack
  <2>1. /\ rtype \in RTypes /\ x \in RValues(rtype) /\ ~HasNA
        /\ etype \in ElementTypes /\ Convertible(rtype, etype)
        /\ elem \in ToTensor(etype, Stored(x)) /\ y = FromTensor(etype, elem)
    BY DEF IInv
  <2>2. ASSUME x \in Elements(etype)
        PROVE  y = x \/ (etype = "int32" /\ x = Lowest)
    <3>1. elem \in ToTensor(etype, x)
      BY <2>1, <2>2, ElementsAreStored
    <3> QED
      BY <2>1, <2>2, <3>1, ThereAndBack
  <2>3. ASSUME IsNA(x), ~(rtype = "double" /\ etype \in {"int32", "int64"})
        PROVE  y.nan
    <3>1. rtype = "double"
      BY <2>1, <2>3 DEF HasNA, RTypes
    <3>2. etype \in {"float", "double"}
      BY <2>1, <2>3, <3>1 DEF Convertible
    <3> QED
      BY <2>1, <2>3, <3>1, <3>2, NaNComesBack
  <2> QED
    BY <2>2, <2>3 DEF ComesBack
<1> QED
  BY <1>1, Invariant, PTL

\* The elements of the output become R's numbers without loss, but for an int64
\* beyond 2^53 and for the int32 -2^31, which is NA in R.
THEOREM OutputIsExact == Spec => []OutputExact
<1>1. IInv => OutputExact
  BY ExactOutput DEF IInv, OutputExact
<1> QED
  BY <1>1, Invariant, PTL

==============================================================================
