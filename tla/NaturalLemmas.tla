--------------------------- MODULE NaturalLemmas ---------------------------
(***************************************************************************)
(* Floor division, least elements and inequalities of the naturals.        *)
(***************************************************************************)
EXTENDS Integers, TLAPS, WellFoundedInduction

\* Floor division, as checked_div on u128.
LEMMA DivBounds ==
  ASSUME NEW a \in Nat, NEW b \in Nat, b > 0
  PROVE  /\ a \div b \in Nat
         /\ b * (a \div b) <= a
         /\ a < b * (a \div b) + b
  BY SMT

\* A quotient is below c when the dividend is below c times the divisor.
LEMMA DivBelow ==
  ASSUME NEW a \in Nat, NEW b \in Nat, NEW c \in Nat, b > 0, a < b * c
  PROVE  a \div b < c
  <1>1. b * (a \div b) < b * c
    BY DivBounds
  <1> QED
    BY <1>1, DivBounds, SMT

\* A quotient is at most c when the dividend is at most c times the divisor.
LEMMA DivAtMost ==
  ASSUME NEW a \in Nat, NEW b \in Nat, NEW c \in Nat, b > 0, a <= b * c
  PROVE  a \div b <= c
  <1>1. a < b * (c + 1)
    BY SMT
  <1> QED
    BY <1>1, DivBelow, DivBounds, SMT

\* Every nonempty set of naturals has a least element.
LEMMA LeastExists ==
  ASSUME NEW T \in SUBSET Nat, T # {}
  PROVE  \E s \in T : \A t \in T : s <= t
  <1>1. PICK s \in T : \A t \in T : ~(<<t, s>> \in OpToRel(<, Nat))
    BY NatLessThanWellFounded, WFMin, Zenon
  <1>2. \A t \in T : ~(t < s)
    BY <1>1, Zenon DEF OpToRel
  <1> QED
    BY <1>2

\* The floor of rOut * eff / (base + eff) is the most that can be taken from
\* rOut without lowering the product.
LEMMA CurveProduct ==
  ASSUME NEW base \in Nat, NEW eff \in Nat, NEW rOut \in Nat, base + eff > 0,
         NEW out, out = (rOut * eff) \div (base + eff)
  PROVE  /\ out \in Nat
         /\ (base + eff) * (rOut - out) >= base * rOut
         /\ ~((base + eff) * (rOut - (out + 1)) >= base * rOut)
  <1> DEFINE den == base + eff
             num == rOut * eff
  <1>1. den \in Nat /\ den > 0 /\ num \in Nat
    BY SMT
  <1>2. den * rOut = base * rOut + num
    BY SMT
  <1>3. base * rOut \in Nat
    BY SMT
  <1> HIDE DEF den, num
  <1>4. out \in Nat /\ den * out <= num /\ num < den * out + den
    BY <1>1, DivBounds DEF den, num
  <1>5. den * (rOut - out) = den * rOut - den * out
    BY <1>1, <1>4, SMT
  <1>6. den * (rOut - (out + 1)) = (den * rOut - den * out) - den
    BY <1>1, <1>4, SMT
  <1>7. den * rOut \in Nat /\ den * out \in Nat
    BY <1>1, <1>4, SMT
  <1>8. /\ den * (rOut - out) >= base * rOut
        /\ ~(den * (rOut - (out + 1)) >= base * rOut)
    BY <1>1, <1>2, <1>3, <1>4, <1>5, <1>6, <1>7, SMT
  <1> QED
    BY <1>4, <1>8 DEF den

\* Products of naturals are monotone.
LEMMA Times ==
  ASSUME NEW a \in Nat, NEW b \in Nat, NEW c \in Nat, NEW d \in Nat, a <= c, b <= d
  PROVE  a * b \in Nat /\ c * d \in Nat /\ a * b <= c * d
  <1>1. a * b <= c * b
    BY SMT
  <1>2. c * b <= c * d
    BY SMT
  <1> QED
    BY <1>1, <1>2, SMT

\* A positive factor can be cancelled.
LEMMA Cancel ==
  ASSUME NEW a \in Int, NEW b \in Int, NEW c \in Nat, c > 0, c * a >= c * b
  PROVE  a >= b
  BY SMT

\* Two inequalities of shares make one of products.
LEMMA ProductOfShares ==
  ASSUME NEW a \in Nat, NEW b \in Nat, NEW x \in Nat, NEW y \in Nat, NEW l \in Nat, NEW m \in Nat,
         a * l >= x * m, b * l >= y * m
  PROVE  (a * b) * l * l >= (x * y) * m * m
  <1>1. a * l \in Nat /\ b * l \in Nat /\ x * m \in Nat /\ y * m \in Nat
    BY SMT
  <1>2. (x * m) * (y * m) <= (a * l) * (b * l)
    BY <1>1, Times
  <1>3. (a * l) * (b * l) = (a * b) * l * l
    BY SMT
  <1>4. (x * m) * (y * m) = (x * y) * m * m
    BY SMT
  <1> QED
    BY <1>2, <1>3, <1>4

\* A product that does not fall, over claims that do not grow.
LEMMA SquaresMonotone ==
  ASSUME NEW k \in Nat, NEW j \in Nat, NEW c \in Nat, NEW d \in Nat, j <= k, d <= c
  PROVE  k * c * c >= j * d * d
  <1>1. j * d \in Nat /\ k * c \in Nat /\ j * d <= k * c
    BY Times
  <1>2. (j * d) * d <= (k * c) * c
    BY <1>1, Times
  <1> QED
    BY <1>2
=============================================================================
