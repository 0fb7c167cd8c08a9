------------------------- MODULE IsqrtNewtonProofs -------------------------
(***************************************************************************)
(* isqrt returns the floor root of every product of two u64, without a     *)
(* fault on the way, whatever the width of the integers.                   *)
(***************************************************************************)
EXTENDS IsqrtNewton, CpmmLemmas

\* Newton's step from above stays at or above the root: by the inequality of
\* the arithmetic and geometric means, 4x(q + 1) <= (x + q + 1)^2.
LEMMA NextEstimateAboveRoot ==
  ASSUME NEW a \in Nat, NEW e \in Nat, e > 0, e <= a,
         NEW f \in Nat, f = (e + a \div e) \div 2
  PROVE  f > 0 /\ a < (f + 1) * (f + 1)
  <1> DEFINE q == a \div e
  <1>1. q \in Nat /\ e * q <= a /\ a < e * q + e
    BY DivBounds
  <1>2. q >= 1
    BY <1>1, SMT
  <1> HIDE DEF q
  <1>3. f = (e + q) \div 2
    BY DEF q
  <1>4. e + q + 1 <= 2 * (f + 1) /\ f > 0
    BY <1>1, <1>2, <1>3, SMT
  <1>5. 4 * (e * q + e) <= (e + q + 1) * (e + q + 1)
    <2>1. (e + q + 1) * (e + q + 1) - 4 * (e * q + e) = (e - (q + 1)) * (e - (q + 1))
      BY <1>1, SMT
    <2>2. (e - (q + 1)) * (e - (q + 1)) >= 0
      BY <1>1, SMT
    <2> QED
      BY <2>1, <2>2, <1>1, SMT
  <1>6. (e + q + 1) * (e + q + 1) <= (2 * (f + 1)) * (2 * (f + 1))
    BY <1>4, <1>1, SMT
  <1>7. (2 * (f + 1)) * (2 * (f + 1)) = 4 * ((f + 1) * (f + 1))
    BY SMT
  <1> QED
    BY <1>1, <1>4, <1>5, <1>6, <1>7, SMT

\* The loop ends when the next estimate is no smaller: then the current one is
\* at or below the root.
LEMMA NoDescentBelowRoot ==
  ASSUME NEW a \in Nat, NEW e \in Nat, e > 0, (e + a \div e) \div 2 >= e
  PROVE  e * e <= a
  <1> DEFINE q == a \div e
  <1>1. q \in Nat /\ e * q <= a
    BY DivBounds
  <1>2. q >= e
    BY <1>1, SMT
  <1>3. e * e <= e * q
    BY <1>1, <1>2, SMT
  <1> QED
    BY <1>1, <1>3, SMT

\* Products of two u64, and all that is computed from them, are u128.
LEMMA ProductFits ==
  ASSUME NEW a \in U64, NEW b \in U64
  PROVE  a * b \in 0 .. U64Max * U64Max
  <1>1. a * b <= U64Max * b /\ U64Max * b <= U64Max * U64Max
    BY CpmmAssumption, SMT DEF U64
  <1> QED
    BY <1>1, CpmmAssumption, SMT DEF U64

\* Between the largest product of two u64 and the largest u128 there is room.
LEMMA RoomAboveProducts ==
  U64Max * U64Max + 2 <= U128Max /\ U128Max \in Nat /\ U64Max * U64Max \in Nat
  BY CpmmAssumption, SMT DEF U128Max

\* The sum of an estimate and the quotient stays close to the argument.
LEMMA EstimateSumFits ==
  ASSUME NEW a \in Nat, NEW e \in Nat, e > 0, e <= a
  PROVE  e + a \div e \in Nat /\ e + a \div e <= a + 1
  <1> DEFINE q == a \div e
  <1>1. q \in Nat /\ e * q <= a
    BY DivBounds
  <1>2. (e - 1) * (q - 1) >= 0 \/ q = 0
    BY <1>1, SMT
  <1>3. (e - 1) * (q - 1) = e * q - e - q + 1
    BY <1>1, SMT
  <1> QED
    BY <1>1, <1>2, <1>3, SMT

\* Half of a u128 is a u128.
LEMMA HalfFits ==
  ASSUME NEW a \in Nat, NEW m \in Nat, a <= m
  PROVE  a \div 2 \in 0 .. m
  BY SMT

\* The inductive invariant: the types, and that every estimate is at or above
\* the root with the next one computed from it.
THEOREM InvInductive == Spec => []Inv
<1>1. Init => Inv
  <2> SUFFICES ASSUME Init PROVE Inv
    OBVIOUS
  <2>1. n \in 0 .. U64Max * U64Max
    BY ProductFits DEF Init
  <2> QED
    BY <2>1, RoomAboveProducts, SMT DEF Init, Inv, TypeOK, NewtonInv
<1>2. Inv /\ [Next]_vars => Inv'
  <2> SUFFICES ASSUME Inv, [Next]_vars PROVE Inv'
    OBVIOUS
  <2> USE DEF Inv, TypeOK, NewtonInv
  <2>0. n \in Nat /\ x \in Nat /\ y \in Nat
    BY RoomAboveProducts, SMT
  <2>1. CASE Zero
    BY <2>1, RoomAboveProducts, SMT DEF Zero, IsFloorRoot
  <2>2. CASE Guess
    <3>1. n > 0 /\ n + 1 <= U128Max
      BY <2>2, RoomAboveProducts, SMT DEF Guess
    <3>2. n \div n = 1
      BY <3>1, <2>0, SMT
    <3>3. n < (n + 1) * (n + 1)
      BY <2>0, SMT
    <3>4. (n + 1) \div 2 \in 0 .. U128Max
      BY <3>1, <2>0, RoomAboveProducts, HalfFits
    <3> QED
      BY <2>2, <3>1, <3>2, <3>3, <3>4, <2>0, RoomAboveProducts DEF Guess
  <2>3. CASE Improve
    <3>1. x > 0 /\ x <= n /\ y = (x + n \div x) \div 2 /\ y < x
      BY <2>3 DEF Improve
    <3>2. y > 0 /\ n < (y + 1) * (y + 1)
      BY <3>1, <2>0, NextEstimateAboveRoot
    <3>3. y + n \div y \in Nat /\ y + n \div y <= n + 1
      BY <3>1, <3>2, <2>0, EstimateSumFits
    <3>4. y + n \div y <= U128Max
      BY <3>3, <2>0, RoomAboveProducts
    <3>5. (y + n \div y) \div 2 \in 0 .. U128Max
      BY <3>3, <3>4, RoomAboveProducts, HalfFits
    <3> QED
      BY <2>3, <3>1, <3>2, <3>5 DEF Improve
  <2>4. CASE Return
    <3>1. x * x <= n
      BY <2>4, <2>0, NoDescentBelowRoot DEF Return
    <3> QED
      BY <2>4, <3>1 DEF Return, IsFloorRoot
  <2>5. CASE Finished \/ UNCHANGED vars
    BY <2>5 DEF Finished, vars
  <2> QED
    BY <2>1, <2>2, <2>3, <2>4, <2>5 DEF Next
<1> QED
  BY <1>1, <1>2, PTL DEF Spec

\* The value isqrt returns is the one the model of the quotes uses.
THEOREM IsqrtCorrect == Spec => []ResultIsIsqrt
<1>1. Inv => ResultIsIsqrt
  <2> SUFFICES ASSUME Inv, pc = "done" PROVE IsFloorRoot(x, n) /\ x = Isqrt(n)
    BY DEF ResultIsIsqrt
  <2>1. n \in Nat /\ x \in Nat /\ IsFloorRoot(x, n)
    BY RoomAboveProducts, SMT DEF Inv, TypeOK, NewtonInv
  <2> QED
    BY <2>1, IsqrtIsFloorRoot, FloorRootUnique
<1> QED
  BY <1>1, InvInductive, PTL

\* No overflow and no division by zero in the loop.
THEOREM IsqrtFaultless == Spec => []NoArithmeticFault
<1>1. Inv => NoArithmeticFault
  <2> SUFFICES ASSUME Inv, pc = "loop"
               PROVE  x > 0 /\ y > 0 /\ x + 1 <= U128Max /\ x + n \div x <= U128Max
    BY DEF NoArithmeticFault
  <2>1. /\ n \in Nat /\ x \in Nat /\ y \in Nat
        /\ x > 0 /\ x <= n /\ n <= U64Max * U64Max
        /\ y = (x + n \div x) \div 2
    BY RoomAboveProducts, SMT DEF Inv, TypeOK, NewtonInv
  <2>2. y > 0
    BY <2>1, NextEstimateAboveRoot
  <2>3. x + n \div x \in Nat /\ x + n \div x <= n + 1
    BY <2>1, EstimateSumFits
  <2> QED
    BY <2>1, <2>2, <2>3, RoomAboveProducts, SMT
<1> QED
  BY <1>1, InvInductive, PTL

\* The iteration never leaves the u128 it is declared with.
THEOREM TypesPreserved == Spec => []TypeOK
<1>1. Inv => TypeOK
  BY DEF Inv
<1> QED
  BY <1>1, InvInductive, PTL

\* No estimate is ever below the root.
THEOREM EstimatesAboveRoot == Spec => []NewtonInv
<1>1. Inv => NewtonInv
  BY DEF Inv
<1> QED
  BY <1>1, InvInductive, PTL
=============================================================================
