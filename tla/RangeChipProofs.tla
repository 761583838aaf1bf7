-------------------------- MODULE RangeChipProofs --------------------------
(***************************************************************************)
(* The range check is sound, has one witness and is complete, for every    *)
(* field and every width whose powers of two do not exceed the modulus.    *)
(***************************************************************************)
EXTENDS RangeChip, NaturalsInduction, WellFoundedInduction, TLAPS

(* Bits *)

\* A Boolean bit is 0 or 1, because a field has no zero divisors.
LEMMA BitsAreBoolean ==
  ASSUME NEW b \in Fr, BooleanBit(b)
  PROVE  b \in {0, 1}
<1>1. Sub(b, 1) \in Fr
  BY FieldAssumption DEF Sub, Fr
<1>2. b = 0 \/ Sub(b, 1) = 0
  BY <1>1, FieldAssumption DEF BooleanBit
<1>3. ASSUME Sub(b, 1) = 0 PROVE b = 1 \/ b = 0
  BY <1>3, FieldAssumption DEF Sub, Fr
<1> QED
  BY <1>2, <1>3

\* And 0 and 1 are Boolean bits.
LEMMA BooleansAreBits ==
  ASSUME NEW b \in {0, 1}
  PROVE  b \in Fr /\ BooleanBit(b)
<1>1. CASE b = 0
  BY <1>1, FieldAssumption DEF BooleanBit, Mul, Sub, Fr
<1>2. CASE b = 1
  BY <1>2, FieldAssumption DEF BooleanBit, Mul, Sub, Fr
<1> QED
  BY <1>1, <1>2

(* Powers of two *)

\* If the modulus has room for the last weight, it has room for all of them.
LEMMA WeightsFit ==
  \A n \in Rows : Weight[n] <= MODULUS
<1> DEFINE Wide == {k \in Nat : k <= BITS /\ Weight[BITS - k] > MODULUS}
<1>1. Wide = {}
  <2> SUFFICES ASSUME Wide # {} PROVE FALSE
    OBVIOUS
  <2>1. PICK k \in Wide : \A j \in Wide : ~ (<<j, k>> \in OpToRel(<, Nat))
    BY WFMin, NatLessThanWellFounded
  <2>2. \A j \in Wide : ~ (j < k)
    BY <2>1, Zenon DEF OpToRel
  <2>3. k # 0
    <3>1. Weight[BITS] \in Nat /\ MODULUS \in Nat /\ BITS - 0 = BITS
      BY WidthAssumption, FieldAssumption DEF Rows
    <3> QED
      BY <3>1, WidthAssumption
  <2>4. k - 1 \in Wide
    BY <2>3, WidthAssumption, FieldAssumption DEF Rows, Steps
  <2> QED
    BY <2>2, <2>4
<1>2. ASSUME NEW n \in Rows PROVE Weight[n] <= MODULUS
  <2>1. BITS - n \in Nat /\ BITS - n <= BITS /\ BITS - (BITS - n) = n
    BY WidthAssumption DEF Rows
  <2>2. ~ (Weight[n] > MODULUS)
    BY <1>1, <2>1
  <2> QED
    BY <2>2, WidthAssumption, FieldAssumption
<1> QED
  BY <1>2

\* No weight is zero, so one can divide by each.
LEMMA WeightsPositive ==
  \A n \in Rows : Weight[n] \in Nat \ {0}
<1> DEFINE Void == {k \in Nat : k <= BITS /\ Weight[k] = 0}
<1>1. Void = {}
  <2> SUFFICES ASSUME Void # {} PROVE FALSE
    OBVIOUS
  <2>1. PICK k \in Void : \A j \in Void : ~ (<<j, k>> \in OpToRel(<, Nat))
    BY WFMin, NatLessThanWellFounded
  <2>2. \A j \in Void : ~ (j < k)
    BY <2>1, Zenon DEF OpToRel
  <2>3. k # 0
    BY WidthAssumption
  <2>4. k - 1 \in Steps /\ k - 1 \in Rows /\ (k - 1) + 1 = k
    BY <2>3, WidthAssumption DEF Rows, Steps
  <2>5. Weight[k - 1] = 0
    <3>1. Weight[k] = 2 * Weight[k - 1]
      BY <2>4, WidthAssumption
    <3>2. Weight[k - 1] \in Nat
      BY <2>4, WidthAssumption
    <3> QED
      BY <3>1, <3>2
  <2> QED
    BY <2>2, <2>4, <2>5, WidthAssumption DEF Steps
<1> QED
  BY <1>1, WidthAssumption DEF Rows

(* Division by them *)

\* A quotient is the only number of whole divisors below the dividend.
LEMMA Quotient ==
  ASSUME NEW a \in Nat, NEW w \in Nat \ {0}, NEW q \in Nat,
         q * w <= a, a < q * w + w
  PROVE  a \div w = q
OBVIOUS

LEMMA QuotientExists ==
  ASSUME NEW a \in Nat, NEW w \in Nat \ {0}
  PROVE  /\ a \div w \in Nat
         /\ (a \div w) * w <= a
         /\ a < (a \div w) * w + w
OBVIOUS

\* One more bit at the end changes no bit before it.
LEMMA ShiftIn ==
  ASSUME NEW a \in Nat, NEW b \in {0, 1}, NEW w \in Nat \ {0}
  PROVE  (2 * a + b) \div (2 * w) = a \div w
<1> DEFINE q == a \div w
<1>1. q \in Nat /\ q * w <= a /\ a < q * w + w
  BY QuotientExists
<1>2. q * (2 * w) <= 2 * a + b /\ 2 * a + b < q * (2 * w) + 2 * w
  <2> HIDE DEF q
  <2>1. q * w \in Nat /\ q * (2 * w) = 2 * (q * w)
    BY <1>1
  <2> QED
    BY <1>1, <2>1
<1> HIDE DEF q
<1>3. 2 * a + b \in Nat /\ 2 * w \in Nat \ {0}
  OBVIOUS
<1>4. (2 * a + b) \div (2 * w) = q
  BY <1>1, <1>2, <1>3, Quotient
<1> QED
  BY <1>4 DEF q

\* The bit that a shorter shift leaves at the end.
LEMMA NextBit ==
  ASSUME NEW a \in Nat, NEW w \in Nat \ {0}
  PROVE  2 * (a \div (2 * w)) + ((a \div w) % 2) = a \div w
<1> DEFINE q == a \div w
<1>1. q \in Nat /\ q * w <= a /\ a < q * w + w
  BY QuotientExists
<1> HIDE DEF q
<1>2. PICK p \in Nat, b \in {0, 1} : q = 2 * p + b
  <2>1. q = 2 * (q \div 2) + (q % 2) /\ q \div 2 \in Nat /\ q % 2 \in {0, 1}
    BY <1>1
  <2> QED
    BY <2>1
<1>3. p * (2 * w) <= a /\ a < p * (2 * w) + 2 * w
  <2>1. q * w = p * (2 * w) + b * w /\ p * (2 * w) \in Nat
    BY <1>2
  <2>2. b * w = 0 \/ b * w = w
    OBVIOUS
  <2> QED
    BY <1>1, <2>1, <2>2
<1>4. a \div (2 * w) = p
  BY <1>3, Quotient
<1>5. q % 2 = b
  BY <1>2
<1> QED
  BY <1>2, <1>4, <1>5 DEF q

(* The gates *)

\* Below half the modulus the step gate has one solution, without a reduction.
LEMMA StepSolved ==
  ASSUME NEW current \in Fr, NEW b \in Fr, NEW next \in Fr,
         RecipientBits(current, b, next), 2 * current + 1 < MODULUS
  PROVE  b \in {0, 1} /\ next = 2 * current + b
<1>1. b \in {0, 1}
  BY BitsAreBoolean DEF RecipientBits
<1>2. Mul(current, 2) = 2 * current
  BY FieldAssumption DEF Mul, Fr
<1>3. Sub(Sub(next, 2 * current), b) = 0
  BY <1>2 DEF RecipientBits
<1>4. CASE next >= 2 * current
  <2>1. Sub(next, 2 * current) = next - 2 * current
    BY <1>4, FieldAssumption DEF Sub, Fr
  <2> QED
    BY <1>1, <1>3, <1>4, <2>1, FieldAssumption DEF Sub, Fr
<1>5. CASE next < 2 * current
  <2>1. Sub(next, 2 * current) = next - 2 * current + MODULUS
    BY <1>5, FieldAssumption DEF Sub, Fr
  <2> QED
    BY <1>1, <1>3, <1>5, <2>1, FieldAssumption DEF Sub, Fr
<1> QED
  BY <1>1, <1>4, <1>5, FieldAssumption DEF Fr

\* The computed step satisfies the gate.
LEMMA StepSatisfied ==
  ASSUME NEW current \in Fr, NEW b \in {0, 1}, 2 * current + 1 < MODULUS
  PROVE  /\ Add(Mul(current, 2), b) = 2 * current + b
         /\ RecipientBits(current, b, 2 * current + b)
<1>1. Mul(current, 2) = 2 * current
  BY FieldAssumption DEF Mul, Fr
<1>2. BooleanBit(b)
  BY BooleansAreBits
<1>3. Sub(2 * current + b, 2 * current) = b
  BY FieldAssumption DEF Sub, Fr
<1>4. Sub(b, b) = 0
  BY FieldAssumption DEF Sub
<1>5. Add(2 * current, b) = 2 * current + b
  BY FieldAssumption DEF Add, Fr
<1> QED
  BY <1>1, <1>2, <1>3, <1>4, <1>5 DEF RecipientBits

(***************************************************************************)
(* The invariant.  An accumulator holds as many bits as there are rows     *)
(* above it, so no step wraps; every earlier accumulator is the last one   *)
(* without its lowest bits; and `check` shifts in the recipient's own.     *)
(***************************************************************************)
Narrow == \A n \in 0 .. row : accumulator[n] < Weight[n]

Prefixes ==
  \A n \in 0 .. row : accumulator[n] = accumulator[row] \div Weight[row - n]

LastBits ==
  \A n \in 0 .. row - 1 : /\ RecipientBits(accumulator[n], bit[n], accumulator[n + 1])
                          /\ bit[n] = accumulator[n + 1] % 2

CheckFollows ==
  filledBy = "synthesis" /\ recipient < Weight[BITS] =>
    accumulator[row] = recipient \div Weight[BITS - row]

Decomposes == TypeOK /\ Narrow /\ Prefixes /\ LastBits /\ CheckFollows

LEMMA RowsAndSteps ==
  /\ 0 \in Rows /\ BITS \in Rows
  /\ \A n \in Steps : n \in Rows /\ n + 1 \in Rows
  /\ \A n \in Rows : n < BITS => n \in Steps
BY WidthAssumption DEF Rows, Steps

LEMMA InitDecomposes == Init => Decomposes
<1> SUFFICES ASSUME Init PROVE Decomposes
  OBVIOUS
<1>1. row = 0 /\ accumulator = [n \in Rows |-> 0]
  BY FieldAssumption DEF Init, ZeroAccumulator
<1>2. TypeOK
  <2>1. 0 \in Fr
    BY FieldAssumption DEF Fr
  <2> QED
    BY <1>1, <2>1, RowsAndSteps DEF Init, TypeOK
<1>3. Narrow
  BY <1>1, WidthAssumption, RowsAndSteps DEF Narrow
<1>4. Prefixes
  BY <1>1, WidthAssumption, RowsAndSteps DEF Prefixes
<1>5. LastBits
  BY <1>1 DEF LastBits
<1>6. CheckFollows
  <2> SUFFICES ASSUME recipient < Weight[BITS] PROVE recipient \div Weight[BITS] = 0
    BY <1>1, RowsAndSteps, WidthAssumption DEF CheckFollows
  <2>1. recipient \in Nat /\ Weight[BITS] \in Nat \ {0}
    BY <1>2, FieldAssumption, RowsAndSteps, WeightsPositive DEF TypeOK, Fr
  <2> QED
    BY <2>1, Quotient
<1> QED
  BY <1>2, <1>3, <1>4, <1>5, <1>6 DEF Decomposes

\* A narrow accumulator below the last row has room for one more bit.
LEMMA RoomForABit ==
  ASSUME TypeOK, Narrow, row < BITS
  PROVE  /\ row \in Steps
         /\ accumulator[row] \in Fr /\ accumulator[row] \in Nat
         /\ 2 * accumulator[row] + 1 < Weight[row + 1]
         /\ Weight[row + 1] <= MODULUS
<1>1. row \in Steps /\ row + 1 \in Rows /\ row \in Rows
  BY RowsAndSteps DEF TypeOK
<1>2. accumulator[row] \in Fr /\ accumulator[row] \in Nat
  BY <1>1, FieldAssumption DEF TypeOK, Fr
<1>3. accumulator[row] < Weight[row]
  BY <1>1, WidthAssumption DEF Narrow, Rows
<1>4. Weight[row + 1] = 2 * Weight[row] /\ Weight[row] \in Nat
  BY <1>1, WidthAssumption
<1>5. Weight[row + 1] <= MODULUS
  BY <1>1, WeightsFit
<1> QED
  BY <1>1, <1>2, <1>3, <1>4, <1>5

(* One row *)

\* The invariant survives a row that takes the bit b, whoever assigned it.
LEMMA RowDecomposes ==
  ASSUME Decomposes, row < BITS, NEW b \in {0, 1},
         Assign(b, 2 * accumulator[row] + b),
         filledBy = "synthesis" => b = WitnessBit(recipient, row)
  PROVE  Decomposes'
<1> DEFINE current == accumulator[row]
           next == 2 * current + b
<1>1. /\ row \in Steps /\ row \in Rows /\ row + 1 \in Rows /\ row \in Nat
      /\ current \in Fr /\ current \in Nat
      /\ 2 * current + 1 < Weight[row + 1] /\ Weight[row + 1] <= MODULUS
  BY RoomForABit, RowsAndSteps DEF Decomposes, TypeOK, Rows
<1>2. Weight[row + 1] \in Nat
  BY <1>1, WidthAssumption
<1>3. next \in Nat /\ next < Weight[row + 1] /\ next \in Fr
  BY <1>1, <1>2, FieldAssumption DEF Fr
<1>4. RecipientBits(current, b, next)
  <2>1. 2 * current + 1 < MODULUS
    BY <1>1, <1>2, FieldAssumption
  <2> QED
    BY <1>1, <2>1, StepSatisfied
<1>5. /\ row' = row + 1 /\ recipient' = recipient /\ filledBy' = filledBy
      /\ accumulator'[row + 1] = next /\ bit'[row] = b
      /\ \A n \in 0 .. row : accumulator'[n] = accumulator[n]
      /\ \A n \in 0 .. row - 1 : bit'[n] = bit[n]
  BY <1>1, RowsAndSteps DEF Assign, Decomposes, TypeOK, Rows, Steps
<1>6. TypeOK'
  <2>1. b \in Fr
    BY FieldAssumption DEF Fr
  <2> QED
    BY <1>1, <1>3, <2>1 DEF Assign, Decomposes, TypeOK
<1> HIDE DEF next, current
<1>7. Narrow'
  BY <1>1, <1>3, <1>5 DEF Decomposes, Narrow
<1>8. Prefixes'
  <2> SUFFICES ASSUME NEW n \in 0 .. row + 1
               PROVE  accumulator'[n] = next \div Weight[row + 1 - n]
    BY <1>1, <1>5 DEF Prefixes
  <2>1. CASE n = row + 1
    <3>1. Weight[row + 1 - n] = 1
      BY <2>1, <1>1, WidthAssumption
    <3>2. next \div 1 = next
      BY <1>3
    <3> QED
      BY <2>1, <1>5, <3>1, <3>2
  <2>2. CASE n # row + 1
    <3>1. n \in 0 .. row /\ row - n \in Steps /\ row - n \in Rows /\ row + 1 - n = (row - n) + 1
      BY <2>2, <1>1, WidthAssumption DEF Rows, Steps
    <3>2. accumulator'[n] = current \div Weight[row - n]
      BY <3>1, <1>5 DEF current, Decomposes, Prefixes
    <3>3. Weight[row + 1 - n] = 2 * Weight[row - n]
      BY <3>1, WidthAssumption
    <3>4. Weight[row - n] \in Nat \ {0}
      BY <3>1, WeightsPositive
    <3>5. next \div (2 * Weight[row - n]) = current \div Weight[row - n]
      BY <1>1, <3>4, ShiftIn DEF next
    <3> QED
      BY <3>2, <3>3, <3>5
  <2> QED
    BY <2>1, <2>2
<1>9. LastBits'
  <2> SUFFICES ASSUME NEW n \in 0 .. row
               PROVE  /\ RecipientBits(accumulator'[n], bit'[n], accumulator'[n + 1])
                      /\ bit'[n] = accumulator'[n + 1] % 2
    BY <1>1, <1>5 DEF LastBits
  <2>1. CASE n = row
    <3>1. next % 2 = b
      BY <1>1 DEF next
    <3>2. accumulator'[n] = current
      BY <2>1, <1>1, <1>5 DEF current
    <3> QED
      BY <2>1, <1>4, <1>5, <3>1, <3>2
  <2>2. CASE n # row
    <3>1. n \in 0 .. row - 1 /\ n + 1 \in 0 .. row
      BY <2>2, <1>1
    <3>2. accumulator'[n] = accumulator[n] /\ accumulator'[n + 1] = accumulator[n + 1] /\ bit'[n] = bit[n]
      BY <3>1, <1>5
    <3> QED
      BY <3>1, <3>2 DEF Decomposes, LastBits
  <2> QED
    BY <2>1, <2>2
<1>10. CheckFollows'
  <2> SUFFICES ASSUME filledBy = "synthesis", recipient < Weight[BITS]
               PROVE  next = recipient \div Weight[BITS - (row + 1)]
    BY <1>1, <1>5 DEF CheckFollows
  <2> DEFINE w == Weight[BITS - 1 - row]
  <2>1. BITS - 1 - row \in Steps /\ BITS - 1 - row \in Rows /\ (BITS - 1 - row) + 1 = BITS - row
        /\ BITS - (row + 1) = BITS - 1 - row
    BY <1>1, WidthAssumption DEF Steps, Rows
  <2>2. Weight[BITS - row] = 2 * w /\ w \in Nat \ {0}
    BY <2>1, WidthAssumption, WeightsPositive
  <2>3. current = recipient \div (2 * w)
    BY <2>2 DEF Decomposes, CheckFollows, current
  <2>4. b = (recipient \div w) % 2
    BY DEF WitnessBit
  <2>5. recipient \in Nat
    BY FieldAssumption DEF Decomposes, TypeOK, Fr
  <2> HIDE DEF w
  <2>6. 2 * (recipient \div (2 * w)) + ((recipient \div w) % 2) = recipient \div w
    BY <2>2, <2>5, NextBit
  <2> QED
    BY <2>1, <2>3, <2>4, <2>6 DEF next, w
<1> QED
  BY <1>6, <1>7, <1>8, <1>9, <1>10 DEF Decomposes

LEMMA StepDecomposes == Decomposes /\ [Next]_vars => Decomposes'
<1> SUFFICES ASSUME Decomposes, [Next]_vars PROVE Decomposes'
  OBVIOUS
<1>1. CASE CheckRow
  <2> DEFINE b == WitnessBit(recipient, row)
  <2>1. row < BITS /\ filledBy = "synthesis" /\ Assign(b, Add(Mul(accumulator[row], 2), b))
    BY <1>1 DEF CheckRow
  <2>2. b \in {0, 1}
    <3>1. BITS - 1 - row \in Rows
      BY <2>1, WidthAssumption DEF Decomposes, TypeOK, Rows
    <3>2. recipient \in Nat /\ Weight[BITS - 1 - row] \in Nat \ {0}
      BY <3>1, WeightsPositive, FieldAssumption DEF Decomposes, TypeOK, Fr
    <3>3. recipient \div Weight[BITS - 1 - row] \in Nat
      BY <3>2, QuotientExists
    <3> QED
      BY <3>3 DEF WitnessBit
  <2> HIDE DEF b
  <2>3. accumulator[row] \in Fr /\ 2 * accumulator[row] + 1 < MODULUS
    <3>1. row + 1 \in Rows
      BY <2>1, RowsAndSteps DEF Decomposes, TypeOK, Rows
    <3> QED
      BY <2>1, <3>1, RoomForABit, WidthAssumption, FieldAssumption DEF Decomposes
  <2>4. Add(Mul(accumulator[row], 2), b) = 2 * accumulator[row] + b
    BY <2>2, <2>3, StepSatisfied
  <2>5. Assign(b, 2 * accumulator[row] + b)
    BY <2>1, <2>4
  <2>6. b = WitnessBit(recipient, row)
    BY DEF b
  <2> QED
    BY <2>1, <2>2, <2>5, <2>6, RowDecomposes
<1>2. CASE AnyRow
  <2>1. PICK b \in Fr, next \in Fr : RecipientBits(accumulator[row], b, next) /\ Assign(b, next)
    BY <1>2 DEF AnyRow
  <2>2. row < BITS /\ filledBy # "synthesis"
    BY <1>2 DEF AnyRow
  <2>3. accumulator[row] \in Fr /\ 2 * accumulator[row] + 1 < MODULUS
    <3>1. row + 1 \in Rows
      BY <2>2, RowsAndSteps DEF Decomposes, TypeOK, Rows
    <3> QED
      BY <2>2, <3>1, RoomForABit, WidthAssumption, FieldAssumption DEF Decomposes
  <2>4. b \in {0, 1} /\ next = 2 * accumulator[row] + b
    BY <2>1, <2>3, StepSolved
  <2> QED
    BY <2>1, <2>2, <2>4, RowDecomposes
<1>3. CASE UNCHANGED vars
  BY <1>3 DEF vars, Decomposes, TypeOK, Narrow, Prefixes, LastBits, CheckFollows
<1> QED
  BY <1>1, <1>2, <1>3 DEF Next

LEMMA AlwaysDecomposes == Spec => []Decomposes
BY InitDecomposes, StepDecomposes, PTL DEF Spec

\* A region that satisfies the gates has a narrow recipient, and the code's own region
\* satisfies them for every such recipient.
LEMMA DecomposesFits ==
  ASSUME Decomposes, Satisfied  PROVE recipient < Weight[BITS]
BY RowsAndSteps, WidthAssumption DEF Decomposes, Narrow, Satisfied, Rows

LEMMA DecomposesDecides ==
  ASSUME Decomposes  PROVE CheckDecides
<1> SUFFICES ASSUME filledBy = "synthesis", row = BITS
             PROVE  Satisfied <=> recipient < Weight[BITS]
  BY DEF CheckDecides
<1>1. ASSUME Satisfied PROVE recipient < Weight[BITS]
  BY <1>1, RowsAndSteps, WidthAssumption DEF Decomposes, Narrow, Satisfied, Rows
<1>2. ASSUME recipient < Weight[BITS] PROVE Satisfied
  <2>1. recipient \in Nat
    BY FieldAssumption DEF Decomposes, TypeOK, Fr
  <2>2. accumulator[BITS] = recipient
    <3>1. Weight[BITS - row] = 1
      BY WidthAssumption
    <3>2. recipient \div 1 = recipient
      BY <2>1
    <3> QED
      BY <1>2, <3>1, <3>2 DEF Decomposes, CheckFollows
  <2>3. accumulator[0] = 0
    <3>1. accumulator[0] < 1 /\ accumulator[0] \in Nat
      BY RowsAndSteps, WidthAssumption, FieldAssumption DEF Decomposes, Narrow, TypeOK, Fr
    <3> QED
      BY <3>1
  <2>4. \A n \in Steps : RecipientBits(accumulator[n], bit[n], accumulator[n + 1])
    BY DEF Decomposes, LastBits, Steps
  <2> QED
    BY <2>2, <2>3, <2>4 DEF Satisfied, ZeroAccumulator
<1> QED
  BY <1>1, <1>2

(* Results *)

\* Every cell the region holds is a field element, whoever filled it (`check`,
\* range.rs:97-135).
THEOREM CellsAreTyped == Spec => []TypeOK
<1>1. Decomposes => TypeOK
  BY DEF Decomposes
<1> QED
  BY <1>1, AlwaysDecomposes, PTL

\* Soundness of the gates of `configure`: a recipient that has a witness fits.
THEOREM OnlyNarrowRecipients == Spec => []RecipientFits
<1>1. Decomposes => RecipientFits
  BY DecomposesFits DEF RecipientFits
<1> QED
  BY <1>1, AlwaysDecomposes, PTL

\* A witness of a recipient is its binary form, the one `check` assigns.
THEOREM OnlyOneWitness == Spec => []OneDecomposition
<1>1. Decomposes => OneDecomposition
  <2> SUFFICES ASSUME Decomposes, Satisfied, NEW n \in Steps
               PROVE  bit[n] = WitnessBit(recipient, n)
    BY DEF OneDecomposition
  <2>1. /\ row = BITS /\ accumulator[row] = recipient
        /\ n \in 0 .. row - 1 /\ n + 1 \in 0 .. row /\ row - (n + 1) = BITS - 1 - n
    BY WidthAssumption DEF Satisfied, Steps
  <2>2. bit[n] = accumulator[n + 1] % 2
    BY <2>1 DEF Decomposes, LastBits
  <2>3. accumulator[n + 1] = recipient \div Weight[BITS - 1 - n]
    BY <2>1 DEF Decomposes, Prefixes
  <2> QED
    BY <2>2, <2>3 DEF WitnessBit
<1> QED
  BY <1>1, AlwaysDecomposes, PTL

\* `check` finds the witness of every recipient that fits, and of no other.
THEOREM CheckIsComplete == Spec => []CheckDecides
BY DecomposesDecides, AlwaysDecomposes, PTL
=============================================================================
