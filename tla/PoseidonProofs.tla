--------------------------- MODULE PoseidonProofs ---------------------------
(***************************************************************************)
(* The four copies of the hash compute one value, for every field, number  *)
(* of rounds, round constants and matrix.  The rows of a complete trace    *)
(* are the states of each of them, round by round.                         *)
(***************************************************************************)
EXTENDS SpikeCircuit, NaturalsInduction, WellFoundedInduction, TLAPS

(* Field arithmetic *)

LEMMA Closed ==
  ASSUME NEW a \in Fr, NEW b \in Fr
  PROVE  Add(a, b) \in Fr /\ Mul(a, b) \in Fr /\ Sub(a, b) \in Fr
<1>1. a * b \in Int /\ MODULUS \in Nat \ {0}
  BY FieldAssumption DEF Fr
<1> HIDE DEF Fr
<1>2. (a * b) % MODULUS \in 0 .. MODULUS - 1
  <2> DEFINE p == a * b
  <2>1. p \in Int
    BY <1>1
  <2> HIDE DEF p
  <2>2. p % MODULUS \in 0 .. MODULUS - 1
    BY <1>1, <2>1
  <2> QED  BY <2>2 DEF p
<1> QED  BY <1>1, <1>2 DEF Add, Sub, Mul, Fr

LEMMA Difference ==
  ASSUME NEW a \in Fr, NEW b \in Fr
  PROVE  Sub(a, b) = 0 <=> a = b
  BY FieldAssumption DEF Sub, Fr

LEMMA FifthInField ==
  ASSUME NEW a \in Fr
  PROVE  Fifth(a) \in Fr
<1>1. Mul(a, a) \in Fr
  BY Closed
<1>2. Mul(Mul(a, a), Mul(a, a)) \in Fr
  BY <1>1, Closed
<1> QED  BY <1>2, Closed DEF Fifth

(* Shapes *)

LEMMA Shapes ==
  ASSUME NEW a \in Arities
  PROVE  /\ Width(a) \in {2, 3} /\ Words(a) = 0 .. Width(a) - 1
         /\ Rounds(a) \in Nat /\ Half \in Nat /\ PartialEnd(a) \in Nat
         /\ \A n \in 0 .. Rounds(a) - 1, word \in Words(a) : RoundConstant(a, n, word) \in Fr
         /\ MDS[a] \in [Words(a) -> [Words(a) -> Fr]]
<1>1. Width(a) \in {2, 3} /\ Words(a) = 0 .. Width(a) - 1
  BY DEF Arities, Width, Words
<1>2. Rounds(a) \in Nat /\ Half \in Nat /\ PartialEnd(a) \in Nat
  BY ParametersAssumption DEF Rounds, Half, PartialEnd
<1>3. ASSUME NEW n \in 0 .. Rounds(a) - 1, NEW word \in Words(a)
      PROVE  RoundConstant(a, n, word) \in Fr
  <2>1. /\ ARK[a] \in Seq(Fr)
        /\ Len(ARK[a]) = Width(a) * Rounds(a)
    BY ParametersAssumption
  <2>2. n * Width(a) + word + 1 \in 1 .. Width(a) * Rounds(a)
    <3>1. CASE Width(a) = 2
      BY <1>1, <1>2, <3>1
    <3>2. CASE Width(a) = 3
      BY <1>1, <1>2, <3>2
    <3> QED  BY <1>1, <3>1, <3>2
  <2> QED  BY <2>1, <2>2 DEF RoundConstant
<1>4. MDS[a] \in [Words(a) -> [Words(a) -> Fr]]
  BY ParametersAssumption
<1> QED  BY <1>1, <1>2, <1>3, <1>4

\* A mixing layer has a state of field elements.
LEMMA MixedInField ==
  ASSUME NEW a \in Arities, NEW matrix \in [Words(a) -> [Words(a) -> Fr]],
         NEW nonlinear \in [Words(a) -> Fr]
  PROVE  Mixed(a, matrix, nonlinear) \in StatesOf(Width(a))
<1>1. Width(a) \in {2, 3} /\ Words(a) = 0 .. Width(a) - 1
  BY Shapes
<1>2. ASSUME NEW word \in Words(a)
      PROVE  Mixed(a, matrix, nonlinear)[word] \in Fr
  <2> DEFINE Term(n) == Mul(nonlinear[n - 1], matrix[word][n - 1])
             Sum(f, n) == IF n = 0 THEN 0 ELSE Add(f[n - 1], Term(n))
             sum == CHOOSE f : f = [n \in 0 .. Width(a) |-> Sum(f, n)]
             f1 == Add(0, Term(1))
             f2 == Add(f1, Term(2))
             f3 == Add(f2, Term(3))
             g == [n \in 0 .. Width(a) |-> IF n = 0 THEN 0 ELSE IF n = 1 THEN f1
                                           ELSE IF n = 2 THEN f2 ELSE f3]
  <2>1. Mixed(a, matrix, nonlinear)[word] = sum[Width(a)]
    BY DEF Mixed
  <2>2. \A n \in 1 .. Width(a) : Term(n) \in Fr
    <3> SUFFICES ASSUME NEW n \in 1 .. Width(a)  PROVE Term(n) \in Fr
      OBVIOUS
    <3>1. n - 1 \in Words(a)
      BY <1>1
    <3> QED  BY <3>1, Closed
  <2> HIDE DEF Term
  <2>3. f1 \in Fr /\ f2 \in Fr /\ (Width(a) = 3 => f3 \in Fr)
    <3>1. 0 \in Fr
      BY FieldAssumption DEF Fr
    <3>2. f1 \in Fr
      BY <1>1, <2>2, <3>1, Closed
    <3>3. f2 \in Fr
      BY <1>1, <2>2, <3>2, Closed
    <3> QED  BY <1>1, <2>2, <3>2, <3>3, Closed
  <2>4. g = [n \in 0 .. Width(a) |-> Sum(g, n)]
    <3> HIDE DEF f1, f2, f3
    <3>1. f1 = Add(0, Term(1)) /\ f2 = Add(f1, Term(2)) /\ f3 = Add(f2, Term(3))
      BY DEF f1, f2, f3
    <3>2. ASSUME NEW n \in 0 .. Width(a)  PROVE g[n] = Sum(g, n)
      <4>1. CASE n = 0
        BY <4>1
      <4>2. CASE n = 1
        BY <1>1, <3>1, <4>2
      <4>3. CASE n = 2
        BY <1>1, <3>1, <4>3
      <4>4. CASE n = 3
        BY <1>1, <3>1, <4>4
      <4> QED  BY <1>1, <4>1, <4>2, <4>3, <4>4
    <3> QED  BY <3>2
  <2>5. sum = [n \in 0 .. Width(a) |-> Sum(sum, n)]
    <3> HIDE DEF g
    <3> QED  BY <2>4
  <2> HIDE DEF sum, g
  <2>6. /\ sum[0] = 0 /\ sum[1] = f1 /\ sum[2] = f2
        /\ Width(a) = 3 => sum[3] = f3
    <3>1. \A n \in 0 .. Width(a) : sum[n] = Sum(sum, n)
      BY <2>5
    <3> HIDE DEF Sum
    <3>2. sum[0] = Sum(sum, 0) /\ sum[1] = Sum(sum, 1) /\ sum[2] = Sum(sum, 2)
      BY <1>1, <3>1
    <3>3. Width(a) = 3 => sum[3] = Sum(sum, 3)
      BY <3>1
    <3> QED  BY <3>2, <3>3 DEF Sum
  <2> QED  BY <1>1, <2>1, <2>3, <2>6
<1>3. Mixed(a, matrix, nonlinear) = [word \in Words(a) |-> Mixed(a, matrix, nonlinear)[word]]
  BY DEF Mixed
<1> QED  BY <1>1, <1>2, <1>3 DEF StatesOf

-----------------------------------------------------------------------------
(* One round, in each copy *)

\* What a round's nonlinear layer makes of a state.
Nonlinear(a, n, current) ==
  [word \in Words(a) |->
     IF n \notin Half .. PartialEnd(a) - 1 \/ word = 0
     THEN Fifth(Add(current[word], RoundConstant(a, n, word)))
     ELSE Add(current[word], RoundConstant(a, n, word))]

OneRound(a, n, current) == Mixed(a, MDS[a], Nonlinear(a, n, current))

LEMMA RoundInField ==
  ASSUME NEW a \in Arities, NEW n \in 0 .. Rounds(a) - 1, NEW current \in StatesOf(Width(a))
  PROVE  OneRound(a, n, current) \in StatesOf(Width(a))
<1>1. \A word \in Words(a) :
        /\ Add(current[word], RoundConstant(a, n, word)) \in Fr
        /\ Fifth(Add(current[word], RoundConstant(a, n, word))) \in Fr
  BY Shapes, Closed, FifthInField DEF StatesOf
<1>2. Nonlinear(a, n, current) \in [Words(a) -> Fr]
  BY <1>1 DEF Nonlinear
<1> QED  BY <1>2, Shapes, MixedInField DEF OneRound

\* A full round is one of the first or of the last.
LEMMA FullRounds ==
  ASSUME NEW a \in Arities, NEW n \in 0 .. Rounds(a) - 1
  PROVE  n \notin Half .. PartialEnd(a) - 1 <=> n < Half \/ n >= PartialEnd(a)
  BY Shapes

LEMMA NativeRounds ==
  ASSUME NEW a \in Arities, NEW n \in 0 .. Rounds(a) - 1, NEW current
  PROVE  NativeRound(a, n, current) = OneRound(a, n, current)
<1> DEFINE shifted == AddConstants(a, n, current)
<1>1. 0 \in Words(a)
  BY Shapes
<1>2. CASE n < Half \/ n >= PartialEnd(a)
  <2>1. FullSbox(a, shifted) = Nonlinear(a, n, current)
    BY <1>2, FullRounds DEF FullSbox, AddConstants, Nonlinear
  <2> QED  BY <1>2, <2>1 DEF NativeRound, OneRound
<1>3. CASE ~ (n < Half \/ n >= PartialEnd(a))
  <2>1. PartialSbox(shifted) = Nonlinear(a, n, current)
    BY <1>1, <1>3, FullRounds DEF PartialSbox, AddConstants, Nonlinear
  <2> QED  BY <1>3, <2>1 DEF NativeRound, OneRound
<1> QED  BY <1>2, <1>3

\* Row n and column i of a list packed in rows of w.
LEMMA Packing ==
  ASSUME NEW w \in {2, 3}, NEW rows \in Nat, NEW n \in 0 .. rows - 1, NEW i \in 0 .. w - 1
  PROVE  /\ n * w + i \in 0 .. w * rows - 1
         /\ (n * w + i) \div w = n
         /\ (n * w + i) % w = i
<1>1. CASE w = 2
  <2>1. n * 2 + i \in 0 .. 2 * rows - 1 /\ (n * 2 + i) \div 2 = n /\ (n * 2 + i) % 2 = i
    BY <1>1
  <2> QED  BY <1>1, <2>1
<1>2. CASE w = 3
  <2>1. n * 3 + i \in 0 .. 3 * rows - 1 /\ (n * 3 + i) \div 3 = n /\ (n * 3 + i) % 3 = i
    BY <1>2
  <2> QED  BY <1>2, <2>1
<1> QED  BY <1>1, <1>2

\* The packed constants are read where they were written.
LEMMA Unpacked ==
  ASSUME NEW a \in Arities, NEW n \in 0 .. Rounds(a) - 1, NEW i \in Words(a)
  PROVE  PackedConstants(a)[n * Width(a) + i] = RoundConstant(a, n, i)
<1>1. Width(a) \in {2, 3} /\ Rounds(a) \in Nat /\ i \in 0 .. Width(a) - 1
  BY Shapes
<1>2. /\ n * Width(a) + i \in 0 .. Width(a) * Rounds(a) - 1
      /\ (n * Width(a) + i) \div Width(a) = n
      /\ (n * Width(a) + i) % Width(a) = i
  BY <1>1, Packing
<1> QED  BY <1>2, Zenon DEF PackedConstants

LEMMA UnpackedMatrix ==
  ASSUME NEW a \in Arities
  PROVE  SolidityMatrix(a) = MDS[a]
<1>1. ASSUME NEW i \in Words(a), NEW j \in Words(a)
      PROVE  PackedMds(a)[i * Width(a) + j] = MDS[a][i][j]
  <2>1. Width(a) \in {2, 3} /\ Width(a) \in Nat /\ i \in 0 .. Width(a) - 1 /\ j \in 0 .. Width(a) - 1
    BY Shapes
  <2>2. /\ i * Width(a) + j \in 0 .. Width(a) * Width(a) - 1
        /\ (i * Width(a) + j) \div Width(a) = i
        /\ (i * Width(a) + j) % Width(a) = j
    BY <2>1, Packing
  <2> QED  BY <2>2, Zenon DEF PackedMds
<1>2. MDS[a] = [i \in Words(a) |-> [j \in Words(a) |-> MDS[a][i][j]]]
  BY Shapes
<1> QED  BY <1>1, <1>2 DEF SolidityMatrix

LEMMA SolidityRounds ==
  ASSUME NEW a \in Arities, NEW n \in 0 .. Rounds(a) - 1, NEW current
  PROVE  SolidityRound(a, n, current) = OneRound(a, n, current)
<1>1. \A i \in Words(a) : PackedConstants(a)[n * Width(a) + i] = RoundConstant(a, n, i)
  BY Unpacked
<1> QED  BY <1>1, UnpackedMatrix, FullRounds DEF SolidityRound, OneRound, Nonlinear

LEMMA SpikeRounds ==
  ASSUME NEW n \in 0 .. Rounds(2) - 1, NEW current
  PROVE  /\ Permuted(n, current) = OneRound(2, n, current)
         /\ Poseidon2Round(n, current) = OneRound(2, n, current)
<1>1. /\ 2 \in Arities /\ Width(2) = 3 /\ Words(2) = 0 .. 2
      /\ PartialEnd(2) = Half + PARTIAL_ROUNDS[2]
  BY DEF Arities, Width, Words, PartialEnd
<1>2. Permuted(n, current) = OneRound(2, n, current)
  <2> DEFINE shifted == AddConstants(2, n, current)
  <2>1. SelectsFull(n) <=> n \notin Half .. PartialEnd(2) - 1
    <3>1. Half \in Nat /\ PARTIAL_ROUNDS[2] \in Nat
      BY <1>1, Shapes, ParametersAssumption
    <3>2. Half + PARTIAL_ROUNDS[2] - 1 = PartialEnd(2) - 1
      BY <1>1, <3>1
    <3> QED  BY <3>2 DEF SelectsFull
  <2>2. CASE SelectsFull(n)
    <3>1. FullSbox(2, shifted) = Nonlinear(2, n, current)
      BY <2>1, <2>2 DEF FullSbox, AddConstants, Nonlinear
    <3> QED  BY <2>2, <3>1 DEF Permuted, OneRound
  <2>3. CASE ~ SelectsFull(n)
    <3>1. PartialSbox(shifted) = Nonlinear(2, n, current)
      BY <1>1, <2>1, <2>3 DEF PartialSbox, AddConstants, Nonlinear
    <3> QED  BY <2>3, <3>1 DEF Permuted, OneRound
  <2> QED  BY <2>2, <2>3
<1>3. Poseidon2Round(n, current) = OneRound(2, n, current)
  <2> DEFINE shifted == [i \in Words(2) |-> Add(current[i], PackedConstants(2)[n * 3 + i])]
             first   == PowFive({0}, shifted)
  <2>1. shifted = [i \in Words(2) |-> Add(current[i], RoundConstant(2, n, i))]
    BY <1>1, Unpacked
  <2> HIDE DEF shifted
  <2>2. CASE PowersAllWords(n)
    <3>1. PowFive({1, 2}, first) = Nonlinear(2, n, current)
      BY <1>1, <2>1, <2>2, FullRounds, LiteralsAssumption
      DEF PowFive, PowersAllWords, Nonlinear
    <3> QED  BY <2>2, <3>1, <1>1, UnpackedMatrix DEF Poseidon2Round, OneRound, shifted
  <2>3. CASE ~ PowersAllWords(n)
    <3>1. first = Nonlinear(2, n, current)
      BY <1>1, <2>1, <2>3, FullRounds, LiteralsAssumption
      DEF PowFive, PowersAllWords, Nonlinear
    <3> QED  BY <2>3, <3>1, <1>1, UnpackedMatrix DEF Poseidon2Round, OneRound, shifted
  <2> QED  BY <2>2, <2>3
<1> QED  BY <1>2, <1>3

-----------------------------------------------------------------------------
(* The trace *)

\* Each row is a round's outcome on the row before, whoever assigned it.
TraceInv ==
  /\ arity \in Arities
  /\ filledBy \in {"synthesis", "anybody"}
  /\ inputs \in [1 .. arity -> Fr]
  /\ round \in 0 .. Rounds(arity)
  /\ state \in [0 .. round -> StatesOf(Width(arity))]
  /\ state[0] = Start(arity, inputs)
  /\ \A n \in 0 .. round - 1 : state[n + 1] = OneRound(arity, n, state[n])

LEMMA WitnessRounds ==
  ASSUME NEW n, NEW current
  PROVE  WitnessRound(n, current) = OneRound(arity, n, current)
  BY DEF WitnessRound, OneRound, Nonlinear, IsFull

\* The gate has one solution.
LEMMA GateSolved ==
  ASSUME arity \in Arities, NEW n \in 0 .. Rounds(arity) - 1,
         NEW current \in StatesOf(Width(arity)), NEW next \in StatesOf(Width(arity))
  PROVE  RoundGate(n, current, next) <=> next = OneRound(arity, n, current)
<1> DEFINE mixed == OneRound(arity, n, current)
<1>1. mixed \in StatesOf(Width(arity))
  BY RoundInField
<1>2. RoundGate(n, current, next) <=> \A word \in Words(arity) : Sub(next[word], mixed[word]) = 0
  BY DEF RoundGate, OneRound, Nonlinear, IsFull
<1> HIDE DEF mixed
<1>3. \A word \in Words(arity) : Sub(next[word], mixed[word]) = 0 <=> next[word] = mixed[word]
  BY <1>1, Difference, Shapes DEF StatesOf
<1>4. next = mixed <=> \A word \in Words(arity) : next[word] = mixed[word]
  <2>1. next \in [Words(arity) -> Fr] /\ mixed \in [Words(arity) -> Fr]
    BY <1>1, Shapes DEF StatesOf
  <2> HIDE DEF Words, Fr
  <2>2. DOMAIN next = Words(arity) /\ DOMAIN mixed = Words(arity)
    BY <2>1
  <2>3. ASSUME \A word \in Words(arity) : next[word] = mixed[word]  PROVE next = mixed
    <3>1. next = [word \in Words(arity) |-> next[word]]
      BY <2>1
    <3>2. mixed = [word \in Words(arity) |-> mixed[word]]
      BY <2>1
    <3> QED  BY <3>1, <3>2, <2>3
  <2> QED  BY <2>3
<1> QED  BY <1>2, <1>3, <1>4 DEF mixed

LEMMA StartOfTrace ==
  ASSUME arity \in Arities, inputs \in [1 .. arity -> Fr]
  PROVE  /\ Start(arity, inputs) \in StatesOf(Width(arity))
         /\ \A first \in StatesOf(Width(arity)) :
              ZeroCapacity(first) /\ InputsCopied(first) <=> first = Start(arity, inputs)
<1>1. /\ 0 \in Fr /\ 0 \in Words(arity)
      /\ \A word \in Words(arity) : word # 0 => word \in 1 .. arity
      /\ \A word \in 1 .. arity : word \in Words(arity) /\ word # 0
      /\ Words(arity) = 0 .. Width(arity) - 1
  BY FieldAssumption DEF Fr, Arities, Words, Width
<1>2. Start(arity, inputs) \in [Words(arity) -> Fr]
  BY <1>1 DEF Start
<1>3. ASSUME NEW first \in [Words(arity) -> Fr]
      PROVE  ZeroCapacity(first) /\ InputsCopied(first) <=> first = Start(arity, inputs)
  BY <1>1, <1>2 DEF ZeroCapacity, InputsCopied, Start
<1> QED  BY <1>1, <1>2, <1>3 DEF StatesOf

LEMMA InitTrace == Init => TraceInv
<1> SUFFICES ASSUME Init  PROVE TraceInv
  OBVIOUS
<1>1. arity \in Arities /\ inputs \in [1 .. arity -> Fr] /\ round = 0
  BY DEF Init
<1>2. state[0] = Start(arity, inputs) /\ state \in [0 .. 0 -> StatesOf(Width(arity))]
  <2>1. PICK first \in StatesOf(Width(arity)) :
          /\ IF filledBy = "synthesis" THEN first = Start(arity, inputs)
                                       ELSE ZeroCapacity(first) /\ InputsCopied(first)
          /\ state = [n \in {0} |-> first]
    BY DEF Init
  <2>2. first = Start(arity, inputs)
    BY <1>1, <2>1, StartOfTrace
  <2> QED  BY <2>1, <2>2
<1>3. Rounds(arity) \in Nat
  BY <1>1, Shapes
<1> QED  BY <1>1, <1>2, <1>3 DEF Init, TraceInv

LEMMA RowAssigned ==
  ASSUME TraceInv, round < Rounds(arity), NEW next, next = OneRound(arity, round, state[round]),
         AssignRow(next)
  PROVE  TraceInv'
<1>1. /\ round \in 0 .. Rounds(arity) - 1 /\ round \in 0 .. round
      /\ round + 1 \in 0 .. Rounds(arity) /\ round \in Nat
  BY Shapes DEF TraceInv
<1>2. next \in StatesOf(Width(arity))
  BY <1>1, RoundInField DEF TraceInv
<1>3. /\ state' = [n \in 0 .. round + 1 |-> IF n = round + 1 THEN next ELSE state[n]]
      /\ round' = round + 1 /\ UNCHANGED <<arity, filledBy, inputs>>
  BY DEF AssignRow
<1>4. /\ state' \in [0 .. round' -> StatesOf(Width(arity'))]
      /\ \A n \in 0 .. round : state'[n] = state[n]
      /\ state'[round + 1] = next
  BY <1>1, <1>2, <1>3 DEF TraceInv
<1>5. ASSUME NEW n \in 0 .. round' - 1  PROVE state'[n + 1] = OneRound(arity', n, state'[n])
  <2>1. CASE n = round
    BY <1>1, <1>3, <1>4, <2>1
  <2>2. CASE n \in 0 .. round - 1
    <3>1. n \in 0 .. round /\ n + 1 \in 0 .. round
      BY <1>1, <2>2
    <3>2. state[n + 1] = OneRound(arity, n, state[n])
      BY <2>2 DEF TraceInv
    <3> QED  BY <1>3, <1>4, <3>1, <3>2
  <2> QED  BY <1>1, <1>3, <2>1, <2>2
<1>6. state'[0] = Start(arity', inputs')
  BY <1>1, <1>3, <1>4 DEF TraceInv
<1> QED  BY <1>1, <1>3, <1>4, <1>5, <1>6 DEF TraceInv

LEMMA NextTrace == TraceInv /\ [Next]_vars => TraceInv'
<1> SUFFICES ASSUME TraceInv, [Next]_vars  PROVE TraceInv'
  OBVIOUS
<1>1. CASE HashRound
  <2>1. AssignRow(OneRound(arity, round, state[round])) /\ round < Rounds(arity)
    BY <1>1, WitnessRounds DEF HashRound
  <2> QED  BY <2>1, RowAssigned
<1>2. CASE AnyRound
  <2>1. PICK next \in StatesOf(Width(arity)) : RoundGate(round, state[round], next) /\ AssignRow(next)
    BY <1>2 DEF AnyRound
  <2>2. round < Rounds(arity) /\ round \in 0 .. Rounds(arity) - 1 /\ round \in 0 .. round
    BY <1>2, Shapes DEF AnyRound, TraceInv
  <2>3. next = OneRound(arity, round, state[round])
    BY <2>1, <2>2, GateSolved DEF TraceInv
  <2> QED  BY <2>1, <2>2, <2>3, RowAssigned
<1>3. CASE UNCHANGED vars
  BY <1>3 DEF vars, TraceInv
<1> QED  BY <1>1, <1>2, <1>3 DEF Next

LEMMA TraceInvariant == Spec => []TraceInv
  BY InitTrace, NextTrace, PTL DEF Spec
-----------------------------------------------------------------------------
(* Complete traces *)

\* Two sequences of states that start alike and go on alike are one.
LEMMA SameRows ==
  ASSUME NEW last \in Nat, NEW f, NEW g, f[0] = g[0],
         \A n \in 0 .. last - 1 : f[n] = g[n] => f[n + 1] = g[n + 1]
  PROVE  f[last] = g[last]
<1> DEFINE Bad == {n \in Nat : n <= last /\ f[n] # g[n]}
<1>1. Bad = {}
  <2> SUFFICES ASSUME Bad # {}  PROVE FALSE
    OBVIOUS
  <2>1. PICK k \in Bad : \A j \in Bad : ~ (<<j, k>> \in OpToRel(<, Nat))
    BY WFMin, NatLessThanWellFounded
  <2>2. \A j \in Bad : ~ (j < k)
    BY <2>1, Zenon DEF OpToRel
  <2>3. k # 0 /\ k - 1 \in 0 .. last - 1 /\ (k - 1) + 1 = k
    OBVIOUS
  <2>4. k - 1 \notin Bad
    BY <2>2, <2>3
  <2> QED  BY <2>3, <2>4
<1> QED  BY <1>1

\* In a complete trace each row is what OneRound makes of the one before.
LEMMA CompleteTrace ==
  ASSUME TraceInv, Complete
  PROVE  /\ Rounds(arity) \in Nat
         /\ state = [n \in 0 .. Rounds(arity) |-> state[n]]
         /\ \A n \in 0 .. Rounds(arity) : state[n] \in StatesOf(Width(arity))
         /\ \A n \in 0 .. Rounds(arity) :
              state[n] = IF n = 0 THEN Start(arity, inputs)
                                  ELSE OneRound(arity, n - 1, state[n - 1])
<1>1. Rounds(arity) \in Nat /\ round = Rounds(arity)
  BY Shapes DEF TraceInv, Complete
<1>2. ASSUME NEW n \in 0 .. Rounds(arity), n # 0
      PROVE  state[n] = OneRound(arity, n - 1, state[n - 1])
  <2>1. n - 1 \in 0 .. round - 1 /\ (n - 1) + 1 = n
    BY <1>1, <1>2
  <2> QED  BY <2>1 DEF TraceInv
<1>3. state[0] = Start(arity, inputs)
  BY DEF TraceInv
<1>4. state \in [0 .. Rounds(arity) -> StatesOf(Width(arity))]
  BY <1>1 DEF TraceInv
<1> QED  BY <1>1, <1>2, <1>3, <1>4

\* The loop of each copy, as far as row n.
NativeTurn(f, n) ==
  IF n = 0 THEN Start(arity, inputs) ELSE NativeRound(arity, n - 1, f[n - 1])

SolidityTurn(f, n) ==
  IF n = 0 THEN Start(arity, inputs) ELSE SolidityRound(arity, n - 1, f[n - 1])

SpikeTurn(f, n) ==
  IF n = 0 THEN Start(2, inputs) ELSE Poseidon2Round(n - 1, f[n - 1])

LEMMA NativeLoop ==
  ASSUME TraceInv, Complete
  PROVE  NativeHash(arity, inputs) = state[Rounds(arity)][0]
<1> DEFINE after == CHOOSE f : f = [n \in 0 .. Rounds(arity) |-> NativeTurn(f, n)]
<1>1. arity \in Arities /\ Rounds(arity) \in Nat
  BY CompleteTrace DEF TraceInv
<1>2. \A n \in 0 .. Rounds(arity) : state[n] = NativeTurn(state, n)
  <2> SUFFICES ASSUME NEW n \in 0 .. Rounds(arity)  PROVE state[n] = NativeTurn(state, n)
    OBVIOUS
  <2>1. CASE n = 0
    BY <2>1, CompleteTrace DEF NativeTurn
  <2>2. CASE n # 0
    <3>1. n - 1 \in 0 .. Rounds(arity) - 1
      BY <1>1, <2>2
    <3> QED  BY <1>1, <2>2, <3>1, CompleteTrace, NativeRounds DEF NativeTurn
  <2> QED  BY <2>1, <2>2
<1>3. after = [n \in 0 .. Rounds(arity) |-> NativeTurn(after, n)]
  <2>1. state = [n \in 0 .. Rounds(arity) |-> NativeTurn(state, n)]
    BY <1>2, CompleteTrace
  <2> QED  BY <2>1
<1>4. NativeHash(arity, inputs) = after[Rounds(arity)][0]
  BY DEF NativeHash, FirstWordAfter, NativeTurn
<1> HIDE DEF after
<1>5. after[Rounds(arity)] = state[Rounds(arity)]
  <2>1. \A n \in 0 .. Rounds(arity) : after[n] = NativeTurn(after, n)
    BY <1>3
  <2>2. after[0] = state[0]
    BY <1>1, <1>2, <2>1 DEF NativeTurn
  <2>3. ASSUME NEW n \in 0 .. Rounds(arity) - 1, after[n] = state[n]
        PROVE  after[n + 1] = state[n + 1]
    <3>1. n + 1 \in 0 .. Rounds(arity) /\ n + 1 # 0 /\ (n + 1) - 1 = n
      BY <1>1
    <3>2. after[n + 1] = NativeTurn(after, n + 1) /\ state[n + 1] = NativeTurn(state, n + 1)
      BY <1>2, <2>1, <3>1
    <3> QED  BY <2>3, <3>1, <3>2 DEF NativeTurn
  <2> QED  BY <1>1, <2>2, <2>3, SameRows
<1> QED  BY <1>4, <1>5

LEMMA SolidityLoop ==
  ASSUME TraceInv, Complete
  PROVE  SolidityHash(arity, inputs) = state[Rounds(arity)][0]
<1> DEFINE after == CHOOSE f : f = [n \in 0 .. Rounds(arity) |-> SolidityTurn(f, n)]
<1>1. arity \in Arities /\ Rounds(arity) \in Nat
  BY CompleteTrace DEF TraceInv
<1>2. \A n \in 0 .. Rounds(arity) : state[n] = SolidityTurn(state, n)
  <2> SUFFICES ASSUME NEW n \in 0 .. Rounds(arity)  PROVE state[n] = SolidityTurn(state, n)
    OBVIOUS
  <2>1. CASE n = 0
    BY <2>1, CompleteTrace DEF SolidityTurn
  <2>2. CASE n # 0
    <3>1. n - 1 \in 0 .. Rounds(arity) - 1
      BY <1>1, <2>2
    <3> QED  BY <1>1, <2>2, <3>1, CompleteTrace, SolidityRounds DEF SolidityTurn
  <2> QED  BY <2>1, <2>2
<1>3. after = [n \in 0 .. Rounds(arity) |-> SolidityTurn(after, n)]
  <2>1. state = [n \in 0 .. Rounds(arity) |-> SolidityTurn(state, n)]
    BY <1>2, CompleteTrace
  <2> QED  BY <2>1
<1>4. SolidityHash(arity, inputs) = after[Rounds(arity)][0]
  <2>1. \A i \in 1 .. arity : inputs[i] < MODULUS
    BY FieldAssumption DEF TraceInv, Fr
  <2> QED  BY <2>1 DEF SolidityHash, FirstWordAfter, SolidityTurn
<1> HIDE DEF after
<1>5. after[Rounds(arity)] = state[Rounds(arity)]
  <2>1. \A n \in 0 .. Rounds(arity) : after[n] = SolidityTurn(after, n)
    BY <1>3
  <2>2. after[0] = state[0]
    BY <1>1, <1>2, <2>1 DEF SolidityTurn
  <2>3. ASSUME NEW n \in 0 .. Rounds(arity) - 1, after[n] = state[n]
        PROVE  after[n + 1] = state[n + 1]
    <3>1. n + 1 \in 0 .. Rounds(arity) /\ n + 1 # 0 /\ (n + 1) - 1 = n
      BY <1>1
    <3>2. after[n + 1] = SolidityTurn(after, n + 1) /\ state[n + 1] = SolidityTurn(state, n + 1)
      BY <1>2, <2>1, <3>1
    <3> QED  BY <2>3, <3>1, <3>2 DEF SolidityTurn
  <2> QED  BY <1>1, <2>2, <2>3, SameRows
<1> QED  BY <1>4, <1>5

LEMMA SpikeLoop ==
  ASSUME TraceInv, Complete, arity = 2
  PROVE  Poseidon2Hash(inputs) = state[Rounds(arity)][0]
<1> DEFINE after == CHOOSE f : f = [n \in 0 .. Rounds(arity) |-> SpikeTurn(f, n)]
<1>1. arity \in Arities /\ Rounds(arity) \in Nat
  BY CompleteTrace DEF TraceInv
<1>2. \A n \in 0 .. Rounds(arity) : state[n] = SpikeTurn(state, n)
  <2> SUFFICES ASSUME NEW n \in 0 .. Rounds(arity)  PROVE state[n] = SpikeTurn(state, n)
    OBVIOUS
  <2>1. CASE n = 0
    BY <2>1, CompleteTrace DEF SpikeTurn
  <2>2. CASE n # 0
    <3>1. n - 1 \in 0 .. Rounds(arity) - 1
      BY <1>1, <2>2
    <3> QED  BY <1>1, <2>2, <3>1, CompleteTrace, SpikeRounds DEF SpikeTurn
  <2> QED  BY <2>1, <2>2
<1>3. after = [n \in 0 .. Rounds(arity) |-> SpikeTurn(after, n)]
  <2>1. state = [n \in 0 .. Rounds(arity) |-> SpikeTurn(state, n)]
    BY <1>2, CompleteTrace
  <2> QED  BY <2>1
<1>4. Poseidon2Hash(inputs) = after[Rounds(arity)][0]
  BY LiteralsAssumption DEF Poseidon2Hash, SpikeTurn
<1> HIDE DEF after
<1>5. after[Rounds(arity)] = state[Rounds(arity)]
  <2>1. \A n \in 0 .. Rounds(arity) : after[n] = SpikeTurn(after, n)
    BY <1>3
  <2>2. after[0] = state[0]
    BY <1>1, <1>2, <2>1 DEF SpikeTurn
  <2>3. ASSUME NEW n \in 0 .. Rounds(arity) - 1, after[n] = state[n]
        PROVE  after[n + 1] = state[n + 1]
    <3>1. n + 1 \in 0 .. Rounds(arity) /\ n + 1 # 0 /\ (n + 1) - 1 = n
      BY <1>1
    <3>2. after[n + 1] = SpikeTurn(after, n + 1) /\ state[n + 1] = SpikeTurn(state, n + 1)
      BY <1>2, <2>1, <3>1
    <3> QED  BY <2>3, <3>1, <3>2 DEF SpikeTurn
  <2> QED  BY <1>1, <2>2, <2>3, SameRows
<1> QED  BY <1>4, <1>5

-----------------------------------------------------------------------------
(* Theorems *)

\* Soundness of the hash gadget (gadgets/poseidon.rs:113-190): whoever filled the rows,
\* a trace that passes the gates ends in the native hash of the gadget's inputs.
THEOREM DigestsAreNative == Spec => []OnlyNativeDigests
<1>1. TraceInv => OnlyNativeDigests
  BY NativeLoop DEF OnlyNativeDigests, Satisfied, Complete, Digest
<1> QED  BY <1>1, TraceInvariant, PTL

\* Completeness: the rows that `hash` assigns pass every gate and copy constraint.
THEOREM HashIsComplete == Spec => []HashSatisfies
<1>1. TraceInv => HashSatisfies
  <2> SUFFICES ASSUME TraceInv, Complete  PROVE Satisfied
    BY DEF HashSatisfies
  <2>1. arity \in Arities /\ inputs \in [1 .. arity -> Fr] /\ round = Rounds(arity) /\ round \in Nat
    BY CompleteTrace DEF TraceInv, Complete
  <2>2. ZeroCapacity(state[0]) /\ InputsCopied(state[0])
    BY <2>1, StartOfTrace DEF TraceInv
  <2>3. ASSUME NEW n \in 0 .. round - 1  PROVE RoundGate(n, state[n], state[n + 1])
    <3>1. n \in 0 .. round /\ n + 1 \in 0 .. round /\ n \in 0 .. Rounds(arity) - 1
      BY <2>1
    <3>2. state[n] \in StatesOf(Width(arity)) /\ state[n + 1] \in StatesOf(Width(arity))
      BY <2>1, <3>1, CompleteTrace
    <3>3. state[n + 1] = OneRound(arity, n, state[n])
      BY DEF TraceInv
    <3> QED  BY <2>1, <3>1, <3>2, <3>3, GateSolved
  <2> QED  BY <2>2, <2>3 DEF Satisfied
<1> QED  BY <1>1, TraceInvariant, PTL

\* The contract's loop over packed constants (solidity.rs:22-110) computes the digest.
THEOREM ContractHashesAlike == Spec => []ContractComputesTheDigest
<1>1. TraceInv => ContractComputesTheDigest
  BY SolidityLoop DEF ContractComputesTheDigest, Satisfied, Complete, Digest
<1> QED  BY <1>1, TraceInvariant, PTL

\* The spike's circuit and contract (spikes/bn254-kzg-evm) are the same hash of two
\* inputs, and its circuit admits one digest.
THEOREM SpikeHashesAlike == Spec => []SpikeHasTheSameHash
<1>1. TraceInv => SpikeHasTheSameHash
  <2> SUFFICES ASSUME TraceInv, arity = 2, Complete
               PROVE  /\ \A n \in 0 .. round - 1 : state[n + 1] = Permuted(n, state[n])
                      /\ \A instance \in Fr :
                           Accepted(state, instance) <=> instance = Poseidon2Hash(FirstRowInputs)
    BY DEF SpikeHasTheSameHash
  <2>1. /\ round = Rounds(2) /\ Rounds(2) \in Nat
        /\ inputs \in [1 .. 2 -> Fr] /\ state[0] = Start(2, inputs)
    BY CompleteTrace DEF TraceInv, Complete
  <2>2. \A n \in 0 .. Rounds(2) - 1 : state[n + 1] = Permuted(n, state[n])
    BY <2>1, SpikeRounds DEF TraceInv
  <2>3. FirstRowInputs = inputs
    BY <2>1 DEF FirstRowInputs, Start, Words, Width
  <2>4. InitialGate(state[0])
    BY <2>1 DEF InitialGate, Start, Words, Width
  <2>5. ASSUME NEW n \in 0 .. Rounds(2) - 1  PROVE RoundHolds(n, state[n], state[n + 1])
    <3>1. state[n + 1] = OneRound(2, n, state[n]) /\ n + 1 \in 0 .. Rounds(2)
      BY <2>1 DEF TraceInv
    <3>2. state[n + 1] \in StatesOf(Width(2))
      BY <3>1, CompleteTrace
    <3>3. \A word \in Words(2) : Sub(state[n + 1][word], OneRound(2, n, state[n])[word]) = 0
      <4>1. \A word \in Words(2) : state[n + 1][word] \in Fr
        BY <3>2 DEF StatesOf, Words
      <4>2. \A word \in Words(2) : Sub(state[n + 1][word], state[n + 1][word]) = 0
        BY <4>1, Difference
      <4> QED  BY <3>1, <4>2
    <3>4. SelectsFull(n) <=> n \notin Half .. PartialEnd(2) - 1
      <4>1. Half \in Nat /\ PARTIAL_ROUNDS[2] \in Nat
        BY Shapes, ParametersAssumption DEF Arities
      <4>2. Half + PARTIAL_ROUNDS[2] - 1 = PartialEnd(2) - 1
        BY <4>1 DEF PartialEnd
      <4> QED  BY <4>2 DEF SelectsFull
    <3> QED  BY <3>3, <3>4 DEF RoundHolds, OneRound, Nonlinear
  <2>6. Poseidon2Hash(inputs) = state[Rounds(2)][0]
    BY SpikeLoop
  <2> QED  BY <2>1, <2>2, <2>3, <2>4, <2>5, <2>6 DEF Accepted, DigestIsPublic
<1> QED  BY <1>1, TraceInvariant, PTL
=============================================================================
