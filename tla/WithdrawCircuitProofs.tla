----------------------- MODULE WithdrawCircuitProofs -----------------------
(***************************************************************************)
(* The whole circuit is sound and complete, for every field, depth, width  *)
(* and pair of hash functions.  What holds of the two gadgets is taken     *)
(* from their own proofs, as instances: a step of theirs keeps their       *)
(* invariants here, and the other steps keep off their cells, except that  *)
(* the leaf and the recipient are assigned before the first row of the     *)
(* gadget that takes them.                                                 *)
(***************************************************************************)
EXTENDS WithdrawCircuit, NaturalsInduction, WellFoundedInduction, TLAPS

MembershipLemmas == INSTANCE MerkleChipProofs
RangeLemmas == INSTANCE RangeChipProofs WITH recipient <- cell.recipient

(* The gadgets of the circuit are those of the lemmas *)

LEMMA FieldOfGadgets ==
  /\ MembershipLemmas!FieldAssumption /\ MembershipLemmas!ChipAssumption
  /\ RangeLemmas!FieldAssumption /\ RangeLemmas!WidthAssumption
<1>1. MembershipLemmas!FieldAssumption /\ RangeLemmas!FieldAssumption
  BY FieldAssumption DEF MembershipLemmas!FieldAssumption, MembershipLemmas!Fr, MembershipLemmas!Mul,
       RangeLemmas!FieldAssumption, RangeLemmas!Fr, RangeLemmas!Mul, Fr, Mul
<1>2. MembershipLemmas!ChipAssumption
  BY CircuitAssumption DEF MembershipLemmas!ChipAssumption, MembershipLemmas!Fr, Fr
<1>3. RangeLemmas!WidthAssumption
  BY CircuitAssumption DEF RangeLemmas!WidthAssumption, RangeLemmas!Rows, RangeLemmas!Steps
<1> QED  BY <1>1, <1>2, <1>3

LEMMA MembershipSteps ==
  ASSUME Membership!ComputeLevel \/ Membership!AnyLevel
  PROVE  MembershipLemmas!Next
  BY DEF Membership!ComputeLevel, Membership!AnyLevel, Membership!AssignLevel, Membership!Ordered,
         Membership!MerkleOrder, Membership!Copied, Membership!OrderRows, Membership!BooleanBit,
         Membership!Fr, Membership!Add, Membership!Sub, Membership!Mul,
         MembershipLemmas!Next,
         MembershipLemmas!ComputeLevel, MembershipLemmas!AnyLevel, MembershipLemmas!AssignLevel,
         MembershipLemmas!Ordered, MembershipLemmas!MerkleOrder, MembershipLemmas!Copied,
         MembershipLemmas!OrderRows, MembershipLemmas!BooleanBit,
         MembershipLemmas!Fr, MembershipLemmas!Add, MembershipLemmas!Sub, MembershipLemmas!Mul

LEMMA RangeSteps ==
  ASSUME Range!CheckRow \/ Range!AnyRow
  PROVE  RangeLemmas!Next
  BY DEF Range!CheckRow, Range!AnyRow, Range!Assign, Range!WitnessBit, Range!RecipientBits,
         Range!BooleanBit, Range!Fr, Range!Add, Range!Sub, Range!Mul,
         RangeLemmas!Next,
         RangeLemmas!CheckRow, RangeLemmas!AnyRow, RangeLemmas!Assign, RangeLemmas!WitnessBit,
         RangeLemmas!RecipientBits, RangeLemmas!BooleanBit,
         RangeLemmas!Fr, RangeLemmas!Add, RangeLemmas!Sub, RangeLemmas!Mul

LEMMA SameConstraints ==
  /\ Membership!Satisfied <=> MembershipLemmas!Satisfied
  /\ Range!Satisfied <=> RangeLemmas!Satisfied
<1>1. Membership!Satisfied <=> MembershipLemmas!Satisfied
  BY DEF Membership!Satisfied, Membership!Levels, Membership!MerkleOrder, Membership!Copied,
         Membership!BooleanBit, Membership!Sub, Membership!Mul,
         MembershipLemmas!Satisfied, MembershipLemmas!Levels, MembershipLemmas!MerkleOrder,
         MembershipLemmas!Copied, MembershipLemmas!BooleanBit, MembershipLemmas!Sub, MembershipLemmas!Mul
<1>2. Range!Satisfied <=> RangeLemmas!Satisfied
  BY DEF Range!Satisfied, Range!Steps, Range!ZeroAccumulator, Range!RecipientBits,
         Range!BooleanBit, Range!Sub, Range!Mul,
         RangeLemmas!Satisfied, RangeLemmas!Steps, RangeLemmas!ZeroAccumulator,
         RangeLemmas!RecipientBits, RangeLemmas!BooleanBit, RangeLemmas!Sub, RangeLemmas!Mul
<1> QED  BY <1>1, <1>2

(* Instances of the gadgets' lemmas *)

LEMMA MembershipInit == MembershipLemmas!Init => MembershipLemmas!TypeOK /\ MembershipLemmas!Constrained
  BY FieldOfGadgets, MembershipLemmas!InitConstrained

LEMMA MembershipKept ==
  MembershipLemmas!TypeOK /\ MembershipLemmas!Constrained /\ [MembershipLemmas!Next]_(MembershipLemmas!vars)
    => (MembershipLemmas!TypeOK /\ MembershipLemmas!Constrained)'
  BY FieldOfGadgets, MembershipLemmas!StepConstrained

LEMMA MembershipIsNative ==
  MembershipLemmas!TypeOK /\ MembershipLemmas!Constrained => MembershipLemmas!OnlyNativePaths
  BY FieldOfGadgets, MembershipLemmas!ConstrainedIsNative

LEMMA RangeInit == RangeLemmas!Init => RangeLemmas!Decomposes
  BY FieldOfGadgets, RangeLemmas!InitDecomposes

LEMMA RangeKept ==
  RangeLemmas!Decomposes /\ [RangeLemmas!Next]_(RangeLemmas!vars) => (RangeLemmas!Decomposes)'
  BY FieldOfGadgets, RangeLemmas!StepDecomposes

LEMMA RangeDecides ==
  RangeLemmas!Decomposes => RangeLemmas!CheckDecides /\ RangeLemmas!RecipientFits
<1>1. RangeLemmas!Decomposes => RangeLemmas!CheckDecides
  BY FieldOfGadgets, RangeLemmas!DecomposesDecides
<1>2. RangeLemmas!Decomposes => RangeLemmas!RecipientFits
  BY FieldOfGadgets, RangeLemmas!DecomposesFits DEF RangeLemmas!RecipientFits
<1> QED  BY <1>1, <1>2

LEMMA ConstraintsSatisfied ==
  MembershipLemmas!Constrained /\ level = TREE_DEPTH => Membership!Satisfied
  BY FieldOfGadgets, MembershipLemmas!ConstrainedSatisfies, SameConstraints

-----------------------------------------------------------------------------
(* The invariant: each gadget's own, and the cells that were handed on *)

Phases == {"note", "membership", "context", "range", "binding", "done"}

NoteHashed ==
  /\ node[0] = Hash[<<cell.nullifier, cell.secret>>]
  /\ hashed.nullifierHash.digest = HashOne[<<cell.nullifier>>]

BindingHashed ==
  hashed.binding.digest = Hash[<<Hash[<<cell.nullifier, cell.recipient>>], cell.domain>>]

Typed ==
  /\ filledBy \in Traces
  /\ phase \in Phases
  /\ cell \in [Cells -> Fr]
  /\ DOMAIN hashed = Calls

Paths ==
  /\ MembershipLemmas!TypeOK /\ MembershipLemmas!Constrained
  /\ phase = "note" => MembershipLemmas!Init
  /\ phase # "note" => NoteHashed
  /\ phase \in {"context", "range", "binding", "done"} => level = TREE_DEPTH

Digits ==
  /\ RangeLemmas!Decomposes
  /\ phase \in {"note", "membership", "context"} => RangeLemmas!Init
  /\ phase \in {"binding", "done"} => row = BITS

CircuitInv == Typed /\ Paths /\ Digits /\ (phase = "done" => BindingHashed)

LEMMA InitCircuit == Init => CircuitInv
<1> SUFFICES ASSUME Init  PROVE CircuitInv
  OBVIOUS
<1>1. 0 \in Fr
  BY FieldAssumption DEF Fr
<1>2. Typed
  BY <1>1 DEF Init, Typed, Phases
<1>3. MembershipLemmas!Init
  BY <1>1 DEF Init, Traces, Membership!Levels, Membership!UnassignedRow, MembershipLemmas!Init,
              MembershipLemmas!Levels, MembershipLemmas!UnassignedRow, MembershipLemmas!Fr, Fr
<1>4. RangeLemmas!Init
  <2>1. cell.recipient \in RangeLemmas!Fr /\ filledBy \in {"synthesis", "anybody"} /\ row = 0
    BY <1>1 DEF Init, Cells, Traces, RangeLemmas!Fr, Fr
  <2>2. bit = [n \in RangeLemmas!Steps |-> 0]
    BY DEF Init, Range!Steps, RangeLemmas!Steps
  <2>3. accumulator = [n \in RangeLemmas!Rows |-> IF n = 0 THEN 0 ELSE 0]
    BY DEF Init, Range!Rows, RangeLemmas!Rows
  <2>4. 0 \in RangeLemmas!Fr /\ RangeLemmas!ZeroAccumulator(0)
    BY <1>1 DEF RangeLemmas!Fr, RangeLemmas!ZeroAccumulator, Fr
  <2> QED  BY <2>1, <2>2, <2>3, <2>4 DEF RangeLemmas!Init
<1>5. Paths
  BY <1>3, MembershipInit DEF Init, Paths
<1>6. Digits
  BY <1>4, RangeInit DEF Init, Digits
<1> QED  BY <1>2, <1>5, <1>6 DEF Init, CircuitInv

LEMMA HashesKept ==
  ASSUME UNCHANGED <<cell, hashed>>, NoteHashed, node'[0] = node[0]
  PROVE  NoteHashed'
  BY DEF NoteHashed

\* Cells that did not change keep what holds of them.
LEMMA MembershipStutter ==
  ASSUME MembershipLemmas!TypeOK, MembershipLemmas!Constrained, UNCHANGED <<filledBy, level, node, order>>
  PROVE  MembershipLemmas!TypeOK' /\ MembershipLemmas!Constrained'
  BY MembershipKept DEF MembershipLemmas!vars

LEMMA RangeStutter ==
  ASSUME RangeLemmas!Decomposes, UNCHANGED <<cell, filledBy, row, accumulator, bit>>
  PROVE  RangeLemmas!Decomposes'
  BY RangeKept DEF RangeLemmas!vars

LEMMA NoteStep ==
  ASSUME CircuitInv, ComputeHashes
  PROVE  CircuitInv'
<1>1. PICK nullifier, secret \in Fr :
        cell' = [cell EXCEPT !.nullifier = nullifier, !.secret = secret]
  BY DEF ComputeHashes
<1>2. PICK inputs \in [commitment : Pairs, nullifierHash : Singles] :
        /\ inputs = NoteInputs(cell')
        /\ hashed' = [hashed EXCEPT !.commitment = Call(inputs.commitment),
                                    !.nullifierHash = Call(inputs.nullifierHash)]
  BY DEF ComputeHashes, NoteCopied
<1>3. /\ phase = "note" /\ phase' = "membership"
      /\ node' = [node EXCEPT ![0] = hashed'.commitment.digest]
      /\ UNCHANGED <<filledBy, level, order, row, accumulator, bit>>
  BY DEF ComputeHashes, rangeVars
<1>4. Typed'
  BY <1>1, <1>2, <1>3 DEF CircuitInv, Typed, Cells, Phases
<1>5. /\ hashed'.commitment.digest = Hash[<<cell'.nullifier, cell'.secret>>]
      /\ hashed'.nullifierHash.digest = HashOne[<<cell'.nullifier>>]
  BY <1>2 DEF CircuitInv, Typed, Calls, Call, NoteInputs
<1>6. Hash[<<cell'.nullifier, cell'.secret>>] \in Fr
  BY <1>4, CircuitAssumption DEF Typed, Cells
<1>7. node'[0] = Hash[<<cell'.nullifier, cell'.secret>>]
  <2>1. 0 \in DOMAIN node
    BY <1>3, CircuitAssumption DEF CircuitInv, Paths, MembershipLemmas!TypeOK
  <2> QED  BY <1>3, <1>5, <2>1
<1>8. MembershipLemmas!Init'
  <2>1. PICK leaf \in MembershipLemmas!Fr : node = [l \in 0 .. TREE_DEPTH |-> IF l = 0 THEN leaf ELSE 0]
    BY <1>3 DEF CircuitInv, Paths, MembershipLemmas!Init
  <2>2. node' = [l \in 0 .. TREE_DEPTH |-> IF l = 0 THEN hashed'.commitment.digest ELSE 0]
    BY <1>3, <2>1
  <2>3. hashed'.commitment.digest \in MembershipLemmas!Fr
    BY <1>5, <1>6 DEF MembershipLemmas!Fr, Fr
  <2> QED  BY <1>3, <2>2, <2>3 DEF CircuitInv, Paths, MembershipLemmas!Init, MembershipLemmas!Levels,
                                   MembershipLemmas!UnassignedRow
<1>9. MembershipLemmas!TypeOK' /\ MembershipLemmas!Constrained'
  BY <1>8, MembershipInit, PTL
<1>10. Paths'
  BY <1>3, <1>5, <1>7, <1>9 DEF Paths, NoteHashed
<1>11. cell'.recipient = cell.recipient
  BY <1>1 DEF CircuitInv, Typed, Cells
<1>12. Digits'
  <2>1. RangeLemmas!Decomposes'
    BY <1>3, <1>11, RangeKept DEF CircuitInv, Digits, RangeLemmas!vars
  <2>2. RangeLemmas!Init'
    BY <1>3, <1>11 DEF CircuitInv, Digits, RangeLemmas!Init, RangeLemmas!Steps, RangeLemmas!Rows,
                       RangeLemmas!Fr, RangeLemmas!ZeroAccumulator
  <2> QED  BY <1>3, <2>1, <2>2 DEF Digits
<1> QED  BY <1>3, <1>4, <1>10, <1>12 DEF CircuitInv

LEMMA RootStep ==
  ASSUME CircuitInv, ComputeRoot
  PROVE  CircuitInv'
<1>1. /\ phase = "membership"
      /\ Membership!ComputeLevel \/ Membership!AnyLevel
      /\ phase' = IF level' = TREE_DEPTH THEN "context" ELSE phase
      /\ UNCHANGED <<cell, hashed, row, accumulator, bit>>
  BY DEF ComputeRoot, rangeVars
<1>2. MembershipLemmas!TypeOK' /\ MembershipLemmas!Constrained'
  BY <1>1, MembershipSteps, MembershipKept DEF CircuitInv, Paths
<1>3. filledBy' = filledBy /\ node'[0] = node[0]
  <2>1. \E o : node' = [node EXCEPT ![level + 1] = o]
    BY <1>1 DEF Membership!ComputeLevel, Membership!AnyLevel, Membership!AssignLevel
  <2>2. level + 1 # 0
    BY CircuitAssumption DEF CircuitInv, Paths, MembershipLemmas!TypeOK
  <2>3. filledBy' = filledBy
    BY <1>1 DEF Membership!ComputeLevel, Membership!AnyLevel, Membership!AssignLevel
  <2>4. node \in [0 .. TREE_DEPTH -> MembershipLemmas!Fr] /\ 0 \in 0 .. TREE_DEPTH
    BY CircuitAssumption DEF CircuitInv, Paths, MembershipLemmas!TypeOK
  <2> QED  BY <2>1, <2>2, <2>3, <2>4
<1>4. Typed'
  BY <1>1, <1>3 DEF CircuitInv, Typed, Phases
<1>5. Paths'
  <2>1. NoteHashed'
    BY <1>1, <1>3, HashesKept DEF CircuitInv, Paths
  <2> QED  BY <1>1, <1>2, <2>1 DEF Paths
<1>6. Digits'
  <2>1. RangeLemmas!Decomposes'
    BY <1>1, <1>3, RangeStutter DEF CircuitInv, Digits
  <2>2. RangeLemmas!Init'
    BY <1>1, <1>3 DEF CircuitInv, Digits, RangeLemmas!Init, RangeLemmas!Steps, RangeLemmas!Rows,
                       RangeLemmas!Fr, RangeLemmas!ZeroAccumulator
  <2> QED  BY <1>1, <2>1, <2>2 DEF Digits
<1> QED  BY <1>1, <1>4, <1>5, <1>6 DEF CircuitInv

\* The recipient's cell is assigned before the first row of the range check.
LEMMA ContextStep ==
  ASSUME CircuitInv, AssignContext
  PROVE  CircuitInv'
<1>1. PICK recipient, domain \in Fr :
        cell' = [cell EXCEPT !.recipient = recipient, !.domain = domain]
  BY DEF AssignContext
<1>2. /\ phase = "context" /\ phase' = "range"
      /\ UNCHANGED <<filledBy, hashed, level, node, order, row, accumulator, bit>>
  BY DEF AssignContext, membershipVars, rangeVars
<1>3. /\ cell'.nullifier = cell.nullifier /\ cell'.secret = cell.secret
      /\ cell'.recipient \in Fr
  BY <1>1 DEF CircuitInv, Typed, Cells
<1>4. Typed'
  BY <1>1, <1>2 DEF CircuitInv, Typed, Cells, Phases
<1>5. Paths'
  <2>1. MembershipLemmas!TypeOK' /\ MembershipLemmas!Constrained'
    BY <1>2, MembershipStutter DEF CircuitInv, Paths
  <2> QED  BY <1>2, <1>3, <2>1 DEF CircuitInv, Paths, NoteHashed
<1>6. Digits'
  <2>1. RangeLemmas!Init'
    BY <1>2, <1>3 DEF CircuitInv, Digits, RangeLemmas!Init, RangeLemmas!Steps, RangeLemmas!Rows,
                      RangeLemmas!Fr, RangeLemmas!ZeroAccumulator, Fr
  <2>2. RangeLemmas!Decomposes'
    BY <2>1, RangeInit, PTL
  <2> QED  BY <1>2, <2>2 DEF Digits
<1> QED  BY <1>2, <1>4, <1>5, <1>6 DEF CircuitInv

LEMMA RecipientStep ==
  ASSUME CircuitInv, CheckRecipient
  PROVE  CircuitInv'
<1>1. /\ phase = "range"
      /\ Range!CheckRow \/ Range!AnyRow
      /\ phase' = IF row' = BITS THEN "binding" ELSE phase
      /\ UNCHANGED <<cell, hashed, level, node, order>>
  BY DEF CheckRecipient, membershipVars
<1>2. filledBy' = filledBy
  BY <1>1 DEF Range!CheckRow, Range!AnyRow, Range!Assign
<1>3. Typed'
  BY <1>1, <1>2 DEF CircuitInv, Typed, Phases
<1>4. Paths'
  <2>1. MembershipLemmas!TypeOK' /\ MembershipLemmas!Constrained'
    BY <1>1, <1>2, MembershipStutter DEF CircuitInv, Paths
  <2> QED  BY <1>1, <2>1 DEF CircuitInv, Paths, NoteHashed
<1>5. Digits'
  <2>1. RangeLemmas!Decomposes'
    BY <1>1, RangeSteps, RangeKept DEF CircuitInv, Digits
  <2> QED  BY <1>1, <2>1 DEF Digits
<1> QED  BY <1>1, <1>3, <1>4, <1>5 DEF CircuitInv

LEMMA BindingStep ==
  ASSUME CircuitInv, BindAndExpose
  PROVE  CircuitInv'
<1>1. PICK inputs \in [recipientBinding : Pairs, binding : Pairs] :
        /\ inputs = BindingInputs(cell)
        /\ hashed' = [hashed EXCEPT !.recipientBinding = Call(inputs.recipientBinding),
                                    !.binding = Call(inputs.binding)]
  BY DEF BindAndExpose, BindingCopied
<1>2. /\ phase = "binding" /\ phase' = "done"
      /\ UNCHANGED <<filledBy, cell, level, node, order, row, accumulator, bit>>
  BY DEF BindAndExpose, membershipVars, rangeVars
<1>3. Typed'
  BY <1>1, <1>2 DEF CircuitInv, Typed, Phases
<1>4. /\ hashed'.nullifierHash = hashed.nullifierHash
      /\ BindingHashed'
  BY <1>1, <1>2 DEF CircuitInv, Typed, Calls, Call, BindingInputs, BindingHashed
<1>5. Paths'
  <2>1. MembershipLemmas!TypeOK' /\ MembershipLemmas!Constrained'
    BY <1>2, MembershipStutter DEF CircuitInv, Paths
  <2> QED  BY <1>2, <1>4, <2>1 DEF CircuitInv, Paths, NoteHashed
<1>6. Digits'
  <2>1. RangeLemmas!Decomposes'
    BY <1>2, RangeStutter DEF CircuitInv, Digits
  <2> QED  BY <1>2, <2>1 DEF CircuitInv, Digits
<1> QED  BY <1>3, <1>4, <1>5, <1>6 DEF CircuitInv

LEMMA CircuitStutter ==
  ASSUME CircuitInv, UNCHANGED vars
  PROVE  CircuitInv'
<1>1. UNCHANGED <<filledBy, phase, cell, hashed, level, node, order, row, accumulator, bit>>
  BY DEF vars, membershipVars, rangeVars
<1>2. Typed' /\ (phase' = "done" => BindingHashed')
  BY <1>1 DEF CircuitInv, Typed, BindingHashed
<1>3. Paths'
  <2>1. MembershipLemmas!TypeOK' /\ MembershipLemmas!Constrained'
    BY <1>1, MembershipStutter DEF CircuitInv, Paths
  <2>2. phase' = "note" => MembershipLemmas!Init'
    BY <1>1 DEF CircuitInv, Paths, MembershipLemmas!Init, MembershipLemmas!Levels,
                MembershipLemmas!UnassignedRow, MembershipLemmas!Fr
  <2> QED  BY <1>1, <2>1, <2>2 DEF CircuitInv, Paths, NoteHashed
<1>4. Digits'
  <2>1. RangeLemmas!Decomposes'
    BY <1>1, RangeStutter DEF CircuitInv, Digits
  <2>2. RangeLemmas!Init => RangeLemmas!Init'
    BY <1>1 DEF RangeLemmas!Init, RangeLemmas!Steps, RangeLemmas!Rows,
                RangeLemmas!Fr, RangeLemmas!ZeroAccumulator
  <2> QED  BY <1>1, <2>1, <2>2 DEF CircuitInv, Digits
<1> QED  BY <1>2, <1>3, <1>4 DEF CircuitInv

LEMMA NextCircuit == CircuitInv /\ [Next]_vars => CircuitInv'
  BY NoteStep, RootStep, ContextStep, RecipientStep, BindingStep, CircuitStutter DEF Next

LEMMA CircuitInvariant == Spec => []CircuitInv
  BY InitCircuit, NextCircuit, PTL DEF Spec

-----------------------------------------------------------------------------
(* The statement *)

LEMMA UpTheLevels ==
  ASSUME NEW m \in Nat, NEW S, 0 \in S, \A l \in 0 .. m - 1 : l \in S => l + 1 \in S
  PROVE  0 .. m \subseteq S
<1> DEFINE Bad == {l \in Nat : l <= m /\ l \notin S}
<1>1. Bad = {}
  <2> SUFFICES ASSUME Bad # {}  PROVE FALSE
    OBVIOUS
  <2>1. PICK k \in Bad : \A j \in Bad : ~ (<<j, k>> \in OpToRel(<, Nat))
    BY WFMin, NatLessThanWellFounded
  <2>2. \A j \in Bad : ~ (j < k)
    BY <2>1, Zenon DEF OpToRel
  <2>3. k # 0 /\ k - 1 \in 0 .. m - 1 /\ (k - 1) + 1 = k
    OBVIOUS
  <2>4. k - 1 \notin Bad
    BY <2>2, <2>3
  <2> QED  BY <2>3, <2>4
<1> QED  BY <1>1

\* The native loop of `new`, from the bottom to level l.
Turn(f, l) ==
  IF l = 0 THEN Hash[<<cell.nullifier, cell.secret>>]
  ELSE Membership!NativeParent(f[l - 1], order[l - 1].sibling, order[l - 1].bit = 1)

\* It has one outcome, the trace's nodes, when these are a native path from the leaf.
LEMMA LoopOfNew ==
  ASSUME CircuitInv, level = TREE_DEPTH, NoteHashed
  PROVE  NewPublicInputs =
           <<node[TREE_DEPTH],
             HashOne[<<cell.nullifier>>],
             cell.recipient,
             cell.domain,
             Hash[<<Hash[<<cell.nullifier, cell.recipient>>], cell.domain>>]>>
<1> DEFINE current == CHOOSE f : f = [l \in 0 .. TREE_DEPTH |-> Turn(f, l)]
<1>1. /\ TREE_DEPTH \in Nat
      /\ DOMAIN node = 0 .. TREE_DEPTH
      /\ node = [l \in 0 .. TREE_DEPTH |-> node[l]]
  BY CircuitAssumption DEF CircuitInv, Paths, MembershipLemmas!TypeOK
<1>2. \A l \in 0 .. TREE_DEPTH : node[l] = Turn(node, l)
  <2> SUFFICES ASSUME NEW l \in 0 .. TREE_DEPTH  PROVE node[l] = Turn(node, l)
    OBVIOUS
  <2>1. CASE l = 0
    BY <2>1 DEF NoteHashed, Turn
  <2>2. CASE l # 0
    <3>1. l - 1 \in 0 .. level - 1 /\ (l - 1) + 1 = l
      BY <1>1, <2>2
    <3>2. MembershipLemmas!OnlyNativePaths
      BY MembershipIsNative DEF CircuitInv, Paths
    <3>3. node[(l - 1) + 1] =
            MembershipLemmas!NativeParent(node[l - 1], order[l - 1].sibling, order[l - 1].bit = 1)
      BY <3>1, <3>2 DEF MembershipLemmas!OnlyNativePaths
    <3> QED  BY <2>2, <3>1, <3>3 DEF Turn, Membership!NativeParent, MembershipLemmas!NativeParent
  <2> QED  BY <2>1, <2>2
<1>3. current = [l \in 0 .. TREE_DEPTH |-> Turn(current, l)]
  <2>1. node = [l \in 0 .. TREE_DEPTH |-> Turn(node, l)]
    BY <1>1, <1>2
  <2> QED  BY <2>1
<1>4. NewPublicInputs =
        <<current[TREE_DEPTH],
          HashOne[<<cell.nullifier>>],
          cell.recipient,
          cell.domain,
          Hash[<<Hash[<<cell.nullifier, cell.recipient>>], cell.domain>>]>>
  BY DEF NewPublicInputs, Turn
<1> HIDE DEF current
<1>5. current[TREE_DEPTH] = node[TREE_DEPTH]
  <2> DEFINE Same == {l \in 0 .. TREE_DEPTH : current[l] = node[l]}
  <2>1. \A l \in 0 .. TREE_DEPTH : current[l] = Turn(current, l)
    BY <1>3
  <2>2. 0 \in Same
    <3>1. 0 \in 0 .. TREE_DEPTH
      BY <1>1
    <3>2. current[0] = Turn(current, 0) /\ node[0] = Turn(node, 0)
      BY <1>2, <2>1, <3>1
    <3>3. Turn(current, 0) = Turn(node, 0)
      BY DEF Turn
    <3> QED  BY <3>1, <3>2, <3>3
  <2>3. ASSUME NEW l \in 0 .. TREE_DEPTH - 1, l \in Same  PROVE l + 1 \in Same
    <3>1. l + 1 \in 0 .. TREE_DEPTH /\ l + 1 # 0 /\ (l + 1) - 1 = l
      BY <1>1
    <3>2. Turn(current, l + 1) = Turn(node, l + 1)
      BY <2>3, <3>1 DEF Turn
    <3> QED  BY <1>2, <2>1, <3>1, <3>2
  <2> HIDE DEF Same
  <2>4. 0 .. TREE_DEPTH \subseteq Same
    BY <1>1, <2>2, <2>3, UpTheLevels
  <2>5. TREE_DEPTH \in Same
    BY <1>1, <2>4
  <2> QED  BY <2>5 DEF Same
<1> QED  BY <1>4, <1>5

\* A finished trace exposes what `new` computes from its cells.
LEMMA InstanceIsNew ==
  ASSUME CircuitInv, phase = "done"
  PROVE  InstanceCells = NewPublicInputs
<1>1. level = TREE_DEPTH /\ NoteHashed /\ BindingHashed
  BY DEF CircuitInv, Paths
<1>2. NewPublicInputs =
        <<node[TREE_DEPTH],
          HashOne[<<cell.nullifier>>],
          cell.recipient,
          cell.domain,
          Hash[<<Hash[<<cell.nullifier, cell.recipient>>], cell.domain>>]>>
  BY <1>1, LoopOfNew
<1> QED  BY <1>1, <1>2 DEF InstanceCells, NoteHashed, BindingHashed

\* Soundness of the circuit (withdraw.rs:86-160): whoever filled the trace, what is
\* accepted is a native statement about one note, for a recipient that fits.
THEOREM AcceptedIsNative == Spec => []OnlyNativeStatements
<1>1. CircuitInv => OnlyNativeStatements
  <2> SUFFICES ASSUME CircuitInv, Accepts(InstanceCells)
               PROVE  InstanceCells = NewPublicInputs /\ cell.recipient < Weight[BITS]
    BY DEF OnlyNativeStatements
  <2>1. phase = "done" /\ Range!Satisfied
    BY DEF Accepts
  <2>2. cell.recipient < Weight[BITS]
    BY <2>1, SameConstraints, RangeDecides DEF CircuitInv, Digits, RangeLemmas!RecipientFits
  <2> QED  BY <2>1, <2>2, InstanceIsNew
<1> QED  BY <1>1, CircuitInvariant, PTL

\* Completeness: `synthesize` satisfies the constraints for the public inputs of `new`
\* if the recipient fits, on every note and path, and only then.
THEOREM SynthesisIsComplete == Spec => []SynthesisDecides
<1>1. CircuitInv => SynthesisDecides
  <2> SUFFICES ASSUME CircuitInv, filledBy = "synthesis", phase = "done"
               PROVE  Accepts(NewPublicInputs) <=> cell.recipient < Weight[BITS]
    BY DEF SynthesisDecides
  <2>1. NewPublicInputs = InstanceCells
    BY InstanceIsNew
  <2>2. Membership!Satisfied
    BY ConstraintsSatisfied DEF CircuitInv, Paths
  <2>3. Range!Satisfied <=> cell.recipient < Weight[BITS]
    BY SameConstraints, RangeDecides DEF CircuitInv, Digits, RangeLemmas!CheckDecides
  <2> QED  BY <2>1, <2>2, <2>3 DEF Accepts
<1> QED  BY <1>1, CircuitInvariant, PTL
=============================================================================
