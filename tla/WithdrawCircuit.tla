-------------------------- MODULE WithdrawCircuit --------------------------
(***************************************************************************)
(* The withdrawal circuit, circuits/withdraw.rs: `synthesize` composes the *)
(* gadgets, one after the other, and ties them by handing on cells.  A     *)
(* trace is filled by `synthesize`, or by anybody, with any cells the      *)
(* gates and the copy constraints admit.                                   *)
(*                                                                         *)
(* A call of the Poseidon gadget is its copied inputs and its digest;      *)
(* PoseidonChip shows that they determine each other as Hash and HashOne   *)
(* say.                                                                    *)
(***************************************************************************)
EXTENDS Field, Sequences

CONSTANTS TREE_DEPTH, BITS, Weight,
          HashOne,  \* HashOne[<<a>>]
          Hash      \* Hash[<<a, b>>]

\* What the gadgets assume: hashes of field elements, and room for BITS bits.
ASSUME CircuitAssumption ==
  /\ TREE_DEPTH \in Nat
  /\ HashOne \in [{<<a>> : a \in Fr} -> Fr]
  /\ Hash \in [Fr \X Fr -> Fr]
  /\ BITS \in Nat
  /\ Weight \in [0 .. BITS -> Nat]
  /\ Weight[0] = 1
  /\ \A n \in 0 .. BITS - 1 : Weight[n + 1] = 2 * Weight[n]
  /\ Weight[BITS] <= MODULUS

VARIABLES
  filledBy,                  \* "synthesis" or "anybody"
  phase,                     \* the gadget that is being assigned
  cell,                      \* the four cells that hold the private inputs
  hashed,                    \* the four calls of the Poseidon gadget
  level, node, order,        \* the membership gadget
  row, accumulator, bit      \* the range gadget

membershipVars == <<level, node, order>>
rangeVars == <<row, accumulator, bit>>
vars == <<filledBy, phase, cell, hashed, membershipVars, rangeVars>>

Membership == INSTANCE MerkleChip
Range == INSTANCE RangeChip WITH recipient <- cell.recipient

Cells == {"nullifier", "secret", "recipient", "domain"}
Calls == {"commitment", "nullifierHash", "recipientBinding", "binding"}
Singles == {<<a>> : a \in Fr}
Pairs == {<<a, b>> : a, b \in Fr}
Traces == {"synthesis", "anybody"}
Unassigned == [inputs |-> <<>>, digest |-> 0]

Call(inputs) ==
  [inputs |-> inputs,
   digest |-> IF Len(inputs) = 1 THEN HashOne[inputs] ELSE Hash[inputs]]

(* The cells that are handed on, and the copy constraints they leave *)

\* The commitment and the nullifier hash take one nullifier cell.
NoteInputs(c) == [commitment |-> <<c.nullifier, c.secret>>, nullifierHash |-> <<c.nullifier>>]

\* Variant: the nullifier is assigned a second time for its hash.
NoteCopied_TwoNullifiers(inputs, c) == inputs.commitment = NoteInputs(c).commitment

NoteCopied(inputs, c) == inputs = NoteInputs(c)

\* The binding takes the same nullifier, the cell that was range checked, and the domain.
BindingInputs(c) ==
  [recipientBinding |-> <<c.nullifier, c.recipient>>,
   binding |-> <<Hash[<<c.nullifier, c.recipient>>], c.domain>>]

BindingCopied(inputs, c) == inputs = BindingInputs(c)

\* Variant: the first hash of the binding is exposed in its place.
InstanceCells_HalfBinding ==
  <<node[TREE_DEPTH], hashed.nullifierHash.digest, cell.recipient, cell.domain,
    hashed.recipientBinding.digest>>

\* The cells constrained to the five instance rows.
InstanceCells ==
  <<node[TREE_DEPTH], hashed.nullifierHash.digest, cell.recipient, cell.domain,
    hashed.binding.digest>>

\* The gates of the gadgets hold on the finished trace; the copies above are kept
\* by every assignment.
Accepts(publicInputs) ==
  /\ phase = "done"
  /\ Membership!Satisfied
  /\ Range!Satisfied
  /\ publicInputs = InstanceCells

(* The assignment, in the order of `synthesize` *)

ComputeHashes ==
  /\ phase = "note"
  /\ \E nullifier, secret \in Fr :
       cell' = [cell EXCEPT !.nullifier = nullifier, !.secret = secret]
  /\ \E inputs \in [commitment : Pairs, nullifierHash : Singles] :
       /\ IF filledBy = "synthesis" THEN inputs = NoteInputs(cell') ELSE NoteCopied(inputs, cell')
       /\ hashed' = [hashed EXCEPT !.commitment = Call(inputs.commitment),
                                   !.nullifierHash = Call(inputs.nullifierHash)]
  /\ node' = [node EXCEPT ![0] = hashed'.commitment.digest]
  /\ phase' = "membership"
  /\ UNCHANGED <<filledBy, level, order, rangeVars>>

ComputeRoot ==
  /\ phase = "membership"
  /\ Membership!ComputeLevel \/ Membership!AnyLevel
  /\ phase' = IF level' = TREE_DEPTH THEN "context" ELSE phase
  /\ UNCHANGED <<cell, hashed, rangeVars>>

AssignContext ==
  /\ phase = "context"
  /\ \E recipient, domain \in Fr :
       cell' = [cell EXCEPT !.recipient = recipient, !.domain = domain]
  /\ phase' = "range"
  /\ UNCHANGED <<filledBy, hashed, membershipVars, rangeVars>>

CheckRecipient ==
  /\ phase = "range"
  /\ UNCHANGED <<cell, hashed, membershipVars>>
  /\ Range!CheckRow \/ Range!AnyRow
  /\ phase' = IF row' = BITS THEN "binding" ELSE phase

BindAndExpose ==
  /\ phase = "binding"
  /\ \E inputs \in [recipientBinding : Pairs, binding : Pairs] :
       /\ IF filledBy = "synthesis" THEN inputs = BindingInputs(cell) ELSE BindingCopied(inputs, cell)
       /\ hashed' = [hashed EXCEPT !.recipientBinding = Call(inputs.recipientBinding),
                                   !.binding = Call(inputs.binding)]
  /\ phase' = "done"
  /\ UNCHANGED <<filledBy, cell, membershipVars, rangeVars>>

Init ==
  /\ filledBy \in Traces
  /\ phase = "note"
  /\ cell = [c \in Cells |-> 0]
  /\ hashed = [c \in Calls |-> Unassigned]
  /\ level = 0
  /\ node = [l \in 0 .. TREE_DEPTH |-> 0]
  /\ order = [l \in Membership!Levels |-> Membership!UnassignedRow]
  /\ row = 0
  /\ accumulator = [n \in Range!Rows |-> 0]
  /\ bit = [n \in Range!Steps |-> 0]

Next == ComputeHashes \/ ComputeRoot \/ AssignContext \/ CheckRecipient \/ BindAndExpose

Spec == Init /\ [][Next]_vars

(* Properties *)

\* WithdrawCircuit::new: the public inputs computed natively from the private ones.
NewPublicInputs ==
  LET commitment == Hash[<<cell.nullifier, cell.secret>>]
      current[l \in 0 .. TREE_DEPTH] ==
        IF l = 0 THEN commitment
        ELSE Membership!NativeParent(current[l - 1], order[l - 1].sibling, order[l - 1].bit = 1)
  IN  <<current[TREE_DEPTH],
        HashOne[<<cell.nullifier>>],
        cell.recipient,
        cell.domain,
        Hash[<<Hash[<<cell.nullifier, cell.recipient>>], cell.domain>>]>>

\* Sound: public inputs that any trace is accepted for are the native statement about
\* one note, whose nullifier opens the commitment under the root, is the one that is
\* spent, and is the one bound to a recipient of at most BITS bits and to the domain.
OnlyNativeStatements ==
  Accepts(InstanceCells) =>
    /\ InstanceCells = NewPublicInputs
    /\ cell.recipient < Weight[BITS]

\* Complete: `synthesize` satisfies its constraints for the public inputs of `new`,
\* for every note, path and domain, and for every recipient that fits, and no other.
SynthesisDecides ==
  filledBy = "synthesis" /\ phase = "done" =>
    (Accepts(NewPublicInputs) <=> cell.recipient < Weight[BITS])
=============================================================================
