----------------------------- MODULE PoolProofs -----------------------------
(***************************************************************************)
(* What holds of WithdrawalPool for every depth, window, denomination, set *)
(* of notes and list of commitments; and of those who follow it, the       *)
(* client of WithdrawalFlow and the native simulation of ChainMirror.      *)
(*                                                                         *)
(* The storage a failed payment returns to must itself be good, so the     *)
(* inductive invariant is a predicate on a storage record, stated of the   *)
(* present storage and of the one the payment in progress keeps.           *)
(***************************************************************************)
EXTENDS ChainMirror, WithdrawalFlow, MerkleProofs

\* Each field of a storage in its range.
Typed(s) ==
  /\ s.nextLeafIndex \in 0 .. TREE_CAPACITY
  /\ s.currentRootIndex \in RootSlots
  /\ s.rootCount \in 1 .. ROOT_HISTORY_SIZE
  /\ DOMAIN s.filledSubtrees = Depths
  /\ DOMAIN s.roots = RootSlots
  /\ s.nullifierSpent \subseteq WordsOf(NullifierHashes)
  /\ s.withdrawalStatus \in {1, 2}
  /\ s.balance \in Nat
  /\ DOMAIN s.depositLog = 0 .. s.nextLeafIndex - 1
  /\ s.withdrawalLog \in Seq(Frames)

\* At most one payment, which took the guard from a good storage.
OneCall ==
  \/ calls = <<>> /\ withdrawalStatus = 1
  \/ /\ withdrawalStatus = 2
     /\ \E frame : 
          /\ calls = <<frame>>
          /\ [nullifierHash |-> frame.nullifierHash, recipient |-> frame.recipient] \in Frames
          /\ frame.nullifierHash \in nullifierSpent
          /\ frame.before.withdrawalStatus = 1
          /\ Typed(frame.before)

TypeInv == Typed(Storage) /\ OneCall

LEMMA NextSlotInRange ==
  ASSUME NEW slot \in RootSlots
  PROVE  /\ NextRootSlot(slot) \in RootSlots
         /\ NextRootSlot(slot) = IF slot + 1 = ROOT_HISTORY_SIZE THEN 0 ELSE slot + 1
  BY PoolAssumption, SMTT(30) DEF RootSlots, NextRootSlot

LEMMA InitTyped == Init => TypeInv
  BY PoolAssumption, TreeShape, SMTT(30)
  DEF Init, TypeInv, Typed, OneCall, Storage, RootSlots, Depths

LEMMA OneFrame ==
  ASSUME NEW frame
  PROVE  /\ <<frame>> \o <<>> = <<frame>>
         /\ Head(<<frame>>) = frame
         /\ Tail(<<frame>>) = <<>>
         /\ <<frame>> # <<>>
  OBVIOUS

LEMMA DepositTyped ==
  ASSUME TypeInv, NEW commitment, NEW value \in Nat, Deposit(commitment, value)
  PROVE  TypeInv'
<1>1. /\ nextLeafIndex' \in 0 .. TREE_CAPACITY
      /\ DOMAIN depositLog' = 0 .. nextLeafIndex' - 1
  <2>1. /\ nextLeafIndex \in 0 .. TREE_CAPACITY
        /\ nextLeafIndex # TREE_CAPACITY
        /\ nextLeafIndex' = nextLeafIndex + 1
        /\ DOMAIN depositLog' = 0 .. nextLeafIndex
    BY DEF TypeInv, Typed, Storage, Deposit, HasRoom
  <2> QED  BY <2>1, TreeShape
<1>2. /\ currentRootIndex' \in RootSlots
      /\ DOMAIN roots' = RootSlots
  BY NextSlotInRange DEF TypeInv, Typed, Storage, Deposit
<1>3. rootCount' \in 1 .. ROOT_HISTORY_SIZE
  BY PoolAssumption DEF TypeInv, Typed, Storage, Deposit
<1>4. /\ DOMAIN filledSubtrees' = Depths
      /\ balance' \in Nat
  BY DEF TypeInv, Typed, Storage, Deposit
<1>5. UNCHANGED <<nullifierSpent, withdrawalStatus, withdrawalLog, calls>>
  BY DEF Deposit
<1>6. Typed(Storage)'
  BY <1>1, <1>2, <1>3, <1>4, <1>5 DEF TypeInv, Typed, Storage
<1>7. OneCall'
  BY <1>5 DEF TypeInv, OneCall
<1> QED  BY <1>6, <1>7 DEF TypeInv

LEMMA WithdrawTyped ==
  ASSUME TypeInv,
         NEW root, NEW binding, NEW proof,
         NEW nullifierHash \in WordsOf(NullifierHashes),
         NEW recipient \in Accounts \union {Zero},
         Withdraw(root, nullifierHash, recipient, binding, proof)
  PROVE  TypeInv'
<1>1. withdrawalStatus = 1 /\ calls = <<>>
  BY DEF TypeInv, OneCall, Withdraw, LockFree
<1>2. Storage.withdrawalStatus = 1
  BY <1>1 DEF Storage
<1>3. calls' = <<[nullifierHash |-> nullifierHash, recipient |-> recipient,
                  before |-> Storage]>>
  BY <1>1, OneFrame DEF Withdraw
<1>4. [nullifierHash |-> nullifierHash, recipient |-> recipient] \in Frames
  BY DEF Withdraw, Frames
<1>5. Typed(Storage)'
  <2>1. balance' \in Nat
    BY PoolAssumption DEF TypeInv, Typed, Storage, Withdraw
  <2>2. nullifierSpent' \subseteq WordsOf(NullifierHashes)
    BY DEF TypeInv, Typed, Storage, Withdraw
  <2>3. withdrawalStatus' = 2 /\ UNCHANGED <<treeVars, withdrawalLog>>
    BY DEF Withdraw
  <2> QED  BY <2>1, <2>2, <2>3 DEF TypeInv, Typed, Storage, treeVars
<1>6. OneCall'
  <2> DEFINE frame == [nullifierHash |-> nullifierHash, recipient |-> recipient,
                       before |-> Storage]
  <2>1. calls' = <<frame>> /\ withdrawalStatus' = 2
    BY <1>3 DEF Withdraw
  <2>2. [nullifierHash |-> frame.nullifierHash, recipient |-> frame.recipient] \in Frames
    BY <1>4
  <2>3. frame.nullifierHash \in nullifierSpent'
    BY DEF Withdraw
  <2>4. frame.before.withdrawalStatus = 1 /\ Typed(frame.before)
    BY <1>2 DEF TypeInv
  <2> HIDE DEF frame
  <2> QED  BY <2>1, <2>2, <2>3, <2>4 DEF OneCall
<1> QED  BY <1>5, <1>6 DEF TypeInv

LEMMA PaymentSucceedsTyped ==
  ASSUME TypeInv, PaymentSucceeds
  PROVE  TypeInv'
<1>1. PICK frame :
        /\ calls = <<frame>>
        /\ [nullifierHash |-> frame.nullifierHash, recipient |-> frame.recipient] \in Frames
  BY DEF TypeInv, OneCall, PaymentSucceeds
<1>2. calls' = <<>> /\ withdrawalStatus' = 1
  BY <1>1, OneFrame DEF PaymentSucceeds
<1>3. withdrawalLog' \in Seq(Frames)
  BY <1>1, OneFrame DEF TypeInv, Typed, Storage, PaymentSucceeds
<1>4. Typed(Storage)'
  BY <1>2, <1>3 DEF TypeInv, Typed, Storage, PaymentSucceeds, treeVars
<1> QED  BY <1>2, <1>4 DEF TypeInv, OneCall

LEMMA PaymentFailsTyped ==
  ASSUME TypeInv, PaymentFails
  PROVE  TypeInv'
<1>1. PICK frame :
        /\ calls = <<frame>>
        /\ frame.before.withdrawalStatus = 1
        /\ Typed(frame.before)
  BY DEF TypeInv, OneCall, PaymentFails
<1>2. calls' = <<>> /\ Head(calls).before = frame.before
  BY <1>1, OneFrame DEF PaymentFails
<1>3. withdrawalStatus' = 1
  BY <1>1, <1>2 DEF PaymentFails
<1>4. Typed(Storage)'
  BY <1>1, <1>2 DEF Typed, Storage, PaymentFails
<1> QED  BY <1>2, <1>3, <1>4 DEF TypeInv, OneCall

LEMMA NextTyped == TypeInv /\ [Next]_vars => TypeInv'
<1> SUFFICES ASSUME TypeInv, [Next]_vars  PROVE TypeInv'
  OBVIOUS
<1>1. CASE SomeDeposit
  BY <1>1, DepositTyped, PoolAssumption DEF SomeDeposit
<1>2. CASE SomeWithdraw
  BY <1>2, WithdrawTyped DEF SomeWithdraw
<1>3. CASE PaymentSucceeds
  BY <1>3, PaymentSucceedsTyped
<1>4. CASE PaymentFails
  BY <1>4, PaymentFailsTyped
<1>5. CASE UNCHANGED vars
  BY <1>5 DEF vars, treeVars, TypeInv, Typed, OneCall, Storage
<1> QED  BY <1>1, <1>2, <1>3, <1>4, <1>5 DEF Next

LEMMA TypeInvariant == Spec => []TypeInv
  BY InitTyped, NextTyped, PTL DEF Spec

\* No variable of the pool leaves its range.
THEOREM TypeCorrect == Spec => []TypeOK
<1>1. ASSUME TypeInv  PROVE TypeOK
  <2>1. \A n \in DOMAIN calls :
          [nullifierHash |-> calls[n].nullifierHash, recipient |-> calls[n].recipient] \in Frames
    <3>1. CASE calls = <<>>
      BY <3>1
    <3>2. CASE calls # <<>>
      <4>1. PICK frame :
              /\ calls = <<frame>>
              /\ [nullifierHash |-> frame.nullifierHash, recipient |-> frame.recipient] \in Frames
        BY <1>1, <3>2 DEF TypeInv, OneCall
      <4>2. DOMAIN calls = {1} /\ calls[1] = frame
        BY <4>1
      <4> QED  BY <4>1, <4>2
    <3> QED  BY <3>1, <3>2
  <2> QED  BY <1>1, <2>1 DEF TypeInv, Typed, Storage, TypeOK
<1> QED  BY <1>1, TypeInvariant, PTL

\* The guard is taken exactly during a payment, and there is one at a time.
THEOREM GuardTracksThePayment == Spec => []LockTracksCall
<1>1. ASSUME TypeInv  PROVE LockTracksCall
  <2>1. CASE calls = <<>> /\ withdrawalStatus = 1
    BY <2>1 DEF LockTracksCall
  <2>2. CASE ~(calls = <<>> /\ withdrawalStatus = 1)
    <3>1. PICK frame : /\ withdrawalStatus = 2
                       /\ calls = <<frame>>
                       /\ frame.nullifierHash \in nullifierSpent
      BY <1>1, <2>2 DEF TypeInv, OneCall
    <3>2. DOMAIN calls = {1} /\ calls[1] = frame /\ Len(calls) = 1 /\ calls # <<>>
      BY <3>1
    <3> QED  BY <3>1, <3>2 DEF LockTracksCall
  <2> QED  BY <2>1, <2>2
<1> QED  BY <1>1, TypeInvariant, PTL

-----------------------------------------------------------------------------
(***************************************************************************)
(* The window of roots.  The root of age a, a deposits old, is a slots     *)
(* behind currentRootIndex, around the ring.                               *)
(***************************************************************************)
SlotOfAge(newest, age) ==
  IF age <= newest THEN newest - age ELSE newest - age + ROOT_HISTORY_SIZE

RootAfter(s, count) == IF count = 0 THEN EmptyRoot ELSE s.depositLog[count - 1].root

Ring(s) ==
  /\ s.rootCount = IF s.nextLeafIndex + 1 < ROOT_HISTORY_SIZE
                   THEN s.nextLeafIndex + 1 ELSE ROOT_HISTORY_SIZE
  /\ s.rootCount < ROOT_HISTORY_SIZE => s.currentRootIndex = s.rootCount - 1
  /\ \A age \in 0 .. s.rootCount - 1 :
       s.roots[SlotOfAge(s.currentRootIndex, age)] = RootAfter(s, s.nextLeafIndex - age)

RingInv == Ring(Storage) /\ \A n \in DOMAIN calls : Ring(calls[n].before)

\* One step around the ring makes every other root one older.
LEMMA AgesShift ==
  ASSUME NEW newest \in RootSlots, NEW age \in 1 .. ROOT_HISTORY_SIZE - 1
  PROVE  /\ SlotOfAge(NextRootSlot(newest), age) = SlotOfAge(newest, age - 1)
         /\ SlotOfAge(newest, age - 1) \in RootSlots
         /\ SlotOfAge(newest, age - 1) # NextRootSlot(newest)
<1>1. NextRootSlot(newest) = IF newest + 1 = ROOT_HISTORY_SIZE THEN 0 ELSE newest + 1
  BY NextSlotInRange
<1> QED  BY <1>1, PoolAssumption DEF SlotOfAge, RootSlots

LEMMA DepositRing ==
  ASSUME TypeInv, Ring(Storage), NEW commitment, NEW value, Deposit(commitment, value)
  PROVE  Ring(Storage)'
<1> DEFINE slot == NextRootSlot(currentRootIndex)
           root == InsertionPath(commitment.field)[TREE_DEPTH]
<1>1. /\ nextLeafIndex \in Nat
      /\ currentRootIndex \in RootSlots
      /\ rootCount \in 1 .. ROOT_HISTORY_SIZE
      /\ DOMAIN roots = RootSlots
  BY TreeShape DEF TypeInv, Typed, Storage
<1>2. /\ nextLeafIndex' = nextLeafIndex + 1
      /\ currentRootIndex' = slot
      /\ roots' = [roots EXCEPT ![slot] = root]
      /\ rootCount' = IF rootCount < ROOT_HISTORY_SIZE THEN rootCount + 1 ELSE rootCount
      /\ depositLog' = [place \in 0 .. nextLeafIndex |->
           IF place = nextLeafIndex THEN [commitment |-> commitment.field, root |-> root]
                                    ELSE depositLog[place]]
  BY DEF Deposit
<1>3. /\ slot \in RootSlots
      /\ slot = IF currentRootIndex + 1 = ROOT_HISTORY_SIZE THEN 0 ELSE currentRootIndex + 1
  BY <1>1, NextSlotInRange
<1>4. /\ rootCount = IF nextLeafIndex + 1 < ROOT_HISTORY_SIZE
                     THEN nextLeafIndex + 1 ELSE ROOT_HISTORY_SIZE
      /\ rootCount < ROOT_HISTORY_SIZE => currentRootIndex = rootCount - 1
      /\ \A age \in 0 .. rootCount - 1 :
           roots[SlotOfAge(currentRootIndex, age)] = RootAfter(Storage, nextLeafIndex - age)
  BY DEF Ring, Storage
<1> HIDE DEF slot, root
<1>5. /\ rootCount' = IF nextLeafIndex' + 1 < ROOT_HISTORY_SIZE
                      THEN nextLeafIndex' + 1 ELSE ROOT_HISTORY_SIZE
      /\ rootCount' < ROOT_HISTORY_SIZE => currentRootIndex' = rootCount' - 1
  BY <1>1, <1>2, <1>3, <1>4, PoolAssumption
<1>6. ASSUME NEW age \in 0 .. rootCount' - 1
      PROVE  roots'[SlotOfAge(currentRootIndex', age)] = RootAfter(Storage', nextLeafIndex' - age)
  <2>1. CASE age = 0
    <3>1. SlotOfAge(slot, 0) = slot /\ roots'[slot] = root
      BY <1>1, <1>2, <1>3, PoolAssumption DEF SlotOfAge, RootSlots
    <3>2. RootAfter(Storage', nextLeafIndex') = root
      BY <1>1, <1>2 DEF RootAfter, Storage
    <3> QED  BY <2>1, <3>1, <3>2, <1>1, <1>2
  <2>2. CASE age # 0
    <3>1. /\ age \in 1 .. ROOT_HISTORY_SIZE - 1
          /\ age - 1 \in 0 .. rootCount - 1
      BY <1>1, <1>2, <2>2, PoolAssumption
    <3>2. roots'[SlotOfAge(slot, age)] = roots[SlotOfAge(currentRootIndex, age - 1)]
      BY <1>1, <1>2, <3>1, AgesShift DEF slot
    <3>3. /\ nextLeafIndex' - age = nextLeafIndex - (age - 1)
          /\ nextLeafIndex - (age - 1) \in 0 .. nextLeafIndex
      BY <1>1, <1>2, <1>4, <3>1
    <3>4. \A count \in 0 .. nextLeafIndex : RootAfter(Storage', count) = RootAfter(Storage, count)
      BY <1>1, <1>2 DEF RootAfter, Storage
    <3> QED  BY <1>2, <1>4, <3>1, <3>2, <3>3, <3>4
  <2> QED  BY <2>1, <2>2
<1>7. Storage'.rootCount = rootCount' /\ Storage'.nextLeafIndex = nextLeafIndex'
      /\ Storage'.currentRootIndex = currentRootIndex' /\ Storage'.roots = roots'
  BY DEF Storage
<1> QED  BY <1>5, <1>6, <1>7 DEF Ring

LEMMA InitRing == Init => RingInv
<1> SUFFICES ASSUME Init  PROVE RingInv
  OBVIOUS
<1>1. DOMAIN calls = {}
  BY DEF Init
<1>2. Ring(Storage)
  <2>1. /\ Storage.rootCount = 1 /\ Storage.nextLeafIndex = 0 /\ Storage.currentRootIndex = 0
        /\ Storage.roots[0] = EmptyRoot
    BY PoolAssumption DEF Init, Storage, RootSlots
  <2>2. SlotOfAge(0, 0) = 0 /\ RootAfter(Storage, 0 - 0) = EmptyRoot
    BY DEF SlotOfAge, RootAfter
  <2>3. \A age \in 0 .. 1 - 1 : age = 0
    OBVIOUS
  <2>4. 1 = IF 0 + 1 < ROOT_HISTORY_SIZE THEN 0 + 1 ELSE ROOT_HISTORY_SIZE
    BY PoolAssumption
  <2> QED  BY <2>1, <2>2, <2>3, <2>4 DEF Ring
<1> QED  BY <1>1, <1>2 DEF RingInv

\* A step of withdraw changes the storage, the open payments, or both, in one of
\* three ways; what the tree and the logs say follows without looking inside.
LEMMA WithdrawFrames ==
  ASSUME TypeInv,
         NEW root, NEW binding, NEW proof, NEW nullifierHash, NEW recipient,
         Withdraw(root, nullifierHash, recipient, binding, proof)
  PROVE  /\ calls = <<>>
         /\ DOMAIN calls' = {1}
         /\ calls'[1].before = Storage
         /\ calls'[1].nullifierHash = nullifierHash
         /\ calls'[1].recipient = recipient
<1>1. calls = <<>>
  BY DEF TypeInv, OneCall, Withdraw, LockFree
<1> DEFINE frame == [nullifierHash |-> nullifierHash, recipient |-> recipient,
                     before |-> Storage]
<1>2. calls' = <<frame>>
  BY <1>1, OneFrame DEF Withdraw
<1>3. frame.before = Storage /\ frame.nullifierHash = nullifierHash /\ frame.recipient = recipient
  OBVIOUS
<1> HIDE DEF frame
<1>4. DOMAIN calls' = {1} /\ calls'[1] = frame
  BY <1>2
<1> QED  BY <1>1, <1>3, <1>4

LEMMA PaymentFrames ==
  ASSUME TypeInv, calls # <<>>
  PROVE  /\ DOMAIN calls = {1}
         /\ calls = <<calls[1]>>
         /\ Head(calls) = calls[1]
         /\ Tail(calls) = <<>>
         /\ [nullifierHash |-> calls[1].nullifierHash, recipient |-> calls[1].recipient] \in Frames
         /\ calls[1].nullifierHash \in nullifierSpent
<1>1. PICK frame :
        /\ calls = <<frame>>
        /\ [nullifierHash |-> frame.nullifierHash, recipient |-> frame.recipient] \in Frames
        /\ frame.nullifierHash \in nullifierSpent
  BY DEF TypeInv, OneCall
<1>2. DOMAIN calls = {1} /\ calls[1] = frame
  BY <1>1
<1> QED  BY <1>1, <1>2, OneFrame

\* The storage a payment may have to return to.
LEMMA FrameIsTyped ==
  ASSUME TypeInv, NEW k \in DOMAIN calls
  PROVE  k = 1 /\ Typed(calls[1].before) /\ calls[1].before.withdrawalStatus = 1
<1>1. PICK frame : /\ calls = <<frame>>
                   /\ Typed(frame.before) /\ frame.before.withdrawalStatus = 1
  <2>1. calls # <<>>
    OBVIOUS
  <2> QED  BY <2>1 DEF TypeInv, OneCall
<1>2. DOMAIN calls = {1} /\ calls[1] = frame
  BY <1>1
<1> QED  BY <1>1, <1>2

LEMMA NextRing == TypeInv /\ RingInv /\ [Next]_vars => RingInv'
<1> SUFFICES ASSUME TypeInv, RingInv, [Next]_vars  PROVE RingInv'
  OBVIOUS
<1>1. CASE SomeDeposit
  <2>1. PICK commitment, value : Deposit(commitment, value)
    BY <1>1 DEF SomeDeposit
  <2>2. calls' = calls
    BY <2>1 DEF Deposit
  <2> QED  BY <2>1, <2>2, DepositRing DEF RingInv
<1>2. CASE SomeWithdraw
  <2>1. PICK root, nullifierHash, recipient, binding, proof :
          Withdraw(root, nullifierHash, recipient, binding, proof)
    BY <1>2 DEF SomeWithdraw
  <2>2. UNCHANGED treeVars
    BY <2>1 DEF Withdraw
  <2>3. Ring(Storage)'
    BY <2>2 DEF RingInv, Ring, RootAfter, Storage, treeVars
  <2> QED  BY <2>1, <2>3, WithdrawFrames DEF RingInv
<1>3. CASE PaymentSucceeds
  <2>1. UNCHANGED treeVars /\ calls' = <<>>
    BY <1>3, PaymentFrames DEF PaymentSucceeds
  <2>2. Ring(Storage)'
    BY <2>1 DEF RingInv, Ring, RootAfter, Storage, treeVars
  <2> QED  BY <2>1, <2>2 DEF RingInv
<1>4. CASE PaymentFails
  <2>1. calls' = <<>> /\ Head(calls) = calls[1] /\ Ring(calls[1].before)
    BY <1>4, PaymentFrames DEF PaymentFails, RingInv
  <2>2. Ring(Storage)'
    BY <1>4, <2>1 DEF PaymentFails, Ring, RootAfter, Storage
  <2> QED  BY <2>1, <2>2 DEF RingInv
<1>5. CASE UNCHANGED vars
  BY <1>5 DEF vars, treeVars, RingInv, Ring, RootAfter, Storage
<1> QED  BY <1>1, <1>2, <1>3, <1>4, <1>5 DEF Next

LEMMA RingInvariant == Spec => []RingInv
<1>1. Init => RingInv  BY InitRing
<1>2. TypeInv /\ RingInv /\ [Next]_vars => RingInv'  BY NextRing
<1> QED  BY <1>1, <1>2, TypeInvariant, PTL DEF Spec

LEMMA WindowOfRing ==
  ASSUME TypeInv, Ring(Storage)
  PROVE  RootWindow
<1> DEFINE n == nextLeafIndex
           c == currentRootIndex
           recent == {count \in 0 .. n : count + ROOT_HISTORY_SIZE > n}
<1>1. /\ n \in Nat
      /\ c \in 0 .. ROOT_HISTORY_SIZE - 1
      /\ rootCount = IF n + 1 < ROOT_HISTORY_SIZE THEN n + 1 ELSE ROOT_HISTORY_SIZE
      /\ rootCount < ROOT_HISTORY_SIZE => c = rootCount - 1
  BY TreeShape DEF TypeInv, Typed, Storage, Ring, RootSlots
<1>2. \A age \in 0 .. rootCount - 1 : roots[SlotOfAge(c, age)] = HistoricRoot(n - age)
  BY DEF Ring, Storage, RootAfter, HistoricRoot
<1> HIDE DEF n, c
<1>3. currentRoot = HistoricRoot(n)
  <2>1. 0 \in 0 .. rootCount - 1 /\ SlotOfAge(c, 0) = c /\ n - 0 = n
    BY <1>1, PoolAssumption DEF SlotOfAge
  <2> QED  BY <1>2, <2>1 DEF currentRoot, c
<1>4. ASSUME NEW root
      PROVE  isKnownRoot(Word(root)) <=> root \in {HistoricRoot(count) : count \in recent}
  <2>1. isKnownRoot(Word(root)) <=> \E place \in 0 .. rootCount - 1 : roots[place] = root
    BY DEF isKnownRoot, Word, Canonical
  <2>2. ASSUME NEW place \in 0 .. rootCount - 1
        PROVE  \E count \in recent : roots[place] = HistoricRoot(count)
    <3> DEFINE age == IF place <= c THEN c - place ELSE c - place + ROOT_HISTORY_SIZE
    <3>1. age \in 0 .. rootCount - 1 /\ SlotOfAge(c, age) = place
      BY <1>1, PoolAssumption DEF SlotOfAge
    <3>2. n - age \in recent
      BY <1>1, <3>1, PoolAssumption
    <3> QED  BY <1>2, <3>1, <3>2
  <2>3. ASSUME NEW count \in recent
        PROVE  \E place \in 0 .. rootCount - 1 : roots[place] = HistoricRoot(count)
    <3>1. n - count \in 0 .. rootCount - 1 /\ n - (n - count) = count
      BY <1>1, PoolAssumption
    <3>2. SlotOfAge(c, n - count) \in 0 .. rootCount - 1
      BY <1>1, <3>1, PoolAssumption DEF SlotOfAge
    <3> QED  BY <1>2, <3>1, <3>2
  <2> QED  BY <2>1, <2>2, <2>3
<1> QED  BY <1>3, <1>4 DEF RootWindow, n

\* isKnownRoot accepts the last ROOT_HISTORY_SIZE roots, and nothing else.
THEOREM WindowIsRecent == Spec => []RootWindow
<1>1. TypeInv /\ RingInv => RootWindow
  BY WindowOfRing DEF RingInv
<1> QED  BY <1>1, TypeInvariant, RingInvariant, PTL

-----------------------------------------------------------------------------
(***************************************************************************)
(* The money, and who was paid.  The verifier lets only canonical words    *)
(* through, so different keys of nullifierSpent are different nullifiers.  *)
(***************************************************************************)
Accounted(s) ==
  /\ IsFiniteSet(s.nullifierSpent)
  /\ s.balance = DENOMINATION * (s.nextLeafIndex - Cardinality(s.nullifierSpent))

PaidOnce(s) ==
  /\ \A word \in s.nullifierSpent : Canonical(word)
  /\ \A n \in DOMAIN s.withdrawalLog : s.withdrawalLog[n].nullifierHash \in s.nullifierSpent
  /\ \A m, n \in DOMAIN s.withdrawalLog :
       s.withdrawalLog[m].nullifierHash = s.withdrawalLog[n].nullifierHash => m = n

MoneyInv ==
  /\ Accounted(Storage) /\ PaidOnce(Storage)
  /\ \A k \in DOMAIN calls :
       /\ Accounted(calls[k].before) /\ PaidOnce(calls[k].before)
       /\ \A n \in DOMAIN withdrawalLog :
            withdrawalLog[n].nullifierHash # calls[k].nullifierHash

LEMMA OneMoreDeposit ==
  ASSUME NEW d \in Nat, NEW n \in Int, NEW spent \in Int
  PROVE  /\ d * (n + 1 - spent) = d * (n - spent) + d
         /\ d * (n - (spent + 1)) = d * (n - spent) - d
  OBVIOUS

LEMMA Monotone ==
  ASSUME NEW d \in Nat, NEW a \in Int, NEW b \in Int, a <= b
  PROVE  d * a <= d * b
  OBVIOUS

LEMMA InitMoney == Init => MoneyInv
<1> SUFFICES ASSUME Init  PROVE MoneyInv
  OBVIOUS
<1>1. nullifierSpent = {} /\ balance = 0 /\ nextLeafIndex = 0 /\ withdrawalLog = <<>> /\ calls = <<>>
  BY DEF Init
<1>2. IsFiniteSet({}) /\ Cardinality({}) = 0
  BY FS_EmptySet
<1>3. DENOMINATION * (0 - 0) = 0
  BY PoolAssumption
<1> QED  BY <1>1, <1>2, <1>3 DEF MoneyInv, Accounted, PaidOnce, Storage

LEMMA DepositMoney ==
  ASSUME TypeInv, MoneyInv, NEW commitment, NEW value, Deposit(commitment, value)
  PROVE  MoneyInv'
<1>1. UNCHANGED <<nullifierSpent, withdrawalLog, calls>>
  BY DEF Deposit
<1>2. /\ nextLeafIndex \in Int
      /\ nextLeafIndex' = nextLeafIndex + 1
      /\ balance' = balance + DENOMINATION
  BY DEF TypeInv, Typed, Storage, Deposit, PaysDenomination
<1>3. Cardinality(nullifierSpent) \in Int
  BY FS_CardinalityType DEF MoneyInv, Accounted, Storage
<1>4. Accounted(Storage)'
  BY <1>1, <1>2, <1>3, OneMoreDeposit, PoolAssumption DEF MoneyInv, Accounted, Storage
<1>5. PaidOnce(Storage)'
  BY <1>1 DEF MoneyInv, PaidOnce, Storage
<1> QED  BY <1>1, <1>4, <1>5 DEF MoneyInv

LEMMA WithdrawMoney ==
  ASSUME TypeInv, MoneyInv,
         NEW root, NEW binding, NEW proof, NEW nullifierHash, NEW recipient,
         "nullifierHash" \in DOMAIN proof,
         Withdraw(root, nullifierHash, recipient, binding, proof)
  PROVE  MoneyInv'
<1>1. /\ nullifierHash \notin nullifierSpent
      /\ nullifierSpent' = nullifierSpent \union {nullifierHash}
      /\ balance' = balance - DENOMINATION
      /\ UNCHANGED <<nextLeafIndex, withdrawalLog>>
  BY DEF Withdraw, treeVars
<1>2. Canonical(nullifierHash)
  BY DEF Withdraw, VerifierAccepts
<1>3. /\ IsFiniteSet(nullifierSpent')
      /\ Cardinality(nullifierSpent) \in Int
      /\ Cardinality(nullifierSpent') = Cardinality(nullifierSpent) + 1
  BY <1>1, FS_AddElement, FS_CardinalityType DEF MoneyInv, Accounted, Storage
<1>4. Accounted(Storage)'
  <2>1. nextLeafIndex \in Int
    BY DEF TypeInv, Typed, Storage
  <2> QED  BY <1>1, <1>3, <2>1, OneMoreDeposit, PoolAssumption DEF MoneyInv, Accounted, Storage
<1>5. PaidOnce(Storage)'
  BY <1>1, <1>2 DEF MoneyInv, PaidOnce, Storage
<1>6. \A n \in DOMAIN withdrawalLog' : withdrawalLog'[n].nullifierHash # nullifierHash
  BY <1>1 DEF MoneyInv, PaidOnce, Storage
<1>7. Accounted(calls'[1].before) /\ PaidOnce(calls'[1].before)
  BY WithdrawFrames DEF MoneyInv
<1> QED  BY <1>4, <1>5, <1>6, <1>7, WithdrawFrames DEF MoneyInv

LEMMA PaymentSucceedsMoney ==
  ASSUME TypeInv, MoneyInv, PaymentSucceeds
  PROVE  MoneyInv'
<1> DEFINE payout == [nullifierHash |-> calls[1].nullifierHash, recipient |-> calls[1].recipient]
<1>1. /\ calls' = <<>>
      /\ withdrawalLog' = Append(withdrawalLog, payout)
      /\ UNCHANGED <<nullifierSpent, balance, nextLeafIndex>>
  BY PaymentFrames DEF PaymentSucceeds, treeVars
<1>2. withdrawalLog \in Seq(Frames) /\ payout \in Frames
  BY PaymentFrames DEF TypeInv, Typed, Storage, PaymentSucceeds
<1>3. /\ payout.nullifierHash \in nullifierSpent
      /\ \A n \in DOMAIN withdrawalLog : withdrawalLog[n].nullifierHash # payout.nullifierHash
  BY PaymentFrames DEF MoneyInv, PaymentSucceeds
<1> HIDE DEF payout
<1>4. PaidOnce(Storage)'
  <2>1. /\ DOMAIN withdrawalLog' = DOMAIN withdrawalLog \union {Len(withdrawalLog) + 1}
        /\ withdrawalLog'[Len(withdrawalLog) + 1] = payout
        /\ \A n \in DOMAIN withdrawalLog : withdrawalLog'[n] = withdrawalLog[n]
    BY <1>1, <1>2
  <2> QED  BY <1>1, <1>3, <2>1 DEF MoneyInv, PaidOnce, Storage
<1>5. Accounted(Storage)'
  BY <1>1 DEF MoneyInv, Accounted, Storage
<1> QED  BY <1>1, <1>4, <1>5 DEF MoneyInv

LEMMA PaymentFailsMoney ==
  ASSUME TypeInv, MoneyInv, PaymentFails
  PROVE  MoneyInv'
<1>1. /\ calls' = <<>> /\ Head(calls) = calls[1]
      /\ Accounted(calls[1].before) /\ PaidOnce(calls[1].before)
  BY PaymentFrames DEF PaymentFails, MoneyInv
<1>2. Accounted(Storage)' /\ PaidOnce(Storage)'
  BY <1>1 DEF PaymentFails, Accounted, PaidOnce, Storage
<1> QED  BY <1>1, <1>2 DEF MoneyInv

LEMMA NextMoney == TypeInv /\ MoneyInv /\ [Next]_vars => MoneyInv'
<1> SUFFICES ASSUME TypeInv, MoneyInv, [Next]_vars  PROVE MoneyInv'
  OBVIOUS
<1>1. CASE SomeDeposit
  BY <1>1, DepositMoney DEF SomeDeposit
<1>2. CASE SomeWithdraw
  <2>1. PICK root, nullifierHash, recipient, binding, proof :
          /\ proof \in Proofs
          /\ Withdraw(root, nullifierHash, recipient, binding, proof)
    BY <1>2 DEF SomeWithdraw
  <2>2. "nullifierHash" \in DOMAIN proof
    BY <2>1 DEF Proofs, ProofsFrom, Statement
  <2> QED  BY <2>1, <2>2, WithdrawMoney
<1>3. CASE PaymentSucceeds
  BY <1>3, PaymentSucceedsMoney
<1>4. CASE PaymentFails
  BY <1>4, PaymentFailsMoney
<1>5. CASE UNCHANGED vars
  BY <1>5 DEF vars, treeVars, MoneyInv, Accounted, PaidOnce, Storage
<1> QED  BY <1>1, <1>2, <1>3, <1>4, <1>5 DEF Next

LEMMA MoneyInvariant == Spec => []MoneyInv
<1>1. Init => MoneyInv  BY InitMoney
<1>2. TypeInv /\ MoneyInv /\ [Next]_vars => MoneyInv'  BY NextMoney
<1> QED  BY <1>1, <1>2, TypeInvariant, PTL DEF Spec

\* The pool holds one denomination for each deposit not yet paid out.
THEOREM MoneyConserved == Spec => []Conservation
<1>1. MoneyInv => Conservation
  BY DEF MoneyInv, Accounted, Storage, Conservation
<1> QED  BY <1>1, MoneyInvariant, PTL

LEMMA SpentByField ==
  ASSUME TypeInv, MoneyInv
  PROVE  \A v, w \in nullifierSpent : v.field = w.field => v = w
<1> SUFFICES ASSUME NEW v \in nullifierSpent, NEW w \in nullifierSpent, v.field = w.field
             PROVE  v = w
  OBVIOUS
<1>1. v.wraps = 0 /\ w.wraps = 0
  BY DEF MoneyInv, PaidOnce, Storage, Canonical
<1>2. /\ v = [field |-> v.field, wraps |-> v.wraps]
      /\ w = [field |-> w.field, wraps |-> w.wraps]
  BY DEF TypeInv, Typed, Storage, WordsOf
<1> QED  BY <1>1, <1>2

\* No nullifier is paid twice, under any of its 256-bit names.
THEOREM NoDoublePayout == Spec => []OnePayoutPerNullifier
<1>1. ASSUME TypeInv, MoneyInv  PROVE OnePayoutPerNullifier
  <2>1. \A v, w \in nullifierSpent : v.field = w.field => v = w
    BY <1>1, SpentByField
  <2>2. \A n \in DOMAIN withdrawalLog : withdrawalLog[n].nullifierHash \in nullifierSpent
    BY <1>1 DEF MoneyInv, PaidOnce, Storage
  <2>3. \A k \in DOMAIN calls : k = 1 /\ calls[k].nullifierHash \in nullifierSpent
    <3>1. CASE calls = <<>>
      BY <3>1
    <3>2. CASE calls # <<>>
      BY <1>1, <3>2, PaymentFrames
    <3> QED  BY <3>1, <3>2
  <2>4. \A m, n \in DOMAIN withdrawalLog :
          withdrawalLog[m].nullifierHash = withdrawalLog[n].nullifierHash => m = n
    BY <1>1 DEF MoneyInv, PaidOnce, Storage
  <2>5. \A m \in DOMAIN withdrawalLog, n \in DOMAIN calls :
          withdrawalLog[m].nullifierHash # calls[n].nullifierHash
    BY <1>1 DEF MoneyInv
  <2> QED  BY <2>1, <2>2, <2>3, <2>4, <2>5 DEF OnePayoutPerNullifier
<1> QED  BY <1>1, TypeInvariant, MoneyInvariant, PTL

-----------------------------------------------------------------------------
(***************************************************************************)
(* The incremental tree.  The frontier the contract keeps is that of the   *)
(* tree of all commitments, and each root it logged is the root of the     *)
(* commitments logged up to there.                                         *)
(***************************************************************************)
LeavesUpTo(s, count) == LeavesOf([place \in 0 .. count - 1 |-> s.depositLog[place]])

Tree(s) ==
  /\ Frontier(s.filledSubtrees, LeavesOf(s.depositLog), s.nextLeafIndex)
  /\ \A count \in 0 .. s.nextLeafIndex : RootAfter(s, count) = Root(LeavesUpTo(s, count))

TreeInv == Tree(Storage) /\ \A n \in DOMAIN calls : Tree(calls[n].before)

LEMMA ZerosExist ==
  \E f : f = [level \in 0 .. TREE_DEPTH |-> IF level = 0 THEN Zero ELSE H2(f[level - 1], f[level - 1])]
<1> DEFINE S == {k \in Nat : \E f : f = [level \in 0 .. k |->
                                IF level = 0 THEN Zero ELSE H2(f[level - 1], f[level - 1])]}
<1>1. 0 \in S
  <2> DEFINE g == [level \in 0 .. 0 |-> Zero]
  <2>1. g = [level \in 0 .. 0 |-> IF level = 0 THEN Zero ELSE H2(g[level - 1], g[level - 1])]
    OBVIOUS
  <2> QED  BY <2>1
<1>2. ASSUME NEW k \in 0 .. TREE_DEPTH - 1, k \in S  PROVE k + 1 \in S
  <2>1. PICK f : f = [level \in 0 .. k |->
                        IF level = 0 THEN Zero ELSE H2(f[level - 1], f[level - 1])]
    BY <1>2
  <2> DEFINE g == [level \in 0 .. k + 1 |-> IF level = k + 1 THEN H2(f[k], f[k]) ELSE f[level]]
  <2>2. \A level \in 0 .. k : g[level] = f[level]
    OBVIOUS
  <2>3. ASSUME NEW level \in 0 .. k + 1
        PROVE  g[level] = IF level = 0 THEN Zero ELSE H2(g[level - 1], g[level - 1])
    <3>1. CASE level = k + 1
      <4>1. level # 0 /\ level - 1 = k /\ g[level] = H2(f[k], f[k]) /\ g[k] = f[k]
        BY <3>1
      <4> HIDE DEF g
      <4> QED  BY <4>1
    <3>2. CASE level \in 0 .. k
      <4>1. g[level] = f[level] /\ (level # 0 => g[level - 1] = f[level - 1])
        BY <2>2, <3>2
      <4> HIDE DEF g
      <4> QED  BY <2>1, <3>2, <4>1
    <3> QED  BY <3>1, <3>2
  <2>4. g = [level \in 0 .. k + 1 |-> IF level = 0 THEN Zero ELSE H2(g[level - 1], g[level - 1])]
    <3>1. g = [level \in 0 .. k + 1 |-> g[level]]
      OBVIOUS
    <3> HIDE DEF g
    <3> QED  BY <2>3, <3>1
  <2>5. \E h : h = [level \in 0 .. k + 1 |->
                      IF level = 0 THEN Zero ELSE H2(h[level - 1], h[level - 1])]
    <3> HIDE DEF g
    <3> QED  BY <2>4
  <2> QED  BY <2>5
<1> HIDE DEF S
<1>3. 0 .. TREE_DEPTH \subseteq S
  BY <1>1, <1>2, Upward, TreeShape
<1>4. TREE_DEPTH \in S
  BY <1>3, TreeShape
<1> QED  BY <1>4 DEF S

\* zeros of the constructor: the roots of the empty subtrees.
LEMMA ZerosAreEmptySubtrees == EmptySubtrees(zeros)
<1>1. PICK f : f = [level \in 0 .. TREE_DEPTH |->
                      IF level = 0 THEN Zero ELSE H2(f[level - 1], f[level - 1])]
  BY ZerosExist
<1>2. zeros = [level \in 0 .. TREE_DEPTH |->
                 IF level = 0 THEN Zero ELSE H2(zeros[level - 1], zeros[level - 1])]
  BY <1>1, Zenon DEF zeros
<1>3. /\ 0 \in 0 .. TREE_DEPTH
      /\ \A d \in Depths : d + 1 \in 0 .. TREE_DEPTH /\ d + 1 # 0 /\ (d + 1) - 1 = d
  BY TreeShape DEF Depths
<1> QED  BY <1>2, <1>3 DEF EmptySubtrees

\* The loop of deposit.
LEMMA InsertionPathInserts ==
  ASSUME NEW leaf
  PROVE  Inserts(InsertionPath(leaf), leaf, nextLeafIndex, zeros, filledSubtrees)
<1> DEFINE Loop(f) == f = [level \in 0 .. TREE_DEPTH |->
             IF level = 0 THEN leaf
             ELSE IF Bit(nextLeafIndex, level - 1) = 0
                  THEN H2(f[level - 1], zeros[level - 1])
                  ELSE H2(filledSubtrees[level - 1], f[level - 1])]
<1>1. \E f : Loop(f)
  <2> DEFINE right    == [d \in Depths |-> Bit(nextLeafIndex, d) # 0]
             siblings == [d \in Depths |-> IF Bit(nextLeafIndex, d) = 0 THEN zeros[d]
                                                                        ELSE filledSubtrees[d]]
  <2>1. PICK f : Climbs(f, leaf, siblings, right)
    BY ClimbExists
  <2>2. \A level \in 0 .. TREE_DEPTH : level # 0 => level - 1 \in Depths
    BY TreeShape DEF Depths
  <2>3. ASSUME NEW level \in 0 .. TREE_DEPTH, level # 0
        PROVE  (IF right[level - 1] THEN H2(siblings[level - 1], f[level - 1])
                                    ELSE H2(f[level - 1], siblings[level - 1]))
               = IF Bit(nextLeafIndex, level - 1) = 0
                 THEN H2(f[level - 1], zeros[level - 1])
                 ELSE H2(filledSubtrees[level - 1], f[level - 1])
    BY <2>2, <2>3
  <2> HIDE DEF right, siblings
  <2>4. Loop(f)
    BY <2>1, <2>3 DEF Climbs
  <2> QED  BY <2>4
<1>2. Loop(InsertionPath(leaf))
  BY <1>1, Zenon DEF InsertionPath
<1>3. /\ 0 \in 0 .. TREE_DEPTH
      /\ \A d \in Depths : d + 1 \in 0 .. TREE_DEPTH /\ d + 1 # 0 /\ (d + 1) - 1 = d
  BY TreeShape DEF Depths
<1> DEFINE path == InsertionPath(leaf)
<1>4. Loop(path)
  BY <1>2
<1> HIDE DEF path
<1>5. Inserts(path, leaf, nextLeafIndex, zeros, filledSubtrees)
  BY <1>3, <1>4 DEF Inserts
<1> QED  BY <1>5 DEF path

LEMMA InitTree == Init => TreeInv
<1> SUFFICES ASSUME Init  PROVE TreeInv
  OBVIOUS
<1>1. /\ calls = <<>> /\ nextLeafIndex = 0
      /\ Storage.nextLeafIndex = 0
      /\ Storage.filledSubtrees = filledSubtrees
      /\ Storage.depositLog = depositLog
  BY DEF Init, Storage
<1>2. \A d \in Depths : Bit(0, d) # 1
  <2> TAKE d \in Depths
  <2>1. 2^d \in Nat \ {0}
    BY PowersOfTwo, TreeShape DEF Depths
  <2>2. \A w \in Nat \ {0} : (0 \div w) % 2 = 0
    OBVIOUS
  <2>3. Bit(0, d) = 0
    BY <2>1, <2>2 DEF Bit
  <2> QED  BY <2>3
<1>3. Frontier(filledSubtrees, LeavesOf(depositLog), 0)
  BY <1>2 DEF Frontier
<1>4. RootAfter(Storage, 0) = Root(LeavesUpTo(Storage, 0))
  <2>1. DOMAIN LeavesUpTo(Storage, 0) = {}
    BY DEF LeavesUpTo, LeavesOf
  <2>2. Root(LeavesUpTo(Storage, 0)) = zeros[TREE_DEPTH]
    BY <2>1, EmptyTree, ZerosAreEmptySubtrees
  <2> QED  BY <2>2 DEF RootAfter, EmptyRoot
<1>5. \A count \in 0 .. 0 : count = 0
  OBVIOUS
<1>6. Tree(Storage)
  BY <1>1, <1>3, <1>4, <1>5 DEF Tree
<1> QED  BY <1>1, <1>6 DEF TreeInv

LEMMA DepositTree ==
  ASSUME TypeInv, Tree(Storage), NEW commitment, NEW value, Deposit(commitment, value)
  PROVE  Tree(Storage)'
<1> DEFINE n      == nextLeafIndex
           before == LeavesOf(depositLog)
           after  == LeavesOf(depositLog')
           path   == InsertionPath(commitment.field)
<1>1. /\ n \in 0 .. TREE_CAPACITY - 1 /\ n \in Nat
      /\ DOMAIN depositLog = 0 .. n - 1
  <2>1. n \in 0 .. TREE_CAPACITY /\ n # TREE_CAPACITY /\ DOMAIN depositLog = 0 .. n - 1
    BY DEF TypeInv, Typed, Storage, Deposit, HasRoom
  <2> QED  BY <2>1, TreeShape
<1>2. /\ nextLeafIndex' = n + 1
      /\ filledSubtrees' = [d \in Depths |-> IF Bit(n, d) = 0 THEN path[d] ELSE filledSubtrees[d]]
      /\ depositLog' = [place \in 0 .. n |->
           IF place = n THEN [commitment |-> commitment.field, root |-> path[TREE_DEPTH]]
                        ELSE depositLog[place]]
  BY DEF Deposit
<1>3. /\ DOMAIN after = 0 .. n /\ after[n] = commitment.field
      /\ DOMAIN before = 0 .. n - 1
      /\ \A place \in 0 .. n - 1 : after[place] = before[place]
  BY <1>1, <1>2 DEF LeavesOf
<1>4. Inserts(path, commitment.field, n, zeros, filledSubtrees)
  BY InsertionPathInserts
<1>5. Frontier(filledSubtrees, before, n)
  BY DEF Tree, Storage
<1>6. \A count \in 0 .. n : RootAfter(Storage, count) = Root(LeavesUpTo(Storage, count))
  BY DEF Tree, Storage
<1>7. \A count \in 0 .. n : /\ RootAfter(Storage', count) = RootAfter(Storage, count)
                            /\ LeavesUpTo(Storage', count) = LeavesUpTo(Storage, count)
  <2>1. \A place \in 0 .. n - 1 : depositLog'[place] = depositLog[place]
    BY <1>1, <1>2
  <2>2. Storage'.depositLog = depositLog' /\ Storage.depositLog = depositLog
    BY DEF Storage
  <2> TAKE count \in 0 .. n
  <2>3. \A place \in 0 .. count - 1 : place \in 0 .. n - 1
    BY <1>1
  <2>4. LeavesUpTo(Storage', count) = LeavesUpTo(Storage, count)
    <3>1. [place \in 0 .. count - 1 |-> depositLog'[place]] = [place \in 0 .. count - 1 |-> depositLog[place]]
      BY <2>1, <2>3
    <3> QED  BY <2>2, <3>1 DEF LeavesUpTo
  <2>5. count # 0 => count - 1 \in 0 .. n - 1
    BY <1>1
  <2> QED  BY <2>1, <2>2, <2>4, <2>5 DEF RootAfter
<1>8. /\ RootAfter(Storage', n + 1) = path[TREE_DEPTH]
      /\ LeavesUpTo(Storage', n + 1) = after
  <2>1. Storage'.depositLog = depositLog' /\ (n + 1) - 1 = n /\ n + 1 # 0 /\ n \in 0 .. n
    BY <1>1 DEF Storage
  <2>2. depositLog'[n].root = path[TREE_DEPTH]
    BY <1>2, <2>1
  <2>3. [place \in 0 .. n |-> depositLog'[place]] = depositLog'
    BY <1>2
  <2> HIDE DEF n
  <2> QED  BY <2>1, <2>2, <2>3 DEF RootAfter, LeavesUpTo
<1> HIDE DEF before, after, path
<1>9. Appended(before, after, n)
  BY <1>1, <1>3 DEF Appended, PaddedLeaves
<1>10. PaddedLeaves(after)[n] = commitment.field
  BY <1>1, <1>3 DEF PaddedLeaves
<1>11. \A d \in 0 .. TREE_DEPTH : path[d] = Levels(after)[d][n \div 2^d]
  BY <1>4, <1>5, <1>9, <1>10, InsertionFollowsTheTree, ZerosAreEmptySubtrees
<1>12. Frontier(filledSubtrees', after, n + 1)
  BY <1>2, <1>5, <1>9, <1>11, NextFrontier
<1>13. path[TREE_DEPTH] = Root(after)
  <2>1. TREE_DEPTH \in 0 .. TREE_DEPTH
    BY TreeShape
  <2>2. path[TREE_DEPTH] = Levels(after)[TREE_DEPTH][n \div 2^TREE_DEPTH]
    BY <1>11, <2>1, Zenon
  <2> QED  BY <1>1, <2>2, RootIsTheTop, Zenon
<1>14. \A count \in 0 .. n + 1 : RootAfter(Storage', count) = Root(LeavesUpTo(Storage', count))
  <2> TAKE count \in 0 .. n + 1
  <2>1. count = n + 1 \/ count \in 0 .. n
    BY <1>1
  <2> QED  BY <1>6, <1>7, <1>8, <1>13, <2>1
<1>15. /\ Storage'.nextLeafIndex = nextLeafIndex'
       /\ Storage'.filledSubtrees = filledSubtrees'
       /\ Storage'.depositLog = depositLog'
  BY DEF Storage
<1> QED  BY <1>2, <1>12, <1>14, <1>15 DEF Tree, after

LEMMA NextTree == TypeInv /\ TreeInv /\ [Next]_vars => TreeInv'
<1> SUFFICES ASSUME TypeInv, TreeInv, [Next]_vars  PROVE TreeInv'
  OBVIOUS
<1>1. CASE SomeDeposit
  <2>1. PICK commitment, value : Deposit(commitment, value)
    BY <1>1 DEF SomeDeposit
  <2>2. calls' = calls
    BY <2>1 DEF Deposit
  <2> QED  BY <2>1, <2>2, DepositTree DEF TreeInv
<1>2. CASE SomeWithdraw
  <2>1. PICK root, nullifierHash, recipient, binding, proof :
          Withdraw(root, nullifierHash, recipient, binding, proof)
    BY <1>2 DEF SomeWithdraw
  <2>2. UNCHANGED treeVars
    BY <2>1 DEF Withdraw
  <2>3. Tree(Storage)'
    BY <2>2 DEF TreeInv, Tree, RootAfter, LeavesUpTo, Storage, treeVars
  <2> QED  BY <2>1, <2>3, WithdrawFrames DEF TreeInv
<1>3. CASE PaymentSucceeds
  <2>1. UNCHANGED treeVars /\ calls' = <<>>
    BY <1>3, PaymentFrames DEF PaymentSucceeds
  <2>2. Tree(Storage)'
    BY <2>1 DEF TreeInv, Tree, RootAfter, LeavesUpTo, Storage, treeVars
  <2> QED  BY <2>1, <2>2 DEF TreeInv
<1>4. CASE PaymentFails
  <2>1. calls' = <<>> /\ Head(calls) = calls[1] /\ Tree(calls[1].before)
    BY <1>4, PaymentFrames DEF PaymentFails, TreeInv
  <2>2. Tree(Storage)'
    BY <1>4, <2>1 DEF PaymentFails, Tree, RootAfter, LeavesUpTo, Storage
  <2> QED  BY <2>1, <2>2 DEF TreeInv
<1>5. CASE UNCHANGED vars
  BY <1>5 DEF vars, treeVars, TreeInv, Tree, RootAfter, LeavesUpTo, Storage
<1> QED  BY <1>1, <1>2, <1>3, <1>4, <1>5 DEF Next

LEMMA TreeInvariant == Spec => []TreeInv
<1>1. TypeInv /\ TreeInv /\ [Next]_vars => TreeInv'  BY NextTree
<1> QED  BY InitTree, <1>1, TypeInvariant, PTL DEF Spec

LEMMA CurrentRootIsTheLogs ==
  ASSUME TypeInv, Ring(Storage), Tree(Storage)
  PROVE  currentRoot = Root(LeavesOf(depositLog))
<1>1. nextLeafIndex \in 0 .. nextLeafIndex /\ DOMAIN depositLog = 0 .. nextLeafIndex - 1
  BY TreeShape DEF TypeInv, Typed, Storage
<1>2. currentRoot = RootAfter(Storage, nextLeafIndex)
  BY WindowOfRing DEF RootWindow, HistoricRoot, RootAfter, Storage
<1>3. RootAfter(Storage, nextLeafIndex) = Root(LeavesUpTo(Storage, nextLeafIndex))
  BY <1>1 DEF Tree, Storage
<1>4. LeavesUpTo(Storage, nextLeafIndex) = LeavesOf(depositLog)
  BY <1>1 DEF LeavesUpTo, LeavesOf, Storage
<1> QED  BY <1>2, <1>3, <1>4

\* The root the contract builds leaf by leaf from its frontier is the root the native
\* tree builds from the whole list, for every depth and number of deposits.
THEOREM IncrementalTreeIsTheTree == Spec => []TreeMatchesLog
<1>1. TypeInv /\ RingInv /\ TreeInv => TreeMatchesLog
  BY CurrentRootIsTheLogs DEF RingInv, TreeInv, TreeMatchesLog
<1> QED  BY <1>1, TypeInvariant, RingInvariant, TreeInvariant, PTL

-----------------------------------------------------------------------------
(* What a proof shows *)

\* `prove` worked on a leaf of a list that fits the tree.
LEMMA ProofIsOfALeaf ==
  ASSUME NEW requests, NEW lists, NEW proof \in ProofsFrom(requests, lists),
         \A list \in lists : Length(list) \in Nat /\ DOMAIN list = 0 .. Length(list) - 1
  PROVE  \E request \in requests, list \in lists, place \in 0 .. TREE_CAPACITY - 1 :
           /\ proof = Statement(request, list, place)
           /\ PaddedLeaves(list)[place] = Commitment(request.note)
<1>1. PICK request \in requests, list \in lists :
        \E place \in DOMAIN list : CanProve(request, list, place) /\ proof = Statement(request, list, place)
  BY DEF ProofsFrom
<1>2. PICK place \in DOMAIN list :
        CanProve(request, list, place) /\ proof = Statement(request, list, place)
  BY <1>1
<1>3. place \in 0 .. TREE_CAPACITY - 1
  <2>1. /\ Length(list) \in Nat /\ place \in 0 .. Length(list) - 1
        /\ Length(list) <= TREE_CAPACITY
    BY <1>2 DEF CanProve
  <2> QED  BY <2>1, TreeShape
<1>4. PaddedLeaves(list)[place] = Commitment(request.note)
  BY <1>2, <1>3 DEF PaddedLeaves, CanProve
<1> QED  BY <1>2, <1>3, <1>4

LEMMA ListsAreLists ==
  ASSUME TypeInv, NEW list \in PublishedLists \union ForeignLists \union {LeavesOf(depositLog)}
  PROVE  Length(list) \in Nat /\ DOMAIN list = 0 .. Length(list) - 1
<1>1. CASE list \in ForeignLists
  BY <1>1, CallersAssumption
<1>2. CASE list \in PublishedLists
  <2>1. PICK length \in 0 .. nextLeafIndex :
          list = LeavesOf([place \in 0 .. length - 1 |-> depositLog[place]])
    BY <1>2 DEF PublishedLists
  <2>2. length \in Nat /\ DOMAIN list = 0 .. length - 1
    BY <2>1, TreeShape DEF LeavesOf, TypeInv, Typed, Storage
  <2> QED  BY <2>2, LengthOfList
<1>3. CASE list = LeavesOf(depositLog)
  <2>1. nextLeafIndex \in Nat /\ DOMAIN list = 0 .. nextLeafIndex - 1
    BY <1>3, TreeShape DEF LeavesOf, TypeInv, Typed, Storage
  <2> QED  BY <2>1, LengthOfList
<1> QED  BY <1>1, <1>2, <1>3

\* The contract's domain is the prover's for this deployment.
LEMMA DomainOfHere == protocolDomain = DomainDigest(Here)
  BY CallersAssumption DEF protocolDomain, DomainDigest

\* The owner's proof against the present list passes withdraw's checks, for every
\* depth and window, until the nullifier is spent.
THEOREM OwnersCanWithdraw == Spec => []NoteStaysWithdrawable
<1>1. ASSUME TypeInv, RingInv, TreeInv  PROVE NoteStaysWithdrawable
  <2> SUFFICES ASSUME NEW request \in Requests, request.deployment = Here, ~ IsSpent(request.note),
                      NEW proof \in ProofsFrom({request}, {LeavesOf(depositLog)})
               PROVE  /\ isKnownRoot(Word(proof.root))
                      /\ Word(proof.nullifierHash) \notin nullifierSpent
                      /\ proof.domain = protocolDomain
    BY DEF NoteStaysWithdrawable
  <2> DEFINE list == LeavesOf(depositLog)
  <2>1. PICK place \in 0 .. TREE_CAPACITY - 1 :
          /\ proof = Statement(request, list, place)
          /\ PaddedLeaves(list)[place] = Commitment(request.note)
    <3>1. Length(list) \in Nat /\ DOMAIN list = 0 .. Length(list) - 1
      BY <1>1, ListsAreLists
    <3> HIDE DEF list
    <3> QED  BY <3>1, ProofIsOfALeaf DEF list
  <2>2. /\ proof.root = ComputeRoot(Prove(list, place), Commitment(request.note))
        /\ proof.nullifierHash = NullifierHash(request.note)
        /\ proof.domain = DomainDigest(Here)
    BY <2>1 DEF Statement
  <2>3. proof.root = Root(list)
    BY <2>1, <2>2, PathOfALeafReachesTheRoot
  <2>4. proof.root = HistoricRoot(nextLeafIndex)
    BY <1>1, <2>3, CurrentRootIsTheLogs, WindowOfRing DEF RingInv, TreeInv, RootWindow
  <2>5. isKnownRoot(Word(proof.root))
    <3>1. /\ nextLeafIndex \in 0 .. nextLeafIndex
          /\ nextLeafIndex + ROOT_HISTORY_SIZE > nextLeafIndex
      BY <1>1, TreeShape, PoolAssumption DEF TypeInv, Typed, Storage
    <3>2. proof.root \in HistoricRoots
      BY <2>4, <3>1 DEF HistoricRoots
    <3> QED  BY <1>1, <2>4, <3>1, <3>2, WindowOfRing DEF RingInv, RootWindow
  <2>6. Word(proof.nullifierHash) \notin nullifierSpent
    BY <2>2 DEF IsSpent, Word
  <2> QED  BY <2>2, <2>5, <2>6, DomainOfHere
<1> QED  BY <1>1, TypeInvariant, RingInvariant, TreeInvariant, PTL

-----------------------------------------------------------------------------
(***************************************************************************)
(* Who is paid.  A known root is the root of some first deposits, and a    *)
(* path leads to it from one of them only, so the proof's note was         *)
(* deposited.  The payment in progress adds a payout, and the recipient's  *)
(* code may add deposits, to the storage its frame keeps: nothing else.    *)
(***************************************************************************)
IsLeaf(s, note) ==
  \E place \in DOMAIN s.depositLog : s.depositLog[place].commitment = Commitment(note)

AskedFor(s, nullifierHash, recipient) ==
  \E request \in Requests :
    /\ request.deployment = Here
    /\ request.recipient = recipient
    /\ NullifierHash(request.note) = nullifierHash.field
    /\ IsLeaf(s, request.note)

Rightful(s) ==
  /\ \A word \in s.nullifierSpent :
       \E note \in Notes : NullifierHash(note) = word.field /\ IsLeaf(s, note)
  /\ \A n \in DOMAIN s.withdrawalLog :
       AskedFor(s, s.withdrawalLog[n].nullifierHash, s.withdrawalLog[n].recipient)

Continues(frame) ==
  /\ frame.before.nextLeafIndex <= nextLeafIndex
  /\ \A place \in 0 .. frame.before.nextLeafIndex - 1 :
       depositLog[place] = frame.before.depositLog[place]
  /\ withdrawalLog = frame.before.withdrawalLog
  /\ frame.nullifierHash \notin frame.before.nullifierSpent
  /\ nullifierSpent = frame.before.nullifierSpent \union {frame.nullifierHash}

RightsInv ==
  /\ Rightful(Storage)
  /\ \A k \in DOMAIN calls :
       /\ Rightful(calls[k].before)
       /\ AskedFor(calls[k].before, calls[k].nullifierHash, calls[k].recipient)
       /\ Continues(calls[k])

LEMMA KnownRootsAreHistoric ==
  ASSUME TypeInv, Ring(Storage), NEW root, isKnownRoot(root)
  PROVE  /\ Canonical(root)
         /\ \E count \in 0 .. nextLeafIndex : root.field = RootAfter(Storage, count)
<1>1. PICK place \in 0 .. rootCount - 1 : Canonical(root) /\ roots[place] = root.field
  BY DEF isKnownRoot
<1> DEFINE c   == currentRootIndex
           n   == nextLeafIndex
           age == IF place <= c THEN c - place ELSE c - place + ROOT_HISTORY_SIZE
<1>2. /\ n \in Nat /\ c \in 0 .. ROOT_HISTORY_SIZE - 1
      /\ rootCount = IF n + 1 < ROOT_HISTORY_SIZE THEN n + 1 ELSE ROOT_HISTORY_SIZE
      /\ rootCount < ROOT_HISTORY_SIZE => c = rootCount - 1
      /\ \A a \in 0 .. rootCount - 1 : roots[SlotOfAge(c, a)] = RootAfter(Storage, n - a)
  BY TreeShape DEF TypeInv, Typed, Storage, Ring, RootSlots
<1> HIDE DEF c, n
<1>3. age \in 0 .. rootCount - 1 /\ SlotOfAge(c, age) = place /\ n - age \in 0 .. n
  BY <1>2, PoolAssumption DEF SlotOfAge
<1> QED  BY <1>1, <1>2, <1>3 DEF n

LEMMA Injective ==
  /\ \A a, b, c, d : H2(a, b) = H2(c, d) => a = c /\ b = d
  /\ \A a, b : H1(a) = H1(b) => a = b
  BY DEF H1, H2

LEMMA DomainIsInjective ==
  ASSUME NEW request \in Requests, DomainDigest(request.deployment) = DomainDigest(Here)
  PROVE  request.deployment = Here
<1> DEFINE there == request.deployment
<1>1. there \in {Here} \union {r.deployment : r \in Requests}
  OBVIOUS
<1>2. /\ there = [chainLow |-> there.chainLow, chainHigh |-> there.chainHigh, pool |-> there.pool,
                  asset |-> there.asset, version |-> there.version]
      /\ Here = [chainLow |-> Here.chainLow, chainHigh |-> Here.chainHigh, pool |-> Here.pool,
                 asset |-> Here.asset, version |-> Here.version]
  BY <1>1, CallersAssumption
<1>3. DomainDigest(there) = DomainDigest(Here)
  OBVIOUS
<1> HIDE DEF there
<1>4. H2(H2(H2(there.chainLow, there.chainHigh), H2(there.pool, there.asset)), there.version)
      = H2(H2(H2(Here.chainLow, Here.chainHigh), H2(Here.pool, Here.asset)), Here.version)
  BY <1>3, Injective DEF DomainDigest
<1>5. /\ H2(H2(there.chainLow, there.chainHigh), H2(there.pool, there.asset))
         = H2(H2(Here.chainLow, Here.chainHigh), H2(Here.pool, Here.asset))
      /\ there.version = Here.version
  BY <1>4, Injective
<1>6. /\ H2(there.chainLow, there.chainHigh) = H2(Here.chainLow, Here.chainHigh)
      /\ H2(there.pool, there.asset) = H2(Here.pool, Here.asset)
  BY <1>5, Injective
<1>7. /\ there.chainLow = Here.chainLow /\ there.chainHigh = Here.chainHigh
      /\ there.pool = Here.pool /\ there.asset = Here.asset
  BY <1>6, Injective
<1>8. there = Here
  BY <1>2, <1>5, <1>7
<1> QED  BY <1>8 DEF there

\* The verifier and isKnownRoot together: the payout was asked for, here, by the
\* owner of a note that is a leaf already.
LEMMA WithdrawIsAskedFor ==
  ASSUME TypeInv, Ring(Storage), Tree(Storage),
         NEW root, NEW nullifierHash, NEW recipient, NEW binding, NEW proof \in Proofs,
         Withdraw(root, nullifierHash, recipient, binding, proof)
  PROVE  AskedFor(Storage, nullifierHash, recipient)
<1> DEFINE inputs == [root |-> root, nullifierHash |-> nullifierHash,
                      recipient |-> Word(recipient), domain |-> Word(protocolDomain),
                      binding |-> binding]
<1>1. PICK request \in Requests, list \in PublishedLists \union ForeignLists,
           place \in 0 .. TREE_CAPACITY - 1 :
        /\ proof = Statement(request, list, place)
        /\ PaddedLeaves(list)[place] = Commitment(request.note)
  <2>1. \A list \in PublishedLists \union ForeignLists :
          Length(list) \in Nat /\ DOMAIN list = 0 .. Length(list) - 1
    BY ListsAreLists
  <2>2. proof \in ProofsFrom(Requests, PublishedLists \union ForeignLists)
    BY DEF Proofs
  <2> QED  BY <2>1, <2>2, ProofIsOfALeaf
<1>2. /\ DOMAIN proof = {"root", "nullifierHash", "recipient", "domain", "binding"}
      /\ proof.root = ComputeRoot(Prove(list, place), Commitment(request.note))
      /\ proof.nullifierHash = NullifierHash(request.note)
      /\ proof.recipient = request.recipient
      /\ proof.domain = DomainDigest(request.deployment)
  BY <1>1 DEF Statement
<1>3. \A name \in DOMAIN proof : inputs[name].field = proof[name]
  BY DEF Withdraw, VerifierAccepts
<1>4. /\ root.field = proof.root /\ nullifierHash.field = proof.nullifierHash
      /\ recipient = proof.recipient /\ protocolDomain = proof.domain
  BY <1>2, <1>3 DEF Word
<1>5. request.deployment = Here
  BY <1>2, <1>4, DomainOfHere, DomainIsInjective
<1>6. PICK count \in 0 .. nextLeafIndex : root.field = RootAfter(Storage, count)
  BY KnownRootsAreHistoric DEF Withdraw
<1> DEFINE historic == LeavesUpTo(Storage, count)
           path     == Prove(list, place)
<1>7. ComputeRoot(path, Commitment(request.note)) = Root(historic)
  BY <1>2, <1>4, <1>6 DEF Tree, Storage
<1>8. \A d \in Depths : path.pathBits[d] <=> Bit(place, d) = 1
  BY DEF Prove
<1>9. PaddedLeaves(historic)[place] = Commitment(request.note)
  <2> HIDE DEF historic, path
  <2> QED  BY <1>7, <1>8, PathBindsItsLeaf
<1>10. request.note \in Notes /\ Commitment(request.note) # Zero
  BY CallersAssumption
<1>11. place \in DOMAIN historic /\ historic[place] = Commitment(request.note)
  <2> HIDE DEF historic
  <2> QED  BY <1>9, <1>10 DEF PaddedLeaves
<1>12. /\ place \in DOMAIN depositLog
       /\ depositLog[place].commitment = Commitment(request.note)
  <2>1. place \in 0 .. count - 1 /\ historic[place] = depositLog[place].commitment
    BY <1>11 DEF LeavesUpTo, LeavesOf, Storage
  <2>2. DOMAIN depositLog = 0 .. nextLeafIndex - 1 /\ nextLeafIndex \in Nat
    BY TreeShape DEF TypeInv, Typed, Storage
  <2> HIDE DEF historic
  <2> QED  BY <1>6, <1>11, <2>1, <2>2
<1>13. IsLeaf(Storage, request.note)
  BY <1>12 DEF IsLeaf, Storage
<1> QED  BY <1>2, <1>4, <1>5, <1>13 DEF AskedFor

\* The recipient's code may add leaves, and takes none away.
LEMMA LeavesCarryOver ==
  ASSUME TypeInv, NEW frame, Typed(frame.before), Continues(frame)
  PROVE  \A note : IsLeaf(frame.before, note) => IsLeaf(Storage, note)
<1>1. /\ DOMAIN frame.before.depositLog = 0 .. frame.before.nextLeafIndex - 1
      /\ frame.before.nextLeafIndex \in Nat
      /\ DOMAIN depositLog = 0 .. nextLeafIndex - 1 /\ nextLeafIndex \in Nat
  BY TreeShape DEF Typed, TypeInv, Storage
<1>2. \A place \in DOMAIN frame.before.depositLog :
        /\ place \in DOMAIN depositLog
        /\ depositLog[place] = frame.before.depositLog[place]
  BY <1>1 DEF Continues
<1> QED  BY <1>2 DEF IsLeaf, Storage

LEMMA InitRights == Init => RightsInv
<1> SUFFICES ASSUME Init  PROVE RightsInv
  OBVIOUS
<1>1. nullifierSpent = {} /\ withdrawalLog = <<>> /\ calls = <<>>
  BY DEF Init
<1> QED  BY <1>1 DEF RightsInv, Rightful, Storage

LEMMA DepositRights ==
  ASSUME TypeInv, RightsInv, NEW commitment, NEW value, Deposit(commitment, value)
  PROVE  RightsInv'
<1>1. /\ DOMAIN depositLog = 0 .. nextLeafIndex - 1 /\ nextLeafIndex \in Nat
      /\ nextLeafIndex' = nextLeafIndex + 1
      /\ DOMAIN depositLog' = 0 .. nextLeafIndex
      /\ \A place \in 0 .. nextLeafIndex - 1 : depositLog'[place] = depositLog[place]
  BY TreeShape DEF TypeInv, Typed, Storage, Deposit
<1>2. UNCHANGED <<nullifierSpent, withdrawalLog, calls>>
  BY DEF Deposit
<1>3. \A note : IsLeaf(Storage, note) => IsLeaf(Storage', note)
  <2>1. \A place \in DOMAIN depositLog :
          place \in DOMAIN depositLog' /\ depositLog'[place] = depositLog[place]
    BY <1>1
  <2> QED  BY <2>1 DEF IsLeaf, Storage
<1>4. /\ Storage'.nullifierSpent = Storage.nullifierSpent
      /\ Storage'.withdrawalLog = Storage.withdrawalLog
  BY <1>2 DEF Storage
<1>5. Rightful(Storage)'
  BY <1>3, <1>4 DEF RightsInv, Rightful, AskedFor
<1>6. ASSUME NEW k \in DOMAIN calls  PROVE Continues(calls[k])'
  <2>1. calls[k].before.nextLeafIndex \in Nat
    BY FrameIsTyped, TreeShape DEF Typed
  <2>2. /\ calls[k].before.nextLeafIndex <= nextLeafIndex
        /\ \A place \in 0 .. calls[k].before.nextLeafIndex - 1 :
             depositLog[place] = calls[k].before.depositLog[place]
    BY DEF RightsInv, Continues
  <2>3. /\ calls[k].before.nextLeafIndex <= nextLeafIndex'
        /\ \A place \in 0 .. calls[k].before.nextLeafIndex - 1 :
             depositLog'[place] = calls[k].before.depositLog[place]
    BY <1>1, <2>1, <2>2
  <2> QED  BY <1>2, <2>3 DEF RightsInv, Continues
<1> QED  BY <1>2, <1>5, <1>6 DEF RightsInv

LEMMA WithdrawRights ==
  ASSUME TypeInv, Ring(Storage), Tree(Storage), RightsInv,
         NEW root, NEW nullifierHash, NEW recipient, NEW binding, NEW proof \in Proofs,
         Withdraw(root, nullifierHash, recipient, binding, proof)
  PROVE  RightsInv'
<1>1. AskedFor(Storage, nullifierHash, recipient)
  BY WithdrawIsAskedFor
<1>2. /\ nullifierHash \notin nullifierSpent
      /\ nullifierSpent' = nullifierSpent \union {nullifierHash}
      /\ UNCHANGED <<treeVars, withdrawalLog>>
  BY DEF Withdraw
<1>3. \A note : IsLeaf(Storage', note) <=> IsLeaf(Storage, note)
  BY <1>2 DEF IsLeaf, Storage, treeVars
<1>4. \E note \in Notes : NullifierHash(note) = nullifierHash.field /\ IsLeaf(Storage, note)
  BY <1>1, CallersAssumption DEF AskedFor
<1>5. /\ Storage'.nullifierSpent = Storage.nullifierSpent \union {nullifierHash}
      /\ Storage'.withdrawalLog = Storage.withdrawalLog
  BY <1>2 DEF Storage
<1>6. Rightful(Storage)'
  BY <1>3, <1>4, <1>5 DEF RightsInv, Rightful, AskedFor
<1>7. Continues(calls[1])'
  <2>1. /\ Storage.nextLeafIndex = nextLeafIndex' /\ Storage.depositLog = depositLog'
        /\ Storage.withdrawalLog = withdrawalLog' /\ Storage.nullifierSpent = nullifierSpent
    BY <1>2 DEF Storage, treeVars
  <2>2. calls'[1].before = Storage /\ calls'[1].nullifierHash = nullifierHash
    BY WithdrawFrames
  <2>3. nextLeafIndex' \in Nat
    BY <1>2, TreeShape DEF TypeInv, Typed, Storage, treeVars
  <2> QED  BY <1>2, <2>1, <2>2, <2>3 DEF Continues
<1> QED  BY <1>1, <1>6, <1>7, WithdrawFrames DEF RightsInv

LEMMA PaymentSucceedsRights ==
  ASSUME TypeInv, RightsInv, PaymentSucceeds
  PROVE  RightsInv'
<1> DEFINE payout == [nullifierHash |-> calls[1].nullifierHash, recipient |-> calls[1].recipient]
<1>1. /\ calls' = <<>> /\ DOMAIN calls = {1}
      /\ withdrawalLog' = Append(withdrawalLog, payout)
      /\ UNCHANGED <<treeVars, nullifierSpent>>
  BY PaymentFrames DEF PaymentSucceeds
<1>2. withdrawalLog \in Seq(Frames) /\ payout \in Frames
  BY PaymentFrames DEF TypeInv, Typed, Storage, PaymentSucceeds
<1>3. /\ Rightful(Storage) /\ Continues(calls[1])
      /\ AskedFor(calls[1].before, calls[1].nullifierHash, calls[1].recipient)
  BY <1>1 DEF RightsInv
<1>4. Typed(calls[1].before)
  BY <1>1, FrameIsTyped
<1>5. \A note : IsLeaf(Storage', note) <=> IsLeaf(Storage, note)
  BY <1>1 DEF IsLeaf, Storage, treeVars
<1>6. \A note : IsLeaf(calls[1].before, note) => IsLeaf(Storage', note)
  BY <1>3, <1>4, <1>5, LeavesCarryOver
<1>7. AskedFor(Storage', payout.nullifierHash, payout.recipient)
  BY <1>3, <1>6 DEF AskedFor
<1>8. Storage'.nullifierSpent = Storage.nullifierSpent /\ Storage'.withdrawalLog = withdrawalLog'
      /\ Storage.withdrawalLog = withdrawalLog
  BY <1>1 DEF Storage
<1> HIDE DEF payout
<1>9. /\ DOMAIN withdrawalLog' = DOMAIN withdrawalLog \union {Len(withdrawalLog) + 1}
      /\ withdrawalLog'[Len(withdrawalLog) + 1] = payout
      /\ \A n \in DOMAIN withdrawalLog : withdrawalLog'[n] = withdrawalLog[n]
  BY <1>1, <1>2
<1>10. \A n \in DOMAIN withdrawalLog' :
         AskedFor(Storage', withdrawalLog'[n].nullifierHash, withdrawalLog'[n].recipient)
  BY <1>3, <1>5, <1>7, <1>8, <1>9 DEF Rightful, AskedFor
<1>11. Rightful(Storage)'
  BY <1>3, <1>5, <1>8, <1>10 DEF Rightful
<1> QED  BY <1>1, <1>11 DEF RightsInv

LEMMA PaymentFailsRights ==
  ASSUME TypeInv, RightsInv, PaymentFails
  PROVE  RightsInv'
<1>1. calls' = <<>> /\ Head(calls) = calls[1] /\ Rightful(calls[1].before)
  BY PaymentFrames DEF PaymentFails, RightsInv
<1>2. Rightful(Storage)'
  BY <1>1 DEF PaymentFails, Rightful, AskedFor, IsLeaf, Storage
<1> QED  BY <1>1, <1>2 DEF RightsInv

LEMMA NextRights == TypeInv /\ RingInv /\ TreeInv /\ RightsInv /\ [Next]_vars => RightsInv'
<1> SUFFICES ASSUME TypeInv, RingInv, TreeInv, RightsInv, [Next]_vars  PROVE RightsInv'
  OBVIOUS
<1>1. CASE SomeDeposit
  BY <1>1, DepositRights DEF SomeDeposit
<1>2. CASE SomeWithdraw
  BY <1>2, WithdrawRights DEF SomeWithdraw, RingInv, TreeInv
<1>3. CASE PaymentSucceeds
  BY <1>3, PaymentSucceedsRights
<1>4. CASE PaymentFails
  BY <1>4, PaymentFailsRights
<1>5. CASE UNCHANGED vars
  BY <1>5 DEF vars, treeVars, RightsInv, Rightful, AskedFor, IsLeaf, Continues, Storage
<1> QED  BY <1>1, <1>2, <1>3, <1>4, <1>5 DEF Next

LEMMA RightsInvariant == Spec => []RightsInv
<1>1. TypeInv /\ RingInv /\ TreeInv /\ RightsInv /\ [Next]_vars => RightsInv'
  BY NextRights
<1> QED  BY InitRights, <1>1, TypeInvariant, RingInvariant, TreeInvariant, PTL DEF Spec

\* Every payout, and every payment in progress, was asked for by the owner of a
\* deposited note, to that recipient and here.
THEOREM OnlyAuthorisedPayouts == Spec => []PayoutsAuthorised
<1>1. ASSUME TypeInv, RightsInv  PROVE PayoutsAuthorised
  <2>1. \A n \in DOMAIN withdrawalLog :
          AskedFor(Storage, withdrawalLog[n].nullifierHash, withdrawalLog[n].recipient)
    BY <1>1 DEF RightsInv, Rightful, Storage
  <2>2. \A n \in DOMAIN calls : AskedFor(Storage, calls[n].nullifierHash, calls[n].recipient)
    <3> SUFFICES ASSUME NEW n \in DOMAIN calls
                 PROVE  AskedFor(Storage, calls[n].nullifierHash, calls[n].recipient)
      OBVIOUS
    <3>1. \A note : IsLeaf(calls[n].before, note) => IsLeaf(Storage, note)
      BY <1>1, FrameIsTyped, LeavesCarryOver DEF RightsInv
    <3> QED  BY <1>1, <3>1 DEF RightsInv, AskedFor
  <2>3. \A payout \in Payouts : AskedFor(Storage, payout.nullifierHash, payout.recipient)
    BY <2>1, <2>2 DEF Payouts
  <2>4. \A request \in Requests :
          IsLeaf(Storage, request.note) => request.note \in DepositedNotes
    BY CallersAssumption DEF IsLeaf, Storage, DepositedNotes
  <2> QED  BY <2>3, <2>4 DEF PayoutsAuthorised, AskedFor
<1> QED  BY <1>1, TypeInvariant, RightsInvariant, PTL

-----------------------------------------------------------------------------
(***************************************************************************)
(* What is owed.  A leaf holds one nullifier, so the nullifiers that are   *)
(* spent, and those that are deposited and are not, take a leaf each.      *)
(***************************************************************************)
Deposited(nullifiers) ==
  \A h \in nullifiers : \E note \in Notes : NullifierHash(note) = h /\ IsLeaf(Storage, note)

LEMMA ALeafPerNullifier ==
  ASSUME DOMAIN depositLog = 0 .. nextLeafIndex - 1, nextLeafIndex \in Nat,
         NEW nullifiers, Deposited(nullifiers)
  PROVE  IsFiniteSet(nullifiers) /\ Cardinality(nullifiers) <= nextLeafIndex
<1> DEFINE Holds(place, h) ==
             \E note : NullifierHash(note) = h /\ depositLog[place].commitment = Commitment(note)
           leaf == [h \in nullifiers |-> CHOOSE place \in 0 .. nextLeafIndex - 1 : Holds(place, h)]
<1>1. \A h \in nullifiers : \E place \in 0 .. nextLeafIndex - 1 : Holds(place, h)
  BY DEF Deposited, IsLeaf, Storage
<1>2. \A h \in nullifiers : leaf[h] \in 0 .. nextLeafIndex - 1 /\ Holds(leaf[h], h)
  <2> HIDE DEF Holds
  <2> QED  BY <1>1
<1>3. \A place, g, h : Holds(place, g) /\ Holds(place, h) => g = h
  <2>1. \A a, b : Commitment(a) = Commitment(b) => NullifierHash(a) = NullifierHash(b)
    BY Injective DEF Commitment, NullifierHash
  <2> QED  BY <2>1
<1> HIDE DEF Holds
<1>4. leaf \in Injection(nullifiers, 0 .. nextLeafIndex - 1)
  <2>1. leaf \in [nullifiers -> 0 .. nextLeafIndex - 1]
    BY <1>2
  <2>2. \A g, h \in nullifiers : leaf[g] = leaf[h] => g = h
    BY <1>2, <1>3
  <2> HIDE DEF leaf
  <2> QED  BY <2>1, <2>2 DEF Injection, IsInjective
<1>5. /\ IsFiniteSet(0 .. nextLeafIndex - 1)
      /\ Cardinality(0 .. nextLeafIndex - 1) = nextLeafIndex
  BY FS_Interval
<1> QED  BY <1>4, <1>5, FS_Injection

\* A note that can still be withdrawn can be paid, and so can all of them together.
THEOREM EveryNoteIsFunded == Spec => []FundsForEveryUnspentNote
<1>1. ASSUME TypeInv, MoneyInv, RightsInv  PROVE FundsForEveryUnspentNote
  <2> DEFINE unspent == {note \in DepositedNotes : ~IsSpent(note)}
             owed    == {NullifierHash(note) : note \in unspent}
             spent   == {word.field : word \in nullifierSpent}
  <2>1. /\ DOMAIN depositLog = 0 .. nextLeafIndex - 1 /\ nextLeafIndex \in Nat
        /\ nullifierSpent \subseteq WordsOf(NullifierHashes)
    BY <1>1, TreeShape DEF TypeInv, Typed, Storage
  <2>2. Deposited(owed \union spent)
    <3>1. Deposited(owed)
      BY DEF Deposited, DepositedNotes, IsLeaf, Storage
    <3>2. Deposited(spent)
      BY <1>1 DEF Deposited, RightsInv, Rightful, Storage
    <3> QED  BY <3>1, <3>2 DEF Deposited
  <2>3. owed \intersect spent = {}
    BY DEF IsSpent
  <2>4. IsFiniteSet(nullifierSpent) /\ balance = DENOMINATION * (nextLeafIndex - Cardinality(nullifierSpent))
    BY <1>1 DEF MoneyInv, Accounted, Storage
  <2>5. IsFiniteSet(spent) /\ Cardinality(spent) = Cardinality(nullifierSpent)
    <3> DEFINE field == [word \in nullifierSpent |-> word.field]
    <3>1. field \in Injection(nullifierSpent, spent)
      <4>1. \A v, w \in nullifierSpent : field[v] = field[w] => v = w
        BY <1>1, SpentByField
      <4>2. field \in [nullifierSpent -> spent]
        OBVIOUS
      <4> HIDE DEF field, spent
      <4> QED  BY <4>1, <4>2 DEF Injection, IsInjective
    <3>2. field \in Surjection(nullifierSpent, spent)
      BY DEF Surjection
    <3>3. field \in Bijection(nullifierSpent, spent)
      BY <3>1, <3>2 DEF Bijection
    <3> HIDE DEF field, spent
    <3> QED  BY <2>4, <3>3, FS_Bijection DEF ExistsBijection
  <2> HIDE DEF owed, spent
  <2>6. /\ IsFiniteSet(owed \union spent)
        /\ Cardinality(owed \union spent) <= nextLeafIndex
    BY <2>1, <2>2, ALeafPerNullifier
  <2>7. IsFiniteSet(owed)
    BY <2>6, FS_Subset
  <2>8. Cardinality(owed) + Cardinality(spent) <= nextLeafIndex
    <3>1. Cardinality(owed \union spent)
            = Cardinality(owed) + Cardinality(spent) - Cardinality(owed \intersect spent)
      BY <2>5, <2>7, FS_Union
    <3>2. Cardinality(owed \intersect spent) = 0
      BY <2>3, FS_EmptySet
    <3>3. Cardinality(owed) \in Nat /\ Cardinality(spent) \in Nat
      BY <2>5, <2>7, FS_CardinalityType
    <3> QED  BY <2>6, <3>1, <3>2, <3>3
  <2>9. DENOMINATION * Cardinality(owed)
          <= DENOMINATION * (nextLeafIndex - Cardinality(nullifierSpent))
    BY <2>1, <2>4, <2>5, <2>7, <2>8, FS_CardinalityType, Monotone, PoolAssumption
  <2> QED  BY <2>4, <2>9 DEF FundsForEveryUnspentNote, owed
<1> QED  BY <1>1, TypeInvariant, MoneyInvariant, RightsInvariant, PTL

-----------------------------------------------------------------------------
(***************************************************************************)
(* The pool implements the ledger.  What the ledger sees of a storage is   *)
(* its leaves, its payouts and its balance; while a payment is in progress *)
(* it sees the storage of the frame.  Only a deposit outside a payment and *)
(* a payment that succeeds are seen at all.                                *)
(***************************************************************************)
LeavesIn(s) == LeavesOf(s.depositLog)

PayoutOf(entry) ==
  [nullifierHash |-> entry.nullifierHash.field, recipient |-> entry.recipient]

PayoutsOf(log) == {PayoutOf(log[n]) : n \in DOMAIN log}

PayoutsIn(s) == PayoutsOf(s.withdrawalLog)

SameLedger(s, t) ==
  /\ t.depositLog = s.depositLog
  /\ t.withdrawalLog = s.withdrawalLog
  /\ t.balance = s.balance

LEMMA LedgerArithmetic ==
  ASSUME NEW d \in Nat, NEW n \in Int, NEW m \in Int, NEW k \in Int
  PROVE  d * (n - (k + 1)) = d * (m - k) + d * ((n - m) - 1)
  OBVIOUS

LEMMA WhatIsCommitted ==
  ASSUME TypeInv
  PROVE  /\ calls = <<>> => Committed = Storage
         /\ calls # <<>> => Committed = calls[1].before
<1>1. ASSUME calls # <<>>  PROVE Len(calls) = 1
  <2>1. calls = <<calls[1]>>
    BY <1>1, PaymentFrames
  <2> QED  BY <2>1
<1> QED  BY <1>1 DEF Committed

\* The ledger's instance of the library counts as the library does.
LEMMA LedgerCounts == \A S : Ledger!Cardinality(S) = Cardinality(S)
  BY DEF Ledger!Cardinality, Cardinality

LEMMA FinitePayouts ==
  ASSUME TypeInv
  PROVE  /\ IsFiniteSet(PayoutsIn(Committed))
         /\ Cardinality(PayoutsIn(Committed)) \in Nat
<1> DEFINE log       == Committed.withdrawalLog
           payout(n) == [nullifierHash |-> log[n].nullifierHash.field,
                         recipient     |-> log[n].recipient]
           numbered  == [n \in 1 .. Len(log) |-> payout(n)]
<1>1. log \in Seq(Frames)
  <2>1. CASE calls = <<>>
    BY <2>1, WhatIsCommitted DEF TypeInv, Typed
  <2>2. CASE calls # <<>>
    BY <2>2, WhatIsCommitted, PaymentFrames, FrameIsTyped DEF Typed
  <2> QED  BY <2>1, <2>2
<1> HIDE DEF log
<1>2. DOMAIN log = 1 .. Len(log) /\ Len(log) \in Nat
  BY <1>1
<1>3. IsFiniteSet(1 .. Len(log))
  BY <1>2, FS_Interval
<1>4. PayoutsIn(Committed) = {payout(n) : n \in 1 .. Len(log)}
  BY <1>2 DEF PayoutsIn, PayoutsOf, PayoutOf, log
<1>5. numbered \in Surjection(1 .. Len(log), PayoutsIn(Committed))
  <2> HIDE DEF payout
  <2> QED  BY <1>4 DEF Surjection
<1> HIDE DEF numbered
<1> QED  BY <1>3, <1>5, FS_Surjection, FS_CardinalityType

LEMMA LedgerStarts == Init => Ledger!Init
<1> SUFFICES ASSUME Init  PROVE Ledger!Init
  OBVIOUS
<1>1. Committed = Storage
  BY DEF Init, Committed
<1>2. depositLog = [place \in {} |-> Zero] /\ withdrawalLog = <<>> /\ balance = 0
  BY DEF Init
<1>3. /\ Committed.depositLog = [place \in {} |-> Zero]
      /\ Committed.withdrawalLog = <<>> /\ Committed.balance = 0
  BY <1>1, <1>2 DEF Storage
<1>4. LeavesOf(Committed.depositLog) = [place \in {} |-> Zero]
  BY <1>3 DEF LeavesOf
<1> QED  BY <1>3, <1>4 DEF Ledger!Init

LEMMA NotSeen ==
  ASSUME SameLedger(Committed, Committed')
  PROVE  UNCHANGED <<LeavesIn(Committed), PayoutsIn(Committed), Committed.balance>>
  BY DEF SameLedger, LeavesIn, LeavesOf, PayoutsIn, PayoutsOf

\* A deposit by nobody's callback: one leaf, one denomination.
LEMMA DepositIsATransaction ==
  ASSUME TypeInv, calls = <<>>, NEW commitment, NEW value, Deposit(commitment, value)
  PROVE  Ledger!Transaction
<1>1. Committed = Storage /\ Committed' = Storage'
  BY DEF Committed, Deposit
<1>2. /\ DOMAIN depositLog = 0 .. nextLeafIndex - 1 /\ nextLeafIndex \in Nat
      /\ DOMAIN depositLog' = 0 .. nextLeafIndex
      /\ \A place \in 0 .. nextLeafIndex - 1 : depositLog'[place] = depositLog[place]
      /\ balance \in Nat
      /\ balance' = balance + DENOMINATION
      /\ withdrawalLog' = withdrawalLog
  BY TreeShape DEF TypeInv, Typed, Storage, Deposit, PaysDenomination
<1> DEFINE kept    == LeavesIn(Committed)
           payouts == PayoutsIn(Committed)
<1>3. kept = LeavesOf(depositLog) /\ kept' = LeavesOf(depositLog')
  BY <1>1 DEF LeavesIn, Storage
<1>4. /\ DOMAIN kept = 0 .. nextLeafIndex - 1 /\ DOMAIN kept' = 0 .. nextLeafIndex
      /\ \A place \in 0 .. nextLeafIndex - 1 : kept'[place] = kept[place]
  <2> HIDE DEF kept
  <2> QED  BY <1>2, <1>3 DEF LeavesOf
<1>5. payouts' = payouts
  BY <1>1, <1>2 DEF PayoutsIn, PayoutsOf, Storage
<1>6. Committed.balance \in Nat /\ Committed'.balance = Committed.balance + DENOMINATION
  BY <1>1, <1>2 DEF Storage
<1> HIDE DEF kept, payouts
<1>7. /\ Cardinality(DOMAIN kept) = nextLeafIndex
      /\ Cardinality(DOMAIN kept') = nextLeafIndex + 1
  BY <1>2, <1>4, FS_Interval
<1>8. Ledger!LeavesGrow
  <2>1. DOMAIN kept \subseteq DOMAIN kept' /\ \A place \in DOMAIN kept : kept'[place] = kept[place]
    BY <1>2, <1>4
  <2> QED  BY <2>1 DEF Ledger!LeavesGrow, kept, LeavesIn
<1>9. Ledger!NoPayout
  BY <1>5 DEF Ledger!NoPayout, payouts, PayoutsIn, PayoutsOf, PayoutOf
<1>10. Ledger!MoneyFollows
  <2> DEFINE change == (Cardinality(DOMAIN kept') - Cardinality(DOMAIN kept))
                         - (Cardinality(payouts') - Cardinality(payouts))
  <2>1. change = 1
    <3>1. Cardinality(payouts) \in Nat /\ Cardinality(payouts') = Cardinality(payouts)
      BY <1>5, FinitePayouts DEF payouts
    <3> QED  BY <1>2, <1>7, <3>1
  <2> HIDE DEF change
  <2>2. Committed'.balance = Committed.balance + DENOMINATION * change
    BY <1>6, <2>1, PoolAssumption
  <2> QED  BY <2>2, LedgerCounts DEF Ledger!MoneyFollows, change, kept, payouts, LeavesIn, PayoutsIn, PayoutsOf, PayoutOf
<1> QED  BY <1>8, <1>9, <1>10 DEF Ledger!Transaction

\* A payment that succeeds: the leaves the recipient's code added, one payout,
\* and the difference in money.
LEMMA PaymentIsATransaction ==
  ASSUME TypeInv, TypeInv', MoneyInv, MoneyInv', RightsInv, PaymentSucceeds
  PROVE  Ledger!Transaction
<1> DEFINE b       == calls[1].before
           kept    == LeavesIn(Committed)
           payouts == PayoutsIn(Committed)
           payout  == [nullifierHash |-> calls[1].nullifierHash.field,
                       recipient     |-> calls[1].recipient]
           entry   == [nullifierHash |-> calls[1].nullifierHash, recipient |-> calls[1].recipient]
<1>1. /\ calls # <<>> /\ DOMAIN calls = {1} /\ calls' = <<>>
      /\ withdrawalLog' = Append(withdrawalLog, entry)
      /\ UNCHANGED <<treeVars, nullifierSpent, balance>>
  BY PaymentFrames DEF PaymentSucceeds
<1>2. Committed = b /\ Committed' = Storage'
  <2>1. Committed' = Storage'
    BY <1>1 DEF Committed
  <2> QED  BY <1>1, <2>1, WhatIsCommitted
<1>3. Typed(b) /\ Accounted(b) /\ Continues(calls[1])
  BY <1>1, FrameIsTyped DEF MoneyInv, RightsInv
<1>4. /\ DOMAIN b.depositLog = 0 .. b.nextLeafIndex - 1 /\ b.nextLeafIndex \in Nat
      /\ DOMAIN depositLog' = 0 .. nextLeafIndex - 1 /\ nextLeafIndex \in Nat
      /\ b.nextLeafIndex <= nextLeafIndex
      /\ \A place \in 0 .. b.nextLeafIndex - 1 : depositLog'[place] = b.depositLog[place]
  BY <1>1, <1>3, TreeShape DEF Typed, TypeInv, Storage, Continues, treeVars
<1>5. kept = LeavesOf(b.depositLog) /\ kept' = LeavesOf(depositLog')
  BY <1>2 DEF LeavesIn, Storage
<1>6. /\ DOMAIN kept = 0 .. b.nextLeafIndex - 1 /\ DOMAIN kept' = 0 .. nextLeafIndex - 1
      /\ \A place \in 0 .. b.nextLeafIndex - 1 : kept'[place] = kept[place]
  <2> HIDE DEF kept, b
  <2> QED  BY <1>4, <1>5 DEF LeavesOf
<1>7. Ledger!LeavesGrow
  <2>1. DOMAIN kept \subseteq DOMAIN kept' /\ \A place \in DOMAIN kept : kept'[place] = kept[place]
    <3> HIDE DEF kept, b
    <3> QED  BY <1>4, <1>6
  <2> QED  BY <2>1 DEF Ledger!LeavesGrow, LeavesIn
<1>8. payouts' = payouts \union {payout}
  <2>1. /\ DOMAIN withdrawalLog' = DOMAIN withdrawalLog \union {Len(withdrawalLog) + 1}
        /\ withdrawalLog'[Len(withdrawalLog) + 1] = entry
        /\ \A n \in DOMAIN withdrawalLog : withdrawalLog'[n] = withdrawalLog[n]
    <3>1. withdrawalLog \in Seq(Frames) /\ entry \in Frames
      BY <1>1, PaymentFrames DEF TypeInv, Typed, Storage
    <3> HIDE DEF entry
    <3> QED  BY <1>1, <3>1
  <2>2. Committed.withdrawalLog = withdrawalLog /\ Committed'.withdrawalLog = withdrawalLog'
    BY <1>2, <1>3 DEF Continues, Storage
  <2>3. entry.nullifierHash.field = payout.nullifierHash /\ entry.recipient = payout.recipient
    OBVIOUS
  <2>4. payouts = PayoutsOf(withdrawalLog) /\ payouts' = PayoutsOf(withdrawalLog')
    BY <2>2 DEF PayoutsIn
  <2>5. payout = PayoutOf(entry)
    BY DEF PayoutOf
  <2> HIDE DEF entry, payout, payouts
  <2> QED  BY <2>1, <2>4, <2>5 DEF PayoutsOf
<1>9. \A earlier \in payouts : earlier.nullifierHash # payout.nullifierHash
  <2>1. \A n \in DOMAIN withdrawalLog :
          withdrawalLog[n].nullifierHash.field # calls[1].nullifierHash.field
    <3>1. \A n \in DOMAIN withdrawalLog : /\ withdrawalLog[n].nullifierHash \in nullifierSpent
                                         /\ withdrawalLog[n].nullifierHash # calls[1].nullifierHash
      BY <1>1 DEF MoneyInv, PaidOnce, Storage
    <3>2. calls[1].nullifierHash \in nullifierSpent
      BY <1>1, PaymentFrames
    <3> QED  BY <3>1, <3>2, SpentByField
  <2>2. Committed.withdrawalLog = withdrawalLog
    BY <1>2, <1>3 DEF Continues
  <2> QED  BY <2>1, <2>2 DEF PayoutsIn, PayoutsOf, PayoutOf
<1>10. Ledger!Authorised(payout, kept)
  <2>1. PICK request \in Requests :
          /\ request.deployment = Here
          /\ request.recipient = payout.recipient
          /\ NullifierHash(request.note) = payout.nullifierHash
          /\ IsLeaf(b, request.note)
    BY <1>1 DEF RightsInv, AskedFor
  <2>2. \E place \in DOMAIN kept : kept[place] = Commitment(request.note)
    <3> HIDE DEF kept, b
    <3> QED  BY <1>5, <2>1 DEF IsLeaf, LeavesOf
  <2> HIDE DEF kept, payout
  <2> QED  BY <2>1, <2>2 DEF Ledger!Authorised, Ledger!NullifierHash, Ledger!Commitment,
                             Ledger!H1, Ledger!H2, NullifierHash, Commitment, H1, H2
<1>11. Ledger!OnePayout
  <2>1. /\ payouts \subseteq payouts'
        /\ payout \in payouts' \ payouts
    <3> HIDE DEF payouts, payout
    <3> QED  BY <1>8, <1>9
  <2>2. \E p \in payouts' \ payouts :
          /\ payouts' = payouts \union {p}
          /\ \A earlier \in payouts : earlier.nullifierHash # p.nullifierHash
          /\ Ledger!Authorised(p, kept)
    <3> HIDE DEF payouts, payout, kept
    <3> QED  BY <1>8, <1>9, <1>10, <2>1
  <2> QED  BY <2>1, <2>2 DEF Ledger!OnePayout, PayoutsIn, PayoutsOf, PayoutOf, LeavesIn
<1>12. Ledger!MoneyFollows
  <2> DEFINE n  == nextLeafIndex
             m  == b.nextLeafIndex
             k  == Cardinality(b.nullifierSpent)
             deposits == Cardinality(DOMAIN kept') - Cardinality(DOMAIN kept)
             paid     == Cardinality(payouts') - Cardinality(payouts)
  <2>1. deposits = n - m
    <3>1. m \in Nat /\ n \in Nat /\ DOMAIN kept = 0 .. m - 1 /\ DOMAIN kept' = 0 .. n - 1
      BY <1>4, <1>6
    <3> HIDE DEF kept, b, m, n
    <3>2. Cardinality(DOMAIN kept) = m
      BY <3>1, FS_Interval
    <3>3. Cardinality(DOMAIN kept') = n
      BY <3>1, FS_Interval
    <3> QED  BY <3>2, <3>3
  <2>2. paid = 1
    <3>1. IsFiniteSet(payouts) /\ Cardinality(payouts) \in Nat /\ payout \notin payouts
      BY <1>9, FinitePayouts
    <3> HIDE DEF payouts, payout
    <3>2. Cardinality(payouts') = Cardinality(payouts) + 1
      BY <1>8, <3>1, FS_AddElement
    <3> QED  BY <3>1, <3>2
  <2>3. /\ k \in Nat /\ Cardinality(nullifierSpent) = k + 1
        /\ b.balance = DENOMINATION * (m - k)
        /\ balance = DENOMINATION * (n - (k + 1))
    <3>1. /\ IsFiniteSet(b.nullifierSpent)
          /\ b.balance = DENOMINATION * (m - Cardinality(b.nullifierSpent))
      BY <1>3 DEF Accounted
    <3>2. /\ calls[1].nullifierHash \notin b.nullifierSpent
          /\ nullifierSpent = b.nullifierSpent \union {calls[1].nullifierHash}
      BY <1>3 DEF Continues
    <3>3. balance = DENOMINATION * (n - Cardinality(nullifierSpent))
      BY DEF MoneyInv, Accounted, Storage
    <3> HIDE DEF b, m, n
    <3> QED  BY <3>1, <3>2, <3>3, FS_AddElement, FS_CardinalityType
  <2>4. n \in Nat /\ m \in Nat
    BY <1>4
  <2>5. Committed.balance = b.balance /\ Committed'.balance = balance
    BY <1>1, <1>2 DEF Storage
  <2> HIDE DEF n, m, k, b
  <2>6. balance = b.balance + DENOMINATION * ((n - m) - 1)
    BY <2>3, <2>4, PoolAssumption, LedgerArithmetic
  <2>7. Committed'.balance = Committed.balance + DENOMINATION * (deposits - paid)
    <3> HIDE DEF deposits, paid
    <3> QED  BY <2>1, <2>2, <2>5, <2>6
  <2> QED  BY <2>7, LedgerCounts DEF Ledger!MoneyFollows, LeavesIn, PayoutsIn, PayoutsOf, PayoutOf
<1> QED  BY <1>7, <1>11, <1>12 DEF Ledger!Transaction

LEMMA StepsAreTransactions ==
  ASSUME TypeInv, MoneyInv, RightsInv, TypeInv', MoneyInv', [Next]_vars
  PROVE  \/ Ledger!Transaction
         \/ UNCHANGED <<LeavesIn(Committed), PayoutsIn(Committed), Committed.balance>>
<1>1. CASE SomeDeposit
  <2>1. CASE calls = <<>>
    BY <1>1, <2>1, DepositIsATransaction DEF SomeDeposit
  <2>2. CASE calls # <<>>
    <3>1. calls' = calls
      BY <1>1 DEF SomeDeposit, Deposit
    <3>2. Committed = calls[1].before /\ Committed' = calls'[1].before
      BY <2>2, <3>1, WhatIsCommitted DEF Committed
    <3> QED  BY <3>1, <3>2, NotSeen DEF SameLedger
  <2> QED  BY <2>1, <2>2
<1>2. CASE SomeWithdraw
  <2>1. calls = <<>> /\ calls' = <<calls'[1]>> /\ calls'[1].before = Storage
    <3>1. PICK root, nullifierHash, recipient, binding, proof :
            Withdraw(root, nullifierHash, recipient, binding, proof)
      BY <1>2 DEF SomeWithdraw
    <3>2. calls = <<>> /\ DOMAIN calls' = {1} /\ calls'[1].before = Storage
      BY <3>1, WithdrawFrames
    <3>3. calls' = <<calls'[1]>>
      <4>1. \E frame : calls' = <<frame>>
        BY <3>1, <3>2, OneFrame DEF Withdraw
      <4> QED  BY <4>1
    <3> QED  BY <3>2, <3>3
  <2>2. Committed = Storage /\ Committed' = Storage
    <3>1. calls' # <<>> /\ Len(calls') = 1
      BY <2>1
    <3> QED  BY <2>1, <3>1, WhatIsCommitted DEF Committed
  <2> QED  BY <2>2, NotSeen DEF SameLedger
<1>3. CASE PaymentSucceeds
  BY <1>3, PaymentIsATransaction
<1>4. CASE PaymentFails
  <2>1. calls # <<>> /\ calls' = <<>> /\ Head(calls) = calls[1]
    BY <1>4, PaymentFrames DEF PaymentFails
  <2>2. Committed = calls[1].before /\ Committed' = Storage'
    <3>1. Committed' = Storage'
      BY <2>1 DEF Committed
    <3> QED  BY <2>1, <3>1, WhatIsCommitted
  <2>3. /\ depositLog' = calls[1].before.depositLog
        /\ withdrawalLog' = calls[1].before.withdrawalLog
        /\ balance' = calls[1].before.balance
    BY <1>4, <2>1 DEF PaymentFails
  <2>4. /\ Storage'.depositLog = depositLog' /\ Storage'.withdrawalLog = withdrawalLog'
        /\ Storage'.balance = balance'
    BY DEF Storage
  <2> QED  BY <2>2, <2>3, <2>4, NotSeen DEF SameLedger
<1>5. CASE UNCHANGED vars
  <2>1. Committed' = Committed
    BY <1>5 DEF vars, treeVars, Committed, Storage
  <2> QED  BY <2>1, NotSeen DEF SameLedger
<1> QED  BY <1>1, <1>2, <1>3, <1>4, <1>5 DEF Next

\* With the recipient's code in the middle of a withdrawal, and deposits made by
\* it, each transaction of the pool is still one step of the ledger, or none.
THEOREM PoolImplementsLedger == Spec => AtomicLedger
<1>1. Init => Ledger!Init
  BY LedgerStarts
<1>2. TypeInv /\ MoneyInv /\ RightsInv /\ TypeInv' /\ MoneyInv' /\ [Next]_vars =>
        [Ledger!Transaction]_<<LeavesIn(Committed), PayoutsIn(Committed), Committed.balance>>
  BY StepsAreTransactions
<1> QED  BY <1>1, <1>2, TypeInvariant, MoneyInvariant, RightsInvariant, PTL
         DEF Spec, AtomicLedger, Ledger!Spec, LeavesIn, PayoutsIn, PayoutsOf, PayoutOf

-----------------------------------------------------------------------------
(***************************************************************************)
(* Who follows the pool.  Each step of the client and of the simulation is *)
(* a step of the pool or leaves it alone, so what is proved of the pool    *)
(* holds beside them; and what they read of the committed log stays true,  *)
(* whichever payment is in progress and however it ends.                   *)
(***************************************************************************)
PoolInv == TypeInv /\ MoneyInv /\ RingInv /\ TreeInv /\ RightsInv

LEMMA InitPool == Init => PoolInv
  BY InitTyped, InitMoney, InitRing, InitTree, InitRights DEF PoolInv

LEMMA NextPool == PoolInv /\ [Next]_vars => PoolInv'
  BY NextTyped, NextMoney, NextRing, NextTree, NextRights DEF PoolInv

-----------------------------------------------------------------------------
(* What is committed stays *)

\* No step takes a committed leaf away, or changes an entry of the log below it.
LEMMA CommittedLogGrows ==
  ASSUME PoolInv, [Next]_vars
  PROVE  /\ Committed.nextLeafIndex \in Nat
         /\ Committed.nextLeafIndex <= nextLeafIndex
         /\ Committed.nextLeafIndex <= Committed'.nextLeafIndex
         /\ \A i \in 0 .. Committed.nextLeafIndex - 1 : depositLog'[i] = depositLog[i]
<1>1. nextLeafIndex \in Nat
  BY TreeShape DEF PoolInv, TypeInv, Typed, Storage
<1>2. CASE calls = <<>>
  <2>1. Committed.nextLeafIndex = nextLeafIndex
    BY <1>2 DEF Committed, Storage
  <2>2. CASE SomeDeposit
    <3>1. /\ nextLeafIndex' = nextLeafIndex + 1 /\ calls' = <<>>
          /\ \A i \in 0 .. nextLeafIndex - 1 : depositLog'[i] = depositLog[i]
      BY <1>1, <1>2, <2>2 DEF SomeDeposit, Deposit
    <3>2. Committed'.nextLeafIndex = nextLeafIndex'
      BY <3>1 DEF Committed, Storage
    <3> QED  BY <1>1, <2>1, <3>1, <3>2
  <2>3. CASE SomeWithdraw
    <3>1. PICK root, nullifierHash, recipient, binding, proof :
            Withdraw(root, nullifierHash, recipient, binding, proof)
      BY <2>3 DEF SomeWithdraw
    <3>2. UNCHANGED treeVars /\ DOMAIN calls' = {1} /\ calls'[1].before = Storage
      BY <3>1, WithdrawFrames DEF Withdraw, PoolInv
    <3>3. PICK frame : calls' = <<frame>>
      BY <1>2, <3>1, OneFrame DEF Withdraw
    <3>4. Committed' = Storage
      <4>1. calls' # <<>> /\ Len(calls') = 1
        BY <3>3
      <4> QED  BY <3>2, <4>1 DEF Committed
    <3> QED  BY <1>1, <2>1, <3>2, <3>4 DEF Storage, treeVars
  <2>4. ~ PaymentSucceeds /\ ~ PaymentFails
    BY <1>2 DEF PaymentSucceeds, PaymentFails
  <2>5. CASE UNCHANGED vars
    <3>1. Committed' = Committed /\ depositLog' = depositLog
      BY <2>5 DEF vars, treeVars, Committed, Storage
    <3> QED  BY <1>1, <2>1, <3>1
  <2> QED  BY <2>2, <2>3, <2>4, <2>5 DEF Next
<1>3. CASE calls # <<>>
  <2> DEFINE b == calls[1].before
  <2>1. Committed = b /\ Typed(b) /\ Continues(calls[1])
    BY <1>3, WhatIsCommitted, PaymentFrames, FrameIsTyped DEF PoolInv, RightsInv
  <2>2. /\ b.nextLeafIndex \in Nat /\ b.nextLeafIndex <= nextLeafIndex
        /\ \A i \in 0 .. b.nextLeafIndex - 1 : depositLog[i] = b.depositLog[i]
    BY <2>1, TreeShape DEF Typed, Continues
  <2>3. CASE SomeDeposit
    <3>1. calls' = calls /\ \A i \in 0 .. nextLeafIndex - 1 : depositLog'[i] = depositLog[i]
      BY <1>1, <2>3 DEF SomeDeposit, Deposit
    <3>2. Committed' = b
      BY <1>3, <2>1, <3>1 DEF Committed
    <3> HIDE DEF b
    <3> QED  BY <1>1, <2>1, <2>2, <3>1, <3>2
  <2>4. ~ SomeWithdraw
    <3>1. ASSUME SomeWithdraw PROVE FALSE
      BY <1>3, <3>1, WithdrawFrames DEF SomeWithdraw, PoolInv
    <3> QED  BY <3>1
  <2>5. CASE PaymentSucceeds
    <3>1. calls' = <<>> /\ UNCHANGED treeVars
      BY <2>5, PaymentFrames DEF PaymentSucceeds, PoolInv
    <3>2. Committed'.nextLeafIndex = nextLeafIndex' /\ nextLeafIndex' = nextLeafIndex
          /\ depositLog' = depositLog
      BY <3>1 DEF Committed, Storage, treeVars
    <3> HIDE DEF b
    <3> QED  BY <2>1, <2>2, <3>2
  <2>6. CASE PaymentFails
    <3>1. /\ calls' = <<>>
          /\ nextLeafIndex' = b.nextLeafIndex /\ depositLog' = b.depositLog
      BY <2>6, PaymentFrames DEF PaymentFails, PoolInv
    <3>2. Committed'.nextLeafIndex = nextLeafIndex'
      BY <3>1 DEF Committed, Storage
    <3> HIDE DEF b
    <3> QED  BY <2>1, <2>2, <3>1, <3>2
  <2>7. CASE UNCHANGED vars
    <3>1. Committed' = Committed /\ depositLog' = depositLog
      BY <2>7 DEF vars, treeVars, Committed, Storage
    <3> HIDE DEF b
    <3> QED  BY <2>1, <2>2, <3>1
  <2> QED  BY <2>3, <2>4, <2>5, <2>6, <2>7 DEF Next
<1> QED  BY <1>2, <1>3

LEMMA CommittedIsTyped == PoolInv => Typed(Committed)
<1> SUFFICES ASSUME PoolInv  PROVE Typed(Committed)
  OBVIOUS
<1>1. CASE calls = <<>>
  BY <1>1 DEF Committed, PoolInv, TypeInv
<1>2. CASE calls # <<>>
  BY <1>2, WhatIsCommitted, PaymentFrames, FrameIsTyped DEF PoolInv
<1> QED  BY <1>1, <1>2

LEMMA CommittedIsInTheLog ==
  ASSUME PoolInv
  PROVE  /\ nextLeafIndex \in Nat
         /\ Committed.nextLeafIndex \in Nat /\ Committed.nextLeafIndex <= nextLeafIndex
<1>1. nextLeafIndex \in Nat /\ Committed.nextLeafIndex \in Nat
  BY CommittedIsTyped, TreeShape DEF PoolInv, TypeInv, Typed, Storage
<1>2. CASE calls = <<>>
  BY <1>1, <1>2 DEF Committed, Storage
<1>3. CASE calls # <<>>
  BY <1>1, <1>3, WhatIsCommitted, PaymentFrames DEF PoolInv, RightsInv, Continues
<1> QED  BY <1>1, <1>2, <1>3

LEMMA StatementsAreProofs ==
  ASSUME NEW requests, NEW lists, NEW request \in requests, NEW list \in lists,
         NEW i \in DOMAIN list, CanProve(request, list, i)
  PROVE  Statement(request, list, i) \in ProofsFrom(requests, lists)
<1> DEFINE Of(r, l) == {Statement(r, l, j) : j \in {k \in DOMAIN l : CanProve(r, l, k)}}
<1>1. Statement(request, list, i) \in Of(request, list)
  OBVIOUS
<1>2. ProofsFrom(requests, lists) = UNION {Of(r, l) : r \in requests, l \in lists}
  BY DEF ProofsFrom
<1> HIDE DEF Of
<1> QED  BY <1>1, <1>2

-----------------------------------------------------------------------------
(***************************************************************************)
(* The client.  It works on a list of committed leaves, so the list it     *)
(* read is a beginning of the log for as long as it cares to wait.         *)
(***************************************************************************)
FlowInv ==
  /\ seen \in Nat /\ seen <= Committed.nextLeafIndex
  /\ step = "ready" => CanProve(ClientRequest, InputList, index)

\* Whatever the client does to the pool, anybody may do.
LEMMA FlowStepIsPoolStep ==
  ASSUME PoolInv, FlowInv, [FlowNext]_flowVars
  PROVE  [Next]_vars
<1>1. 0 \in 0 .. MAX_WRAPS
  BY WrapsAssumption
<1>2. ClientRequest.note \in Notes /\ ClientRequest.recipient \in Accounts \union {Zero}
  BY ClientAssumption, CallersAssumption
<1>3. CASE ClientDeposits
  <2>1. Word(Commitment(ClientRequest.note)) \in WordsOf(Commitments \union OtherLeaves)
    BY <1>1, <1>2 DEF Word, WordsOf, Commitments
  <2>2. Deposit(Word(Commitment(ClientRequest.note)), DENOMINATION) /\ DENOMINATION \in CallValues
    BY <1>3, CallersAssumption DEF ClientDeposits
  <2> QED  BY <2>1, <2>2 DEF Next, SomeDeposit
<1>4. CASE Submit
  <2> DEFINE proof == ClientProof
             hash  == Word(proof.nullifierHash)
  <2>1. Withdraw(Word(proof.root), hash, ClientRequest.recipient, Word(proof.binding), proof)
    BY <1>4 DEF Submit
  <2>2. proof \in Proofs
    <3>1. CanProve(ClientRequest, InputList, index) /\ index \in DOMAIN InputList
      BY <1>4 DEF Submit, FlowInv, CanProve
    <3>2. InputList \in PublishedLists
      <4>1. seen \in 0 .. nextLeafIndex
        BY CommittedIsInTheLog DEF FlowInv
      <4>2. InputList = LeavesOf([i \in 0 .. seen - 1 |-> depositLog[i]])
        BY DEF InputList, LeavesOf
      <4> QED  BY <4>1, <4>2 DEF PublishedLists
    <3>3. InputList \in PublishedLists \union ForeignLists
      BY <3>2
    <3> QED  BY <3>1, <3>3, ClientAssumption, StatementsAreProofs DEF Proofs, ClientProof
  <2>3. /\ Word(proof.root) \in WordsOf(HistoricRoots \union {proof.root})
        /\ Word(proof.binding) \in WordsOf({proof.binding})
    BY <1>1 DEF Word, WordsOf
  <2>4. hash \in WordsOf(NullifierHashes)
    <3>1. proof.nullifierHash = NullifierHash(ClientRequest.note)
      BY DEF ClientProof, Statement
    <3> QED  BY <1>1, <1>2, <3>1 DEF Word, WordsOf, NullifierHashes
  <2> HIDE DEF proof, hash
  <2>5. SomeWithdraw
    BY <1>2, <2>1, <2>2, <2>3, <2>4 DEF SomeWithdraw
  <2> QED  BY <2>5 DEF Next
<1>5. CASE ReadLog \/ ProveFinishes \/ ProveFails \/ RootExpired
  BY <1>5 DEF ReadLog, ProveFinishes, ProveFails, RootExpired
<1>6. CASE OthersDeposit \/ OthersWithdraw \/ PaymentEnds
  BY <1>6 DEF OthersDeposit, OthersWithdraw, PaymentEnds, Next
<1>7. CASE UNCHANGED flowVars
  BY <1>7 DEF flowVars
<1> QED  BY <1>3, <1>4, <1>5, <1>6, <1>7 DEF FlowNext, Client

LEMMA InitFlow == FlowInit => PoolInv /\ FlowInv
<1> SUFFICES ASSUME FlowInit  PROVE PoolInv /\ FlowInv
  OBVIOUS
<1>1. PoolInv
  BY InitPool DEF FlowInit
<1>2. Committed.nextLeafIndex \in Nat
  BY <1>1, CommittedIsTyped, TreeShape DEF Typed
<1>3. FlowInv
  BY <1>2 DEF FlowInit, FlowInv
<1> QED  BY <1>1, <1>3

LEMMA NextFlow ==
  ASSUME PoolInv, FlowInv, [FlowNext]_flowVars
  PROVE  FlowInv'
<1>1. [Next]_vars
  BY FlowStepIsPoolStep
<1>2. PoolInv'
  BY <1>1, NextPool
<1>3. /\ Committed.nextLeafIndex \in Nat
      /\ Committed.nextLeafIndex <= Committed'.nextLeafIndex
      /\ \A i \in 0 .. Committed.nextLeafIndex - 1 : depositLog'[i] = depositLog[i]
  BY <1>1, CommittedLogGrows
<1>4. Committed'.nextLeafIndex \in Nat
  <2>1. Typed(Committed)'
    BY <1>2, CommittedIsTyped, PTL
  <2> QED  BY <2>1, TreeShape DEF Typed
<1>5. ASSUME UNCHANGED seen  PROVE InputList' = InputList
  <2>1. \A i \in 0 .. seen - 1 : depositLog'[i] = depositLog[i]
    BY <1>3 DEF FlowInv
  <2> QED  BY <1>5, <2>1 DEF InputList
<1>6. ASSUME UNCHANGED seen, step' = "ready" => step = "ready" /\ UNCHANGED index
      PROVE  FlowInv'
  <2>1. seen' \in Nat /\ seen' <= Committed'.nextLeafIndex
    BY <1>3, <1>4, <1>6 DEF FlowInv
  <2>2. step' = "ready" => CanProve(ClientRequest, InputList', index')
    BY <1>5, <1>6 DEF FlowInv
  <2> QED  BY <2>1, <2>2 DEF FlowInv
<1>7. CASE ReadLog
  <2>1. Length(CommittedLeaves) = Committed.nextLeafIndex
    <3>1. DOMAIN CommittedLeaves = 0 .. Committed.nextLeafIndex - 1
      BY CommittedIsTyped DEF Typed, CommittedLeaves, LeavesOf
    <3> QED  BY <1>3, <3>1, LengthOfList
  <2>2. Committed' = Committed
    BY <1>7 DEF ReadLog, vars, treeVars, Committed, Storage
  <2> QED  BY <1>3, <1>7, <2>1, <2>2 DEF ReadLog, FlowInv
<1>8. CASE ProveFinishes
  <2>1. seen' \in Nat /\ seen' <= Committed'.nextLeafIndex
    BY <1>3, <1>4, <1>8 DEF FlowInv, ProveFinishes
  <2>2. CanProve(ClientRequest, InputList', index')
    BY <1>5, <1>8 DEF ProveFinishes
  <2> QED  BY <2>1, <2>2 DEF FlowInv
<1>9. CASE ClientDeposits \/ ProveFails \/ Submit \/ RootExpired
  BY <1>6, <1>9 DEF ClientDeposits, ProveFails, Submit, RootExpired
<1>10. CASE OthersDeposit \/ OthersWithdraw \/ PaymentEnds \/ UNCHANGED flowVars
  BY <1>6, <1>10 DEF OthersDeposit, OthersWithdraw, PaymentEnds, flowVars, clientVars
<1> QED  BY <1>7, <1>8, <1>9, <1>10 DEF FlowNext, Client

LEMMA FlowInvariant == FlowSpec => [](PoolInv /\ FlowInv)
<1>1. PoolInv /\ FlowInv /\ [FlowNext]_flowVars => (PoolInv /\ FlowInv)'
  BY FlowStepIsPoolStep, NextPool, NextFlow
<1> QED  BY InitFlow, <1>1, PTL DEF FlowSpec

\* The client adds nothing to what the pool may do: what holds of the pool holds here.
THEOREM FlowIsThePool == FlowSpec => Spec
<1>1. PoolInv /\ FlowInv /\ [FlowNext]_flowVars => [Next]_vars
  BY FlowStepIsPoolStep
<1>2. FlowInit => Init
  BY DEF FlowInit
<1> QED  BY <1>1, <1>2, FlowInvariant, PTL DEF FlowSpec, Spec

\* A finished proof is accepted for its root until as many deposits as the window has
\* roots have come in, whatever payments failed meanwhile.
THEOREM ProofsLastAWindow == FlowSpec => []ProofSurvivesTheWindow
<1>1. ASSUME PoolInv, FlowInv  PROVE ProofSurvivesTheWindow
  <2> SUFFICES ASSUME step = "ready", calls = <<>>, nextLeafIndex - seen < ROOT_HISTORY_SIZE
               PROVE  isKnownRoot(Word(ClientProof.root))
    BY DEF ProofSurvivesTheWindow
  <2>1. /\ nextLeafIndex \in Nat /\ seen \in Nat /\ seen <= nextLeafIndex
        /\ ROOT_HISTORY_SIZE \in Nat
    <3>1. Committed = Storage
      BY DEF Committed
    <3> QED  BY <1>1, <3>1, TreeShape, PoolAssumption DEF PoolInv, TypeInv, Typed, FlowInv, Storage
  <2>2. /\ DOMAIN InputList = 0 .. seen - 1 /\ index \in DOMAIN InputList
        /\ InputList[index] = Commitment(ClientRequest.note)
        /\ Length(InputList) <= TREE_CAPACITY
    BY <1>1 DEF FlowInv, CanProve, InputList
  <2>3. index \in 0 .. TREE_CAPACITY - 1
    <3>1. Length(InputList) = seen
      BY <2>1, <2>2, LengthOfList
    <3> QED  BY <2>1, <2>2, <3>1, TreeShape
  <2>4. ClientProof.root = Root(InputList)
    <3>1. PaddedLeaves(InputList)[index] = Commitment(ClientRequest.note)
      BY <2>2, <2>3 DEF PaddedLeaves
    <3>2. ClientProof.root = ComputeRoot(Prove(InputList, index), Commitment(ClientRequest.note))
      BY DEF ClientProof, Statement
    <3> QED  BY <2>3, <3>1, <3>2, PathOfALeafReachesTheRoot
  <2>5. InputList = LeavesUpTo(Storage, seen)
    BY DEF InputList, LeavesUpTo, LeavesOf, Storage
  <2>6. ClientProof.root = HistoricRoot(seen)
    <3>1. seen \in 0 .. nextLeafIndex
      BY <2>1
    <3>2. RootAfter(Storage, seen) = Root(LeavesUpTo(Storage, seen))
      BY <1>1, <3>1 DEF PoolInv, TreeInv, Tree, Storage
    <3> QED  BY <2>4, <2>5, <3>2 DEF RootAfter, HistoricRoot, Storage
  <2>7. seen \in {count \in 0 .. nextLeafIndex : count + ROOT_HISTORY_SIZE > nextLeafIndex}
    BY <2>1
  <2>8. RootWindow /\ ClientProof.root \in HistoricRoots
    BY <1>1, <2>6, <2>7, WindowOfRing DEF PoolInv, RingInv, HistoricRoots
  <2> QED  BY <2>6, <2>7, <2>8 DEF RootWindow
<1> QED  BY <1>1, FlowInvariant, PTL

-----------------------------------------------------------------------------
(***************************************************************************)
(* The native simulation.  The event log tells how the storage came about: *)
(* Logged says so of the first m events and a storage, and holds of the    *)
(* whole log and, while a payment is in progress, of the part that its     *)
(* failure returns to.                                                     *)
(***************************************************************************)
Count(log, m) == Cardinality({k \in 1 .. m : log[k].call = "deposit"})

Paid(log, m) == {log[k].nullifierHash : k \in {j \in 1 .. m : log[j].call = "withdraw"}}

Tells(log, k, s) ==
  \/ /\ log[k].call = "deposit"
     /\ s.depositLog[Count(log, k) - 1].commitment = log[k].commitment
  \/ /\ log[k].call = "withdraw"
     /\ \E c \in 0 .. Count(log, k) : log[k].root = RootAfter(s, c)

Logged(log, m, s) ==
  /\ s.nextLeafIndex = Count(log, m)
  /\ \A k \in 1 .. m : Tells(log, k, s)
  /\ \A k, l \in 1 .. m :
       /\ log[k].call = "withdraw" /\ log[l].call = "withdraw"
       /\ log[k].nullifierHash = log[l].nullifierHash
       => k = l

Fields(words) == {word.field : word \in words}

\* The log and the storage after one more deposit, and after one more payment.
DepositFollows(log, other, m, s, t) ==
  /\ \A k \in 1 .. m : other[k] = log[k]
  /\ other[m + 1].call = "deposit"
  /\ t.nextLeafIndex = s.nextLeafIndex + 1
  /\ \A i \in 0 .. s.nextLeafIndex - 1 : t.depositLog[i] = s.depositLog[i]
  /\ t.depositLog[s.nextLeafIndex].commitment = other[m + 1].commitment

PaymentFollows(log, other, m, s, t) ==
  /\ \A k \in 1 .. m : other[k] = log[k]
  /\ other[m + 1].call = "withdraw"
  /\ t.nextLeafIndex = s.nextLeafIndex
  /\ \A i \in 0 .. s.nextLeafIndex - 1 : t.depositLog[i] = s.depositLog[i]
  /\ \E c \in 0 .. t.nextLeafIndex : other[m + 1].root = RootAfter(t, c)
  /\ other[m + 1].nullifierHash \notin Paid(log, m)

LEMMA Counting ==
  ASSUME NEW log, NEW m \in Nat
  PROVE  /\ Count(log, m) \in Nat
         /\ Count(log, 0) = 0
         /\ \A k \in 0 .. m : Count(log, k) \in Nat /\ Count(log, k) <= Count(log, m)
         /\ Count(log, m + 1) = IF log[m + 1].call = "deposit" THEN Count(log, m) + 1
                                                              ELSE Count(log, m)
<1> DEFINE D(k) == {j \in 1 .. k : log[j].call = "deposit"}
<1>1. \A k \in Nat : IsFiniteSet(D(k)) /\ Cardinality(D(k)) \in Nat
  <2> SUFFICES ASSUME NEW k \in Nat  PROVE IsFiniteSet(D(k)) /\ Cardinality(D(k)) \in Nat
    OBVIOUS
  <2>1. IsFiniteSet(1 .. k)
    BY FS_Interval
  <2>2. D(k) \in SUBSET (1 .. k)
    OBVIOUS
  <2> HIDE DEF D
  <2> QED  BY <2>1, <2>2, FS_Subset, FS_CardinalityType
<1>2. Count(log, 0) = 0
  <2>1. D(0) = {}
    OBVIOUS
  <2> QED  BY <2>1, FS_EmptySet DEF Count
<1>3. ASSUME NEW k \in 0 .. m  PROVE Count(log, k) <= Count(log, m)
  <2>1. D(k) \in SUBSET D(m)
    OBVIOUS
  <2>2. IsFiniteSet(D(m))
    BY <1>1
  <2>3. Cardinality(D(k)) <= Cardinality(D(m))
    <3> HIDE DEF D
    <3> QED  BY <2>1, <2>2, FS_Subset
  <2> QED  BY <2>3 DEF Count
<1>4. \A k \in Nat : Count(log, k) \in Nat
  BY <1>1 DEF Count
<1>5. /\ Count(log, m) \in Nat
      /\ \A k \in 0 .. m : Count(log, k) \in Nat /\ Count(log, k) <= Count(log, m)
  BY <1>3, <1>4
<1>6. CASE log[m + 1].call = "deposit"
  <2>1. D(m + 1) = D(m) \union {m + 1} /\ m + 1 \notin D(m)
    BY <1>6
  <2>2. Cardinality(D(m + 1)) = Cardinality(D(m)) + 1
    <3>1. IsFiniteSet(D(m))
      BY <1>1
    <3> HIDE DEF D
    <3> QED  BY <2>1, <3>1, FS_AddElement
  <2>3. Count(log, m + 1) = Count(log, m) + 1
    BY <2>2 DEF Count
  <2> HIDE DEF D
  <2> QED  BY <1>2, <1>5, <1>6, <2>3
<1>7. CASE log[m + 1].call # "deposit"
  <2>1. D(m + 1) = D(m)
    BY <1>7
  <2>2. Count(log, m + 1) = Count(log, m)
    BY <2>1 DEF Count
  <2> HIDE DEF D
  <2> QED  BY <1>2, <1>5, <1>7, <2>2
<1> QED  BY <1>6, <1>7

\* The event of a deposit is about an entry of the log.
LEMMA EventOfALeaf ==
  ASSUME NEW log, NEW m \in Nat, NEW k \in 1 .. m
  PROVE  /\ Count(log, k) \in 0 .. Count(log, m)
         /\ log[k].call = "deposit" => Count(log, k) - 1 \in 0 .. Count(log, m) - 1
<1>1. k - 1 \in Nat /\ (k - 1) + 1 = k /\ k \in 0 .. m
  OBVIOUS
<1>2. Count(log, m) \in Nat /\ Count(log, k) \in Nat /\ Count(log, k) <= Count(log, m)
  BY <1>1, Counting
<1>3. Count(log, k - 1) \in Nat
  BY <1>1, Counting
<1>4. log[k].call = "deposit" => Count(log, k) = Count(log, k - 1) + 1
  BY <1>1, Counting
<1> QED  BY <1>2, <1>3, <1>4

\* What the first m events tell, another log with these events tells, of any storage
\* with the entries they are about.
LEMMA ToldElsewhere ==
  ASSUME NEW log, NEW other, NEW m \in Nat, NEW s, NEW t,
         \A k \in 1 .. m : other[k] = log[k],
         \A i \in 0 .. Count(log, m) - 1 : t.depositLog[i] = s.depositLog[i]
  PROVE  /\ \A k \in 0 .. m : Count(other, k) = Count(log, k) /\ Paid(other, k) = Paid(log, k)
         /\ \A c \in 0 .. Count(log, m) : RootAfter(t, c) = RootAfter(s, c)
         /\ \A k \in 1 .. m : Tells(log, k, s) => Tells(other, k, t)
<1>1. ASSUME NEW k \in 0 .. m  PROVE Count(other, k) = Count(log, k) /\ Paid(other, k) = Paid(log, k)
  <2>1. \A j \in 1 .. k : other[j] = log[j]
    OBVIOUS
  <2>2. {j \in 1 .. k : other[j].call = "deposit"} = {j \in 1 .. k : log[j].call = "deposit"}
    BY <2>1
  <2>3. {j \in 1 .. k : other[j].call = "withdraw"} = {j \in 1 .. k : log[j].call = "withdraw"}
    BY <2>1
  <2>4. Paid(other, k) = Paid(log, k)
    BY <2>1, <2>3 DEF Paid
  <2> QED  BY <2>2, <2>4 DEF Count
<1>2. Count(log, m) \in Nat
  BY Counting
<1>3. \A c \in 0 .. Count(log, m) : RootAfter(t, c) = RootAfter(s, c)
  <2>1. \A c \in 0 .. Count(log, m) : c # 0 => c - 1 \in 0 .. Count(log, m) - 1
    BY <1>2
  <2> QED  BY <2>1 DEF RootAfter
<1>4. ASSUME NEW k \in 1 .. m, Tells(log, k, s)  PROVE Tells(other, k, t)
  <2>1. Count(other, k) = Count(log, k) /\ other[k] = log[k]
    BY <1>1
  <2>2. /\ Count(log, k) \in 0 .. Count(log, m)
        /\ log[k].call = "deposit" => Count(log, k) - 1 \in 0 .. Count(log, m) - 1
    BY EventOfALeaf
  <2>3. \A c \in 0 .. Count(log, k) : RootAfter(t, c) = RootAfter(s, c)
    BY <1>2, <1>3, <2>2
  <2> QED  BY <1>4, <2>1, <2>2, <2>3 DEF Tells
<1> QED  BY <1>1, <1>3, <1>4

LEMMA LoggedElsewhere ==
  ASSUME NEW log, NEW other, NEW m \in Nat, NEW s, NEW t, Logged(log, m, s),
         \A k \in 1 .. m : other[k] = log[k],
         t.nextLeafIndex = s.nextLeafIndex,
         \A i \in 0 .. s.nextLeafIndex - 1 : t.depositLog[i] = s.depositLog[i]
  PROVE  Logged(other, m, t) /\ Paid(other, m) = Paid(log, m)
<1>1. Count(log, m) = s.nextLeafIndex /\ m \in 0 .. m
  BY DEF Logged
<1>2. /\ Count(other, m) = Count(log, m) /\ Paid(other, m) = Paid(log, m)
      /\ \A k \in 1 .. m : Tells(log, k, s) => Tells(other, k, t)
  BY <1>1, ToldElsewhere
<1> QED  BY <1>1, <1>2 DEF Logged

\* One more event, about one more leaf or about a nullifier not paid before.
LEMMA LoggedDeposit ==
  ASSUME NEW log, NEW other, NEW m \in Nat, NEW s, NEW t, Logged(log, m, s),
         DepositFollows(log, other, m, s, t)
  PROVE  Logged(other, m + 1, t) /\ Paid(other, m + 1) = Paid(log, m)
<1> USE DEF DepositFollows
<1>1. Count(log, m) = s.nextLeafIndex /\ Count(log, m) \in Nat /\ m \in 0 .. m
  BY Counting DEF Logged
<1>2. /\ Count(other, m) = Count(log, m) /\ Paid(other, m) = Paid(log, m)
      /\ \A k \in 1 .. m : Tells(log, k, s) => Tells(other, k, t)
  BY <1>1, ToldElsewhere
<1>3. Count(other, m + 1) = t.nextLeafIndex
  BY <1>1, <1>2, Counting
<1>4. Tells(other, m + 1, t)
  <2>1. Count(other, m + 1) - 1 = s.nextLeafIndex
    BY <1>1, <1>3
  <2> QED  BY <2>1 DEF Tells
<1>5. \A k \in 1 .. m + 1 : k = m + 1 \/ k \in 1 .. m
  OBVIOUS
<1>6. Paid(other, m + 1) = Paid(other, m)
  <2>1. {j \in 1 .. m + 1 : other[j].call = "withdraw"} = {j \in 1 .. m : other[j].call = "withdraw"}
    BY <1>5
  <2> QED  BY <2>1 DEF Paid
<1>7. \A k \in 1 .. m + 1 : Tells(other, k, t)
  BY <1>2, <1>4, <1>5 DEF Logged
<1>8. \A k, l \in 1 .. m + 1 :
        /\ other[k].call = "withdraw" /\ other[l].call = "withdraw"
        /\ other[k].nullifierHash = other[l].nullifierHash
        => k = l
  <2> SUFFICES ASSUME NEW k \in 1 .. m + 1, NEW l \in 1 .. m + 1,
                      other[k].call = "withdraw", other[l].call = "withdraw",
                      other[k].nullifierHash = other[l].nullifierHash
               PROVE  k = l
    OBVIOUS
  <2>1. k \in 1 .. m /\ l \in 1 .. m
    BY <1>5
  <2> QED  BY <2>1 DEF Logged
<1> QED  BY <1>2, <1>3, <1>6, <1>7, <1>8 DEF Logged

LEMMA LoggedPayment ==
  ASSUME NEW log, NEW other, NEW m \in Nat, NEW s, NEW t, Logged(log, m, s),
         PaymentFollows(log, other, m, s, t)
  PROVE  /\ Logged(other, m + 1, t)
         /\ Paid(other, m + 1) = Paid(log, m) \union {other[m + 1].nullifierHash}
<1> USE DEF PaymentFollows
<1>1. Logged(other, m, t)
  BY LoggedElsewhere
<1>2. Paid(other, m) = Paid(log, m)
  BY LoggedElsewhere
<1>3. Count(other, m + 1) = t.nextLeafIndex
  <2>1. Count(other, m) = t.nextLeafIndex
    BY <1>1 DEF Logged
  <2> QED  BY <2>1, Counting
<1>4. Tells(other, m + 1, t)
  BY <1>3 DEF Tells
<1>5. \A k \in 1 .. m + 1 : k = m + 1 \/ k \in 1 .. m
  OBVIOUS
<1>6. {j \in 1 .. m + 1 : other[j].call = "withdraw"}
        = {j \in 1 .. m : other[j].call = "withdraw"} \union {m + 1}
  BY <1>5
<1>7. Paid(other, m + 1) = Paid(other, m) \union {other[m + 1].nullifierHash}
  BY <1>6 DEF Paid
<1>8. \A k \in 1 .. m + 1 : Tells(other, k, t)
  BY <1>1, <1>4, <1>5 DEF Logged
<1>9. \A k \in 1 .. m : other[k].call = "withdraw" =>
        other[k].nullifierHash # other[m + 1].nullifierHash
  BY <1>2 DEF Paid
<1>10. \A k, l \in 1 .. m + 1 :
        /\ other[k].call = "withdraw" /\ other[l].call = "withdraw"
        /\ other[k].nullifierHash = other[l].nullifierHash
        => k = l
  <2> SUFFICES ASSUME NEW k \in 1 .. m + 1, NEW l \in 1 .. m + 1,
                      other[k].call = "withdraw", other[l].call = "withdraw",
                      other[k].nullifierHash = other[l].nullifierHash
               PROVE  k = l
    OBVIOUS
  <2>1. CASE k \in 1 .. m /\ l \in 1 .. m
    BY <1>1, <2>1 DEF Logged
  <2>2. CASE k = m + 1 \/ l = m + 1
    BY <1>5, <1>9, <2>2
  <2> QED  BY <1>5, <2>1, <2>2
<1> QED  BY <1>2, <1>3, <1>7, <1>8, <1>10 DEF Logged

(***************************************************************************)
(* The log of the chain.  The payments it tells of are those the committed *)
(* storage knows as spent; the payment in progress used a root that no     *)
(* failure takes away.                                                     *)
(***************************************************************************)
ChainInv ==
  /\ \E S : events \in Seq(S)
  /\ Logged(events, Len(events), Storage)
  /\ Paid(events, Len(events)) = Fields(Committed.nullifierSpent)
  /\ calls # <<>> =>
       /\ eventsBefore \in 0 .. Len(events)
       /\ Logged(events, eventsBefore, calls[1].before)
       /\ Paid(events, eventsBefore) = Fields(calls[1].before.nullifierSpent)
       /\ \E c \in 0 .. calls[1].before.nextLeafIndex : rootInUse = RootAfter(calls[1].before, c)

\* Whoever is replayed, the chain's steps are the pool's.
LEMMA ProofsAreRequested ==
  ASSUME PoolInv, NEW proof \in Proofs
  PROVE  \E request \in Requests :
           /\ proof.recipient = request.recipient
           /\ proof.nullifierHash = NullifierHash(request.note)
<1>1. \A list \in PublishedLists \union ForeignLists :
        Length(list) \in Nat /\ DOMAIN list = 0 .. Length(list) - 1
  BY ListsAreLists DEF PoolInv
<1>2. PICK request \in Requests, list \in PublishedLists \union ForeignLists,
           i \in 0 .. TREE_CAPACITY - 1 : proof = Statement(request, list, i)
  <2>1. proof \in ProofsFrom(Requests, PublishedLists \union ForeignLists)
    BY DEF Proofs
  <2> QED  BY <1>1, <2>1, ProofIsOfALeaf
<1> QED  BY <1>2 DEF Statement

LEMMA MirrorStepIsPoolStep ==
  ASSUME PoolInv, [MirrorNext]_<<chainVars, mirrorVars>>
  PROVE  [Next]_vars
<1>1. CASE ChainDeposit
  <2>1. PICK commitment \in WordsOf(Commitments \union OtherLeaves) : Deposit(commitment, DENOMINATION)
    BY <1>1 DEF ChainDeposit
  <2> QED  BY <2>1, CallersAssumption DEF Next, SomeDeposit
<1>2. CASE ChainWithdraw
  <2>1. PICK proof \in Proofs :
          Withdraw(Word(proof.root), Word(proof.nullifierHash), proof.recipient,
                   Word(proof.binding), proof)
    BY <1>2 DEF ChainWithdraw
  <2>2. 0 \in 0 .. MAX_WRAPS
    BY WrapsAssumption
  <2>3. /\ Word(proof.root) \in WordsOf(HistoricRoots \union {proof.root})
        /\ Word(proof.binding) \in WordsOf({proof.binding})
    BY <2>2 DEF Word, WordsOf
  <2>4. PICK request \in Requests :
          proof.recipient = request.recipient /\ proof.nullifierHash = NullifierHash(request.note)
    BY ProofsAreRequested
  <2>5. request.note \in Notes /\ proof.recipient \in Accounts \union {Zero}
    BY <2>4, CallersAssumption
  <2>6. Word(proof.nullifierHash) \in WordsOf(NullifierHashes)
    BY <2>2, <2>4, <2>5 DEF Word, WordsOf, NullifierHashes
  <2>7. SomeWithdraw
    BY <2>1, <2>3, <2>5, <2>6 DEF SomeWithdraw
  <2> QED  BY <2>7 DEF Next
<1>3. CASE ChainPays \/ ChainReverts
  BY <1>3 DEF ChainPays, ChainReverts, Next
<1>4. CASE Replay \/ UNCHANGED <<chainVars, mirrorVars>>
  BY <1>4 DEF Replay, chainVars
<1> QED  BY <1>1, <1>2, <1>3, <1>4 DEF MirrorNext

ExtendedBy(longer, log, event) ==
  /\ \E S : longer \in Seq(S)
  /\ Len(log) \in Nat
  /\ Len(longer) = Len(log) + 1
  /\ longer[Len(log) + 1] = event
  /\ \A k \in 1 .. Len(log) : longer[k] = log[k]

LEMMA Appending ==
  ASSUME NEW S, NEW log \in Seq(S), NEW event
  PROVE  ExtendedBy(Append(log, event), log, event)
<1>1. log \in Seq(S \union {event})
  OBVIOUS
<1>2. Append(log, event) \in Seq(S \union {event})
  BY <1>1
<1> QED  BY <1>1, <1>2 DEF ExtendedBy

LEMMA Shortening ==
  ASSUME NEW S, NEW log \in Seq(S), NEW m \in 0 .. Len(log)
  PROVE  /\ SubSeq(log, 1, m) \in Seq(S)
         /\ Len(SubSeq(log, 1, m)) = m
         /\ \A k \in 1 .. m : SubSeq(log, 1, m)[k] = log[k]
  OBVIOUS

LEMMA InitChain == MirrorInit => ChainInv
<1> SUFFICES ASSUME MirrorInit  PROVE ChainInv
  OBVIOUS
<1>1. /\ calls = <<>> /\ events = <<>> /\ Storage.nextLeafIndex = 0
      /\ Committed = Storage /\ Storage.nullifierSpent = {}
  BY DEF MirrorInit, Init, Committed, Storage
<1>2. Len(events) = 0 /\ events \in Seq({})
  BY <1>1
<1>3. Count(events, 0) = 0 /\ 1 .. 0 = {}
  BY Counting
<1>4. Logged(events, 0, Storage)
  BY <1>1, <1>3 DEF Logged
<1>5. Paid(events, 0) = {} /\ Fields({}) = {}
  BY <1>3 DEF Paid, Fields
<1> QED  BY <1>1, <1>2, <1>4, <1>5 DEF ChainInv

LEMMA ChainDepositLogged ==
  ASSUME PoolInv, ChainInv, ChainDeposit
  PROVE  ChainInv'
<1>1. PICK commitment : /\ Deposit(commitment, DENOMINATION)
                        /\ events' = Append(events, [call |-> "deposit", commitment |-> commitment.field])
                        /\ UNCHANGED <<rootInUse, eventsBefore>>
  BY DEF ChainDeposit
<1> DEFINE event == [call |-> "deposit", commitment |-> commitment.field]
           m     == Len(events)
<1>2. PICK S : events \in Seq(S)
  BY DEF ChainInv
<1>3. event.call = "deposit" /\ event.commitment = commitment.field
  OBVIOUS
<1>4. events' = Append(events, event)
  BY <1>1
<1> HIDE DEF event
<1>5. /\ \E T : events' \in Seq(T)
      /\ m \in Nat /\ Len(events') = m + 1 /\ events'[m + 1] = event
      /\ \A k \in 1 .. m : events'[k] = events[k]
  <2>1. ExtendedBy(events', events, event)
    BY <1>2, <1>4, Appending
  <2> QED  BY <2>1 DEF ExtendedBy
<1>6. /\ nextLeafIndex \in Nat
      /\ Storage'.nextLeafIndex = Storage.nextLeafIndex + 1
      /\ Storage.nextLeafIndex = nextLeafIndex
      /\ \A i \in 0 .. nextLeafIndex - 1 : Storage'.depositLog[i] = Storage.depositLog[i]
      /\ Storage'.depositLog[nextLeafIndex].commitment = commitment.field
      /\ UNCHANGED <<calls, nullifierSpent>>
  <2>1. nextLeafIndex \in Nat
    BY CommittedIsInTheLog
  <2> QED  BY <1>1, <2>1 DEF Deposit, Storage
<1>7. Committed'.nullifierSpent = Committed.nullifierSpent
  BY <1>6 DEF Committed, Storage
<1> HIDE DEF m
<1>8. Logged(events', m + 1, Storage') /\ Paid(events', m + 1) = Paid(events, m)
  <2>1. Logged(events, m, Storage)
    BY DEF ChainInv, m
  <2>2. /\ m \in Nat /\ events'[m + 1].call = "deposit"
        /\ \A k \in 1 .. m : events'[k] = events[k]
    BY <1>3, <1>5
  <2>3. /\ Storage'.nextLeafIndex = Storage.nextLeafIndex + 1
        /\ \A i \in 0 .. Storage.nextLeafIndex - 1 : Storage'.depositLog[i] = Storage.depositLog[i]
        /\ Storage'.depositLog[Storage.nextLeafIndex].commitment = events'[m + 1].commitment
    BY <1>3, <1>5, <1>6
  <2>4. DepositFollows(events, events', m, Storage, Storage')
    BY <2>2, <2>3 DEF DepositFollows
  <2> QED  BY <2>1, <2>2, <2>4, LoggedDeposit
<1>9. Paid(events', Len(events')) = Fields(Committed'.nullifierSpent)
  BY <1>5, <1>7, <1>8 DEF ChainInv, m
<1>10. ASSUME calls' # <<>>
       PROVE  /\ eventsBefore' \in 0 .. Len(events')
              /\ Logged(events', eventsBefore', calls'[1].before)
              /\ Paid(events', eventsBefore') = Fields(calls'[1].before.nullifierSpent)
              /\ \E c \in 0 .. calls'[1].before.nextLeafIndex :
                   rootInUse' = RootAfter(calls'[1].before, c)
  <2>1. /\ calls' = calls /\ calls # <<>>
        /\ eventsBefore' = eventsBefore /\ rootInUse' = rootInUse
    BY <1>1, <1>6, <1>10
  <2>2. /\ eventsBefore \in 0 .. m /\ Logged(events, eventsBefore, calls[1].before)
        /\ Paid(events, eventsBefore) = Fields(calls[1].before.nullifierSpent)
        /\ \E c \in 0 .. calls[1].before.nextLeafIndex : rootInUse = RootAfter(calls[1].before, c)
    BY <2>1 DEF ChainInv, m
  <2>3. eventsBefore \in Nat /\ \A k \in 1 .. eventsBefore : events'[k] = events[k]
    BY <1>5, <2>2
  <2>4. /\ Logged(events', eventsBefore, calls[1].before)
        /\ Paid(events', eventsBefore) = Paid(events, eventsBefore)
    BY <2>2, <2>3, LoggedElsewhere
  <2> QED  BY <1>5, <2>1, <2>2, <2>4
<1> QED  BY <1>5, <1>8, <1>9, <1>10 DEF ChainInv

LEMMA ChainWithdrawLogged ==
  ASSUME PoolInv, ChainInv, ChainWithdraw
  PROVE  ChainInv'
<1>1. PICK proof : /\ Withdraw(Word(proof.root), Word(proof.nullifierHash), proof.recipient,
                               Word(proof.binding), proof)
                   /\ rootInUse' = proof.root
                   /\ eventsBefore' = Len(events) /\ events' = events
  BY DEF ChainWithdraw
<1> DEFINE hash == Word(proof.nullifierHash)
           bind == Word(proof.binding)
           root == Word(proof.root)
<1>2. /\ calls = <<>> /\ DOMAIN calls' = {1} /\ calls'[1].before = Storage
  <2>1. TypeInv /\ Withdraw(root, hash, proof.recipient, bind, proof)
    BY <1>1 DEF PoolInv
  <2> HIDE DEF root, hash, bind
  <2> QED  BY <2>1, WithdrawFrames
<1>3. Committed = Storage /\ Committed' = Storage
  <2>1. PICK frame : calls' = <<frame>>
    BY <1>1, <1>2, OneFrame DEF Withdraw
  <2>2. calls' # <<>> /\ Len(calls') = 1
    BY <2>1
  <2> QED  BY <1>2, <2>2 DEF Committed
<1>4. PICK S : events \in Seq(S)
  BY DEF ChainInv
<1>5. Len(events) \in Nat
  BY <1>4
<1>6. Logged(events, Len(events), Storage) /\ Paid(events, Len(events)) = Fields(Storage.nullifierSpent)
  BY <1>3 DEF ChainInv
<1>7. Logged(events, Len(events), Storage')
  <2>1. /\ Storage'.nextLeafIndex = Storage.nextLeafIndex
        /\ Storage'.depositLog = Storage.depositLog
    BY <1>1 DEF Withdraw, Storage, treeVars
  <2> QED  BY <1>5, <1>6, <2>1, LoggedElsewhere
<1>8. \E c \in 0 .. Storage.nextLeafIndex : proof.root = RootAfter(Storage, c)
  <2>1. isKnownRoot(root)
    BY <1>1 DEF Withdraw
  <2>2. root.field = proof.root
    BY DEF Word
  <2>3. TypeInv /\ Ring(Storage)
    BY DEF PoolInv, RingInv
  <2> HIDE DEF root
  <2>4. \E c \in 0 .. nextLeafIndex : root.field = RootAfter(Storage, c)
    BY <2>1, <2>3, KnownRootsAreHistoric
  <2> QED  BY <2>2, <2>4 DEF Storage
<1> QED  BY <1>1, <1>2, <1>3, <1>4, <1>5, <1>6, <1>7, <1>8 DEF ChainInv

LEMMA ChainPaysLogged ==
  ASSUME PoolInv, ChainInv, ChainPays
  PROVE  ChainInv'
<1> DEFINE b     == calls[1].before
           hash  == calls[1].nullifierHash
           event == [call |-> "withdraw", root |-> rootInUse, nullifierHash |-> hash.field]
           m     == Len(events)
<1>1. /\ calls # <<>> /\ Head(calls) = calls[1] /\ calls' = <<>>
      /\ hash \in nullifierSpent
  BY PaymentFrames DEF ChainPays, PaymentSucceeds, PoolInv
<1>2. PICK S : events \in Seq(S)
  BY DEF ChainInv
<1>3. /\ event.call = "withdraw" /\ event.root = rootInUse
      /\ event.nullifierHash = hash.field
  OBVIOUS
<1>4. events' = Append(events, event)
  BY <1>1 DEF ChainPays
<1> HIDE DEF event
<1>5. /\ \E T : events' \in Seq(T)
      /\ m \in Nat /\ Len(events') = m + 1 /\ events'[m + 1] = event
      /\ \A k \in 1 .. m : events'[k] = events[k]
  <2>1. ExtendedBy(events', events, event)
    BY <1>2, <1>4, Appending
  <2> QED  BY <2>1 DEF ExtendedBy
<1>6. /\ Storage'.nextLeafIndex = Storage.nextLeafIndex
      /\ Storage'.depositLog = Storage.depositLog
      /\ Storage.depositLog = depositLog
      /\ Storage.nextLeafIndex = nextLeafIndex
      /\ Storage'.nullifierSpent = nullifierSpent
      /\ Committed' = Storage'
  BY <1>1 DEF ChainPays, PaymentSucceeds, Storage, Committed, treeVars
<1>7. Committed = b /\ Typed(b) /\ Continues(calls[1])
  BY <1>1, WhatIsCommitted, PaymentFrames, FrameIsTyped DEF PoolInv, RightsInv
<1>8. /\ b.nextLeafIndex \in Nat /\ b.nextLeafIndex <= nextLeafIndex /\ nextLeafIndex \in Nat
      /\ \A i \in 0 .. b.nextLeafIndex - 1 : depositLog[i] = b.depositLog[i]
      /\ hash \notin b.nullifierSpent
      /\ nullifierSpent = b.nullifierSpent \union {hash}
  <2>1. b.nextLeafIndex \in Nat /\ nextLeafIndex \in Nat
    BY <1>7, CommittedIsInTheLog
  <2> QED  BY <1>7, <2>1 DEF Continues
<1>9. PICK c \in 0 .. b.nextLeafIndex : rootInUse = RootAfter(b, c)
  BY <1>1 DEF ChainInv
<1>10. Paid(events, m) = Fields(b.nullifierSpent) /\ Logged(events, m, Storage)
  BY <1>7 DEF ChainInv
<1>11. hash.field \notin Paid(events, m)
  <2> SUFFICES ASSUME NEW word \in b.nullifierSpent, word.field = hash.field  PROVE FALSE
    BY <1>10 DEF Fields
  <2>1. word = hash
    <3>1. word \in nullifierSpent /\ hash \in nullifierSpent
      BY <1>1, <1>8
    <3> QED  BY <3>1, SpentByField DEF PoolInv
  <2> QED  BY <1>8, <2>1
<1> HIDE DEF b, hash, m
<1>12. rootInUse = RootAfter(Storage', c) /\ c \in 0 .. Storage'.nextLeafIndex
  <2>1. c # 0 => c - 1 \in 0 .. b.nextLeafIndex - 1
    BY <1>8
  <2>2. c # 0 => depositLog[c - 1] = b.depositLog[c - 1]
    BY <1>8, <2>1
  <2> QED  BY <1>6, <1>8, <1>9, <2>2 DEF RootAfter
<1>13. /\ Logged(events', m + 1, Storage')
       /\ Paid(events', m + 1) = Paid(events, m) \union {hash.field}
  <2>1. /\ m \in Nat /\ events'[m + 1].call = "withdraw"
        /\ \A k \in 1 .. m : events'[k] = events[k]
        /\ events'[m + 1].nullifierHash = hash.field
        /\ \E d \in 0 .. Storage'.nextLeafIndex : events'[m + 1].root = RootAfter(Storage', d)
    BY <1>3, <1>5, <1>12
  <2>2. \A i \in 0 .. Storage.nextLeafIndex - 1 : Storage'.depositLog[i] = Storage.depositLog[i]
    BY <1>6
  <2>3. PaymentFollows(events, events', m, Storage, Storage')
    BY <1>6, <1>11, <2>1, <2>2 DEF PaymentFollows
  <2>4. Paid(events', m + 1) = Paid(events, m) \union {events'[m + 1].nullifierHash}
    BY <1>10, <2>1, <2>3, LoggedPayment
  <2>5. Logged(events', m + 1, Storage')
    BY <1>10, <2>1, <2>3, LoggedPayment
  <2> QED  BY <2>1, <2>4, <2>5
<1>14. Fields(nullifierSpent) = Fields(b.nullifierSpent) \union {hash.field}
  BY <1>8 DEF Fields
<1> QED  BY <1>1, <1>5, <1>6, <1>10, <1>13, <1>14 DEF ChainInv

LEMMA ChainRevertsLogged ==
  ASSUME PoolInv, ChainInv, ChainReverts
  PROVE  ChainInv'
<1> DEFINE b == calls[1].before
<1>1. calls # <<>> /\ Head(calls) = calls[1] /\ calls' = <<>>
  BY PaymentFrames DEF ChainReverts, PaymentFails, PoolInv
<1>2. PICK S : events \in Seq(S)
  BY DEF ChainInv
<1>3. /\ eventsBefore \in 0 .. Len(events) /\ eventsBefore \in Nat
      /\ Logged(events, eventsBefore, b) /\ Paid(events, eventsBefore) = Fields(b.nullifierSpent)
  BY <1>1, <1>2 DEF ChainInv
<1>4. events' = SubSeq(events, 1, eventsBefore)
  BY DEF ChainReverts
<1>5. /\ events' \in Seq(S) /\ Len(events') = eventsBefore
      /\ \A k \in 1 .. eventsBefore : events'[k] = events[k]
  BY <1>2, <1>3, <1>4, Shortening
<1>6. /\ Storage'.nextLeafIndex = b.nextLeafIndex /\ Storage'.depositLog = b.depositLog
      /\ Storage'.nullifierSpent = b.nullifierSpent /\ Committed' = Storage'
  BY <1>1 DEF ChainReverts, PaymentFails, Storage, Committed
<1> HIDE DEF b
<1>7. Logged(events', eventsBefore, Storage') /\ Paid(events', eventsBefore) = Paid(events, eventsBefore)
  BY <1>3, <1>5, <1>6, LoggedElsewhere
<1> QED  BY <1>1, <1>3, <1>5, <1>6, <1>7 DEF ChainInv

LEMMA NextChain ==
  ASSUME PoolInv, ChainInv, [MirrorNext]_<<chainVars, mirrorVars>>
  PROVE  ChainInv'
<1>1. CASE Replay \/ UNCHANGED <<chainVars, mirrorVars>>
  <2>1. UNCHANGED chainVars
    BY <1>1 DEF Replay
  <2>2. UNCHANGED <<events, rootInUse, eventsBefore, calls>> /\ Storage' = Storage /\ Committed' = Committed
    BY <2>1 DEF chainVars, vars, treeVars, Storage, Committed
  <2> QED  BY <2>2 DEF ChainInv
<1> QED  BY <1>1, ChainDepositLogged, ChainWithdrawLogged, ChainPaysLogged, ChainRevertsLogged
         DEF MirrorNext

(***************************************************************************)
(* The simulation.  Its tree holds the first leaves of the log, it knows   *)
(* every root of theirs, and as spent what the replayed events paid.       *)
(***************************************************************************)
LEMMA NativeLength == \A list : Native!Length(list) = Length(list)
  BY DEF Native!Length, Length, Native!Cardinality, Cardinality

LEMMA NativeParents == \A level : Native!ParentLevel(level) = ParentLevel(level)
  BY NativeLength DEF Native!ParentLevel, ParentLevel, Native!H2, H2

LEMMA NativeRoot == \A list : Native!Root(list) = Root(list)
<1>1. \A list : Native!PaddedLeaves(list) = PaddedLeaves(list)
  BY DEF Native!PaddedLeaves, PaddedLeaves
<1>2. \A list : Native!Levels(list) = Levels(list)
  BY <1>1, NativeParents DEF Native!Levels, Levels
<1> QED  BY <1>2 DEF Native!Root, Root

NativeInv ==
  /\ replayed \in 0 .. CommittedEvents
  /\ leaves = LeavesUpTo(Storage, Count(events, replayed))
  /\ \E S : known_roots \in Seq(S)
  /\ \A c \in 0 .. Count(events, replayed) : Native!is_known_root(RootAfter(Storage, c))
  /\ \E S : spent_nullifier_hashes \in Seq(S)
  /\ \A hash : Native!is_spent_nullifier(hash) <=> hash \in Paid(events, replayed)
  /\ result = "Ok"

\* What the simulation may be given: as many deposits as the committed tree has leaves.
LEMMA CommittedIsLogged ==
  ASSUME PoolInv, ChainInv
  PROVE  /\ CommittedEvents \in Nat /\ Len(events) \in Nat /\ CommittedEvents <= Len(events)
         /\ Count(events, CommittedEvents) = Committed.nextLeafIndex
         /\ Paid(events, CommittedEvents) = Fields(Committed.nullifierSpent)
<1>1. Len(events) \in Nat
  BY DEF ChainInv
<1>2. CASE calls = <<>>
  <2>1. CommittedEvents = Len(events) /\ Committed = Storage
    BY <1>2 DEF CommittedEvents, Committed
  <2> QED  BY <1>1, <2>1 DEF ChainInv, Logged
<1>3. CASE calls # <<>>
  <2>1. CommittedEvents = eventsBefore /\ Committed = calls[1].before
    BY <1>3, WhatIsCommitted DEF CommittedEvents, PoolInv
  <2>2. /\ eventsBefore \in 0 .. Len(events)
        /\ Logged(events, eventsBefore, calls[1].before)
        /\ Paid(events, eventsBefore) = Fields(calls[1].before.nullifierSpent)
    BY <1>3 DEF ChainInv
  <2> QED  BY <1>1, <2>1, <2>2 DEF Logged
<1> QED  BY <1>2, <1>3

LEMMA ReplayedIsCommitted ==
  ASSUME PoolInv, ChainInv, NativeInv
  PROVE  /\ replayed \in Nat /\ replayed <= CommittedEvents /\ CommittedEvents \in Nat
         /\ Count(events, replayed) \in Nat
         /\ Count(events, replayed) <= Committed.nextLeafIndex
         /\ Committed.nextLeafIndex \in Nat
<1>1. CommittedEvents \in Nat /\ Count(events, CommittedEvents) = Committed.nextLeafIndex
  BY CommittedIsLogged
<1>2. replayed \in 0 .. CommittedEvents
  BY DEF NativeInv
<1>3. /\ Count(events, CommittedEvents) \in Nat
      /\ Count(events, replayed) \in Nat /\ Count(events, replayed) <= Count(events, CommittedEvents)
  BY <1>1, <1>2, Counting
<1> QED  BY <1>1, <1>2, <1>3

\* No step of the chain takes back what may have been replayed.
LEMMA CommittedEventsStay ==
  ASSUME PoolInv, ChainInv, [MirrorNext]_<<chainVars, mirrorVars>>
  PROVE  /\ CommittedEvents \in Nat /\ CommittedEvents' \in Nat
         /\ CommittedEvents <= CommittedEvents'
         /\ \A k \in 1 .. CommittedEvents : events'[k] = events[k]
<1>1. PICK S : events \in Seq(S)
  BY DEF ChainInv
<1>2. /\ CommittedEvents \in Nat /\ Len(events) \in Nat /\ CommittedEvents <= Len(events)
  BY CommittedIsLogged
<1>3. CASE ChainDeposit
  <2>1. PICK event : events' = Append(events, event) /\ UNCHANGED <<calls, eventsBefore>>
    BY <1>3 DEF ChainDeposit, Deposit
  <2>2. ExtendedBy(events', events, event)
    BY <1>1, <2>1, Appending
  <2> QED  BY <1>2, <2>1, <2>2 DEF ExtendedBy, CommittedEvents
<1>4. CASE ChainWithdraw
  <2>1. events' = events /\ eventsBefore' = Len(events) /\ (calls' = <<>> \/ calls' # <<>>)
    BY <1>4 DEF ChainWithdraw
  <2>2. CommittedEvents' = Len(events)
    BY <2>1 DEF CommittedEvents
  <2> QED  BY <1>2, <2>1, <2>2
<1>5. CASE ChainPays
  <2>1. PICK event : events' = Append(events, event)
    BY <1>5 DEF ChainPays
  <2>2. ExtendedBy(events', events, event)
    BY <1>1, <2>1, Appending
  <2>3. calls' = <<>>
    BY <1>5, PaymentFrames DEF ChainPays, PaymentSucceeds, PoolInv
  <2> QED  BY <1>2, <2>2, <2>3 DEF ExtendedBy, CommittedEvents
<1>6. CASE ChainReverts
  <2>1. calls # <<>> /\ calls' = <<>> /\ events' = SubSeq(events, 1, eventsBefore)
    BY <1>6, PaymentFrames DEF ChainReverts, PaymentFails, PoolInv
  <2>2. eventsBefore \in 0 .. Len(events) /\ CommittedEvents = eventsBefore
    BY <2>1 DEF ChainInv, CommittedEvents
  <2>3. Len(events') = eventsBefore /\ \A k \in 1 .. eventsBefore : events'[k] = events[k]
    BY <1>1, <2>1, <2>2, Shortening
  <2> QED  BY <1>2, <2>1, <2>2, <2>3 DEF CommittedEvents
<1>7. CASE Replay \/ UNCHANGED <<chainVars, mirrorVars>>
  BY <1>2, <1>7 DEF Replay, chainVars, vars, CommittedEvents
<1> QED  BY <1>3, <1>4, <1>5, <1>6, <1>7 DEF MirrorNext

LEMMA InitNative == MirrorInit => NativeInv
<1> SUFFICES ASSUME MirrorInit  PROVE NativeInv
  OBVIOUS
<1>1. /\ calls = <<>> /\ events = <<>> /\ replayed = 0 /\ result = "Ok"
      /\ leaves = Native!NoLeaves /\ known_roots = <<Native!Root(Native!NoLeaves)>>
      /\ spent_nullifier_hashes = <<>>
  BY DEF MirrorInit, Init, Native!New
<1>2. CommittedEvents = 0 /\ Count(events, replayed) = 0 /\ Paid(events, replayed) = {}
  <2>1. 1 .. 0 = {} /\ Len(events) = 0
    BY <1>1
  <2> QED  BY <1>1, <2>1, Counting DEF CommittedEvents, Paid
<1>3. leaves = LeavesUpTo(Storage, 0)
  BY <1>1 DEF Native!NoLeaves, LeavesUpTo, LeavesOf
<1>4. Native!Root(Native!NoLeaves) = RootAfter(Storage, 0)
  <2>1. TreeInv /\ 0 \in 0 .. Storage.nextLeafIndex
    BY InitTree DEF MirrorInit, Init, Storage
  <2> QED  BY <1>1, <1>3, <2>1, NativeRoot DEF TreeInv, Tree
<1>5. /\ \E S : known_roots \in Seq(S)
      /\ \E S : spent_nullifier_hashes \in Seq(S)
      /\ Native!is_known_root(RootAfter(Storage, 0))
      /\ \A hash : ~ Native!is_spent_nullifier(hash)
  <2> DEFINE r == Native!Root(Native!NoLeaves)
  <2>1. known_roots = <<r>>
    BY <1>1
  <2>2. r = RootAfter(Storage, 0)
    BY <1>4
  <2> HIDE DEF r
  <2>3. known_roots \in Seq({r}) /\ 1 \in DOMAIN known_roots /\ known_roots[1] = r
    BY <2>1
  <2>4. spent_nullifier_hashes \in Seq({}) /\ DOMAIN spent_nullifier_hashes = {}
    BY <1>1
  <2> QED  BY <2>2, <2>3, <2>4 DEF Native!is_known_root, Native!is_spent_nullifier
<1>6. \A c \in 0 .. 0 : c = 0
  OBVIOUS
<1> QED  BY <1>1, <1>2, <1>3, <1>5, <1>6 DEF NativeInv

LEMMA ChainStepsKeepNative ==
  ASSUME PoolInv, ChainInv, NativeInv, [MirrorNext]_<<chainVars, mirrorVars>>,
         UNCHANGED mirrorVars
  PROVE  NativeInv'
<1>1. /\ replayed \in Nat /\ replayed <= CommittedEvents
      /\ Count(events, replayed) \in Nat
      /\ Count(events, replayed) <= Committed.nextLeafIndex /\ Committed.nextLeafIndex \in Nat
  BY ReplayedIsCommitted
<1>2. /\ CommittedEvents \in Nat /\ CommittedEvents' \in Nat
      /\ CommittedEvents <= CommittedEvents'
      /\ \A k \in 1 .. CommittedEvents : events'[k] = events[k]
  BY CommittedEventsStay
<1>3. \A i \in 0 .. Committed.nextLeafIndex - 1 : depositLog'[i] = depositLog[i]
  <2>1. [Next]_vars
    BY MirrorStepIsPoolStep
  <2> QED  BY <2>1, CommittedLogGrows
<1>4. /\ \A k \in 1 .. replayed : events'[k] = events[k]
      /\ \A i \in 0 .. Count(events, replayed) - 1 : Storage'.depositLog[i] = Storage.depositLog[i]
  BY <1>1, <1>2, <1>3 DEF Storage
<1>5. /\ Count(events', replayed) = Count(events, replayed)
      /\ Paid(events', replayed) = Paid(events, replayed)
  BY <1>1, <1>4, ToldElsewhere
<1>6. \A c \in 0 .. Count(events, replayed) : RootAfter(Storage', c) = RootAfter(Storage, c)
  <2>1. \A c \in 0 .. Count(events, replayed) : c # 0 => c - 1 \in 0 .. Count(events, replayed) - 1
    BY <1>1
  <2> QED  BY <1>4, <2>1 DEF RootAfter
<1>7. LeavesUpTo(Storage', Count(events, replayed)) = LeavesUpTo(Storage, Count(events, replayed))
  BY <1>4 DEF LeavesUpTo, LeavesOf
<1>8. /\ replayed' = replayed /\ leaves' = leaves /\ known_roots' = known_roots
      /\ spent_nullifier_hashes' = spent_nullifier_hashes /\ result' = result
  BY DEF mirrorVars
<1>9. /\ replayed' \in 0 .. CommittedEvents'
      /\ leaves' = LeavesUpTo(Storage', Count(events', replayed'))
  BY <1>1, <1>2, <1>5, <1>7, <1>8 DEF NativeInv
<1>10. \A c \in 0 .. Count(events', replayed') : Native!is_known_root(RootAfter(Storage, c))'
  BY <1>5, <1>6, <1>8 DEF NativeInv, Native!is_known_root
<1>11. \A hash : Native!is_spent_nullifier(hash)' <=> hash \in Paid(events', replayed')
  BY <1>5, <1>8 DEF NativeInv, Native!is_spent_nullifier
<1> QED  BY <1>8, <1>9, <1>10, <1>11 DEF NativeInv

\* The next event is one the simulation accepts.
LEMMA ReplayIsAccepted ==
  ASSUME PoolInv, ChainInv, NativeInv, Replay
  PROVE  NativeInv'
<1> DEFINE d     == Count(events, replayed)
           event == events[replayed + 1]
<1>1. /\ replayed \in Nat /\ d \in Nat /\ d <= Committed.nextLeafIndex
      /\ replayed < CommittedEvents /\ CommittedEvents \in Nat
      /\ Committed.nextLeafIndex \in Nat
  BY ReplayedIsCommitted DEF Replay
<1>2. CommittedEvents <= Len(events) /\ Len(events) \in Nat
      /\ Count(events, CommittedEvents) = Committed.nextLeafIndex
  BY CommittedIsLogged
<1>3. /\ replayed' = replayed + 1
      /\ events' = events /\ Storage' = Storage /\ CommittedEvents' = CommittedEvents
  BY DEF Replay, chainVars, vars, treeVars, Storage, CommittedEvents
<1>4. Tells(events, replayed + 1, Storage) /\ replayed + 1 \in 1 .. Len(events)
  BY <1>1, <1>2 DEF ChainInv, Logged
<1>5. replayed' \in 0 .. CommittedEvents'
  BY <1>1, <1>3
<1>6. Count(events, replayed + 1) \in Nat /\ Count(events, replayed + 1) <= Committed.nextLeafIndex
  <2>1. replayed + 1 \in 0 .. CommittedEvents
    BY <1>1
  <2> QED  BY <1>1, <1>2, <2>1, Counting
<1>7. Committed.nextLeafIndex <= nextLeafIndex /\ nextLeafIndex \in Nat
      /\ nextLeafIndex <= TREE_CAPACITY /\ TREE_CAPACITY \in Nat
  <2>1. nextLeafIndex \in 0 .. TREE_CAPACITY
    BY DEF PoolInv, TypeInv, Typed, Storage
  <2> QED  BY <2>1, CommittedIsInTheLog, TreeShape
<1>8. CASE event.call = "deposit"
  <2>1. Native!deposit(event.commitment)
    BY <1>8 DEF Replay
  <2>2. Count(events, replayed + 1) = d + 1
    BY <1>1, <1>8, Counting
  <2>3. depositLog[d].commitment = event.commitment
    <3>1. (d + 1) - 1 = d
      BY <1>1
    <3> QED  BY <1>4, <1>8, <2>2, <3>1 DEF Tells, Storage
  <2>4. DOMAIN leaves = 0 .. d - 1 /\ \A i \in 0 .. d - 1 : leaves[i] = depositLog[i].commitment
    BY DEF NativeInv, LeavesUpTo, LeavesOf, Storage
  <2>5. Native!Length(leaves) = d /\ d # TREE_CAPACITY
    <3>1. Length(leaves) = d
      BY <1>1, <2>4, LengthOfList
    <3> QED  BY <1>1, <1>6, <1>7, <2>2, <3>1, NativeLength
  <2>6. /\ leaves' = [i \in 0 .. d |-> IF i = d THEN event.commitment ELSE leaves[i]]
        /\ known_roots' = Append(known_roots, Native!Root(leaves'))
        /\ result' = "Ok" /\ spent_nullifier_hashes' = spent_nullifier_hashes
    BY <2>1, <2>5 DEF Native!deposit, Native!Insert
  <2>7. leaves' = LeavesUpTo(Storage, d + 1)
    <3>1. (d + 1) - 1 = d /\ \A i \in 0 .. d : i = d \/ i \in 0 .. d - 1
      BY <1>1
    <3>2. LeavesUpTo(Storage, d + 1) = [i \in 0 .. d |-> depositLog[i].commitment]
      BY <3>1 DEF LeavesUpTo, LeavesOf, Storage
    <3> HIDE DEF d, event
    <3> QED  BY <2>3, <2>4, <2>6, <3>1, <3>2
  <2>8. Native!Root(leaves') = RootAfter(Storage, d + 1)
    <3>1. d + 1 \in 0 .. Storage.nextLeafIndex
      BY <1>1, <1>6, <1>7, <2>2 DEF Storage
    <3> QED  BY <2>7, <3>1, NativeRoot DEF PoolInv, TreeInv, Tree
  <2>9. PICK S : known_roots \in Seq(S)
    BY DEF NativeInv
  <2>10. ExtendedBy(known_roots', known_roots, RootAfter(Storage, d + 1))
    BY <2>6, <2>8, <2>9, Appending
  <2>11. \A root : Native!is_known_root(root) \/ root = RootAfter(Storage, d + 1)
                     => Native!is_known_root(root)'
    <3>1. /\ DOMAIN known_roots = 1 .. Len(known_roots) /\ Len(known_roots) \in Nat
          /\ DOMAIN known_roots' = 1 .. Len(known_roots) + 1
      BY <2>9, <2>10 DEF ExtendedBy
    <3> HIDE DEF d
    <3> QED  BY <2>10, <3>1 DEF ExtendedBy, Native!is_known_root
  <2>12. \A c \in 0 .. d + 1 : c \in 0 .. d \/ c = d + 1
    BY <1>1
  <2>13. \A c \in 0 .. d + 1 : Native!is_known_root(RootAfter(Storage, c))'
    BY <1>3, <2>11, <2>12 DEF NativeInv
  <2>14. Paid(events, replayed + 1) = Paid(events, replayed)
    <3>1. \A j \in 1 .. replayed + 1 : j \in 1 .. replayed \/ j = replayed + 1
      BY <1>1
    <3>2. {j \in 1 .. replayed + 1 : events[j].call = "withdraw"}
            = {j \in 1 .. replayed : events[j].call = "withdraw"}
      BY <1>1, <1>8, <3>1
    <3> QED  BY <3>2 DEF Paid
  <2>15. \A hash : Native!is_spent_nullifier(hash)' <=> hash \in Paid(events, replayed + 1)
    BY <2>6, <2>14 DEF NativeInv, Native!is_spent_nullifier
  <2> QED  BY <1>3, <1>5, <2>2, <2>6, <2>7, <2>10, <2>13, <2>15 DEF NativeInv, ExtendedBy
<1>9. CASE event.call = "withdraw"
  <2>1. Native!record_withdrawal(event.root, event.nullifierHash)
    BY <1>9 DEF Replay
  <2>2. Count(events, replayed + 1) = d
    BY <1>1, <1>9, Counting
  <2>3. Native!is_known_root(event.root)
    <3>1. \E c \in 0 .. d : event.root = RootAfter(Storage, c)
      BY <1>4, <1>9, <2>2 DEF Tells
    <3> QED  BY <3>1 DEF NativeInv
  <2>4. event.nullifierHash \notin Paid(events, replayed)
    <3> SUFFICES ASSUME NEW k \in 1 .. replayed, events[k].call = "withdraw",
                        events[k].nullifierHash = event.nullifierHash
                 PROVE  FALSE
      BY DEF Paid
    <3>1. k \in 1 .. Len(events) /\ k # replayed + 1
      BY <1>1, <1>2
    <3> QED  BY <1>4, <1>9, <3>1 DEF ChainInv, Logged
  <2>5. /\ spent_nullifier_hashes' = Append(spent_nullifier_hashes, event.nullifierHash)
        /\ result' = "Ok" /\ leaves' = leaves /\ known_roots' = known_roots
    BY <2>1, <2>3, <2>4 DEF Native!record_withdrawal, NativeInv
  <2>6. PICK S : spent_nullifier_hashes \in Seq(S)
    BY DEF NativeInv
  <2>7. ExtendedBy(spent_nullifier_hashes', spent_nullifier_hashes, event.nullifierHash)
    BY <2>5, <2>6, Appending
  <2>8. \A hash : Native!is_spent_nullifier(hash)'
                    <=> Native!is_spent_nullifier(hash) \/ hash = event.nullifierHash
    <3>1. /\ DOMAIN spent_nullifier_hashes = 1 .. Len(spent_nullifier_hashes)
          /\ DOMAIN spent_nullifier_hashes' = 1 .. Len(spent_nullifier_hashes) + 1
          /\ Len(spent_nullifier_hashes) \in Nat
      BY <2>6, <2>7 DEF ExtendedBy
    <3>2. \A n \in 1 .. Len(spent_nullifier_hashes) + 1 :
            n \in 1 .. Len(spent_nullifier_hashes) \/ n = Len(spent_nullifier_hashes) + 1
      BY <3>1
    <3>3. /\ \A n \in 1 .. Len(spent_nullifier_hashes) : n \in 1 .. Len(spent_nullifier_hashes) + 1
          /\ Len(spent_nullifier_hashes) + 1 \in 1 .. Len(spent_nullifier_hashes) + 1
      BY <3>1
    <3> HIDE DEF d, event
    <3> QED  BY <2>7, <3>1, <3>2, <3>3 DEF ExtendedBy, Native!is_spent_nullifier
  <2>9. Paid(events, replayed + 1) = Paid(events, replayed) \union {event.nullifierHash}
    <3>1. \A j \in 1 .. replayed + 1 : j \in 1 .. replayed \/ j = replayed + 1
      BY <1>1
    <3>2. {j \in 1 .. replayed + 1 : events[j].call = "withdraw"}
            = {j \in 1 .. replayed : events[j].call = "withdraw"} \union {replayed + 1}
      BY <1>1, <1>9, <3>1
    <3> QED  BY <3>2 DEF Paid
  <2>10. \A hash : Native!is_spent_nullifier(hash)' <=> hash \in Paid(events, replayed + 1)
    BY <2>8, <2>9 DEF NativeInv
  <2>11. \A c \in 0 .. d : Native!is_known_root(RootAfter(Storage, c))'
    BY <1>3, <2>5 DEF NativeInv, Native!is_known_root
  <2>12. leaves' = LeavesUpTo(Storage, d)
    BY <2>5 DEF NativeInv
  <2> QED  BY <1>3, <1>5, <2>2, <2>5, <2>7, <2>10, <2>11, <2>12 DEF NativeInv, ExtendedBy
<1> QED  BY <1>4, <1>8, <1>9 DEF Tells

MirrorInv == ChainInv /\ NativeInv

LEMMA InitMirror == MirrorInit => PoolInv /\ MirrorInv
  BY InitPool, InitChain, InitNative DEF MirrorInit, MirrorInv

LEMMA NextMirror ==
  ASSUME PoolInv, MirrorInv, [MirrorNext]_<<chainVars, mirrorVars>>
  PROVE  MirrorInv'
<1>1. ChainInv'
  BY NextChain DEF MirrorInv
<1>2. CASE Replay
  BY <1>1, <1>2, ReplayIsAccepted DEF MirrorInv
<1>3. CASE ~ Replay
  <2>1. UNCHANGED mirrorVars
    BY <1>3 DEF MirrorNext, ChainDeposit, ChainWithdraw, ChainPays, ChainReverts
  <2> QED  BY <1>1, <2>1, ChainStepsKeepNative DEF MirrorInv
<1> QED  BY <1>2, <1>3

LEMMA MirrorInvariant == MirrorSpec => [](PoolInv /\ MirrorInv)
<1>1. PoolInv /\ MirrorInv /\ [MirrorNext]_<<chainVars, mirrorVars>> => (PoolInv /\ MirrorInv)'
  BY MirrorStepIsPoolStep, NextPool, NextMirror
<1> QED  BY InitMirror, <1>1, PTL DEF MirrorSpec

\* The simulation watches: the chain beside it is the pool.
THEOREM MirrorIsThePool == MirrorSpec => Spec
<1>1. PoolInv /\ [MirrorNext]_<<chainVars, mirrorVars>> => [Next]_vars
  BY MirrorStepIsPoolStep
<1>2. MirrorInit => Init
  BY DEF MirrorInit
<1> QED  BY <1>1, <1>2, MirrorInvariant, PTL DEF MirrorSpec, Spec

\* The simulation accepts every deposit and every withdrawal the contract committed,
\* however far behind it is: it has room, it knows the root, and no nullifier comes twice.
THEOREM NativeFollowsTheChain == MirrorSpec => []NativeAcceptsTheChain
<1>1. MirrorInv => NativeAcceptsTheChain
  BY DEF MirrorInv, NativeInv, NativeAcceptsTheChain
<1> QED  BY <1>1, MirrorInvariant, PTL

\* When it has caught up, its tree, what it knows as spent and the roots it accepts
\* cover the contract's.
THEOREM NativeIsInStep == MirrorSpec => []NativeMatchesTheChain
<1>1. ASSUME PoolInv, MirrorInv  PROVE NativeMatchesTheChain
  <2> SUFFICES ASSUME calls = <<>>, replayed = Len(events)
               PROVE  /\ Root(leaves) = currentRoot
                      /\ \A i \in 0 .. rootCount - 1 : Native!is_known_root(roots[i])
                      /\ \A hash \in NullifierHashes :
                           Native!is_spent_nullifier(hash) <=> Word(hash) \in nullifierSpent
    BY DEF NativeMatchesTheChain, InStep
  <2>1. TypeInv /\ Ring(Storage) /\ Tree(Storage)
    BY <1>1 DEF PoolInv, RingInv, TreeInv
  <2>2. Count(events, replayed) = nextLeafIndex
    BY <1>1 DEF MirrorInv, ChainInv, Logged, Storage
  <2>3. Root(leaves) = currentRoot
    <3>1. DOMAIN depositLog = 0 .. nextLeafIndex - 1
      BY <2>1 DEF TypeInv, Typed, Storage
    <3>2. LeavesUpTo(Storage, nextLeafIndex) = LeavesOf(depositLog)
      BY <3>1 DEF LeavesUpTo, LeavesOf, Storage
    <3> QED  BY <1>1, <2>1, <2>2, <3>2, CurrentRootIsTheLogs DEF MirrorInv, NativeInv
  <2>4. ASSUME NEW i \in 0 .. rootCount - 1  PROVE Native!is_known_root(roots[i])
    <3>1. isKnownRoot(Word(roots[i])) /\ Word(roots[i]).field = roots[i]
      BY DEF isKnownRoot, Word, Canonical
    <3>2. \E c \in 0 .. nextLeafIndex : roots[i] = RootAfter(Storage, c)
      BY <2>1, <3>1, KnownRootsAreHistoric
    <3> QED  BY <1>1, <2>2, <3>2 DEF MirrorInv, NativeInv
  <2>5. ASSUME NEW hash
        PROVE  Native!is_spent_nullifier(hash) <=> Word(hash) \in nullifierSpent
    <3>1. Native!is_spent_nullifier(hash) <=> hash \in Fields(nullifierSpent)
      <4>1. Committed.nullifierSpent = nullifierSpent
        BY DEF Committed, Storage
      <4> QED  BY <1>1, <4>1 DEF MirrorInv, NativeInv, ChainInv
    <3>2. \A word \in nullifierSpent : word = Word(word.field)
      <4> TAKE word \in nullifierSpent
      <4>1. word.wraps = 0
        BY <1>1 DEF PoolInv, MoneyInv, PaidOnce, Storage, Canonical
      <4>2. word = [field |-> word.field, wraps |-> word.wraps]
        BY <2>1 DEF TypeInv, Typed, Storage, WordsOf
      <4> QED  BY <4>1, <4>2 DEF Word
    <3>3. Word(hash).field = hash
      BY DEF Word
    <3> QED  BY <3>1, <3>2, <3>3 DEF Fields
  <2> QED  BY <2>3, <2>4, <2>5
<1> QED  BY <1>1, MirrorInvariant, PTL
=============================================================================
