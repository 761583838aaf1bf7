# A verification of halo2-shielded-pool

TLA+ modules that model the pool, TLC runs that check them on small instances,
and TLAPS proofs that hold for every value of the constants. Paths are relative
to the repository's root; `WithdrawalPool.sol` is `contracts/WithdrawalPool.sol`.

## 1. The system

A user deposits one denomination with a commitment `H2(nullifier, secret)`. The
commitment becomes a leaf of a Merkle tree the contract keeps incrementally. To
withdraw, the user's client reads the `Deposit` events, rebuilds the tree
natively, and proves in zero knowledge that it knows a note of some leaf under a
root. The proof also fixes the nullifier hash, the recipient and the deployment.
Anybody may submit it. The contract checks the root against its last 32 roots,
refuses a nullifier hash it has seen, asks the generated verifier, and pays.

| Component | State | Operations | Speaks with |
|---|---|---|---|
| Contract, `WithdrawalPool.sol` | leaf count, filled subtrees, ring of roots, spent nullifiers, guard, balance | `deposit`, `withdraw`, views, constructor | verifier and Poseidon contracts (calls), recipient (a call with value, which may call back), clients (events) |
| Native tree, `src/primitives/merkle.rs` | the list of leaves | `insert`, `root`, `prove`, `compute_root`, `verify` | native pool, prover |
| Native pool, `src/pool.rs` | tree, all known roots, spent hashes | `deposit`, `record_withdrawal`, queries | its one owner |
| Hashes, `src/primitives/{note,context,poseidon}.rs` | none | commitment, nullifier hash, domain digest, binding | everything |
| Circuit and gadgets, `src/circuits`, `src/gadgets` | none (constraints) | `configure`, `synthesize` | prover, key generation |
| Proof boundary, `src/proof.rs` | keys | `setup`, `prove`, `verify`, calldata, rewriting of the generated verifier | prover CLI, contract |
| CLI, `src/main.rs`, `src/solidity.rs` | files | `prove` (file to file), `generate` (five files) | file system, contract sources |
| Generated contracts, `contracts/generated` | none | verifier, Poseidon, key id | contract |
| Spike, `spikes/bn254-kzg-evm` | four files | a hash circuit, its contract, a generator | nothing: an experiment kept beside the program |

### What is hard here

* **The callback.** `recipient.call` (`WithdrawalPool.sol:157`) runs foreign code
  in the middle of `withdraw`. That code may deposit, or try to withdraw again.
  When the call fails the transaction undoes everything, nested deposits too.
* **Two names of one number.** `nullifierSpent` is keyed by a `uint256`, a proof
  speaks modulo the field. `h` and `h + FIELD_MODULUS` are two keys of one
  nullifier. Only the verifier's range check, added by rewriting the SDK's
  generated text, keeps the second one out.
* **Two trees.** The contract's incremental tree, the native tree of the whole
  list and the path in a circuit must give one root, for every leaf index.
* **A window that moves.** Roots expire while clients prove. The ring's index
  wraps, its count saturates, its unused slots hold zeros.
* **Free inputs.** Anybody deposits any canonical value: zero, a commitment
  already there, a note with another note's nullifier. Anybody submits any proof
  with any arguments.
* **Four copies of one hash.** A library, a circuit, a Solidity text made from its
  parameters and the spike each run the rounds in their own way.
* **Rewritten text.** The strict verifier is the SDK's text after a search and
  replace, line by line, with assertions that should notice a changed template.
* **Files.** `generate` replaces five files one by one, `prove` one file in place,
  and either may be stopped in between. Four of the five are in the repository, so a
  checkout replaces them too, and a deployment may read them meanwhile.
* **Time.** A proof takes longer than a block; its root may be gone when it is ready.

### What makes each part correct

* Contract: known roots are exactly the recent ones; its root is the native root
  of its log; one denomination per deposit not yet paid; nobody is paid twice or
  without the request of the owner of a deposited note; a note in the tree stays
  withdrawable; each transaction is atomic.
* Native pool and tree: recorded roots are the tree's history; a hash is recorded
  once; paths lead from their own leaf, and only from it, to the root; the pool
  accepts what the contract accepted.
* Gadgets: the cells that pass their constraints, whoever chose them, are those
  the native code computes; and the native cells pass.
* The whole circuit: public inputs have a witness exactly when they are a native
  statement about one note, with a recipient that fits.
* Calldata: one encoding for each statement, and the contract accepts the bytes that
  Rust accepts, and no others unless the search missed a scalar read of the SDK's text.
* Commands: what comes out of `prove` verifies and is of this run; what is deployed
  from the contracts of a checkout, or of one run of `generate` over them, is of one
  revision.
* A client: it is paid in the end.

## 2. Modules

    Protocol          hashes of notes, bindings, domains         (ideal Poseidon)
      Merkle          the native tree, as functions of a list
        MerkleProofs      theorems about the tree
        Prover        what a proof states, who can make it, when it is accepted
          WithdrawalPool         the contract
            MCWithdrawalPool         instance for TLC
            ChainMirror              contract + native pool
              MCChainMirror
            WithdrawalFlow           contract + one client, with fairness
              MCWithdrawalFlow
            PoolProofs               theorems about these three
          ProveCommand           prove, from file to file, and its self-check
            MCProveCommand
        NativePool    the native pool
          NativePoolProofs, MCNativePool
    NoteLedger        what a pool promises (abstract)
    Field             arithmetic in a prime field
      RangeChip       the recipient's range check
        RangeChipProofs, MCRangeChip
      MerkleChip      the membership gadget
        MerkleChipProofs, MCMerkleChip
      WithdrawCircuit the circuit: both gadgets and four hash calls
        WithdrawCircuitProofs, MCWithdrawCircuit
      Poseidon        the native hash and the contract's
        PoseidonChip  the hash gadget
          SpikeCircuit    the spike's circuit and contract
            PoseidonProofs, MCPoseidonChip
    StrictVerifier    the rewriting of the verifier's text
      Calldata        bytes, read by Rust and by the verifiers that can result
        MCCalldata
    Artifacts         generate, checkouts, and deployments
      MCArtifacts
      CommandProofs   theorems about ProveCommand, Artifacts and Calldata

**Protocol.** `H1` and `H2` are free constructors (tuples): equal hashes have equal
inputs. This is the ideal reading of Poseidon's collision resistance, and the one
assumption the "authorised" properties rest on. Field values that are not
hashes are atoms.

**Merkle.** A list of leaves is a function on `0..n-1`. `Levels` is the loop of
`MerkleTree::root`, level by level; `Prove` reads a sibling and a bit on each of
them; `ComputeRoot` is the loop of `MerklePath::compute_root`. They are recursive
functions, which TLAPS can use, not RECURSIVE operators.

**Prover.** A *word* is a `uint256`, `[field, wraps]`, standing for
`field + wraps * FIELD_MODULUS`; it is canonical when `wraps` is 0. A proof is the
record of the five public inputs `WithdrawCircuit::new` computes. It exists when
`prove` would make it: the list given to it has the note's commitment at the
index given to it. The list need not be the pool's. `VerifierAccepts` is the
strict verifier: each word canonical, each equal to what was proved. The verifier
reads five words in a fixed order, so naming them is the abstraction. The CLI's
`domain_override` is not a field of a request: a digest that belongs to a
deployment is that deployment's request, any other is refused by every pool.

**WithdrawalPool.** One variable per storage variable, under the contract's names,
and `balance`, the two event logs, and `calls`, the payments in progress. A
reverted call changes nothing, so it is a stuttering step and every `revert` is a
guard. `Deposit` is the whole function. `Withdraw` is `withdraw` up to the
instant the recipient's code gets control, the transfer included;
`PaymentSucceeds` is the rest of the function; `PaymentFails` is the revert, back
to the storage the frame kept. Between the two, `Deposit` and `Withdraw` are
enabled as their own guards allow: that is the recipient's code. Callers choose
every argument freely from a small set: any recipient, any root the tree ever
had, either name of a nullifier hash, either name of the proof's binding, with
any proof that exists, stale and foreign ones included.
Calls with a wrong deposit value or a noncanonical word are among the inputs.
Not in the model: ether forced into the account without a call (it only raises
the balance), gas, and the `uint128`/`uint160` casts, which are exact on
their arguments. A caller that reverts *after* `withdraw` returned leads back to
a state from before the call, which is a state already explored.

**NoteLedger.** The contract without its machinery: leaves, payouts, funds. One
step is one transaction, which may add any number of leaves and make at most one
payout, of a nullifier never paid, on a request of the owner of a note that was a
leaf before the transaction. The refinement maps the ledger to what the chain has
*committed*: the present storage when no payment is in progress, the outermost
frame's kept storage otherwise.

**NativePool.** `Pool` and `MerkleTree`, with every result code. Both
constructors are initial states: `new()` records the empty root, the derived
`default()` does not.

**ChainMirror.** The contract's actions with their events recorded, and a native
pool that replays the committed events one by one, at its own pace. `events` and
the root each withdrawal used are history the contract does not keep in storage;
they roll back with it.

**RangeChip, MerkleChip.** A gadget is two programs: `configure` says which cells
are admitted, `check` or `compute_root` says which are assigned. A state is a
region filled row by row. `filledBy`, chosen at the start, says who fills
it: the code, which computes every cell and looks at no gate, or *anybody*, who
may put any field element that the gates of that row admit. The second is what a
verifier has to reckon with; nothing about a proof says who made it. The
constraints are written again as `Satisfied`, over the whole region, and the
properties relate the two. A witness that no next row can extend stops there: it
satisfies nothing. `Weight[n]` is 2^n, as a constant with the assumptions that
`range.rs:1` makes of the field (2^160 is below the modulus). `Hash` is any function: the
membership gadget is right whatever the Poseidon gadget computes, as long as
that is a function of its two inputs. Rows are the region's own; the offsets that keep
regions apart are left out, and so are the cells that tests tamper with.

**Poseidon, PoseidonChip, SpikeCircuit.** The permutation itself, over a small
field, with the parameters as constants. `NativeHash` is what light-poseidon
computes (a library, modelled from the parameters that `primitives/poseidon.rs`
checks and hands to it); `SolidityHash` is the loop in the text of
`solidity.rs`, which reads flat packed constants by index and folds both
kinds of round into one condition. `PoseidonChip` is a gadget in the sense above:
`RoundGate` and the copies on one side, `WitnessRound` on the other.
`SpikeCircuit` holds what the spike has of its own, read over the same rows: a
selector range, the literals `65`, `4` and `61` of its contract's text, no copied
inputs, and the digest as instance. The literals are constants of their own
(`SPIKE_ROUNDS`, `SPIKE_HALF`, `SPIKE_PARTIAL_END`). That they belong to the round
numbers is `LiteralsAssumption`, and the code only assumes it too: `native.rs` asserts
8 and 57 rounds in `parameters`, which `solidity_source` does not call.

**WithdrawCircuit.** `synthesize` step by step: the note's hashes, membership, the
context, the range check, the binding. It has `MerkleChip` and `RangeChip` as
instances and lets their actions run; the Poseidon gadget is called four times
and stands here as its inputs and its digest, which `PoseidonChip` justifies. The
wiring is the point: `NoteCopied` and `BindingCopied` are the copy constraints that
make one nullifier cell of three and one recipient cell of three.
`NewPublicInputs` is what `WithdrawCircuit::new` computes natively.

**StrictVerifier, Calldata.** A verifier text is a sequence of lines, told apart by
what the rewriting looks for; `Returns` collects its asserts and expects. `SdkTexts`
are the short texts that read each scalar once, in some assembly block: with two loads
on a line, another modulus, a read in a form that the search for `mod(calldataload(`
misses (`hidden`, which the code copies unchanged, `src/proof.rs:148-149`), a missing or
a second anchor, a block opened in another form, a missing header. `Verifiers` is
what can come out and `Compiles`: `checked_scalar` is a function of the anchor's block, and
Yul knows it in no other, so a text that needs it elsewhere does not get past `forge`.
`found` remembers whether the search saw every read. With the pinned SDK it does, which
`tests/bn254_kzg_proof.rs:138-160` compares byte for byte. `Calldata`
sends encoded bytes, possibly changed, cut or lengthened, and lets three readers have
them: `decode_calldata` with `TestKeys::verify`, a verifier contract, and the pool
that calls it. The contract's getter `VERIFICATION_KEY_ID()` is in the model: a call
whose first bytes are its selector succeeds without a proof, and returns a word.
Proofs are lists of scalars, one of them valid for each list of inputs; curve
points, whose coordinates are checked by the SDK's own code, are left out.

**ProveCommand.** A run of `prove`: parse, list, path, circuit, `create_proof`, the
self-check, and a write that empties the file before it fills it. Input files are
good and bad (wrong index, wrong note, too long a list, a `domain_override`); any
step may fail or be the last before a kill. `TestKeys::prove` is public, and so are
the circuit's fields, so a library caller may bring public inputs that its witness does not
have; `create_proof` gives it bytes or an error. Making keys and proof may fail for a
good witness too.

**Artifacts.** A revision is a verifier and a text of the hash contracts: one may change
without the other, and `KeyId`, the Keccak of the verifier's text, tells only verifiers
apart. `disk` is the text of each of the five files. The four contracts are in the
repository and start as the revision's own, as `tests/bn254_kzg_proof.rs:138-160` asks;
`README.md:144-146` says that Git ignores them, but `.gitignore` names `/artifacts`
only. `Checkout` is a clean one and replaces the four; `Edit` is an edit, or a checkout
that keeps what runs have changed. Both happen at any time, also during a run, which
goes on with the revision its binary was built from and may stop before a write or
inside it. A deployment is what `tests/anvil_e2e.rs:237-249` does: `forge build` of
everything, then three `forge create`, each of which compiles what is on disk by then.
Nothing keeps a run away from it. Two things are kept simple: one run of `generate` is
in progress at a time, and a checkout is one step. `begun` counts the
rewritings since the contracts were last one set, `quiet` says that a deployment began
when there was at most one and that no file has changed since its verifier was created.

**WithdrawalFlow.** The pool's own actions by everybody, plus one client that goes
from `deposited` over `proving` to `submitted`, and back to the log when its root is
gone. Deposit, log, `prove` and `withdraw` are those of `tests/anvil_e2e.rs`, which does
each once. That a client runs `prove` again after a failure (`ProveFails`), and reads the
log again when its root has left the window (`RootExpired`), is an assumption on clients:
the repository has none that does it. Others may hold and submit the client's proof
at any time, also to make the payment fail for lack of gas, which leaves the client as
it was.

## 3. Runs

| Run | Question | Instance | States |
|---|---|---|---|
| `pool` | Is the contract right under every interleaving of callers, callbacks and failures, and does it implement the ledger? | depth 2, 4 leaves, window 3, denomination 2, call values 1 to 3, words with 0 or 1 wraps, three notes (two share a nullifier), a zero leaf, five requests (one for another chain, one to address 0), one foreign list | 4,265 |
| `native` | Are the native pool and its paths right under every call sequence, errors included? | depth 2, three leaf values (one is zero), two hashes, both constructors | 4,186 |
| `mirror` | Does the native pool accept, in order and however late, what the contract committed? | depth 2, window 2, three notes | 97,165 |
| `mirror_roots` | Does the native pool know the contract's roots and no others, as `README.md:104` suggests? (expected to fail) | the same | counterexample |
| `range` | Do exactly the narrow recipients have a witness, and one each? | field of 19, four bits (16, 17 and 18 are too wide) | 684 |
| `membership` | Do exactly the native paths have a witness? | field of 5, depth 2, a hash that tells left from right | 1,110 |
| `poseidon` | Do the library, the gadget, the contract and the spike compute one hash, and has no other trace a digest? | field of 7, one full round on either side of one or two partial ones, all inputs of both widths | 546 |
| `circuit` | Are the accepted public inputs exactly the native statements about one note? | field of 3, depth 2, one bit, all private inputs and siblings | 24,104 |
| `calldata` | Does every verifier that can be generated accept what Rust accepts, and only that where every read was found? | words of two ternary digits, field of 5, two inputs, two proof scalars, texts of up to six lines, three changes | 42,825 |
| `prove` | What can be found at the output path, and what is a caller handed? | two notes, a tree of two leaves, lists of up to three, indices up to two past the end, two runs | 94,462 |
| `artifacts` | Which mixed sets of files can be deployed? | three revisions: two differ in the hash contracts alone, two in the verifier alone, two in both; any number of runs, stops, edits, checkouts and deployments | 538,848 |
| `flow` | Is a client that deposited paid in the end? | two notes, depth 2, window 2, one failed run of `prove` | 8,285 |

*Why the bounds are enough.* Depth 2 has both kinds of node on both levels, a
half-filled and a full tree, and a deposit that must be refused. A window of 3
(or 2) is smaller than the five roots of a full tree, so the index wraps, roots
expire, and unused slots exist before that. Two notes with one nullifier and
equal recipients in different requests give every confusion a proof could be
put to. One wrap is enough because words are only compared with canonical ones
and with each other. `CALL_DEPTH_LIMIT` 2 leaves room for a second payment
inside the first, so that the guard, and not the bound, rules it out. In `range`
the modulus is not a power of two and lies between 2^4 and 2^5, so a fifth bit, or an
accumulator that starts elsewhere, wraps; the theorems cover the other sizes.
In the field of seven x^5 permutes and is not the identity, and no matrix is
symmetric, so a wrong power or a transposed matrix shows; the loop over rounds has
a first and a last round of each kind. The circuit's field of three is the smallest that is
not binary: 2 does not fit one bit. In `calldata` four of nine words are not canonical,
a stated length can overflow, and the selector is a word above the modulus, as
0xe12bc188... is. Two runs of `prove` are one that leaves a file and one that finds
it. `flow` has a window of two roots and four leaves, so the client's root can
expire, and expire again. `artifacts` has no bound on steps: its state is finite, and
three revisions give every way in which two of them can differ.

`CHECK_DEADLOCK FALSE` appears where the system may really stop: a full tree
whose notes are all spent accepts no call that changes anything, a region ends
with its last row, and runs of `prove` and changes of bytes are bounded. `native` and `artifacts` check
deadlock: an error is a step there, and the source may always change.

*Properties of `pool`.*
`RootWindow`: `isKnownRoot` accepts the last `ROOT_HISTORY_SIZE` roots and nothing
else. `TreeMatchesLog`: the incremental root is the native root of the log.
`Conservation`: balance = denomination × (deposits − spent), also in the middle of
a payment. `FundsForEveryUnspentNote`: all deposited, unspent nullifiers can be
paid together. `NoteStaysWithdrawable`: a proof against the present list passes
every check, so tree, window and domain agree between chain and client.
`OnePayoutPerNullifier`: none is paid twice, under either of its names.
`PayoutsAuthorised`: each payout is some owner's request for this deployment and
this recipient. `LockTracksCall`: the guard is taken exactly while a payment is in
progress. `AtomicLedger`: the refinement.

*Properties of `native` and `mirror`.* `RootsAreTheHistory`, `SpentOnce`,
`PathsReachTheRoot` (completeness of paths), `PathsBindTheLeaf` (a path carries
its own leaf only, the padding zero aside), `NativeAcceptsTheChain`,
`NativeMatchesTheChain`.

*Properties of `range` and `membership`.* `RecipientFits` (no wide recipient passes),
`OneDecomposition` (one witness each), `CheckDecides` (the code's cells pass exactly when
they should); `OnlyNativePaths` (no other node comes out), `ComputeRootSatisfies`.

*Properties of `poseidon` and `circuit`.* `OnlyNativeDigests` and `HashSatisfies` are
soundness and completeness of the hash gadget; `ContractComputesTheDigest` and
`SpikeHasTheSameHash` tie the other copies to it. `OnlyNativeStatements`: whoever
filled the trace, its five public inputs are those that `new` computes from one
note, one path, one recipient and one domain. `SynthesisDecides`: `synthesize`
satisfies the circuit exactly when the recipient fits.

*Properties of `calldata`.* `DecodingIsCanonical`: no slice past the end, whatever
length a caller states, and only the encoding of its result is decoded.
`EncodedIsAccepted`: untouched bytes are accepted by Rust and by the pool with every
verifier. `PoolAgreesWithRust`: on any bytes, what Rust accepts the pool accepts, with
every verifier; and with a verifier whose text had no hidden read, the other way round.
Without that condition the other way is false, as explained below.

*Properties of `prove`.* `OutputsAreWithdrawable`: a complete file holds a proof that
verifies, for the root of its own list, its own note and recipient.
`SuccessIsFresh`, `ReturnedProofsVerify`.

*Properties of `artifacts`.* `FilesAreOfTheirKind`, the type invariant.
`DeployedSetMatches`: the constructor compares the verifier's key and not the hash
contract, and revisions that differ in their hash alone have one key. Still a deployed
pool has verifier, hash and key of one revision when the contracts were one set, at most
one run has begun since (it may have ended, have stopped anywhere, or be going on), and no
file changes while the deployment goes on. The order of the writes is the reason: the
verifier is first and the key library comes after the hash contracts. With the verifier
new and the key old, the constructor refuses unless both revisions have one verifier, and then the
pool is of the revision of its Poseidon. Were the key written before the hash
contracts, as the mutant has it, a new verifier and key could meet an old Poseidon. Beyond that nothing is promised.
After two runs over one set, or with a file that changes between two creates, a Poseidon of another
revision can pass the constructor.

*Properties of `flow`.* `ProofSurvivesTheWindow`: a proof is good for as many deposits as
the window has roots, less one. `DepositorIsPaid`: liveness, see section 4.

Each property has a *variant*, an operator with the name of a mapped definition
and a suffix, that changes it as a plausible bug would; putting it in the
definition's place makes TLC report the property.

### Finding

`mirror_roots`: `Pool` never forgets a root (`src/pool.rs:75-77`, and the test
`older_root_remains_recognized_after_later_deposit`); the contract forgets all but
the last 32 (`WithdrawalPool.sol:89-95`). `README.md:104` presents `Pool` as a model
of the contract's state checks. It models them in one direction only: `mirror`
checks that what the contract accepts, `Pool` accepts.

### What two properties do not promise

`PoolAgreesWithRust` is weaker for a text with a hidden read. The assert on the number of
loads (`src/proof.rs:154-157`, "SDK scalar-load template changed") asks for more than the
public inputs, not for all reads, and a line without `mod(calldataload(` is copied as
it is. A text with the public inputs and some of the proof's scalars in the known form,
and one scalar in another, passes, and that scalar is reduced unchecked: with such texts among
`SdkTexts` the property fails as soon as `verifier.found` is left out of it. The pinned SDK,
`=0.2.7`, writes no such text; this is what the asserts would not notice of a later one.

`DeployedSetMatches` is about deployed pools and not about the disk. "Every run replaces
only these generated test artifacts, as one matching set" (`src/main.rs:249`) is true of
runs that end: the five writes follow one another and the first error ends the run, so one
stopped after the verifier leaves contracts that compile and are of two revisions. They are a
danger only to a deployment that the constructor lets through.

## 4. Fairness

Only `WithdrawalFlow` assumes fairness, for `DepositorIsPaid`:

* `WF(PaymentEnds)`: a transaction that has begun ends. The chain guarantees it: a
  transaction has a gas limit.
* `WF(ReadLog)`, `WF(ProveFinishes)`: the client does not stop. Runs of `prove` that
  fail or are killed are bounded by `MAX_KILLS`.
* `SF(Submit \/ RootExpired)`: a call that the client has sent is included at last and
  is either accepted or refused for its root. It is strong fairness since the pool is
  busy between the calls of others, so inclusion is possible again and again, not
  continuously; a chain that never includes the client's call cannot pay it.

The last two are assumptions on a client that does not give up. `tests/anvil_e2e.rs`, the
only client in the repository, goes through these steps once.

Nothing is assumed of others: they may deposit, submit and fail for ever, or not at all.
Nothing is assumed of the client's first step either: it need not deposit. Roots stop
expiring because the tree is finite. When another submits the client's proof, the
client is paid by that call, or the call fails and its own goes through.

## 5. Theorems

### The tree

`MerkleProofs` (from `TreeShape` and `PowersOfTwo`; the second is arithmetic that the
provers cannot do, since they know 2^n for numerals only). `Levels`, `ComputeRoot` and the
pool's `zeros` and `insertionPath` are recursive functions, and a recursive function is to
the provers a CHOOSE of some function that satisfies its equation. So it is proved first
that there is one, by induction over the levels. `Upward` and `Downward` state the
induction for a set that holds the first level and is closed under the next, which needs
no operator as parameter; they follow from `WFMin`.

* `PathOfALeafReachesTheRoot`, `PathBindsItsLeaf`: `prove` and `compute_root` belong
  together, and a path has no other leaf, in trees of any depth. The second climbs
  down: equal hashes have equal inputs, level by level.
* `OtherNodes`, `EmptyNodes`, `InsertionFollowsTheTree` and `NextFrontier` are what the
  incremental tree needs: an insertion changes one node per level, the nodes to
  its right are roots of empty subtrees, and the left siblings kept are the next
  insertion's.

### The contract

`PoolProofs` (from the above, `WrapsAssumption`, `PoolAssumption` and
`CallersAssumption`: sizes positive, call values naturals and the denomination one of
them, address 0 no account, the asset native, requests for notes of users, no note a
preimage of the padding zero, lists numbered from 0):

* `TypeCorrect`, `GuardTracksThePayment`. A failed payment restores the storage
  its frame kept, so a type invariant on the variables alone is not inductive.
  `TypeInv` is a predicate `Typed` on a storage *record*, asserted of the present
  storage and of the frame's, and `OneCall`, which says that a frame exists
  exactly when the guard is taken. The guard then yields `calls = <<>>` in
  `Withdraw`, and the stack never has two frames. All the invariants below have
  that form.
* `WindowIsRecent`. `RootWindow` speaks of a set; the ring needs positions. `Ring`
  says that the root of age *a* is *a* slots behind `currentRootIndex`, around the
  ring, and that the ring has not turned while `rootCount` is below its size.
  `AgesShift` is the arithmetic of one deposit.
* `MoneyConserved`. `Accounted`, with the cardinality of the spent set.
* `NoDoublePayout`. `PaidOnce`: every spent word is canonical (from the verifier's
  check), logged hashes are spent and pairwise different; and the hash of the
  payment in progress is not logged. Different canonical words are different
  nullifiers.
* `IncrementalTreeIsTheTree`. The root alone says too little: `Tree` also says that
  `filledSubtrees[d]` is the last complete left sibling of depth *d* wherever the
  next insertion will read it, and that each logged root is the native root of the
  leaves up to its own.
* `OwnersCanWithdraw`, from `TreeInv` and `RingInv`.
* `OnlyAuthorisedPayouts`. A proof may be old, of a list the pool never had, or for
  another pool; what fixes it to a leaf is that its root is one of the window's, hence of
  the history (`KnownRootsAreHistoric`), and a root has one list. `Rightful` says that
  each payout was `AskedFor` by the owner of a leaf; `Continues`, that the leaves a frame
  kept are the first of the present ones, and its payouts the present ones, so that
  what it was asked for stays true when the payment ends, either way.
* `EveryNoteIsFunded`. Every spent and every owed nullifier is `Deposited`, and
  `ALeafPerNullifier` counts: there is a leaf for each, so there is money for each.
* `PoolImplementsLedger`: `Spec => AtomicLedger`. A deposit outside a payment is a
  ledger transaction; so is `PaymentSucceeds`, with all the leaves that the recipient's
  code added, and the payout's note was a leaf before it began. The beginning of a
  payment, its failure and what happens inside it are stutters, since the mapping takes the
  committed storage.

### Those who follow the contract

Also in `PoolProofs` (from the above and `ClientAssumption`: the client's request is one
of `Requests`):

* `FlowIsThePool`, `MirrorIsThePool`: both compositions implement the pool, so all
  theorems above hold in them.
* `ProofsLastAWindow`. `ProofSurvivesTheWindow` is not inductive: a failed payment takes
  deposits away again. `FlowInv` says what the client has seen is no more than the
  *committed* log; `CommittedLogGrows` is the lemma about every step of the pool.
* `NativeFollowsTheChain`, `NativeIsInStep`. `ChainInv` says what the event log tells
  of a storage (`Logged`): the deposits are its leaves in order, a withdrawal used
  a root no younger than itself, no nullifier twice; and it says it of the whole log and of
  the part that a failing payment returns to. `NativeInv` says the native pool is what
  its replayed part of the log makes of it.

`NativePoolProofs` (from the assumptions of `MerkleProofs`): `NativeTypeCorrect`,
`HistoryKept`, `RecordedOnce`, `EveryLeafHasAPath`, `PathsCarryOnlyTheirLeaf`. `Grown(n)`
ties the length of `known_roots` to the number of leaves, for both constructors.

### Gadgets

`RangeChipProofs`, `MerkleChipProofs` (from `FieldAssumption`: no zero
divisors; `WidthAssumption`: the weights are powers of two and the last is at most
the modulus; `ChipAssumption`: the hash is a function):

* `CellsAreTyped`, `OnlyNarrowRecipients`, `OnlyOneWitness`, `CheckIsComplete`. The
  invariant `Decomposes` has `Narrow` (the accumulator of row *n* is below 2^n, so
  doubling it never wraps), `Prefixes` (each earlier accumulator is the last one shifted
  right) and `CheckFollows` (the code's accumulator is the recipient shifted right). That
  every weight fits the field is shown by a least counterexample.
* `RowsAreTyped`, `NativePathsOnly`, `EveryPathHasAWitness`. `Constrained` says that the
  rows so far satisfy their constraints; `OrderSolved` solves the gate for a left and a
  right input.

`WithdrawCircuitProofs` (from the same and `CircuitAssumption`: sizes, and hashes that are
functions into the field) takes the lemmas of those two as instances. A step of a gadget
keeps the gadget's invariant; the other steps keep off its cells, except that they assign its
leaf or its recipient, and they do so before its first row. `CircuitInv` says so phase by
phase. The loop of `new` is a recursive function, and `LoopOfNew` shows that the trace's
nodes are the only one that satisfies its equation.

* `AcceptedIsNative`, `SynthesisIsComplete`.

`PoseidonProofs` (from `FieldAssumption`, `LiteralsAssumption` for the spike's contract, and
`ParametersAssumption`: as many constants as rounds need, a matrix of each width, field
elements all): `OneRound` is a round without
anybody's layout. Each copy's round equals it: the library's, with separate full and
partial layers; the gadget's witness; the contract's, once the packed strings are shown to be
read where they were written (`Packing` is the division that says so); the spike's two.
`GateSolved` solves the round gate: it has one next row. So every row of a trace, whoever
filled it, is the image of the one before (`TraceInv`), and each copy's loop passes
through these rows (`SameRows`, by a least counterexample).

* `DigestsAreNative`, `HashIsComplete`, `ContractHashesAlike`, `SpikeHashesAlike`.

### Commands and calldata

`CommandProofs`:

* `OnlyVerifiedProofs`, `SuccessWritesItsOwn` use no assumption on the constants,
  `OutputsStayWithdrawable` those of the tree. The properties speak of the end of a run, so
  they are not inductive; `ResultIsOpen` and
  `WritesAreChecked` follow a run that is still going.
* `ArtifactsTypeCorrect`, `DeploymentsMatch` (from `RevisionsAssumption`: a revision is a
  verifier and a hash; any set of them will do, also revisions that share either).
  `DeployedSetMatches` says nothing of the disk. `Over` does: the first contracts of a
  new set, perhaps an emptied file, and the rest of an old one. `OneRewriting` says that
  the disk is so while at most one rewriting has begun, with the run's own revision as
  the new set while it goes on; `QuietDeployment`, that what a quiet deployment has created
  is still what is on disk. `MixedDeploysMatching` is the argument of section 3.
* `CalldataIsCanonical`, `CalldataIsAccepted`, `CalldataMeansTheSame` (from
  `SizesAssumption` and `EncodingAssumption`: bytes have at least two values, the modulus
  fits a word, a word that begins with the getter's selector does not fit the field, and the
  lengths of inputs and proof fit a `usize` together). `CallTyped`, the invariant, says that
  bytes stay bytes and that unchanged ones are the encoding; the rest is about every byte
  string of every length. `DigitsOfAWord` and `WordOfDigits` make writing and reading of a
  word inverses, by induction over its bytes; `EncodedBytes` and `ProofWords` put each word
  in its place. `RewrittenReads` is about the text: the rewriting keeps the number of
  scalars read (`SameLengths`, `InsertionReadsNothing`), checks each that it finds, and
  leaves the length check in (`VerifierShape`). `IsProof` is what both readers accept, each by a lemma of its own.

### Only model-checked

* `DepositorIsPaid`: liveness and ENABLED are out of the prover's reach.

## 6. Not modelled

* The argument system: KZG, SHPLONK, the transcript, and the arithmetic of the
  generated verifier. Its soundness is assumed for honest keys; the repository's
  own setup is test-only (`src/proof.rs:1-2`).
* In the circuit: the offsets that keep regions of one column apart, the selectors'
  compression, and `without_witnesses`, which key generation uses.
* In the generated verifier: curve points, the pairing, memory layout. What is modelled
  of it is what the repository adds, the length, the scalars' range and the getter.
* JSON and hex formats of the files; `parse_field` and its kin are one failing step.
* The order of the id and its declaration in `solidity_verifier`: the id is a digest of the
  text without it, on both sides, by one function.
* The spike's generator (fresh setup, one proof, four files) and its Foundry tests. Only
  the spike's circuit and contract are modelled; the program uses neither.
* Two runs of `generate` at a time, and a checkout that is seen half done.
* CI, lock files and licences.

## 7. Plan

Done: the core (contract, ledger, native pool, mirror), the constraints (every gadget and
the circuit), the boundary (calldata, the rewriting, the self-check), the flow with its
liveness, the artifacts; and the proofs about the trees, the contract, its clients, the
gadgets, the circuit, the four hashes, the commands and the calldata. Every safety property
that a passing run checks is a theorem; what is left to TLC is the liveness of the flow.
