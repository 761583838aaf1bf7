--------------------------- MODULE CommandProofs ---------------------------
(***************************************************************************)
(* The two commands of main.rs, and the bytes that leave them.  For every  *)
(* set of requests, every tree and every number of runs: what `prove`      *)
(* returns, and that its success is about its own output.  For every set   *)
(* of revisions and any checkouts and runs of `generate`: a deployment     *)
(* that begins on what at most one run has rewritten is of one revision.   *)
(* For every string of bytes: Rust and the pool take it for the same       *)
(* proof, where the verifier's rewriting saw every scalar that is read.    *)
(*                                                                         *)
(* The properties of `prove` speak of the end of a run.  The strengthening *)
(* follows a run that is still going: its result is open, and past the     *)
(* self-check its proof verifies and its caller is the command.            *)
(***************************************************************************)
EXTENDS ProveCommand, Artifacts, Calldata, SequenceTheorems, MerkleProofs

ResultIsOpen == step # "stopped" => result = "none"

\* Only the command writes, and only what has passed the self-check.
WritesAreChecked ==
  step \in {"write", "finish"} =>
    caller = "cli" /\ proof.satisfied /\ proof.statement = circuit.statement

RunInv ==
  /\ ResultIsOpen
  /\ WritesAreChecked
  /\ ReturnedProofsVerify
  /\ SuccessIsFresh

-----------------------------------------------------------------------------

LEMMA InitRun == Init => RunInv
BY DEF Init, RunInv, ResultIsOpen, WritesAreChecked, ReturnedProofsVerify, SuccessIsFresh

LEMMA NextRun == RunInv /\ [Next]_vars => RunInv'
<1> SUFFICES ASSUME RunInv, [Next]_vars PROVE RunInv'
  OBVIOUS
<1> USE DEF RunInv, ResultIsOpen, WritesAreChecked, ReturnedProofsVerify, SuccessIsFresh, Stop
<1>1. CASE RunCommand
  BY <1>1 DEF RunCommand
<1>2. CASE ParseFails
  BY <1>2 DEF ParseFails
<1>3. CASE Parse
  BY <1>3 DEF Parse
<1>4. CASE BuildPath
  BY <1>4 DEF BuildPath
<1>5. CASE CallProve
  BY <1>5 DEF CallProve
<1>6. CASE CreateProof
  BY <1>6 DEF CreateProof
<1>7. CASE CreateProofFails
  BY <1>7 DEF CreateProofFails
<1>8. CASE SelfCheck
  BY <1>8 DEF SelfCheck, Verifies
<1>9. CASE OpenOutput
  BY <1>9 DEF OpenOutput
<1>10. CASE FillOutput
  BY <1>10 DEF FillOutput, Written
<1>11. CASE WriteFails
  BY <1>11 DEF WriteFails
<1>12. CASE Killed
  BY <1>12 DEF Killed
<1>13. CASE UNCHANGED vars
  BY <1>13 DEF vars
<1> QED
  BY <1>1, <1>2, <1>3, <1>4, <1>5, <1>6, <1>7, <1>8, <1>9, <1>10, <1>11, <1>12, <1>13 DEF Next

LEMMA RunInvariant == Spec => []RunInv
BY InitRun, NextRun, PTL DEF Spec

\* Bytes leave TestKeys::prove, for either caller, only when they verify
\* (proof.rs:76-81).
THEOREM OnlyVerifiedProofs == Spec => []ReturnedProofsVerify
BY RunInvariant, PTL DEF RunInv

\* A run that ends well has written its own output, the whole of it (main.rs:146-150).
THEOREM SuccessWritesItsOwn == Spec => []SuccessIsFresh
BY RunInvariant, PTL DEF RunInv

-----------------------------------------------------------------------------
(***************************************************************************)
(* The file at the output path.  It outlives the run that wrote it, so the *)
(* property is part of the invariant; what it needs of the present run is  *)
(* that the circuit, from `path` on, is the one the input file asked for.  *)
(***************************************************************************)

\* The public inputs are those of the request, at the root of its list.
Answers(statement, in) ==
  /\ statement.root = Root(in.list)
  /\ statement.nullifierHash = NullifierHash(in.request.note)
  /\ statement.recipient = in.request.recipient

InputIsListed ==
  /\ step \in {"parse", "path"} => input \in Inputs
  /\ step = "path" => IsListed(input)

CircuitAnswers ==
  caller = "cli" /\ step \in {"prove", "check", "write", "finish"} =>
    Answers(circuit.statement, input)

OutputInv == InputIsListed /\ CircuitAnswers /\ OutputsAreWithdrawable

\* WithdrawCircuit::new on a listed leaf: the rebuilt path leads to the list's root.
LEMMA NewCircuitAnswers ==
  ASSUME NEW in \in Inputs, IsListed(in), ~ (Length(in.list) > TREE_CAPACITY)
  PROVE  Answers(NewCircuit(in).statement, in)
<1> DEFINE list == in.list
           leaf == Commitment(in.request.note)
<1>1. PICK length \in 0 .. TREE_CAPACITY + 1 :
        list \in [0 .. length - 1 -> {Commitment(request.note) : request \in Requests}]
  BY DEF Inputs, Lists
<1>2. in.leafIndex \in 0 .. TREE_CAPACITY - 1
  <2>1. DOMAIN list = 0 .. length - 1
    BY <1>1
  <2>2. Length(list) = length
    <3>1. length \in Nat
      BY TreeShape
    <3> QED  BY <2>1, <3>1, LengthOfList
  <2>3. in.leafIndex \in 0 .. length - 1
    BY <2>1 DEF IsListed
  <2>4. ~ (length > TREE_CAPACITY)
    BY <2>2
  <2> QED  BY <2>3, <2>4, TreeShape
<1>3. PaddedLeaves(list)[in.leafIndex] = leaf
  BY <1>2 DEF PaddedLeaves, IsListed
<1>4. ComputeRoot(Prove(list, in.leafIndex), leaf) = Root(list)
  BY <1>2, <1>3, PathOfALeafReachesTheRoot
<1> HIDE DEF list, leaf
<1> DEFINE made == Statement(in.request, list, in.leafIndex)
<1>5. /\ made.root = Root(list)
      /\ made.nullifierHash = NullifierHash(in.request.note)
      /\ made.recipient = in.request.recipient
  BY <1>4 DEF Statement, leaf
<1>6. {"root", "nullifierHash", "recipient", "domain", "binding"} = DOMAIN made
  BY DEF Statement
<1>7. /\ NewCircuit(in).statement.root = made.root
      /\ NewCircuit(in).statement.nullifierHash = made.nullifierHash
      /\ NewCircuit(in).statement.recipient = made.recipient
  BY <1>6 DEF NewCircuit, list
<1> QED  BY <1>5, <1>7 DEF Answers, list

LEMMA InitOutput == Init => OutputInv
BY DEF Init, OutputInv, InputIsListed, CircuitAnswers, OutputsAreWithdrawable, NoFile

LEMMA NextOutput == RunInv /\ OutputInv /\ [Next]_vars => OutputInv'
<1> SUFFICES ASSUME RunInv, OutputInv, [Next]_vars PROVE OutputInv'
  OBVIOUS
<1> USE DEF OutputInv, InputIsListed, CircuitAnswers, OutputsAreWithdrawable, Stop
<1>1. CASE RunCommand
  BY <1>1 DEF RunCommand
<1>2. CASE ParseFails
  BY <1>2 DEF ParseFails
<1>3. CASE Parse
  BY <1>3 DEF Parse
<1>4. CASE BuildPath
  <2>1. step = "path" /\ input \in Inputs /\ IsListed(input)
    BY <1>4 DEF BuildPath
  <2>2. CASE ~ (Length(input.list) > TREE_CAPACITY) /\ circuit' = NewCircuit(input)
    BY <1>4, <2>1, <2>2, NewCircuitAnswers DEF BuildPath
  <2>3. CASE step' = "stopped"
    BY <1>4, <2>3 DEF BuildPath
  <2> QED  BY <1>4, <2>2, <2>3 DEF BuildPath
<1>5. CASE CallProve
  BY <1>5 DEF CallProve
<1>6. CASE CreateProof
  BY <1>6 DEF CreateProof
<1>7. CASE CreateProofFails
  BY <1>7 DEF CreateProofFails
<1>8. CASE SelfCheck
  BY <1>8 DEF SelfCheck
<1>9. CASE OpenOutput
  BY <1>9 DEF OpenOutput
<1>10. CASE FillOutput
  <2>1. /\ step = "finish" /\ caller = "cli"
        /\ proof.satisfied /\ proof.statement = circuit.statement
        /\ Answers(circuit.statement, input)
    BY <1>10 DEF FillOutput, RunInv, WritesAreChecked
  <2>2. output' = [status |-> "complete", input |-> input, inputs |-> circuit.statement, proof |-> proof]
    BY <1>10 DEF FillOutput, Written
  <2>3. OutputsAreWithdrawable'
    BY <2>1, <2>2 DEF Verifies, Answers
  <2> QED  BY <1>10, <2>3 DEF FillOutput
<1>11. CASE WriteFails
  BY <1>11 DEF WriteFails
<1>12. CASE Killed
  BY <1>12 DEF Killed
<1>13. CASE UNCHANGED vars
  BY <1>13 DEF vars, IsListed
<1> QED
  BY <1>1, <1>2, <1>3, <1>4, <1>5, <1>6, <1>7, <1>8, <1>9, <1>10, <1>11, <1>12, <1>13 DEF Next

\* Whatever runs came later and however they ended, a complete file at the output
\* path verifies, at the root of its own list, for its own request (main.rs:71-152).
THEOREM OutputsStayWithdrawable == Spec => []OutputsAreWithdrawable
<1>1. RunInv /\ OutputInv /\ [Next]_vars => OutputInv'
  BY NextOutput
<1> QED  BY InitOutput, <1>1, RunInvariant, PTL DEF Spec, OutputInv

-----------------------------------------------------------------------------
(***************************************************************************)
(* The files of `generate` and the deployments.  DeployedSetMatches says   *)
(* nothing of the disk, which at most one rewriting has touched when a     *)
(* quiet deployment begins.  The strengthening says what it looks like     *)
(* then: Over, the first `count` contracts of a new set, perhaps an empty  *)
(* file, and the rest of an old set.  While a run that began on one set    *)
(* goes on, the new set is the run's and `count` what it has written.      *)
(***************************************************************************)

At(d, n) == d[Files[n]]
Own(r, n) == Generated(r)[Files[n]]
FileNames == Contracts \cup {"withdrawal"}

Over(d, new, old, count) ==
  \A n \in 1 .. 4 :
    /\ n <= count => At(d, n) = Own(new, n)
    /\ n = count + 1 => At(d, n) \in {Own(old, n), Emptied}
    /\ n > count + 1 => At(d, n) = Own(old, n)

Mixed(d) == \E new, old \in Revisions, count \in 0 .. 4 : Over(d, new, old, count)

Put(d, n, value) == [d EXCEPT ![Files[n]] = value]
IsFileMap(d) == d = [name \in FileNames |-> d[name]]

IsDisk(d) ==
  /\ IsFileMap(d)
  /\ \A n \in 1 .. 4 : At(d, n) \in {Own(r, n) : r \in Revisions} \cup {Emptied}

DiskTyped ==
  /\ revision \in Revisions
  /\ IsDisk(disk)
  /\ running \in Revisions \cup {NoRun}
  /\ written \in 0 .. 5
  /\ running # NoRun => written < 5
  /\ begun \in 0 .. 2

DeploymentTyped ==
  /\ deploying \in {"none", "verifier", "poseidon", "pool"}
  /\ created.verifier \in VerifierTexts \cup {Absent}
  /\ created.poseidon \in HashTexts(2) \cup {Absent}
  /\ created = [verifier |-> created.verifier, poseidon |-> created.poseidon]
  /\ quiet \in BOOLEAN

OneRewriting ==
  /\ begun = 0 => running = NoRun /\ IsOneSet(disk)
  /\ begun = 1 /\ running = NoRun => Mixed(disk)
  /\ begun = 1 /\ running # NoRun => \E old \in Revisions : Over(disk, running, old, written)

QuietDeployment ==
  quiet =>
    /\ Mixed(disk)
    /\ deploying \in {"poseidon", "pool"}
    /\ created.verifier = At(disk, 1)
    /\ deploying = "pool" => created.poseidon = At(disk, 3)

DiskInv ==
  DiskTyped /\ DeploymentTyped /\ OneRewriting /\ QuietDeployment /\ DeployedSetMatches

-----------------------------------------------------------------------------

\* Five different names, in their order.
LEMMA FilePositions ==
  /\ Len(Files) = 5
  /\ Files[1] = "Halo2Verifier" /\ Files[2] = "Poseidon1" /\ Files[3] = "Poseidon2"
  /\ Files[4] = "VerificationKey" /\ Files[5] = "withdrawal"
  /\ Contracts = {Files[1], Files[2], Files[3], Files[4]}
  /\ FileNames = {Files[1], Files[2], Files[3], Files[4], Files[5]}
  /\ \A m, n \in 1 .. 5 : Files[m] = Files[n] => m = n
<1>1. Len(Files) = 5
  BY DEF Files
<1>2. /\ Files[1] = "Halo2Verifier" /\ Files[2] = "Poseidon1" /\ Files[3] = "Poseidon2"
      /\ Files[4] = "VerificationKey" /\ Files[5] = "withdrawal"
  BY DEF Files
<1>3. \A n \in 1 .. 5 : n = 1 \/ n = 2 \/ n = 3 \/ n = 4 \/ n = 5
  OBVIOUS
<1>4. \A m, n \in 1 .. 5 : Files[m] = Files[n] => m = n
  BY <1>2, <1>3
<1>5. /\ Contracts = {Files[1], Files[2], Files[3], Files[4]}
      /\ FileNames = {Files[1], Files[2], Files[3], Files[4], Files[5]}
  BY <1>2 DEF Contracts, FileNames
<1> QED  BY <1>1, <1>2, <1>4, <1>5

\* What a revision generates, by position.
LEMMA TextsOfARevision ==
  ASSUME NEW r
  PROVE  /\ Own(r, 1) = strict_verifier(r)
         /\ Own(r, 2) = poseidon_source(1, r)
         /\ Own(r, 3) = poseidon_source(2, r)
         /\ Own(r, 4) = verification_key_source(r)
         /\ Generated(r) = [name \in FileNames |-> Generated(r)[name]]
<1>1. /\ Own(r, 1) = strict_verifier(r)
      /\ Own(r, 2) = poseidon_source(1, r)
      /\ Own(r, 3) = poseidon_source(2, r)
      /\ Own(r, 4) = verification_key_source(r)
  BY FilePositions DEF Own, Generated
<1>2. Generated(r) = [name \in FileNames |-> Generated(r)[name]]
  BY DEF Generated, FileNames, Contracts
<1> QED  BY <1>1, <1>2

\* No text of a contract is the mark of an emptied or of an absent file.
LEMMA TextsAreTexts ==
  ASSUME NEW r, NEW n \in 1 .. 4
  PROVE  HoldsText(Own(r, n))
<1>1. n = 1 \/ n = 2 \/ n = 3 \/ n = 4
  OBVIOUS
<1>2. /\ HoldsText(strict_verifier(r)) /\ HoldsText(poseidon_source(1, r))
      /\ HoldsText(poseidon_source(2, r)) /\ HoldsText(verification_key_source(r))
  BY DEF HoldsText, Absent, Emptied, strict_verifier, poseidon_source, verification_key_source
<1> QED  BY <1>1, <1>2, TextsOfARevision

\* Keccak is ideal: one id, one verifier.
LEMMA SameIdSameVerifier ==
  ASSUME NEW a \in Revisions, NEW b \in Revisions,
         verification_key_source(b) = <<"key", KeyId(strict_verifier(a))>>
  PROVE  strict_verifier(a) = strict_verifier(b) /\ verification_key_source(a) = verification_key_source(b)
BY DEF verification_key_source, KeyId, strict_verifier

LEMMA OneSetByPosition ==
  ASSUME NEW d
  PROVE  IsOneSet(d) <=> \E r \in Revisions : \A n \in 1 .. 4 : At(d, n) = Own(r, n)
<1>1. \A n \in 1 .. 4 : n = 1 \/ n = 2 \/ n = 3 \/ n = 4
  OBVIOUS
<1>2. ASSUME NEW r
      PROVE  (\A name \in Contracts : d[name] = Generated(r)[name]) <=>
               \A n \in 1 .. 4 : At(d, n) = Own(r, n)
  BY <1>1, FilePositions DEF At, Own
<1> QED  BY <1>2 DEF IsOneSet

LEMMA OneSetIsMixed ==
  ASSUME NEW d, IsOneSet(d)
  PROVE  Mixed(d) /\ \E old \in Revisions : \A new : Over(d, new, old, 0)
<1>1. PICK r \in Revisions : \A n \in 1 .. 4 : At(d, n) = Own(r, n)
  BY OneSetByPosition
<1>2. Over(d, r, r, 4) /\ \A new : Over(d, new, r, 0)
  BY <1>1 DEF Over
<1> QED  BY <1>1, <1>2 DEF Mixed

\* Writing one file changes its position only.
LEMMA WriteOne ==
  ASSUME NEW d, IsFileMap(d), NEW k \in 1 .. 5, NEW value,
         NEW e, e = Put(d, k, value)
  PROVE  /\ IsFileMap(e)
         /\ At(e, k) = value
         /\ \A n \in 1 .. 5 : n # k => At(e, n) = At(d, n)
<1>1. \A n \in 1 .. 5 : Files[n] \in FileNames
  <2>1. \A n \in 1 .. 5 : n = 1 \/ n = 2 \/ n = 3 \/ n = 4 \/ n = 5
    OBVIOUS
  <2> QED  BY <2>1, FilePositions
<1>2. e = [name \in FileNames |-> IF name = Files[k] THEN value ELSE d[name]]
  BY DEF IsFileMap, Put
<1>3. IsFileMap(e) /\ At(e, k) = value
  BY <1>1, <1>2 DEF At, IsFileMap
<1>4. ASSUME NEW n \in 1 .. 5, n # k  PROVE At(e, n) = At(d, n)
  <2>1. Files[n] # Files[k]
    BY <1>4, FilePositions
  <2> QED  BY <1>1, <1>2, <2>1 DEF At
<1> QED  BY <1>3, <1>4

\* The contracts of a clean checkout.
LEMMA CheckedOut ==
  ASSUME NEW r \in Revisions, NEW value
  PROVE  LET e == [Generated(r) EXCEPT !.withdrawal = value]
         IN  IsDisk(e) /\ IsOneSet(e)
<1> DEFINE g == Generated(r)
           e == [g EXCEPT !.withdrawal = value]
<1>1. IsFileMap(g)
  BY TextsOfARevision DEF IsFileMap
<1>2. e = Put(g, 5, value)
  BY FilePositions DEF Put
<1>3. \A n \in 1 .. 4 : At(g, n) = Own(r, n)
  BY DEF At, Own
<1> HIDE DEF g
<1>4. /\ IsFileMap(e)
      /\ \A n \in 1 .. 4 : At(e, n) = Own(r, n)
  BY <1>1, <1>2, <1>3, WriteOne
<1> HIDE DEF e
<1>5. IsDisk(e)
  BY <1>4 DEF IsDisk
<1>6. IsOneSet(e)
  BY <1>4, OneSetByPosition
<1> QED  BY <1>5, <1>6 DEF e, g

\* The write of one file keeps the disk a disk.
LEMMA WrittenDisk ==
  ASSUME NEW d, IsDisk(d), NEW k \in 1 .. 5, NEW value,
         k # 5 => value \in {Own(r, k) : r \in Revisions} \cup {Emptied},
         NEW e, e = Put(d, k, value)
  PROVE  /\ IsDisk(e)
         /\ At(e, k) = value
         /\ \A n \in 1 .. 5 : n # k => At(e, n) = At(d, n)
<1>1. /\ IsFileMap(e)
      /\ At(e, k) = value
      /\ \A n \in 1 .. 5 : n # k => At(e, n) = At(d, n)
  BY WriteOne DEF IsDisk
<1>2. \A n \in 1 .. 4 : At(e, n) \in {Own(r, n) : r \in Revisions} \cup {Emptied}
  BY <1>1 DEF IsDisk
<1> QED  BY <1>1, <1>2 DEF IsDisk

\* A mixed disk that compiles and whose verifier has the library's id is of one
\* revision where a pool looks: the verifier is written first, and the key library
\* after the hash contracts.
LEMMA MixedDeploysMatching ==
  ASSUME NEW d, Mixed(d), HoldsText(At(d, 1)), HoldsText(At(d, 3)), HoldsText(At(d, 4)),
         At(d, 4) = <<"key", KeyId(At(d, 1))>>
  PROVE  \E r \in Revisions :
           At(d, 1) = Own(r, 1) /\ At(d, 3) = Own(r, 3) /\ At(d, 4) = Own(r, 4)
<1>1. PICK new, old \in Revisions, count \in 0 .. 4 : Over(d, new, old, count)
  BY DEF Mixed
<1>2. At(d, 1) # Emptied /\ At(d, 3) # Emptied /\ At(d, 4) # Emptied
  BY DEF HoldsText
<1>3. CASE count = 0
  BY <1>1, <1>2, <1>3 DEF Over
<1>4. CASE count = 4
  BY <1>1, <1>4 DEF Over
<1>5. CASE count \in 1 .. 3
  <2>1. At(d, 1) = Own(new, 1) /\ At(d, 4) = Own(old, 4) /\ At(d, 3) \in {Own(new, 3), Own(old, 3)}
    BY <1>1, <1>2, <1>5 DEF Over
  <2>2. Own(new, 1) = Own(old, 1) /\ Own(new, 4) = Own(old, 4)
    BY <2>1, TextsOfARevision, SameIdSameVerifier
  <2> QED  BY <2>1, <2>2
<1> QED  BY <1>3, <1>4, <1>5

-----------------------------------------------------------------------------

LEMMA InitDisk == ArtifactsInit => DiskInv
<1> SUFFICES ASSUME ArtifactsInit PROVE DiskInv
  OBVIOUS
<1>1. revision \in Revisions /\ disk = [Generated(revision) EXCEPT !.withdrawal = Absent]
  BY DEF ArtifactsInit
<1>2. IsDisk(disk) /\ IsOneSet(disk)
  BY <1>1, CheckedOut
<1>3. DiskTyped
  BY <1>1, <1>2 DEF ArtifactsInit, DiskTyped
<1>4. DeploymentTyped
  BY DEF ArtifactsInit, DeploymentTyped, NothingCreated
<1>5. OneRewriting /\ QuietDeployment
  BY <1>2 DEF ArtifactsInit, OneRewriting, QuietDeployment
<1>6. DeployedSetMatches
  BY DEF ArtifactsInit, DeployedSetMatches, NoPool
<1> QED  BY <1>3, <1>4, <1>5, <1>6 DEF DiskInv

\* Steps that leave the deployment alone, and end its quiet or leave the disk too.
LEMMA OthersKeepTheDeployment ==
  ASSUME DiskInv, UNCHANGED deploymentVars,
         quiet' = FALSE \/ (quiet' = quiet /\ disk' = disk)
  PROVE  DeploymentTyped' /\ QuietDeployment' /\ DeployedSetMatches'
<1>1. deploying' = deploying /\ created' = created /\ deployed' = deployed
  BY DEF deploymentVars
<1>2. DeploymentTyped'
  BY <1>1 DEF DiskInv, DeploymentTyped
<1>3. QuietDeployment'
  BY <1>1 DEF DiskInv, QuietDeployment
<1>4. DeployedSetMatches'
  BY <1>1 DEF DiskInv, DeployedSetMatches
<1> QED  BY <1>2, <1>3, <1>4

\* Steps of a deployment leave the disk and the runs alone.
LEMMA DeploymentsKeepTheDisk ==
  ASSUME DiskInv, UNCHANGED <<revision, disk, running, written, begun>>
  PROVE  DiskTyped' /\ OneRewriting'
BY DEF DiskInv, DiskTyped, OneRewriting

LEMMA NoRunIsNoRevision == NoRun \notin Revisions
BY RevisionsAssumption DEF NoRun

LEMMA StartStep ==
  ASSUME DiskInv, StartGenerate
  PROVE  DiskTyped' /\ OneRewriting'
<1>1. /\ running = NoRun /\ running' = revision /\ written' = 0 /\ disk' = disk /\ revision' = revision
      /\ begun' = IF begun = 0 THEN 1 ELSE 2
  BY DEF StartGenerate
<1>2. revision \in Revisions /\ IsDisk(disk) /\ begun \in 0 .. 2
  BY DEF DiskInv, DiskTyped
<1>3. DiskTyped'
  BY <1>1, <1>2 DEF DiskTyped
<1>4. OneRewriting'
  <2>1. CASE begun = 0
    <3>1. IsOneSet(disk)
      BY <2>1 DEF DiskInv, OneRewriting
    <3>2. \E old \in Revisions : Over(disk', running', old, written')
      BY <1>1, <3>1, OneSetIsMixed
    <3> QED  BY <1>1, <1>2, <2>1, <3>2, NoRunIsNoRevision DEF OneRewriting
  <2>2. CASE begun # 0
    BY <1>1, <2>2 DEF OneRewriting
  <2> QED  BY <2>1, <2>2
<1> QED  BY <1>3, <1>4

LEMMA WriteStep ==
  ASSUME DiskInv, WriteFile
  PROVE  DiskTyped' /\ OneRewriting'
<1>1. /\ running \in Revisions /\ written \in 0 .. 4 /\ IsDisk(disk)
      /\ revision \in Revisions /\ begun \in 1 .. 2
  BY DEF DiskInv, DiskTyped, OneRewriting, WriteFile
<1>2. /\ disk' = Put(disk, written + 1, Own(running, written + 1))
      /\ written' = written + 1
      /\ IF written' = 5 THEN EndOfRun ELSE UNCHANGED <<running, begun>>
      /\ revision' = revision
  BY FilePositions DEF WriteFile, Own, Put
<1>3. written + 1 \in 1 .. 5
  BY <1>1
<1>4. Own(running, written + 1) \in {Own(r, written + 1) : r \in Revisions}
  BY <1>1
<1>5. /\ IsDisk(disk')
      /\ At(disk', written + 1) = Own(running, written + 1)
      /\ \A n \in 1 .. 5 : n # written + 1 => At(disk', n) = At(disk, n)
  BY <1>1, <1>2, <1>3, <1>4, WrittenDisk
<1>6. ASSUME NEW old, Over(disk, running, old, written)
      PROVE  Over(disk', running, old, written')
  BY <1>1, <1>2, <1>5, <1>6 DEF Over
<1>7. CASE written' = 5
  <2>1. running' = NoRun /\ begun' = IF IsOneSet(disk') THEN 0 ELSE begun
    BY <1>2, <1>7 DEF EndOfRun
  <2>2. DiskTyped'
    BY <1>1, <1>2, <1>5, <1>7, <2>1 DEF DiskTyped
  <2>3. ASSUME begun' = 1  PROVE Mixed(disk')
    <3>1. begun = 1
      BY <1>1, <2>1, <2>3
    <3>2. PICK old \in Revisions : Over(disk, running, old, written)
      BY <1>1, <3>1, NoRunIsNoRevision DEF DiskInv, OneRewriting
    <3>3. Over(disk', running, old, 5)
      BY <1>6, <1>7, <3>2
    <3>4. Over(disk', running, old, 4)
      BY <3>3 DEF Over
    <3> QED  BY <1>1, <3>4 DEF Mixed
  <2>4. OneRewriting'
    BY <1>1, <2>1, <2>3 DEF OneRewriting
  <2> QED  BY <2>2, <2>4
<1>8. CASE written' # 5
  <2>1. running' = running /\ begun' = begun
    BY <1>2, <1>8
  <2>2. DiskTyped'
    BY <1>1, <1>2, <1>5, <1>8, <2>1 DEF DiskTyped
  <2>3. begun = 1 => \E old \in Revisions : Over(disk', running, old, written')
    BY <1>1, <1>6, NoRunIsNoRevision DEF DiskInv, OneRewriting
  <2>4. OneRewriting'
    BY <1>1, <2>1, <2>3, NoRunIsNoRevision DEF OneRewriting
  <2> QED  BY <2>2, <2>4
<1> QED  BY <1>7, <1>8

LEMMA StopStep ==
  ASSUME DiskInv, StopHalfWay
  PROVE  DiskTyped' /\ OneRewriting'
<1>1. /\ running \in Revisions /\ written \in 0 .. 4 /\ IsDisk(disk)
      /\ revision \in Revisions /\ begun \in 1 .. 2
  BY DEF DiskInv, DiskTyped, OneRewriting, StopHalfWay
<1>2. /\ disk' = disk \/ disk' = Put(disk, written + 1, Emptied)
      /\ running' = NoRun /\ begun' = IF IsOneSet(disk') THEN 0 ELSE begun
      /\ written' = written /\ revision' = revision
  BY DEF StopHalfWay, EndOfRun, Put
<1>3. written + 1 \in 1 .. 5
  BY <1>1
<1>5. /\ IsDisk(disk')
      /\ At(disk', written + 1) \in {At(disk, written + 1), Emptied}
      /\ \A n \in 1 .. 5 : n # written + 1 => At(disk', n) = At(disk, n)
  <2>1. CASE disk' = disk
    BY <1>1, <2>1
  <2>2. CASE disk' = Put(disk, written + 1, Emptied)
    BY <1>1, <1>3, <2>2, WrittenDisk
  <2> QED  BY <1>2, <2>1, <2>2
<1>6. DiskTyped'
  BY <1>1, <1>2, <1>5 DEF DiskTyped
<1>7. ASSUME begun' = 1  PROVE Mixed(disk')
  <2>1. begun = 1
    BY <1>1, <1>2, <1>7
  <2>2. PICK old \in Revisions : Over(disk, running, old, written)
    BY <1>1, <2>1, NoRunIsNoRevision DEF DiskInv, OneRewriting
  <2>3. Over(disk', running, old, written)
    BY <1>1, <1>5, <2>2 DEF Over
  <2> QED  BY <1>1, <2>3 DEF Mixed
<1>8. OneRewriting'
  BY <1>1, <1>2, <1>7 DEF OneRewriting
<1> QED  BY <1>6, <1>8

LEMMA CheckoutStep ==
  ASSUME DiskInv, Checkout
  PROVE  DiskTyped' /\ OneRewriting'
<1>1. PICK r \in Revisions : revision' = r /\ disk' = [Generated(r) EXCEPT !.withdrawal = disk.withdrawal]
  BY DEF Checkout
<1>2. IsDisk(disk') /\ IsOneSet(disk')
  BY <1>1, CheckedOut
<1>3. begun' = (IF running = NoRun THEN 0 ELSE 2) /\ running' = running /\ written' = written
  BY DEF Checkout
<1>4. DiskTyped'
  BY <1>1, <1>2, <1>3 DEF DiskInv, DiskTyped
<1>5. OneRewriting'
  BY <1>2, <1>3 DEF OneRewriting
<1> QED  BY <1>4, <1>5

\* At most one rewriting: the disk is one set, or one over another.
LEMMA OneRewritingMixes ==
  ASSUME DiskInv, begun <= 1
  PROVE  Mixed(disk)
<1>1. begun = 0 \/ begun = 1
  BY DEF DiskInv, DiskTyped
<1>2. CASE begun = 0
  BY <1>2, OneSetIsMixed DEF DiskInv, OneRewriting
<1>3. CASE begun = 1 /\ running = NoRun
  BY <1>3 DEF DiskInv, OneRewriting
<1>4. CASE begun = 1 /\ running # NoRun
  <2>1. running \in Revisions /\ written \in 0 .. 4
    BY <1>4 DEF DiskInv, DiskTyped
  <2> QED  BY <1>4, <2>1 DEF DiskInv, OneRewriting, Mixed
<1> QED  BY <1>1, <1>2, <1>3, <1>4

\* What stands where a contract is, when it compiles.
LEMMA ContractsOnDisk ==
  ASSUME DiskInv
  PROVE  /\ disk.Halo2Verifier = At(disk, 1) /\ disk.Poseidon1 = At(disk, 2)
         /\ disk.Poseidon2 = At(disk, 3) /\ disk.VerificationKey = At(disk, 4)
         /\ At(disk, 1) \in VerifierTexts \cup {Emptied}
         /\ At(disk, 2) \in HashTexts(1) \cup {Emptied}
         /\ At(disk, 3) \in HashTexts(2) \cup {Emptied}
         /\ At(disk, 4) \in KeyTexts \cup {Emptied}
<1>1. /\ disk.Halo2Verifier = At(disk, 1) /\ disk.Poseidon1 = At(disk, 2)
      /\ disk.Poseidon2 = At(disk, 3) /\ disk.VerificationKey = At(disk, 4)
  BY FilePositions DEF At
<1>2. \A n \in 1 .. 4 : At(disk, n) \in {Own(r, n) : r \in Revisions} \cup {Emptied}
  BY DEF DiskInv, DiskTyped, IsDisk
<1>3. /\ {Own(r, 1) : r \in Revisions} = VerifierTexts
      /\ {Own(r, 2) : r \in Revisions} = HashTexts(1)
      /\ {Own(r, 3) : r \in Revisions} = HashTexts(2)
      /\ {Own(r, 4) : r \in Revisions} = KeyTexts
  BY TextsOfARevision DEF VerifierTexts, HashTexts, KeyTexts
<1> QED  BY <1>1, <1>2, <1>3

LEMMA BuildStep ==
  ASSUME DiskInv, Build
  PROVE  DeploymentTyped' /\ QuietDeployment' /\ DeployedSetMatches'
<1>1. deploying' = "verifier" /\ created' = NothingCreated /\ quiet' = FALSE /\ deployed' = deployed
  BY DEF Build
<1> QED
  BY <1>1 DEF DiskInv, DeploymentTyped, NothingCreated, QuietDeployment, DeployedSetMatches

LEMMA CreateVerifierStep ==
  ASSUME DiskInv, CreateVerifier
  PROVE  DeploymentTyped' /\ QuietDeployment' /\ DeployedSetMatches'
<1>1. /\ created' = [created EXCEPT !.verifier = At(disk, 1)]
      /\ deploying' = "poseidon" /\ quiet' = (begun <= 1) /\ deployed' = deployed /\ disk' = disk
      /\ At(disk, 1) \in VerifierTexts
  BY ContractsOnDisk DEF CreateVerifier, HoldsText
<1>2. created' = [verifier |-> At(disk, 1), poseidon |-> created.poseidon]
  BY <1>1 DEF DiskInv, DeploymentTyped
<1>3. DeploymentTyped'
  BY <1>1, <1>2 DEF DiskInv, DiskTyped, DeploymentTyped
<1>4. QuietDeployment'
  BY <1>1, <1>2, OneRewritingMixes DEF QuietDeployment
<1> QED  BY <1>1, <1>3, <1>4 DEF DiskInv, DeployedSetMatches

LEMMA CreatePoseidonStep ==
  ASSUME DiskInv, CreatePoseidon
  PROVE  DeploymentTyped' /\ QuietDeployment' /\ DeployedSetMatches'
<1>1. /\ created' = [created EXCEPT !.poseidon = At(disk, 3)]
      /\ deploying' = "pool" /\ quiet' = quiet /\ deployed' = deployed /\ disk' = disk
      /\ At(disk, 3) \in HashTexts(2)
  BY ContractsOnDisk DEF CreatePoseidon, HoldsText
<1>2. created' = [verifier |-> created.verifier, poseidon |-> At(disk, 3)]
  BY <1>1 DEF DiskInv, DeploymentTyped
<1>3. DeploymentTyped'
  BY <1>1, <1>2 DEF DiskInv, DeploymentTyped
<1>4. QuietDeployment'
  BY <1>1, <1>2 DEF DiskInv, QuietDeployment
<1> QED  BY <1>1, <1>3, <1>4 DEF DiskInv, DeployedSetMatches

LEMMA CreatePoolStep ==
  ASSUME DiskInv, CreatePool
  PROVE  DeploymentTyped' /\ QuietDeployment' /\ DeployedSetMatches'
<1>1. /\ deploying = "pool" /\ ConstructorAccepts(created, At(disk, 4)) /\ HoldsText(At(disk, 4))
      /\ deployed' = [verifier |-> created.verifier, poseidon |-> created.poseidon,
                      key |-> At(disk, 4), quiet |-> quiet]
      /\ deploying' = "none" /\ created' = NothingCreated /\ quiet' = FALSE
  BY ContractsOnDisk DEF CreatePool
<1>2. DeploymentTyped' /\ QuietDeployment'
  BY <1>1 DEF DeploymentTyped, NothingCreated, QuietDeployment
<1>3. ASSUME deployed'.quiet  PROVE IsMatching(deployed')
  <2>1. /\ Mixed(disk)
        /\ created.verifier = At(disk, 1) /\ created.poseidon = At(disk, 3)
    BY <1>1, <1>3 DEF DiskInv, QuietDeployment
  <2>2. /\ HoldsText(At(disk, 1)) /\ HoldsText(At(disk, 3))
        /\ At(disk, 4) = <<"key", KeyId(At(disk, 1))>>
    BY <1>1, <2>1 DEF ConstructorAccepts
  <2>3. PICK r \in Revisions :
          At(disk, 1) = Own(r, 1) /\ At(disk, 3) = Own(r, 3) /\ At(disk, 4) = Own(r, 4)
    BY <1>1, <2>1, <2>2, MixedDeploysMatching
  <2> QED  BY <1>1, <2>1, <2>3, TextsOfARevision DEF IsMatching
<1>4. DeployedSetMatches'
  BY <1>3 DEF DeployedSetMatches
<1> QED  BY <1>2, <1>4

LEMMA NextDisk == DiskInv /\ [ArtifactsNext]_artifactVars => DiskInv'
<1> SUFFICES ASSUME DiskInv, [ArtifactsNext]_artifactVars PROVE DiskInv'
  OBVIOUS
<1>1. CASE Edit
  <2>1. /\ revision' \in Revisions /\ UNCHANGED <<disk, running, written, deploymentVars, begun, quiet>>
    BY <1>1 DEF Edit
  <2>2. DiskTyped' /\ OneRewriting'
    BY <2>1 DEF DiskInv, DiskTyped, OneRewriting
  <2> QED  BY <2>1, <2>2, OthersKeepTheDeployment DEF DiskInv
<1>2. CASE Checkout
  BY <1>2, CheckoutStep, OthersKeepTheDeployment DEF Checkout, DiskInv
<1>3. CASE StartGenerate
  BY <1>3, StartStep, OthersKeepTheDeployment DEF StartGenerate, DiskInv
<1>4. CASE WriteFile
  BY <1>4, WriteStep, OthersKeepTheDeployment DEF WriteFile, DiskInv
<1>5. CASE StopHalfWay
  BY <1>5, StopStep, OthersKeepTheDeployment DEF StopHalfWay, DiskInv
<1>6. CASE Build
  BY <1>6, BuildStep, DeploymentsKeepTheDisk DEF Build, DiskInv
<1>7. CASE CreateVerifier
  BY <1>7, CreateVerifierStep, DeploymentsKeepTheDisk DEF CreateVerifier, DiskInv
<1>8. CASE CreatePoseidon
  BY <1>8, CreatePoseidonStep, DeploymentsKeepTheDisk DEF CreatePoseidon, DiskInv
<1>9. CASE CreatePool
  BY <1>9, CreatePoolStep, DeploymentsKeepTheDisk DEF CreatePool, DiskInv
<1>10. CASE UNCHANGED artifactVars
  <2>1. /\ UNCHANGED <<revision, disk, running, written, begun>>
        /\ UNCHANGED deploymentVars /\ quiet' = quiet
    BY <1>10 DEF artifactVars
  <2> QED  BY <2>1, DeploymentsKeepTheDisk, OthersKeepTheDeployment DEF DiskInv
<1> QED
  BY <1>1, <1>2, <1>3, <1>4, <1>5, <1>6, <1>7, <1>8, <1>9, <1>10 DEF ArtifactsNext

LEMMA DiskInvariant == ArtifactsSpec => []DiskInv
BY InitDisk, NextDisk, PTL DEF ArtifactsSpec

\* Whatever runs, stops, edits and checkouts come in whatever order, each file stays
\* emptied or a text of its own kind (main.rs:253-263).
THEOREM ArtifactsTypeCorrect == ArtifactsSpec => []FilesAreOfTheirKind
<1>1. DiskInv => FilesAreOfTheirKind
  <2> SUFFICES ASSUME DiskInv  PROVE FilesAreOfTheirKind
    OBVIOUS
  <2>1. DOMAIN disk = Contracts \cup {"withdrawal"}
    BY DEF DiskInv, DiskTyped, IsDisk, IsFileMap, FileNames
  <2>2. revision \in Revisions /\ running \in Revisions \cup {NoRun} /\ written \in 0 .. Len(Files)
        /\ begun \in 0 .. 2
    BY FilePositions DEF DiskInv, DiskTyped
  <2> QED  BY <2>1, <2>2, ContractsOnDisk DEF DiskInv, DeploymentTyped, FilesAreOfTheirKind
<1> QED  BY <1>1, DiskInvariant, PTL

\* A pool whose deployment began on what at most one run had rewritten, and saw no file
\* change, has one revision's verifier, Poseidon and key, for every set of revisions, those
\* that differ in the hash contracts alone among them (WithdrawalPool.sol:59-68).
THEOREM DeploymentsMatch == ArtifactsSpec => []DeployedSetMatches
BY DiskInvariant, PTL DEF DiskInv

-----------------------------------------------------------------------------
(* Calldata: recursions, and division by a power of the base *)

\* A recursion over 0 .. m has a solution.  Its step is a function, since a lemma
\* cannot take an operator.
HasASolution(m, V, first, G) ==
  \E f \in [0 .. m -> V] : f[0] = first /\ \A k \in 1 .. m : f[k] = G[<<k, f[k - 1]>>]

LEMMA RecursionHasASolution ==
  ASSUME NEW m \in Nat, NEW V, NEW first \in V, NEW G \in [(1 .. m) \X V -> V]
  PROVE  HasASolution(m, V, first, G)
<1> DEFINE Solves(f, n) == f[0] = first /\ \A k \in 1 .. n : f[k] = G[<<k, f[k - 1]>>]
           S == {n \in Nat : n <= m => \E f \in [0 .. n -> V] : Solves(f, n)}
<1>1. 0 \in S
  <2> DEFINE g == [k \in 0 .. 0 |-> first]
  <2>1. g \in [0 .. 0 -> V] /\ g[0] = first
    OBVIOUS
  <2>2. Solves(g, 0)
    BY <2>1
  <2> QED  BY <2>1, <2>2
<1>2. ASSUME NEW n \in 0 .. m - 1, n \in S  PROVE n + 1 \in S
  <2>1. PICK f \in [0 .. n -> V] : Solves(f, n)
    BY <1>2
  <2>2. n + 1 \in 1 .. m /\ n + 1 \in Nat /\ f[n] \in V
    OBVIOUS
  <2>3. G[<<n + 1, f[n]>>] \in V
    BY <2>2
  <2> DEFINE g == [k \in 0 .. n + 1 |-> IF k = n + 1 THEN G[<<n + 1, f[n]>>] ELSE f[k]]
  <2>4. g \in [0 .. n + 1 -> V]
    BY <2>3
  <2>5. (\A k \in 0 .. n : g[k] = f[k]) /\ g[n + 1] = G[<<n + 1, f[n]>>]
    OBVIOUS
  <2> HIDE DEF g
  <2>6. Solves(g, n + 1)
    <3>1. g[0] = first
      BY <2>1, <2>5
    <3>2. ASSUME NEW k \in 1 .. n + 1  PROVE g[k] = G[<<k, g[k - 1]>>]
      <4>1. CASE k = n + 1
        <5>1. k - 1 = n /\ g[n] = f[n]
          BY <4>1, <2>5
        <5> QED  BY <4>1, <5>1, <2>5
      <4>2. CASE k \in 1 .. n
        <5>1. g[k] = f[k] /\ g[k - 1] = f[k - 1]
          BY <2>5, <4>2
        <5>2. f[k] = G[<<k, f[k - 1]>>]
          BY <2>1, <4>2
        <5> QED  BY <5>1, <5>2
      <4> QED  BY <4>1, <4>2
    <3> QED  BY <3>1, <3>2
  <2> HIDE DEF Solves
  <2> QED  BY <2>2, <2>4, <2>6
<1> HIDE DEF S
<1>3. m \in S
  BY <1>1, <1>2, Upward
<1> QED  BY <1>3 DEF S, HasASolution

LEMMA QuotientOf ==
  ASSUME NEW b \in Nat \ {0}, NEW q \in Nat, NEW r \in 0 .. b - 1
  PROVE  (q * b + r) \div b = q /\ (q * b + r) % b = r
  OBVIOUS

LEMMA QuotientAndRest ==
  ASSUME NEW n \in Nat, NEW b \in Nat \ {0}
  PROVE  n \div b \in Nat /\ n % b \in 0 .. b - 1 /\ n = (n \div b) * b + (n % b)
  OBVIOUS

LEMMA SmallerQuotient ==
  ASSUME NEW b \in Nat \ {0}, NEW p \in Nat, NEW n \in Nat, n < b * p
  PROVE  n \div b < p
  OBVIOUS

\* Byte k of word i of m words of size w.
LEMMA ByteOfWord ==
  ASSUME NEW w \in Nat \ {0}, NEW m \in Nat, NEW i \in 1 .. m, NEW k \in 1 .. w
  PROVE  (i - 1) * w + k \in 1 .. m * w
  OBVIOUS

\* Each byte is a byte of some word.
LEMMA WordOfByte ==
  ASSUME NEW w \in Nat \ {0}, NEW m \in Nat, NEW x \in 1 .. m * w
  PROVE  \E i \in 1 .. m, k \in 1 .. w : x = (i - 1) * w + k
<1> DEFINE q == (x - 1) \div w
           r == (x - 1) % w
<1>1. q \in Nat /\ r \in 0 .. w - 1 /\ x - 1 = q * w + r
  <2>1. x - 1 \in Nat
    OBVIOUS
  <2> QED  BY <2>1, QuotientAndRest
<1>2. q < m
  <2>1. m * w \in Nat /\ w * m = m * w /\ x - 1 \in Nat /\ x - 1 < w * m
    OBVIOUS
  <2> QED  BY <2>1, SmallerQuotient
<1> HIDE DEF q, r
<1>3. q + 1 \in 1 .. m /\ r + 1 \in 1 .. w /\ x = ((q + 1) - 1) * w + (r + 1)
  BY <1>1, <1>2
<1> QED  BY <1>3

LEMMA Sizes ==
  /\ PUBLIC_INPUTS \in Nat \ {0} /\ PROOF_SCALARS \in Nat \ {0} /\ WORD_BYTES \in Nat \ {0}
  /\ INSTANCE_BYTES \in Nat /\ PROOF_BYTES \in Nat /\ USIZE_MAX \in Nat
  /\ INSTANCE_BYTES + PROOF_BYTES <= USIZE_MAX
  /\ BYTES \in Nat \ {0, 1} /\ MODULUS \in Nat \ {0} /\ SELECTOR \in Byte
  /\ Byte = 0 .. BYTES - 1 /\ Fr = 0 .. MODULUS - 1
<1>1. PUBLIC_INPUTS * WORD_BYTES \in Nat /\ PROOF_SCALARS * WORD_BYTES \in Nat
  BY SizesAssumption
<1> QED  BY <1>1, SizesAssumption, EncodingAssumption DEF INSTANCE_BYTES, PROOF_BYTES, Byte, Fr

LEMMA Places ==
  /\ PlaceValue \in [0 .. WORD_BYTES -> Nat \ {0}]
  /\ PlaceValue[0] = 1
  /\ \A k \in 1 .. WORD_BYTES : PlaceValue[k] = BYTES * PlaceValue[k - 1]
<1> DEFINE V == Nat \ {0}
           G == [x \in (1 .. WORD_BYTES) \X V |-> BYTES * x[2]]
<1>1. \A y \in V : BYTES * y \in V
  BY Sizes
<1>2. WORD_BYTES \in Nat /\ 1 \in V
  BY Sizes
<1>3. PICK f \in [0 .. WORD_BYTES -> V] :
        f[0] = 1 /\ \A k \in 1 .. WORD_BYTES : f[k] = BYTES * f[k - 1]
  <2> HIDE DEF V
  <2>1. G \in [(1 .. WORD_BYTES) \X V -> V]
    BY <1>1
  <2>2. \A k \in 1 .. WORD_BYTES, y \in V : G[<<k, y>>] = BYTES * y
    OBVIOUS
  <2> HIDE DEF G
  <2>3. PICK f \in [0 .. WORD_BYTES -> V] :
          f[0] = 1 /\ \A k \in 1 .. WORD_BYTES : f[k] = G[<<k, f[k - 1]>>]
    <3>1. HasASolution(WORD_BYTES, V, 1, G)
      BY <1>2, <2>1, RecursionHasASolution
    <3> QED  BY <3>1 DEF HasASolution
  <2>4. \A k \in 1 .. WORD_BYTES : f[k - 1] \in V
    BY <1>2
  <2> QED  BY <2>2, <2>3, <2>4
<1>4. PlaceValue = [k \in 0 .. WORD_BYTES |-> IF k = 0 THEN 1 ELSE BYTES * PlaceValue[k - 1]]
  <2>1. f = [k \in 0 .. WORD_BYTES |-> IF k = 0 THEN 1 ELSE BYTES * f[k - 1]]
    <3>1. \A k \in 0 .. WORD_BYTES : f[k] = IF k = 0 THEN 1 ELSE BYTES * f[k - 1]
      BY <1>3
    <3> QED  BY <3>1
  <2> QED  BY <2>1 DEF PlaceValue
<1>5. /\ PlaceValue[0] = 1
      /\ \A k \in 1 .. WORD_BYTES : PlaceValue[k] = BYTES * PlaceValue[k - 1]
  BY <1>4, Sizes
<1>6. 0 .. WORD_BYTES \subseteq {k \in 0 .. WORD_BYTES : PlaceValue[k] \in V}
  <2>1. ASSUME NEW k \in 0 .. WORD_BYTES - 1, PlaceValue[k] \in V  PROVE PlaceValue[k + 1] \in V
    <3>1. k + 1 \in 1 .. WORD_BYTES /\ (k + 1) - 1 = k
      BY Sizes
    <3>2. PlaceValue[k + 1] = BYTES * PlaceValue[k]
      BY <1>5, <3>1
    <3> QED  BY <2>1, <3>2, Sizes
  <2> DEFINE S == {k \in 0 .. WORD_BYTES : PlaceValue[k] \in V}
  <2>2. 0 \in S
    BY <1>5, Sizes
  <2>3. \A k \in 0 .. WORD_BYTES - 1 : k \in S => k + 1 \in S
    BY <2>1, Sizes
  <2> HIDE DEF S
  <2>4. 0 .. WORD_BYTES \subseteq S
    BY <2>2, <2>3, Upward, Sizes
  <2> QED  BY <2>4 DEF S
<1> QED  BY <1>4, <1>5, <1>6

\* Byte k of word n, as calldataload reads it.
ByteOf(bytes, n, k) ==
  IF (n - 1) * WORD_BYTES + k \in DOMAIN bytes THEN bytes[(n - 1) * WORD_BYTES + k] ELSE 0

\* `read` holds the numbers that the first bytes of word n write.
Reads(bytes, n, read) ==
  /\ read \in [0 .. WORD_BYTES -> Nat]
  /\ read[0] = 0
  /\ \A k \in 1 .. WORD_BYTES : read[k] = read[k - 1] * BYTES + ByteOf(bytes, n, k)

LEMMA BytesOfWords ==
  ASSUME NEW bytes \in Seq(Byte), NEW n, NEW k
  PROVE  ByteOf(bytes, n, k) \in Byte
  BY Sizes DEF ByteOf

LEMMA WordIsRead ==
  ASSUME NEW bytes \in Seq(Byte), NEW n
  PROVE  \E read : Reads(bytes, n, read) /\ WordAt(bytes, n) = read[WORD_BYTES]
<1> DEFINE G == [x \in (1 .. WORD_BYTES) \X Nat |-> x[2] * BYTES + ByteOf(bytes, n, x[1])]
           Turn(f, k) == IF k = 0 THEN 0 ELSE f[k - 1] * BYTES + ByteOf(bytes, n, k)
           read == CHOOSE f : f = [k \in 0 .. WORD_BYTES |-> Turn(f, k)]
<1>1. \A k \in 1 .. WORD_BYTES, y \in Nat : y * BYTES + ByteOf(bytes, n, k) \in Nat
  <2> SUFFICES ASSUME NEW k \in 1 .. WORD_BYTES, NEW y \in Nat
               PROVE  y * BYTES + ByteOf(bytes, n, k) \in Nat
    OBVIOUS
  <2>1. ByteOf(bytes, n, k) \in Nat /\ BYTES \in Nat
    BY BytesOfWords, Sizes
  <2> QED  BY <2>1
<1>2. WORD_BYTES \in Nat /\ 0 \in Nat
  BY Sizes
<1>3. PICK f \in [0 .. WORD_BYTES -> Nat] :
        f[0] = 0 /\ \A k \in 1 .. WORD_BYTES : f[k] = f[k - 1] * BYTES + ByteOf(bytes, n, k)
  <2>1. G \in [(1 .. WORD_BYTES) \X Nat -> Nat]
    BY <1>1
  <2>2. \A k \in 1 .. WORD_BYTES, y \in Nat : G[<<k, y>>] = y * BYTES + ByteOf(bytes, n, k)
    OBVIOUS
  <2> HIDE DEF G
  <2>3. PICK f \in [0 .. WORD_BYTES -> Nat] :
          f[0] = 0 /\ \A k \in 1 .. WORD_BYTES : f[k] = G[<<k, f[k - 1]>>]
    <3>1. HasASolution(WORD_BYTES, Nat, 0, G)
      BY <1>2, <2>1, RecursionHasASolution
    <3> QED  BY <3>1 DEF HasASolution
  <2>4. \A k \in 1 .. WORD_BYTES : f[k - 1] \in Nat
    BY <1>2
  <2> QED  BY <2>2, <2>3, <2>4
<1>4. read = [k \in 0 .. WORD_BYTES |-> Turn(read, k)]
  <2>1. \A k \in 0 .. WORD_BYTES : f[k] = Turn(f, k)
    BY <1>3
  <2>2. f = [k \in 0 .. WORD_BYTES |-> Turn(f, k)]
    <3> HIDE DEF Turn
    <3> QED  BY <2>1
  <2> QED  BY <2>2
<1>5. WordAt(bytes, n) = read[WORD_BYTES]
  BY DEF WordAt, ByteOf
<1> HIDE DEF read
<1>6. /\ read[0] = 0
      /\ \A k \in 1 .. WORD_BYTES : read[k] = read[k - 1] * BYTES + ByteOf(bytes, n, k)
  BY <1>2, <1>4
<1> DEFINE S == {k \in 0 .. WORD_BYTES : read[k] \in Nat}
<1>7. 0 \in S
  BY <1>2, <1>6
<1>8. ASSUME NEW k \in 0 .. WORD_BYTES - 1, k \in S  PROVE k + 1 \in S
  <2>1. k + 1 \in 1 .. WORD_BYTES /\ (k + 1) - 1 = k /\ read[k] \in Nat
    BY <1>2, <1>8
  <2>2. read[k + 1] = read[k] * BYTES + ByteOf(bytes, n, k + 1)
    BY <1>6, <2>1
  <2>3. read[k + 1] \in Nat
    BY <1>1, <2>1, <2>2
  <2> QED  BY <2>1, <2>3
<1> HIDE DEF S
<1>9. 0 .. WORD_BYTES \subseteq S
  BY <1>2, <1>7, <1>8, Upward
<1>10. read \in [0 .. WORD_BYTES -> Nat]
  BY <1>4, <1>9 DEF S
<1> QED  BY <1>5, <1>6, <1>10 DEF Reads

\* `rest` holds what the digits of a number leave over, from the last to the first.
Digits(value, rest) ==
  /\ rest \in [0 .. WORD_BYTES -> Nat]
  /\ rest[WORD_BYTES] = value
  /\ \A k \in 0 .. WORD_BYTES - 1 : rest[k] = rest[k + 1] \div BYTES

LEMMA FieldBytesAreDigits ==
  ASSUME NEW value \in Nat
  PROVE  \E rest : /\ Digits(value, rest)
                   /\ field_bytes(value) = [i \in 1 .. WORD_BYTES |-> rest[i] % BYTES]
<1> DEFINE G == [x \in (1 .. WORD_BYTES) \X Nat |-> x[2] \div BYTES]
           Turn(f, k) == IF k = WORD_BYTES THEN value ELSE f[k + 1] \div BYTES
           rest == CHOOSE f : f = [k \in 0 .. WORD_BYTES |-> Turn(f, k)]
<1>1. WORD_BYTES \in Nat /\ BYTES \in Nat \ {0} /\ \A y \in Nat : y \div BYTES \in Nat
  BY Sizes, QuotientAndRest
<1>2. PICK g \in [0 .. WORD_BYTES -> Nat] :
        g[0] = value /\ \A k \in 1 .. WORD_BYTES : g[k] = g[k - 1] \div BYTES
  <2>1. G \in [(1 .. WORD_BYTES) \X Nat -> Nat]
    BY <1>1
  <2>2. \A k \in 1 .. WORD_BYTES, y \in Nat : G[<<k, y>>] = y \div BYTES
    OBVIOUS
  <2> HIDE DEF G
  <2>3. PICK g \in [0 .. WORD_BYTES -> Nat] :
          g[0] = value /\ \A k \in 1 .. WORD_BYTES : g[k] = G[<<k, g[k - 1]>>]
    <3>1. HasASolution(WORD_BYTES, Nat, value, G)
      BY <1>1, <2>1, RecursionHasASolution
    <3> QED  BY <3>1 DEF HasASolution
  <2>4. \A k \in 1 .. WORD_BYTES : g[k - 1] \in Nat
    BY <1>1
  <2> QED  BY <2>2, <2>3, <2>4
<1> DEFINE f == [k \in 0 .. WORD_BYTES |-> g[WORD_BYTES - k]]
<1>3. f = [k \in 0 .. WORD_BYTES |-> Turn(f, k)]
  <2>1. ASSUME NEW k \in 0 .. WORD_BYTES  PROVE f[k] = Turn(f, k)
    <3>1. CASE k = WORD_BYTES
      BY <1>1, <1>2, <3>1
    <3>2. CASE k # WORD_BYTES
      <4>1. /\ WORD_BYTES - k \in 1 .. WORD_BYTES /\ k + 1 \in 0 .. WORD_BYTES
            /\ (WORD_BYTES - k) - 1 = WORD_BYTES - (k + 1)
        BY <1>1, <3>2
      <4>2. g[WORD_BYTES - k] = g[WORD_BYTES - (k + 1)] \div BYTES
        BY <1>2, <4>1
      <4> QED  BY <3>2, <4>1, <4>2
    <3> QED  BY <3>1, <3>2
  <2> HIDE DEF Turn
  <2> QED  BY <2>1
<1>4. rest = [k \in 0 .. WORD_BYTES |-> Turn(rest, k)]
  <2> HIDE DEF f, Turn
  <2> QED  BY <1>3
<1>5. field_bytes(value) = [i \in 1 .. WORD_BYTES |-> rest[i] % BYTES]
  BY DEF field_bytes
<1> HIDE DEF rest, f
<1>6. /\ rest[WORD_BYTES] = value
      /\ \A k \in 0 .. WORD_BYTES - 1 : rest[k] = rest[k + 1] \div BYTES
  <2> HIDE DEF Turn
  <2>1. \A k \in 0 .. WORD_BYTES : rest[k] = Turn(rest, k)
    BY <1>4
  <2>2. WORD_BYTES \in 0 .. WORD_BYTES /\ \A k \in 0 .. WORD_BYTES - 1 : k \in 0 .. WORD_BYTES /\ k # WORD_BYTES
    BY <1>1
  <2> QED  BY <2>1, <2>2 DEF Turn
<1> DEFINE S == {k \in 0 .. WORD_BYTES : rest[k] \in Nat}
<1>7. WORD_BYTES \in S
  BY <1>1, <1>6
<1>8. ASSUME NEW k \in 0 .. WORD_BYTES - 1, k + 1 \in S  PROVE k \in S
  <2>1. rest[k + 1] \in Nat /\ k \in 0 .. WORD_BYTES
    BY <1>1, <1>8
  <2>2. rest[k + 1] \div BYTES \in Nat
    BY <1>1, <2>1
  <2> QED  BY <1>6, <2>1, <2>2
<1> HIDE DEF S
<1>9. 0 .. WORD_BYTES \subseteq S
  BY <1>1, <1>7, <1>8, Downward
<1>10. rest \in [0 .. WORD_BYTES -> Nat]
  BY <1>4, <1>9 DEF S
<1> QED  BY <1>5, <1>6, <1>10 DEF Digits

LEMMA FieldBytesAreBytes ==
  ASSUME NEW value \in Nat
  PROVE  field_bytes(value) \in [1 .. WORD_BYTES -> Byte]
<1>1. PICK rest : Digits(value, rest) /\ field_bytes(value) = [i \in 1 .. WORD_BYTES |-> rest[i] % BYTES]
  BY FieldBytesAreDigits
<1>2. \A i \in 1 .. WORD_BYTES : rest[i] % BYTES \in Byte
  <2> SUFFICES ASSUME NEW i \in 1 .. WORD_BYTES  PROVE rest[i] % BYTES \in Byte
    OBVIOUS
  <2>1. rest[i] \in Nat /\ BYTES \in Nat \ {0}
    BY <1>1, Sizes DEF Digits
  <2> QED  BY <2>1, QuotientAndRest, Sizes
<1> QED  BY <1>1, <1>2

\* The digits of a word are its bytes.
LEMMA DigitsOfAWord ==
  ASSUME NEW bytes \in Seq(Byte), NEW n
  PROVE  /\ WordAt(bytes, n) \in Nat
         /\ field_bytes(WordAt(bytes, n)) = [k \in 1 .. WORD_BYTES |-> ByteOf(bytes, n, k)]
<1>1. PICK read : Reads(bytes, n, read) /\ WordAt(bytes, n) = read[WORD_BYTES]
  BY WordIsRead
<1>2. WORD_BYTES \in Nat \ {0} /\ BYTES \in Nat \ {0} /\ WordAt(bytes, n) \in Nat
  BY <1>1, Sizes DEF Reads
<1>3. PICK rest : /\ Digits(WordAt(bytes, n), rest)
                  /\ field_bytes(WordAt(bytes, n)) = [i \in 1 .. WORD_BYTES |-> rest[i] % BYTES]
  BY <1>2, FieldBytesAreDigits
<1>4. ASSUME NEW k \in 1 .. WORD_BYTES
      PROVE  read[k] \div BYTES = read[k - 1] /\ read[k] % BYTES = ByteOf(bytes, n, k)
  <2>1. read[k - 1] \in Nat
    BY <1>1, <1>2 DEF Reads
  <2>2. ByteOf(bytes, n, k) \in 0 .. BYTES - 1
    BY BytesOfWords DEF Byte
  <2>3. read[k] = read[k - 1] * BYTES + ByteOf(bytes, n, k)
    BY <1>1 DEF Reads
  <2>4. /\ (read[k - 1] * BYTES + ByteOf(bytes, n, k)) \div BYTES = read[k - 1]
        /\ (read[k - 1] * BYTES + ByteOf(bytes, n, k)) % BYTES = ByteOf(bytes, n, k)
    BY <1>2, <2>1, <2>2, QuotientOf
  <2> QED  BY <2>3, <2>4
<1> DEFINE S == {k \in 0 .. WORD_BYTES : rest[k] = read[k]}
<1>5. WORD_BYTES \in S
  BY <1>1, <1>2, <1>3 DEF Digits
<1>6. ASSUME NEW k \in 0 .. WORD_BYTES - 1, k + 1 \in S  PROVE k \in S
  <2>1. rest[k] = rest[k + 1] \div BYTES /\ rest[k + 1] = read[k + 1]
    BY <1>3, <1>6 DEF Digits
  <2>2. k + 1 \in 1 .. WORD_BYTES /\ (k + 1) - 1 = k /\ k \in 0 .. WORD_BYTES
    BY <1>2
  <2> QED  BY <1>4, <2>1, <2>2
<1> HIDE DEF S
<1>7. 0 .. WORD_BYTES \subseteq S
  BY <1>2, <1>5, <1>6, Downward
<1>8. \A k \in 1 .. WORD_BYTES : rest[k] % BYTES = ByteOf(bytes, n, k)
  BY <1>2, <1>4, <1>7 DEF S
<1> QED  BY <1>2, <1>3, <1>8

\* A number that fits a word is read back from its digits.
LEMMA WordOfDigits ==
  ASSUME NEW bytes \in Seq(Byte), NEW n, NEW value \in Nat, value < PlaceValue[WORD_BYTES],
         \A k \in 1 .. WORD_BYTES : ByteOf(bytes, n, k) = field_bytes(value)[k]
  PROVE  WordAt(bytes, n) = value
<1>1. PICK read : Reads(bytes, n, read) /\ WordAt(bytes, n) = read[WORD_BYTES]
  BY WordIsRead
<1>2. PICK rest : /\ Digits(value, rest)
                  /\ field_bytes(value) = [i \in 1 .. WORD_BYTES |-> rest[i] % BYTES]
  BY FieldBytesAreDigits
<1>3. WORD_BYTES \in Nat \ {0} /\ BYTES \in Nat \ {0}
  BY Sizes
<1> DEFINE Small == {k \in 0 .. WORD_BYTES : rest[k] < PlaceValue[k]}
<1>4. WORD_BYTES \in Small
  BY <1>2, <1>3 DEF Digits
<1>5. ASSUME NEW k \in 0 .. WORD_BYTES - 1, k + 1 \in Small  PROVE k \in Small
  <2>1. k + 1 \in 1 .. WORD_BYTES /\ (k + 1) - 1 = k /\ k \in 0 .. WORD_BYTES
    BY <1>3
  <2>2. PlaceValue[k + 1] = BYTES * PlaceValue[k] /\ PlaceValue[k] \in Nat
    BY <2>1, Places
  <2>3. rest[k + 1] \in Nat /\ rest[k + 1] < BYTES * PlaceValue[k]
    BY <1>2, <1>5, <2>1, <2>2 DEF Digits
  <2>4. rest[k + 1] \div BYTES < PlaceValue[k]
    BY <1>3, <2>2, <2>3, SmallerQuotient
  <2> QED  BY <1>2, <2>1, <2>4 DEF Digits
<1> HIDE DEF Small
<1>6. 0 .. WORD_BYTES \subseteq Small
  BY <1>3, <1>4, <1>5, Downward
<1>7. rest[0] = 0
  <2>1. 0 \in Small /\ rest[0] \in Nat
    BY <1>2, <1>3, <1>6 DEF Digits
  <2> QED  BY <2>1, Places DEF Small
<1> DEFINE Same == {k \in 0 .. WORD_BYTES : read[k] = rest[k]}
<1>8. 0 \in Same
  BY <1>1, <1>3, <1>7 DEF Reads
<1>9. ASSUME NEW k \in 0 .. WORD_BYTES - 1, k \in Same  PROVE k + 1 \in Same
  <2>1. k + 1 \in 1 .. WORD_BYTES /\ (k + 1) - 1 = k /\ k + 1 \in 0 .. WORD_BYTES
    BY <1>3
  <2>2. rest[k + 1] \in Nat /\ rest[k] = rest[k + 1] \div BYTES
    BY <1>2, <2>1 DEF Digits
  <2>3. rest[k + 1] = rest[k] * BYTES + (rest[k + 1] % BYTES)
    BY <1>3, <2>2, QuotientAndRest
  <2>4. read[k + 1] = read[k] * BYTES + ByteOf(bytes, n, k + 1)
    BY <1>1, <2>1 DEF Reads
  <2>5. ByteOf(bytes, n, k + 1) = rest[k + 1] % BYTES
    BY <1>2, <2>1
  <2> QED  BY <1>9, <2>1, <2>3, <2>4, <2>5
<1> HIDE DEF Same
<1>10. WORD_BYTES \in Same
  <2>1. 0 .. WORD_BYTES \subseteq Same
    BY <1>3, <1>8, <1>9, Upward
  <2> QED  BY <1>3, <2>1
<1> QED  BY <1>1, <1>2, <1>10 DEF Same, Digits

\* A word depends on its bytes only.
LEMMA SameBytesSameWord ==
  ASSUME NEW a \in Seq(Byte), NEW b \in Seq(Byte), NEW m, NEW n,
         \A k \in 1 .. WORD_BYTES : ByteOf(a, m, k) = ByteOf(b, n, k)
  PROVE  WordAt(a, m) = WordAt(b, n)
<1>1. PICK f : Reads(a, m, f) /\ WordAt(a, m) = f[WORD_BYTES]
  BY WordIsRead
<1>2. PICK g : Reads(b, n, g) /\ WordAt(b, n) = g[WORD_BYTES]
  BY WordIsRead
<1> DEFINE Same == {k \in 0 .. WORD_BYTES : f[k] = g[k]}
<1>3. WORD_BYTES \in Nat
  BY Sizes
<1>4. 0 \in Same
  BY <1>1, <1>2, <1>3 DEF Reads
<1>5. ASSUME NEW k \in 0 .. WORD_BYTES - 1, k \in Same  PROVE k + 1 \in Same
  <2>1. k + 1 \in 1 .. WORD_BYTES /\ (k + 1) - 1 = k /\ k + 1 \in 0 .. WORD_BYTES
    BY <1>3
  <2>2. /\ f[k + 1] = f[k] * BYTES + ByteOf(a, m, k + 1)
        /\ g[k + 1] = g[k] * BYTES + ByteOf(b, n, k + 1)
    BY <1>1, <1>2, <2>1 DEF Reads
  <2> QED  BY <1>5, <2>1, <2>2
<1> HIDE DEF Same
<1>6. WORD_BYTES \in Same
  <2>1. 0 .. WORD_BYTES \subseteq Same
    BY <1>3, <1>4, <1>5, Upward
  <2> QED  BY <1>3, <2>1
<1> QED  BY <1>1, <1>2, <1>6 DEF Same

LEMMA AtLeastTheProduct ==
  ASSUME NEW a \in Nat, NEW s \in Nat, NEW p \in Nat, NEW b \in Nat, NEW c \in Nat, a >= s * p
  PROVE  a * b + c >= s * (b * p)
<1>1. a * b >= (s * p) * b
  OBVIOUS
<1>2. (s * p) * b = s * (b * p)
  OBVIOUS
<1> QED  BY <1>1, <1>2

\* A word that begins with the selector is past the modulus.
LEMMA SelectorIsNoField ==
  ASSUME NEW bytes \in Seq(Byte), bytes # <<>>, bytes[1] = SELECTOR
  PROVE  WordAt(bytes, 1) >= MODULUS
<1>1. PICK read : Reads(bytes, 1, read) /\ WordAt(bytes, 1) = read[WORD_BYTES]
  BY WordIsRead
<1>2. WORD_BYTES \in Nat \ {0} /\ BYTES \in Nat /\ SELECTOR \in Nat
  BY Sizes
<1>3. ByteOf(bytes, 1, 1) = SELECTOR
  <2>1. (1 - 1) * WORD_BYTES + 1 = 1 /\ 1 \in DOMAIN bytes
    BY <1>2
  <2> QED  BY <2>1 DEF ByteOf
<1> DEFINE S == {k \in 0 .. WORD_BYTES - 1 : read[k + 1] >= SELECTOR * PlaceValue[k]}
<1>4. 0 \in S
  <2>1. read[0 + 1] = 0 * BYTES + SELECTOR
    BY <1>1, <1>2, <1>3 DEF Reads
  <2> QED  BY <1>2, <2>1, Places
<1>5. ASSUME NEW k \in 0 .. (WORD_BYTES - 1) - 1, k \in S  PROVE k + 1 \in S
  <2>1. /\ k + 1 \in 1 .. WORD_BYTES /\ (k + 1) - 1 = k /\ k \in 0 .. WORD_BYTES
        /\ (k + 1) + 1 \in 1 .. WORD_BYTES /\ ((k + 1) + 1) - 1 = k + 1
        /\ k + 1 \in 0 .. WORD_BYTES /\ k + 1 \in 0 .. WORD_BYTES - 1
    BY <1>2
  <2>2. PlaceValue[k + 1] = BYTES * PlaceValue[k] /\ PlaceValue[k] \in Nat
    BY <2>1, Places
  <2>3. read[(k + 1) + 1] = read[k + 1] * BYTES + ByteOf(bytes, 1, (k + 1) + 1) /\ read[k + 1] \in Nat
    BY <1>1, <2>1 DEF Reads
  <2>4. ByteOf(bytes, 1, (k + 1) + 1) \in Nat
    BY BytesOfWords, Sizes
  <2>5. read[k + 1] >= SELECTOR * PlaceValue[k]
    BY <1>5
  <2>6. read[k + 1] * BYTES + ByteOf(bytes, 1, (k + 1) + 1) >= SELECTOR * (BYTES * PlaceValue[k])
    BY <1>2, <2>2, <2>3, <2>4, <2>5, AtLeastTheProduct
  <2> QED  BY <2>1, <2>2, <2>3, <2>6
<1> HIDE DEF S
<1>6. WORD_BYTES - 1 \in S
  <2>1. WORD_BYTES - 1 \in Nat
    BY <1>2
  <2> QED  BY <1>4, <1>5, <2>1, Upward
<1>7. read[WORD_BYTES] >= SELECTOR * PlaceValue[WORD_BYTES - 1] /\ read[WORD_BYTES] \in Nat
  <2>1. (WORD_BYTES - 1) + 1 = WORD_BYTES
    BY <1>2
  <2> QED  BY <1>1, <1>2, <1>6, <2>1 DEF S, Reads
<1>8. SELECTOR * PlaceValue[WORD_BYTES - 1] \in Nat /\ MODULUS \in Nat
  <2>1. PlaceValue[WORD_BYTES - 1] \in Nat
    BY <1>2, Places
  <2> QED  BY <1>2, <2>1, Sizes
<1>9. SELECTOR * PlaceValue[WORD_BYTES - 1] >= MODULUS
  BY EncodingAssumption
<1> QED  BY <1>1, <1>7, <1>8, <1>9

-----------------------------------------------------------------------------
(* Lists of bytes *)

\* FlattenSeq, list by list.
LEMMA Flattened ==
  ASSUME NEW S, NEW seqs \in Seq(Seq(S))
  PROVE  \E flat \in [0 .. Len(seqs) -> Seq(S)] :
           /\ flat[0] = <<>>
           /\ \A i \in 1 .. Len(seqs) : flat[i] = flat[i - 1] \o seqs[i]
           /\ FlattenSeq(seqs) = flat[Len(seqs)]
<1> DEFINE m == Len(seqs)
           V == Seq(S)
           Joined(y, i) == y \o seqs[i]
           G == [x \in (1 .. m) \X V |-> Joined(x[2], x[1])]
           Turn(f, i) == IF i = 1 THEN seqs[i] ELSE Joined(f[i - 1], i)
           flatten == CHOOSE f : f = [i \in 1 .. m |-> Turn(f, i)]
<1>1. m \in Nat /\ <<>> \in V /\ \A i \in 1 .. m : seqs[i] \in V
  OBVIOUS
<1>2. \A i \in 1 .. m, y \in V : Joined(y, i) \in V
  BY <1>1, ConcatProperties
<1>3. \A i \in 1 .. m : Joined(<<>>, i) = seqs[i]
  BY <1>1, ConcatEmptySeq
<1>4. FlattenSeq(seqs) = IF m = 0 THEN seqs ELSE flatten[m]
  BY DEF FlattenSeq
<1>5. m = 0 => seqs = <<>>
  OBVIOUS
<1> HIDE DEF m, V, Joined, flatten
<1>6. PICK g \in [0 .. m -> V] : g[0] = <<>> /\ \A i \in 1 .. m : g[i] = Joined(g[i - 1], i)
  <2>1. G \in [(1 .. m) \X V -> V]
    BY <1>2
  <2>2. \A i \in 1 .. m, y \in V : G[<<i, y>>] = Joined(y, i)
    OBVIOUS
  <2> HIDE DEF G
  <2>3. PICK g \in [0 .. m -> V] :
          g[0] = <<>> /\ \A i \in 1 .. m : g[i] = G[<<i, g[i - 1]>>]
    <3>1. HasASolution(m, V, <<>>, G)
      BY <1>1, <2>1, RecursionHasASolution
    <3> QED  BY <3>1 DEF HasASolution
  <2>4. \A i \in 1 .. m : g[i - 1] \in V
    BY <1>1
  <2> QED  BY <2>2, <2>3, <2>4
<1> HIDE DEF G
<1> DEFINE h == [i \in 1 .. m |-> g[i]]
<1>7. flatten = [i \in 1 .. m |-> Turn(flatten, i)]
  <2>1. ASSUME NEW i \in 1 .. m  PROVE h[i] = Turn(h, i)
    <3>1. CASE i = 1
      <4>1. g[i] = Joined(g[i - 1], i) /\ i - 1 = 0
        BY <1>6, <3>1
      <4> QED  BY <1>3, <1>6, <3>1, <4>1
    <3>2. CASE i # 1
      <4>1. i - 1 \in 1 .. m
        BY <1>1, <3>2
      <4> QED  BY <1>6, <3>2, <4>1
    <3> QED  BY <3>1, <3>2
  <2> HIDE DEF Turn
  <2>2. h = [i \in 1 .. m |-> Turn(h, i)]
    BY <2>1
  <2> HIDE DEF h
  <2> QED  BY <2>2 DEF flatten
<1>8. \A i \in 1 .. m : flatten[i] = Turn(flatten, i)
  <2> HIDE DEF Turn
  <2> QED  BY <1>7
<1> DEFINE S1 == {i \in 0 .. m : i = 0 \/ flatten[i] = g[i]}
<1>9. 0 \in S1
  BY <1>1
<1>10. ASSUME NEW i \in 0 .. m - 1, i \in S1  PROVE i + 1 \in S1
  <2>1. i + 1 \in 1 .. m /\ (i + 1) - 1 = i /\ i + 1 \in 0 .. m /\ i \in Nat
    BY <1>1
  <2>2. g[i + 1] = Joined(g[i], i + 1)
    BY <1>6, <2>1
  <2>3. CASE i = 0
    <3>1. flatten[i + 1] = seqs[i + 1]
      BY <1>8, <2>1, <2>3
    <3>2. g[i + 1] = seqs[i + 1]
      BY <1>3, <1>6, <2>1, <2>2, <2>3
    <3> QED  BY <2>1, <3>1, <3>2
  <2>4. CASE i # 0
    <3>1. i + 1 # 1
      BY <2>1, <2>4
    <3>2. flatten[i + 1] = Joined(flatten[i], i + 1)
      <4>1. flatten[i + 1] = Turn(flatten, i + 1)
        BY <1>8, <2>1
      <4> QED  BY <2>1, <3>1, <4>1
    <3>3. flatten[i] = g[i]
      BY <1>10, <2>4
    <3> QED  BY <2>1, <2>2, <3>2, <3>3
  <2> QED  BY <2>3, <2>4
<1> HIDE DEF S1
<1>11. m \in S1
  <2>1. 0 .. m \subseteq S1
    BY <1>1, <1>9, <1>10, Upward
  <2> QED  BY <1>1, <2>1
<1>12. FlattenSeq(seqs) = g[m]
  <2>1. m # 0 => flatten[m] = g[m]
    BY <1>11 DEF S1
  <2> QED  BY <1>4, <1>5, <1>6, <2>1
<1> QED  BY <1>6, <1>12 DEF m, V, Joined

\* A list of field elements is as many words, each the digits of its own.
LEMMA ListBytes ==
  ASSUME NEW m \in Nat, NEW values \in [1 .. m -> Nat]
  PROVE  /\ field_list_bytes(values) \in Seq(Byte)
         /\ Len(field_list_bytes(values)) = m * WORD_BYTES
         /\ \A i \in 1 .. m, k \in 1 .. WORD_BYTES :
              field_list_bytes(values)[(i - 1) * WORD_BYTES + k] = field_bytes(values[i])[k]
<1> DEFINE seqs == [i \in DOMAIN values |-> field_bytes(values[i])]
<1>1. WORD_BYTES \in Nat \ {0}
  BY Sizes
<1>2. \A i \in 1 .. m : seqs[i] \in [1 .. WORD_BYTES -> Byte] /\ seqs[i] = field_bytes(values[i])
  BY FieldBytesAreBytes
<1>3. \A i \in 1 .. m : seqs[i] \in Seq(Byte) /\ Len(seqs[i]) = WORD_BYTES
  <2> SUFFICES ASSUME NEW i \in 1 .. m  PROVE seqs[i] \in Seq(Byte) /\ Len(seqs[i]) = WORD_BYTES
    OBVIOUS
  <2>1. seqs[i] \in [1 .. WORD_BYTES -> Byte] /\ WORD_BYTES \in Nat
    BY <1>1, <1>2
  <2> HIDE DEF seqs
  <2> QED  BY <2>1
<1>4. DOMAIN seqs = 1 .. m /\ seqs = [i \in 1 .. m |-> seqs[i]]
  OBVIOUS
<1> HIDE DEF seqs
<1>5. seqs \in Seq(Seq(Byte)) /\ Len(seqs) = m
  <2>1. seqs \in [1 .. m -> Seq(Byte)]
    BY <1>3, <1>4
  <2> QED  BY <2>1
<1>6. PICK flat \in [0 .. m -> Seq(Byte)] :
        /\ flat[0] = <<>>
        /\ \A i \in 1 .. m : flat[i] = flat[i - 1] \o seqs[i]
        /\ FlattenSeq(seqs) = flat[m]
  BY <1>5, Flattened
<1>7. field_list_bytes(values) = flat[m]
  BY <1>6 DEF field_list_bytes, seqs
<1> DEFINE Listed(i) == /\ Len(flat[i]) = i * WORD_BYTES
                        /\ \A j \in 1 .. i, k \in 1 .. WORD_BYTES :
                             flat[i][(j - 1) * WORD_BYTES + k] = seqs[j][k]
           S == {i \in 0 .. m : Listed(i)}
<1>8. 0 \in S
  <2>1. Len(flat[0]) = 0 /\ 0 * WORD_BYTES = 0
    BY <1>1, <1>6
  <2> QED  BY <2>1
<1>9. ASSUME NEW i \in 0 .. m - 1, i \in S  PROVE i + 1 \in S
  <2>1. /\ i + 1 \in 1 .. m /\ (i + 1) - 1 = i /\ i \in 0 .. m /\ i + 1 \in 0 .. m
        /\ (i + 1) * WORD_BYTES = i * WORD_BYTES + WORD_BYTES /\ i * WORD_BYTES \in Nat
    BY <1>1
  <2> DEFINE a == flat[i]
             b == seqs[i + 1]
  <2>2. /\ a \in Seq(Byte) /\ b \in Seq(Byte)
        /\ Len(a) = i * WORD_BYTES /\ Len(b) = WORD_BYTES
        /\ flat[i + 1] = a \o b
    BY <1>3, <1>6, <1>9, <2>1
  <2>3. \A j \in 1 .. i, k \in 1 .. WORD_BYTES : a[(j - 1) * WORD_BYTES + k] = seqs[j][k]
    BY <1>9
  <2> HIDE DEF a, b
  <2>4. /\ Len(a \o b) = i * WORD_BYTES + WORD_BYTES
        /\ \A x \in 1 .. i * WORD_BYTES + WORD_BYTES :
             (a \o b)[x] = IF x <= i * WORD_BYTES THEN a[x] ELSE b[x - i * WORD_BYTES]
    <3>1. /\ Len(a \o b) = Len(a) + Len(b)
          /\ \A x \in 1 .. Len(a) + Len(b) :
               (a \o b)[x] = IF x <= Len(a) THEN a[x] ELSE b[x - Len(a)]
      BY <2>2, ConcatProperties
    <3> QED  BY <2>2, <3>1, Zenon
  <2>5. ASSUME NEW j \in 1 .. i + 1, NEW k \in 1 .. WORD_BYTES
        PROVE  (a \o b)[(j - 1) * WORD_BYTES + k] = seqs[j][k]
    <3>1. CASE j = i + 1
      <4> DEFINE base == i * WORD_BYTES
      <4>1. base \in Nat /\ (j - 1) * WORD_BYTES = base
        BY <2>1, <3>1
      <4> HIDE DEF base
      <4>2. base + k \in 1 .. base + WORD_BYTES /\ ~ (base + k <= base) /\ (base + k) - base = k
        BY <1>1, <4>1
      <4>3. (a \o b)[base + k] = b[k]
        BY <2>4, <4>2 DEF base
      <4> QED  BY <3>1, <4>1, <4>3 DEF b
    <3>2. CASE j \in 1 .. i
      <4>1. (j - 1) * WORD_BYTES + k \in 1 .. i * WORD_BYTES
        <5>1. i \in Nat
          BY <2>1
        <5> QED  BY <1>1, <3>2, <5>1, ByteOfWord
      <4>2. (a \o b)[(j - 1) * WORD_BYTES + k] = a[(j - 1) * WORD_BYTES + k]
        BY <1>1, <2>1, <2>4, <4>1
      <4> QED  BY <2>3, <3>2, <4>2
    <3>3. j = i + 1 \/ j \in 1 .. i
      BY <2>1
    <3> QED  BY <3>1, <3>2, <3>3
  <2>6. Len(flat[i + 1]) = (i + 1) * WORD_BYTES
    BY <2>1, <2>2, <2>4
  <2>7. Listed(i + 1)
    BY <2>2, <2>5, <2>6
  <2> HIDE DEF Listed
  <2> QED  BY <2>1, <2>7
<1> HIDE DEF S
<1>10. m \in S
  <2>1. 0 .. m \subseteq S
    BY <1>8, <1>9, Upward
  <2> QED  BY <2>1
<1>11. Listed(m)
  BY <1>10 DEF S
<1>12. m \in 0 .. m
  OBVIOUS
<1>13. flat[m] \in Seq(Byte)
  BY <1>6, <1>12
<1>14. ASSUME NEW i \in 1 .. m, NEW k \in 1 .. WORD_BYTES
       PROVE  flat[m][(i - 1) * WORD_BYTES + k] = field_bytes(values[i])[k]
  BY <1>2, <1>11, Zenon
<1> QED  BY <1>7, <1>11, <1>13, <1>14

\* An encoding is its words and then the proof.
LEMMA EncodedBytes ==
  ASSUME NEW inputs \in [1 .. PUBLIC_INPUTS -> Nat], NEW tail \in Seq(Byte)
  PROVE  /\ encode_calldata(inputs, tail) \in Seq(Byte)
         /\ Len(encode_calldata(inputs, tail)) = INSTANCE_BYTES + Len(tail)
         /\ \A i \in 1 .. PUBLIC_INPUTS, k \in 1 .. WORD_BYTES :
              encode_calldata(inputs, tail)[(i - 1) * WORD_BYTES + k] = field_bytes(inputs[i])[k]
         /\ \A x \in 1 .. Len(tail) : encode_calldata(inputs, tail)[INSTANCE_BYTES + x] = tail[x]
<1> DEFINE a == field_list_bytes(inputs)
<1>1. /\ a \in Seq(Byte) /\ Len(a) = INSTANCE_BYTES
      /\ \A i \in 1 .. PUBLIC_INPUTS, k \in 1 .. WORD_BYTES :
           a[(i - 1) * WORD_BYTES + k] = field_bytes(inputs[i])[k]
  BY ListBytes, Sizes DEF INSTANCE_BYTES
<1>2. encode_calldata(inputs, tail) = a \o tail
  BY DEF encode_calldata
<1> HIDE DEF a
<1>3. /\ a \o tail \in Seq(Byte)
      /\ Len(a \o tail) = INSTANCE_BYTES + Len(tail)
      /\ \A x \in 1 .. INSTANCE_BYTES + Len(tail) :
           (a \o tail)[x] = IF x <= INSTANCE_BYTES THEN a[x] ELSE tail[x - INSTANCE_BYTES]
  BY <1>1, ConcatProperties
<1>4. INSTANCE_BYTES \in Nat /\ Len(tail) \in Nat
  BY Sizes
<1>5. ASSUME NEW i \in 1 .. PUBLIC_INPUTS, NEW k \in 1 .. WORD_BYTES
      PROVE  (a \o tail)[(i - 1) * WORD_BYTES + k] = field_bytes(inputs[i])[k]
  <2>1. (i - 1) * WORD_BYTES + k \in 1 .. INSTANCE_BYTES
    BY ByteOfWord, Sizes DEF INSTANCE_BYTES
  <2>2. (a \o tail)[(i - 1) * WORD_BYTES + k] = a[(i - 1) * WORD_BYTES + k]
    BY <1>3, <1>4, <2>1
  <2> QED  BY <1>1, <2>2
<1>6. \A x \in 1 .. Len(tail) : (a \o tail)[INSTANCE_BYTES + x] = tail[x]
  BY <1>3, <1>4
<1> QED  BY <1>2, <1>3, <1>5, <1>6
-----------------------------------------------------------------------------
(* The text of the verifier *)

\* Lists of the same lengths flatten to the same length.
LEMMA SameLengths ==
  ASSUME NEW S, NEW a \in Seq(Seq(S)), NEW b \in Seq(Seq(S)), Len(a) = Len(b),
         \A i \in 1 .. Len(a) : Len(a[i]) = Len(b[i])
  PROVE  Len(FlattenSeq(a)) = Len(FlattenSeq(b))
<1> DEFINE m == Len(a)
<1>1. m \in Nat /\ Len(b) = m /\ \A i \in 1 .. m : a[i] \in Seq(S) /\ b[i] \in Seq(S)
  OBVIOUS
<1>2. PICK f \in [0 .. m -> Seq(S)] :
        f[0] = <<>> /\ (\A i \in 1 .. m : f[i] = f[i - 1] \o a[i]) /\ FlattenSeq(a) = f[m]
  BY Flattened, Zenon
<1>3. PICK g \in [0 .. m -> Seq(S)] :
        g[0] = <<>> /\ (\A i \in 1 .. m : g[i] = g[i - 1] \o b[i]) /\ FlattenSeq(b) = g[m]
  <2> DEFINE Flat(g, n) == /\ g[0] = <<>>
                           /\ \A i \in 1 .. n : g[i] = g[i - 1] \o b[i]
                           /\ FlattenSeq(b) = g[n]
  <2>1. \E g \in [0 .. Len(b) -> Seq(S)] : Flat(g, Len(b))
    BY Flattened, Zenon
  <2> HIDE DEF Flat
  <2>2. \E g \in [0 .. m -> Seq(S)] : Flat(g, m)
    BY <1>1, <2>1
  <2> QED  BY <2>2 DEF Flat
<1>4. \A i \in 1 .. m : Len(a[i]) = Len(b[i])
  OBVIOUS
<1> HIDE DEF m
<1> DEFINE Same == {i \in 0 .. m : Len(f[i]) = Len(g[i])}
<1>5. 0 \in Same
  BY <1>1, <1>2, <1>3
<1>6. ASSUME NEW i \in 0 .. m - 1, i \in Same  PROVE i + 1 \in Same
  <2>1. i + 1 \in 1 .. m /\ (i + 1) - 1 = i /\ i \in 0 .. m /\ i + 1 \in 0 .. m
    BY <1>1
  <2>2. f[i] \in Seq(S) /\ g[i] \in Seq(S) /\ a[i + 1] \in Seq(S) /\ b[i + 1] \in Seq(S)
    BY <1>1, <2>1
  <2>3. Len(f[i] \o a[i + 1]) = Len(f[i]) + Len(a[i + 1])
    BY <2>2, ConcatProperties
  <2>4. Len(g[i] \o b[i + 1]) = Len(g[i]) + Len(b[i + 1])
    BY <2>2, ConcatProperties
  <2>5. f[i + 1] = f[i] \o a[i + 1] /\ g[i + 1] = g[i] \o b[i + 1]
    BY <1>2, <1>3, <2>1
  <2>6. Len(f[i]) = Len(g[i]) /\ Len(a[i + 1]) = Len(b[i + 1])
    BY <1>4, <1>6, <2>1
  <2> QED  BY <2>1, <2>3, <2>4, <2>5, <2>6, Zenon
<1> HIDE DEF Same
<1>7. m \in Same
  <2>1. 0 .. m \subseteq Same
    BY <1>1, <1>5, <1>6, Upward
  <2> QED  BY <1>1, <2>1
<1> QED  BY <1>2, <1>3, <1>7 DEF Same

\* An empty list adds nothing, wherever it stands.
LEMMA EmptyAddsNothing ==
  ASSUME NEW S, NEW a \in Seq(Seq(S)), NEW b \in Seq(Seq(S)), Len(b) = Len(a) + 1,
         NEW p \in 1 .. Len(b), b[p] = <<>>,
         \A i \in 1 .. p - 1 : b[i] = a[i],
         \A i \in p .. Len(a) : b[i + 1] = a[i]
  PROVE  FlattenSeq(b) = FlattenSeq(a)
<1> DEFINE m == Len(a)
<1>1. /\ m \in Nat /\ Len(b) = m + 1 /\ p \in 1 .. m + 1
      /\ \A i \in 1 .. p - 1 : b[i] = a[i]
      /\ \A i \in p .. m : b[i + 1] = a[i]
  <2>1. m \in Nat /\ Len(b) = m + 1
    OBVIOUS
  <2>2. p \in 1 .. m + 1
    BY <2>1, Zenon
  <2>3. (\A i \in 1 .. p - 1 : b[i] = a[i]) /\ (\A i \in p .. m : b[i + 1] = a[i])
    BY Zenon
  <2> QED  BY <2>1, <2>2, <2>3
<1>2. PICK f \in [0 .. m -> Seq(S)] :
        f[0] = <<>> /\ (\A i \in 1 .. m : f[i] = f[i - 1] \o a[i]) /\ FlattenSeq(a) = f[m]
  BY Flattened, Zenon
<1>3. PICK g \in [0 .. m + 1 -> Seq(S)] :
        g[0] = <<>> /\ (\A i \in 1 .. m + 1 : g[i] = g[i - 1] \o b[i]) /\ FlattenSeq(b) = g[m + 1]
  <2> DEFINE Flat(g, n) == /\ g[0] = <<>>
                           /\ \A i \in 1 .. n : g[i] = g[i - 1] \o b[i]
                           /\ FlattenSeq(b) = g[n]
  <2>1. \E g \in [0 .. Len(b) -> Seq(S)] : Flat(g, Len(b))
    BY Flattened, Zenon
  <2> HIDE DEF Flat
  <2>2. \E g \in [0 .. m + 1 -> Seq(S)] : Flat(g, m + 1)
    BY <1>1, <2>1
  <2> QED  BY <2>2 DEF Flat
<1> HIDE DEF m
<1> DEFINE Before == {i \in 0 .. p - 1 : g[i] = f[i]}
<1>4. 0 \in Before
  BY <1>1, <1>2, <1>3
<1>5. ASSUME NEW i \in 0 .. (p - 1) - 1, i \in Before  PROVE i + 1 \in Before
  <2>1. /\ i + 1 \in 1 .. p - 1 /\ i + 1 \in 1 .. m /\ i + 1 \in 1 .. m + 1 /\ (i + 1) - 1 = i
        /\ i + 1 \in 0 .. p - 1
    BY <1>1
  <2>2. g[i + 1] = g[i] \o b[i + 1] /\ f[i + 1] = f[i] \o a[i + 1] /\ b[i + 1] = a[i + 1]
    BY <1>1, <1>2, <1>3, <2>1
  <2>3. g[i] = f[i]
    BY <1>5
  <2> QED  BY <2>1, <2>2, <2>3, Zenon
<1> HIDE DEF Before
<1>6. g[p - 1] = f[p - 1]
  <2>1. p - 1 \in Nat /\ p - 1 \in 0 .. p - 1
    BY <1>1
  <2>2. 0 .. p - 1 \subseteq Before
    BY <1>4, <1>5, <2>1, Upward
  <2> QED  BY <2>1, <2>2 DEF Before
<1>7. g[p] = f[p - 1]
  <2>1. g[p] = g[p - 1] \o <<>> /\ g[p - 1] \in Seq(S)
    <3>1. p \in 1 .. m + 1 /\ p - 1 \in 0 .. m + 1 /\ b[p] = <<>>
      BY <1>1
    <3>2. g[p] = g[p - 1] \o b[p]
      BY <1>3, <3>1
    <3> QED  BY <1>3, <3>1, <3>2, Zenon
  <2>2. g[p - 1] \o <<>> = g[p - 1]
    BY <2>1, ConcatEmptySeq
  <2> QED  BY <1>6, <2>1, <2>2
<1> DEFINE n == m + 1 - p
           After == {d \in 0 .. n : g[p + d] = f[p - 1 + d]}
<1>8. n \in Nat /\ p + n = m + 1 /\ p - 1 + n = m
  BY <1>1
<1>9. 0 \in After
  BY <1>1, <1>7, <1>8
<1>10. ASSUME NEW d \in 0 .. n - 1, d \in After  PROVE d + 1 \in After
  <2> DEFINE i == p + d
  <2>1. i \in p .. m /\ i \in 1 .. m /\ i + 1 \in 1 .. m + 1 /\ (i + 1) - 1 = i /\ d + 1 \in 0 .. n
        /\ p + (d + 1) = i + 1 /\ p - 1 + (d + 1) = i /\ p - 1 + d = i - 1
    BY <1>1, <1>8
  <2>2. g[i] = f[i - 1]
    BY <1>10, <2>1
  <2> HIDE DEF i
  <2>3. g[i + 1] = g[i] \o b[i + 1] /\ f[i] = f[i - 1] \o a[i] /\ b[i + 1] = a[i]
    BY <1>1, <1>2, <1>3, <2>1
  <2> HIDE DEF n
  <2> QED  BY <2>1, <2>2, <2>3, Zenon
<1> HIDE DEF n, After
<1>11. n \in After
  <2>1. 0 .. n \subseteq After
    BY <1>8, <1>9, <1>10, Upward
  <2> QED  BY <1>8, <2>1
<1>12. g[m + 1] = f[m]
  BY <1>8, <1>11 DEF After
<1> QED  BY <1>2, <1>3, <1>12

LEMMA Inserted ==
  ASSUME NEW S, NEW s \in Seq(S), NEW p \in 1 .. Len(s) + 1, NEW e \in S
  PROVE  /\ InsertAt(s, p, e) \in Seq(S)
         /\ Len(InsertAt(s, p, e)) = Len(s) + 1
         /\ InsertAt(s, p, e)[p] = e
         /\ \A i \in 1 .. p - 1 : InsertAt(s, p, e)[i] = s[i]
         /\ \A i \in p .. Len(s) : InsertAt(s, p, e)[i + 1] = s[i]
<1> DEFINE a == SubSeq(s, 1, p - 1)
           c == SubSeq(s, p, Len(s))
           n == Len(s)
<1>1. n \in Nat /\ p \in 1 .. n + 1 /\ \A i \in 1 .. n : s[i] \in S
  OBVIOUS
<1>2. /\ a \in Seq(S) /\ Len(a) = p - 1
      /\ \A i \in 1 .. p - 1 : a[i] = s[i]
  <2>1. 1 \in Int /\ p - 1 \in Int /\ \A i \in 1 .. p - 1 : s[i] \in S
    BY <1>1
  <2>2. /\ a \in Seq(S) /\ Len(a) = IF 1 <= p - 1 THEN (p - 1) - 1 + 1 ELSE 0
        /\ \A i \in 1 .. (p - 1) - 1 + 1 : a[i] = s[1 + i - 1]
    BY <2>1, SubSeqProperties
  <2> HIDE DEF a
  <2> QED  BY <1>1, <2>2
<1>3. /\ c \in Seq(S) /\ Len(c) = n + 1 - p
      /\ \A i \in 1 .. n + 1 - p : c[i] = s[p + i - 1]
  <2>1. p \in Int /\ n \in Int /\ \A i \in p .. n : s[i] \in S
    BY <1>1
  <2>2. /\ c \in Seq(S) /\ Len(c) = IF p <= n THEN n - p + 1 ELSE 0
        /\ \A i \in 1 .. n - p + 1 : c[i] = s[p + i - 1]
    BY <2>1, SubSeqProperties
  <2> HIDE DEF c
  <2> QED  BY <1>1, <2>2
<1>4. InsertAt(s, p, e) = (a \o <<e>>) \o c
  BY DEF InsertAt
<1>5. <<e>> \in Seq(S) /\ Len(<<e>>) = 1 /\ <<e>>[1] = e
  OBVIOUS
<1> HIDE DEF a, c, n
<1> DEFINE u == <<e>>
           b == a \o u
<1> HIDE DEF u
<1>6. /\ b \in Seq(S) /\ Len(b) = p
      /\ \A i \in 1 .. p : b[i] = IF i <= p - 1 THEN a[i] ELSE u[i - (p - 1)]
  <2>1. /\ b \in Seq(S) /\ Len(b) = Len(a) + Len(u)
        /\ \A i \in 1 .. Len(a) + Len(u) : b[i] = IF i <= Len(a) THEN a[i] ELSE u[i - Len(a)]
    BY <1>2, <1>5, ConcatProperties DEF u
  <2>2. Len(a) + Len(u) = p
    BY <1>1, <1>2, <1>5 DEF u
  <2> HIDE DEF b
  <2> QED  BY <1>2, <2>1, <2>2
<1> HIDE DEF b
<1>7. /\ b \o c \in Seq(S) /\ Len(b \o c) = n + 1
      /\ \A i \in 1 .. n + 1 : (b \o c)[i] = IF i <= p THEN b[i] ELSE c[i - p]
  <2>1. /\ b \o c \in Seq(S) /\ Len(b \o c) = Len(b) + Len(c)
        /\ \A i \in 1 .. Len(b) + Len(c) : (b \o c)[i] = IF i <= Len(b) THEN b[i] ELSE c[i - Len(b)]
    BY <1>3, <1>6, ConcatProperties
  <2>2. Len(b) + Len(c) = n + 1
    BY <1>1, <1>3, <1>6
  <2> QED  BY <1>6, <2>1, <2>2
<1>8. InsertAt(s, p, e) = b \o c
  BY <1>4 DEF b, u
<1> DEFINE r == b \o c
<1> HIDE DEF r
<1>9. r[p] = e
  <2>1. p \in 1 .. n + 1 /\ p <= p /\ p \in 1 .. p /\ ~ (p <= p - 1) /\ p - (p - 1) = 1
    BY <1>1
  <2> QED  BY <1>5, <1>6, <1>7, <2>1 DEF r, u
<1>10. ASSUME NEW i \in 1 .. p - 1  PROVE r[i] = s[i]
  <2>1. i \in 1 .. n + 1 /\ i <= p /\ i \in 1 .. p /\ i <= p - 1
    BY <1>1
  <2> QED  BY <1>2, <1>6, <1>7, <2>1 DEF r
<1>11. ASSUME NEW i \in p .. n  PROVE r[i + 1] = s[i]
  <2>1. /\ i + 1 \in 1 .. n + 1 /\ ~ (i + 1 <= p) /\ (i + 1) - p \in 1 .. n + 1 - p
        /\ p + ((i + 1) - p) - 1 = i
    BY <1>1
  <2>2. r[i + 1] = c[(i + 1) - p]
    BY <1>7, <2>1 DEF r
  <2> QED  BY <1>3, <2>1, <2>2
<1> QED  BY <1>7, <1>8, <1>9, <1>10, <1>11 DEF n, r

\* The first line of a kind is a line of that kind.
LEMMA FirstIsALine ==
  ASSUME NEW S, NEW text \in Seq(S), NEW kind, LinesOf(text, {kind}) # {}
  PROVE  FirstOf(text, kind) \in 1 .. Len(text) /\ text[FirstOf(text, kind)] = kind
<1> DEFINE L == LinesOf(text, {kind})
<1>1. L \subseteq Nat /\ L # {}
  BY DEF LinesOf
<1>2. \E i \in L : \A j \in L : i <= j
  <2>1. PICK i \in L : \A j \in L : ~ (<<j, i>> \in OpToRel(<, Nat))
    BY <1>1, WFMin, NatLessThanWellFounded
  <2>2. \A j \in L : ~ (j < i)
    BY <1>1, <2>1, Zenon DEF OpToRel
  <2> HIDE DEF L
  <2> QED  BY <1>1, <2>2
<1>3. FirstOf(text, kind) \in L
  <2> HIDE DEF L
  <2>1. FirstOf(text, kind) = CHOOSE i \in L : \A j \in L : i <= j
    BY DEF FirstOf, L
  <2> QED  BY <1>2, <2>1
<1> QED  BY <1>3 DEF LinesOf

\* How one line reads its scalars.
LineReads(line) ==
  CASE line \in {"load", "load_other", "hidden"} -> <<"reduced">>
    [] line = "loads"                            -> <<"reduced", "reduced">>
    [] line = "checked_load"                     -> <<"checked">>
    [] line = "first_checked"                    -> <<"checked", "reduced">>
    [] OTHER                                     -> <<>>

Lines(text) == [i \in DOMAIN text |-> LineReads(text[i])]

LEMMA TextIsRead ==
  ASSUME NEW text
  PROVE  ScalarReads(text) = FlattenSeq(Lines(text))
  BY DEF ScalarReads, Lines, LineReads

\* The lines of a text that was rewritten without a panic; where the search saw every
\* read, without the hidden ones.
FoundLines == {"checked_load", "anchor", "block", "contract", "other", "guard", "id"}
StrictLines == FoundLines \cup {"hidden"}

\* Lines of the set L read their scalars in the ways of the set R.
ReadWithin(L, R) == \A line \in L : LineReads(line) \in Seq(R)

LEMMA StrictReads ==
  /\ ReadWithin(FoundLines, {"checked"})
  /\ ReadWithin(StrictLines, {"checked", "reduced"})
  /\ LineReads("guard") = <<>> /\ LineReads("id") = <<>>
<1>1. \A line \in FoundLines : line # "checked_load" => LineReads(line) = <<>>
  BY DEF LineReads, FoundLines
<1>2. LineReads("checked_load") = <<"checked">> /\ LineReads("hidden") = <<"reduced">>
  BY DEF LineReads
<1>3. /\ <<>> \in Seq({"checked"}) /\ <<"checked">> \in Seq({"checked"})
      /\ <<>> \in Seq({"checked", "reduced"}) /\ <<"checked">> \in Seq({"checked", "reduced"})
      /\ <<"reduced">> \in Seq({"checked", "reduced"})
  OBVIOUS
<1>4. ReadWithin(FoundLines, {"checked"})
  BY <1>1, <1>2, <1>3, Zenon DEF ReadWithin
<1>5. \A line \in StrictLines : LineReads(line) \in Seq({"checked", "reduced"})
  <2> SUFFICES ASSUME NEW line \in StrictLines  PROVE LineReads(line) \in Seq({"checked", "reduced"})
    OBVIOUS
  <2>1. CASE line = "hidden"
    BY <1>2, <1>3, <2>1, Zenon
  <2>2. CASE line = "checked_load"
    BY <1>2, <1>3, <2>2, Zenon
  <2>3. CASE line # "hidden" /\ line # "checked_load"
    <3>1. line \in FoundLines
      BY <2>3 DEF StrictLines
    <3> QED  BY <1>1, <1>3, <2>3, <3>1, Zenon
  <2> QED  BY <2>1, <2>2, <2>3
<1>6. LineReads("guard") = <<>> /\ LineReads("id") = <<>>
  BY <1>1 DEF FoundLines
<1> QED  BY <1>4, <1>5, <1>6 DEF ReadWithin

LEMMA ReadingsOfLines ==
  ASSUME NEW L, NEW R, ReadWithin(L, R), NEW text \in Seq(L)
  PROVE  Lines(text) \in Seq(Seq(R)) /\ Len(Lines(text)) = Len(text)
<1>1. \A i \in 1 .. Len(text) : LineReads(text[i]) \in Seq(R)
  BY DEF ReadWithin
<1>2. Lines(text) \in [1 .. Len(text) -> Seq(R)]
  <2>1. Lines(text) = [i \in 1 .. Len(text) |-> LineReads(text[i])]
    BY DEF Lines
  <2> QED  BY <1>1, <2>1
<1> QED  BY <1>2

\* The guard and the getter read nothing.
LEMMA InsertionReadsNothing ==
  ASSUME NEW L, NEW R, ReadWithin(L, R), NEW text \in Seq(L),
         NEW line \in L, LineReads(line) = <<>>, NEW p \in 1 .. Len(text) + 1
  PROVE  ScalarReads(InsertAt(text, p, line)) = ScalarReads(text)
<1> DEFINE longer == InsertAt(text, p, line)
           a == Lines(text)
           b == Lines(longer)
<1>1. /\ longer \in Seq(L) /\ Len(longer) = Len(text) + 1 /\ longer[p] = line
      /\ \A i \in 1 .. p - 1 : longer[i] = text[i]
      /\ \A i \in p .. Len(text) : longer[i + 1] = text[i]
  BY Inserted
<1> HIDE DEF longer
<1>2. a \in Seq(Seq(R)) /\ Len(a) = Len(text) /\ b \in Seq(Seq(R)) /\ Len(b) = Len(text) + 1
  BY <1>1, ReadingsOfLines
<1>3. (\A i \in 1 .. Len(text) : a[i] = LineReads(text[i])) /\ (\A i \in 1 .. Len(text) + 1 : b[i] = LineReads(longer[i]))
  BY <1>1 DEF Lines
<1> HIDE DEF a, b
<1>4. Len(text) \in Nat
  OBVIOUS
<1>5. b[p] = <<>>
  BY <1>1, <1>3
<1>6. \A i \in 1 .. p - 1 : b[i] = a[i]
  <2>1. \A i \in 1 .. p - 1 : i \in 1 .. Len(text) /\ i \in 1 .. Len(text) + 1
    BY <1>4
  <2> QED  BY <1>1, <1>3, <2>1
<1>7. \A i \in p .. Len(text) : b[i + 1] = a[i]
  <2>1. \A i \in p .. Len(text) : i \in 1 .. Len(text) /\ i + 1 \in 1 .. Len(text) + 1
    BY <1>4
  <2> QED  BY <1>1, <1>3, <2>1
<1>8. FlattenSeq(b) = FlattenSeq(a)
  <2>1. p \in 1 .. Len(b) /\ Len(b) = Len(a) + 1
    BY <1>2
  <2>2. \A i \in p .. Len(a) : b[i + 1] = a[i]
    BY <1>2, <1>7
  <2> QED  BY <1>2, <1>5, <1>6, <2>1, <2>2, EmptyAddsNothing
<1> QED  BY <1>8, TextIsRead DEF a, b, longer

\* A text that is rewritten without a panic reads as many scalars afterwards, in the ways
\* that its lines then have, and checks the length of the calldata.
LEMMA RewrittenReads ==
  ASSUME NEW text \in SdkTexts, Returns(text),
         NEW L, NEW R, ReadWithin(L, R), "guard" \in L, "id" \in L,
         \A i \in DOMAIN text : Checked(text[i]) \in L
  PROVE  /\ LinesOf(solidity_verifier(text), {"guard"}) # {}
         /\ Len(ScalarReads(solidity_verifier(text))) = PUBLIC_INPUTS + PROOF_SCALARS
         /\ ScalarReads(solidity_verifier(text)) \in Seq(R)
<1> DEFINE n == Len(text)
           checked == [i \in DOMAIN text |-> Checked(text[i])]
           p == FirstOf(checked, "anchor") + 1
           strict == InsertAt(checked, p, "guard")
<1>1. text \in Seq(SdkLines) /\ Len(ScalarReads(text)) = PUBLIC_INPUTS + PROOF_SCALARS
  <2>1. \E m \in 0 .. MAX_LINES : text \in [1 .. m -> SdkLines]
    BY DEF SdkTexts, SeqOf
  <2>2. PICK m \in Nat : text \in [1 .. m -> SdkLines]
    BY <2>1, SizesAssumption
  <2> QED  BY <2>2 DEF SdkTexts
<1>2. n \in Nat /\ DOMAIN text = 1 .. n /\ \A i \in 1 .. n : text[i] \in SdkLines
  BY <1>1
<1>3. \A i \in 1 .. n : text[i] \in {"load", "hidden", "anchor", "block", "contract", "other"}
  BY <1>2 DEF Returns, LoadTemplateHolds, LinesOf, SdkLines, Readers, Openers
<1>4. checked \in Seq(L) /\ Len(checked) = n
  <2>1. \A i \in 1 .. n : Checked(text[i]) \in L
    BY <1>2
  <2>2. checked \in [1 .. n -> L]
    BY <1>2, <2>1
  <2> HIDE DEF checked
  <2> QED  BY <1>2, <2>2
<1>5. \A i \in 1 .. n : checked[i] = Checked(text[i])
  BY <1>2
<1> HIDE DEF n
<1>6. LinesOf(checked, {"anchor"}) # {}
  <2>1. \E i \in 1 .. n : text[i] = "anchor"
    <3>1. LinesOf(text, {"anchor"}) # {}
      BY FS_EmptySet DEF Returns, OneAnchor, Count
    <3> QED  BY <1>2, <3>1 DEF LinesOf
  <2>2. \E i \in 1 .. n : checked[i] = "anchor"
    BY <1>5, <2>1 DEF Checked
  <2>3. DOMAIN checked = 1 .. n
    BY <1>2
  <2> HIDE DEF checked
  <2> QED  BY <2>2, <2>3 DEF LinesOf
<1>7. Len(ScalarReads(checked)) = Len(ScalarReads(text))
  <2> DEFINE a == Lines(checked)
             b == Lines(text)
             Read == {"checked", "reduced"}
  <2>1. \A i \in 1 .. n : /\ LineReads(checked[i]) \in Seq(Read) /\ LineReads(text[i]) \in Seq(Read)
                          /\ Len(LineReads(checked[i])) = Len(LineReads(text[i]))
    <3> SUFFICES ASSUME NEW i \in 1 .. n
                 PROVE  /\ LineReads(checked[i]) \in Seq(Read) /\ LineReads(text[i]) \in Seq(Read)
                        /\ Len(LineReads(checked[i])) = Len(LineReads(text[i]))
      OBVIOUS
    <3>1. /\ <<"checked">> \in Seq(Read) /\ <<"reduced">> \in Seq(Read) /\ <<>> \in Seq(Read)
          /\ Len(<<"checked">>) = 1 /\ Len(<<"reduced">>) = 1
      OBVIOUS
    <3>2. CASE text[i] = "load"
      <4>1. checked[i] = "checked_load"
        BY <1>5, <3>2 DEF Checked
      <4>2. LineReads("checked_load") = <<"checked">> /\ LineReads("load") = <<"reduced">>
        BY DEF LineReads
      <4> QED  BY <3>1, <3>2, <4>1, <4>2, Zenon
    <3>3. CASE text[i] # "load"
      <4>1. checked[i] = text[i]
        BY <1>3, <1>5, <3>3 DEF Checked
      <4>2. LineReads(text[i]) = <<>> \/ LineReads(text[i]) = <<"reduced">>
        BY <1>3, <3>3 DEF LineReads
      <4> QED  BY <3>1, <4>1, <4>2, Zenon
    <3> QED  BY <3>2, <3>3
  <2>2. a \in Seq(Seq(Read)) /\ b \in Seq(Seq(Read)) /\ Len(a) = n /\ Len(b) = n
    <3>1. DOMAIN checked = 1 .. n /\ DOMAIN text = 1 .. n
      BY <1>2
    <3> HIDE DEF checked, Read
    <3>2. a \in [1 .. n -> Seq(Read)] /\ b \in [1 .. n -> Seq(Read)]
      BY <2>1, <3>1 DEF Lines
    <3> HIDE DEF a, b
    <3> QED  BY <1>2, <3>2
  <2>3. \A i \in 1 .. n : a[i] = LineReads(checked[i]) /\ b[i] = LineReads(text[i])
    <3>1. DOMAIN checked = 1 .. n /\ DOMAIN text = 1 .. n
      BY <1>2
    <3> HIDE DEF checked
    <3> QED  BY <3>1 DEF Lines
  <2>4. ScalarReads(checked) = FlattenSeq(a) /\ ScalarReads(text) = FlattenSeq(b)
    BY TextIsRead
  <2> HIDE DEF a, b, Read, checked
  <2>5. Len(a) = Len(b) /\ \A i \in 1 .. Len(a) : Len(a[i]) = Len(b[i])
    BY <2>1, <2>2, <2>3
  <2>6. Len(FlattenSeq(a)) = Len(FlattenSeq(b))
    BY <2>2, <2>5, SameLengths
  <2> QED  BY <2>4, <2>6
<1> HIDE DEF checked
<1>8. p \in 1 .. Len(checked) + 1
  <2>1. FirstOf(checked, "anchor") \in 1 .. Len(checked)
    BY <1>4, <1>6, FirstIsALine
  <2> QED  BY <1>2, <1>4, <2>1
<1> HIDE DEF p
<1>9. LineReads("guard") = <<>> /\ LineReads("id") = <<>>
  BY StrictReads
<1>10. /\ strict \in Seq(L) /\ Len(strict) = n + 1 /\ strict[p] = "guard" /\ p \in 1 .. n + 1
       /\ ScalarReads(strict) = ScalarReads(checked)
  <2>1. /\ strict \in Seq(L) /\ Len(strict) = Len(checked) + 1 /\ strict[p] = "guard"
    BY <1>4, <1>8, <1>9, Inserted
  <2>2. ScalarReads(strict) = ScalarReads(checked)
    BY <1>4, <1>8, <1>9, InsertionReadsNothing
  <2> QED  BY <1>4, <1>8, <2>1, <2>2
<1>11. strict_solidity_verifier(text) = strict
  BY DEF strict_solidity_verifier, Guarded, p, checked
<1> HIDE DEF strict
<1> DEFINE full == solidity_verifier(text)
<1>12. /\ full \in Seq(L) /\ ScalarReads(full) = ScalarReads(strict)
       /\ \E i \in DOMAIN full : full[i] = "guard"
  <2>1. CASE LinesOf(strict, {"contract"}) = {}
    <3>1. full = strict
      BY <1>11, <2>1 DEF solidity_verifier
    <3>2. p \in DOMAIN strict
      BY <1>10
    <3> QED  BY <1>10, <3>1, <3>2
  <2>2. CASE LinesOf(strict, {"contract"}) # {}
    <3> DEFINE q == FirstOf(strict, "contract") + 1
    <3>1. full = InsertAt(strict, q, "id")
      BY <1>11, <2>2 DEF solidity_verifier
    <3>2. q \in 1 .. Len(strict) + 1
      <4>1. FirstOf(strict, "contract") \in 1 .. Len(strict)
        BY <1>10, <2>2, FirstIsALine
      <4> QED  BY <1>2, <1>10, <4>1
    <3> HIDE DEF q, full
    <3>3. /\ full \in Seq(L) /\ ScalarReads(full) = ScalarReads(strict)
          /\ Len(full) = Len(strict) + 1
          /\ \A i \in 1 .. q - 1 : full[i] = strict[i]
          /\ \A i \in q .. Len(strict) : full[i + 1] = strict[i]
      <4>1. ScalarReads(full) = ScalarReads(strict)
        BY <1>9, <1>10, <3>1, <3>2, InsertionReadsNothing
      <4> HIDE DEF strict
      <4>2. /\ full \in Seq(L) /\ Len(full) = Len(strict) + 1
            /\ \A i \in 1 .. q - 1 : full[i] = strict[i]
            /\ \A i \in q .. Len(strict) : full[i + 1] = strict[i]
        <5>1. strict \in Seq(L) /\ "id" \in L
          BY <1>9, <1>10
        <5> DEFINE longer == InsertAt(strict, q, "id")
        <5>2. /\ longer \in Seq(L) /\ Len(longer) = Len(strict) + 1
              /\ \A i \in 1 .. q - 1 : longer[i] = strict[i]
              /\ \A i \in q .. Len(strict) : longer[i + 1] = strict[i]
          BY <3>2, <5>1, Inserted
        <5> QED  BY <3>1, <5>2, Zenon
      <4> QED  BY <4>1, <4>2
    <3>4. \E i \in 1 .. Len(full) : full[i] = "guard"
      <4>1. CASE p < q
        <5>1. p \in 1 .. q - 1 /\ p \in 1 .. Len(full)
          BY <1>2, <1>10, <3>2, <3>3, <4>1
        <5> QED  BY <1>10, <3>3, <5>1
      <4>2. CASE ~ (p < q)
        <5>1. p \in q .. Len(strict) /\ p + 1 \in 1 .. Len(full)
          BY <1>2, <1>10, <3>2, <3>3, <4>2
        <5> QED  BY <1>10, <3>3, <5>1
      <4> QED  BY <4>1, <4>2
    <3> QED  BY <3>3, <3>4
  <2> QED  BY <2>1, <2>2
<1> HIDE DEF full
<1>13. ScalarReads(full) \in Seq(R)
  <2>1. PICK flat \in [0 .. Len(Lines(full)) -> Seq(R)] :
          FlattenSeq(Lines(full)) = flat[Len(Lines(full))]
    <3>1. Lines(full) \in Seq(Seq(R))
      BY <1>12, ReadingsOfLines
    <3> QED  BY <3>1, Flattened
  <2>2. Len(Lines(full)) \in Nat
    BY <1>12, ReadingsOfLines
  <2> QED  BY <2>1, <2>2, TextIsRead
<1>14. LinesOf(full, {"guard"}) # {}
  BY <1>12 DEF LinesOf
<1> QED  BY <1>1, <1>7, <1>10, <1>12, <1>13, <1>14 DEF full

LEMMA VerifierShape ==
  ASSUME NEW verifier \in Verifiers
  PROVE  /\ verifier.guarded
         /\ calldata_bytes = INSTANCE_BYTES + PROOF_BYTES
         /\ DOMAIN verifier.reads = 1 .. PUBLIC_INPUTS + PROOF_SCALARS
         /\ verifier.found => \A i \in DOMAIN verifier.reads : verifier.reads[i] = "checked"
<1>1. PICK text \in SdkTexts : Returns(text) /\ verifier = Behaviour(text)
  BY DEF Verifiers
<1> DEFINE reads == ScalarReads(solidity_verifier(text))
<1>2. \A i \in DOMAIN text : text[i] \in {"load", "hidden", "anchor", "block", "contract", "other"}
  <2>1. PICK m \in 0 .. MAX_LINES : text \in [1 .. m -> SdkLines]
    BY DEF SdkTexts, SeqOf
  <2> QED  BY <1>1, <2>1 DEF Returns, LoadTemplateHolds, LinesOf, SdkLines, Readers, Openers
<1>3. \A i \in DOMAIN text : Checked(text[i]) \in StrictLines
  BY <1>2 DEF Checked, StrictLines, FoundLines
<1>4. "guard" \in FoundLines /\ "id" \in FoundLines /\ "guard" \in StrictLines /\ "id" \in StrictLines
  BY DEF StrictLines, FoundLines
<1>5. LinesOf(solidity_verifier(text), {"guard"}) # {}
      /\ Len(reads) = PUBLIC_INPUTS + PROOF_SCALARS /\ reads \in Seq({"checked", "reduced"})
  BY <1>1, <1>3, <1>4, StrictReads, RewrittenReads
<1>6. ASSUME LinesOf(text, {"hidden"}) = {}  PROVE reads \in Seq({"checked"})
  <2>1. \A i \in DOMAIN text : text[i] # "hidden"
    BY <1>6 DEF LinesOf
  <2>2. \A i \in DOMAIN text : Checked(text[i]) \in FoundLines
    BY <1>2, <2>1 DEF Checked, FoundLines
  <2> QED  BY <1>1, <1>4, <2>2, StrictReads, RewrittenReads
<1>7. /\ verifier.reads = reads /\ verifier.guarded
      /\ verifier.found <=> LinesOf(text, {"hidden"}) = {}
  BY <1>1, <1>5 DEF Behaviour
<1> HIDE DEF reads
<1>8. DOMAIN reads = 1 .. PUBLIC_INPUTS + PROOF_SCALARS
  BY <1>5
<1>9. ASSUME verifier.found  PROVE \A i \in DOMAIN reads : reads[i] = "checked"
  BY <1>6, <1>7, <1>9
<1>10. calldata_bytes = INSTANCE_BYTES + PROOF_BYTES
  BY Sizes DEF calldata_bytes, checked_add
<1> QED  BY <1>7, <1>8, <1>9, <1>10

-----------------------------------------------------------------------------
(* Decoding *)

ProofOf(bytes) == SubSeq(bytes, INSTANCE_BYTES + 1, Len(bytes))
InputsOf(bytes) == [i \in 1 .. PUBLIC_INPUTS |-> WordAt(bytes, i)]

\* The bytes that decoding accepts: of the length asked for, and each input in the field.
IsCalldata(bytes, proof_bytes) ==
  /\ Len(bytes) = INSTANCE_BYTES + proof_bytes
  /\ Len(bytes) <= USIZE_MAX
  /\ \A i \in 1 .. PUBLIC_INPUTS : FitsField(WordAt(bytes, i))

LEMMA Words ==
  ASSUME NEW bytes \in Seq(Byte), NEW n
  PROVE  /\ WordAt(bytes, n) \in Nat
         /\ FitsField(WordAt(bytes, n)) => WordAt(bytes, n) % MODULUS = WordAt(bytes, n) /\ WordAt(bytes, n) \in Fr
<1>1. WordAt(bytes, n) \in Nat
  BY DigitsOfAWord
<1>2. MODULUS \in Nat \ {0} /\ Fr = 0 .. MODULUS - 1
  BY Sizes
<1>3. \A w \in Nat : w < MODULUS => w % MODULUS = w /\ w \in Fr
  BY <1>2
<1> QED  BY <1>1, <1>3 DEF FitsField

LEMMA DecodesWhen ==
  ASSUME NEW bytes \in Seq(Byte), NEW proof_bytes \in Nat
  PROVE  /\ decode_calldata(bytes, proof_bytes).ok <=> IsCalldata(bytes, proof_bytes)
         /\ IsCalldata(bytes, proof_bytes) =>
              decode_calldata(bytes, proof_bytes) =
                [ok |-> TRUE, panic |-> FALSE, instances |-> InputsOf(bytes), proof |-> ProofOf(bytes)]
<1> DEFINE decoded == decode_calldata(bytes, proof_bytes)
           IsLong == checked_add(INSTANCE_BYTES, proof_bytes) # Len(bytes)
           IsOff == \E i \in 1 .. PUBLIC_INPUTS : ~FitsField(WordAt(bytes, i))
           fields == [i \in 1 .. PUBLIC_INPUTS |-> WordAt(bytes, i) % MODULUS]
<1>1. decoded = IF IsLong THEN Error
               ELSE IF ~SlicesFit(bytes) THEN [ok |-> TRUE, panic |-> TRUE]
               ELSE IF IsOff THEN Error
               ELSE [ok |-> TRUE, panic |-> FALSE, instances |-> fields, proof |-> ProofOf(bytes)]
  BY DEF decode_calldata, ProofOf
<1>2. INSTANCE_BYTES \in Nat /\ Len(bytes) \in Nat /\ USIZE_MAX \in Nat
  BY Sizes
<1>3. ~IsLong <=> Len(bytes) = INSTANCE_BYTES + proof_bytes /\ Len(bytes) <= USIZE_MAX
  BY <1>2 DEF checked_add
<1>4. ~IsLong => SlicesFit(bytes)
  BY <1>2, <1>3 DEF SlicesFit
<1>5. IsCalldata(bytes, proof_bytes) <=> ~IsLong /\ ~IsOff
  BY <1>3 DEF IsCalldata
<1>6. ~IsOff => fields = InputsOf(bytes)
  BY Words DEF InputsOf
<1> HIDE DEF decoded, IsLong, IsOff, fields
<1>7. IsLong \/ IsOff => decoded = Error
  BY <1>1, <1>4
<1>8. ~IsLong /\ ~IsOff =>
        decoded = [ok |-> TRUE, panic |-> FALSE, instances |-> InputsOf(bytes), proof |-> ProofOf(bytes)]
  BY <1>1, <1>4, <1>6
<1>9. decoded.ok <=> ~IsLong /\ ~IsOff
  <2>1. CASE ~IsLong /\ ~IsOff
    <3>1. decoded.ok
      BY <1>8, <2>1
    <3> QED  BY <2>1, <3>1
  <2>2. CASE IsLong \/ IsOff
    <3>1. decoded.ok = FALSE
      BY <1>7, <2>2 DEF Error
    <3> QED  BY <2>2, <3>1
  <2> QED  BY <2>1, <2>2
<1> QED  BY <1>5, <1>8, <1>9 DEF decoded

\* The proof's bytes, and its words in place.
LEMMA ProofBytes ==
  ASSUME NEW bytes \in Seq(Byte), INSTANCE_BYTES <= Len(bytes)
  PROVE  /\ ProofOf(bytes) \in Seq(Byte)
         /\ Len(ProofOf(bytes)) = Len(bytes) - INSTANCE_BYTES
         /\ \A x \in 1 .. Len(bytes) - INSTANCE_BYTES : ProofOf(bytes)[x] = bytes[INSTANCE_BYTES + x]
<1>1. INSTANCE_BYTES \in Nat /\ Len(bytes) \in Nat /\ \A x \in 1 .. Len(bytes) : bytes[x] \in Byte
  BY Sizes
<1>2. /\ INSTANCE_BYTES + 1 \in Int /\ Len(bytes) \in Int
      /\ \A x \in INSTANCE_BYTES + 1 .. Len(bytes) : bytes[x] \in Byte
  BY <1>1
<1>3. /\ ProofOf(bytes) \in Seq(Byte)
      /\ Len(ProofOf(bytes)) = IF INSTANCE_BYTES + 1 <= Len(bytes)
                               THEN Len(bytes) - (INSTANCE_BYTES + 1) + 1 ELSE 0
      /\ \A x \in 1 .. Len(bytes) - (INSTANCE_BYTES + 1) + 1 :
           ProofOf(bytes)[x] = bytes[(INSTANCE_BYTES + 1) + x - 1]
  BY <1>2, SubSeqProperties DEF ProofOf
<1>4. Len(ProofOf(bytes)) = Len(bytes) - INSTANCE_BYTES
  BY <1>1, <1>3
<1>5. ASSUME NEW x \in 1 .. Len(bytes) - INSTANCE_BYTES
      PROVE  ProofOf(bytes)[x] = bytes[INSTANCE_BYTES + x]
  <2>1. x \in 1 .. Len(bytes) - (INSTANCE_BYTES + 1) + 1 /\ (INSTANCE_BYTES + 1) + x - 1 = INSTANCE_BYTES + x
    BY <1>1
  <2> QED  BY <1>3, <2>1
<1> QED  BY <1>3, <1>4, <1>5

LEMMA PlaceOfProofByte ==
  ASSUME NEW m \in Nat, NEW i \in Nat, NEW k \in Int, NEW w \in Nat
  PROVE  ((m + i) - 1) * w + k = m * w + ((i - 1) * w + k)
  OBVIOUS

LEMMA ProofWords ==
  ASSUME NEW bytes \in Seq(Byte), INSTANCE_BYTES <= Len(bytes), NEW i \in Nat \ {0}
  PROVE  WordAt(ProofOf(bytes), i) = WordAt(bytes, PUBLIC_INPUTS + i)
<1>1. /\ ProofOf(bytes) \in Seq(Byte)
      /\ DOMAIN ProofOf(bytes) = 1 .. Len(bytes) - INSTANCE_BYTES
      /\ \A x \in 1 .. Len(bytes) - INSTANCE_BYTES : ProofOf(bytes)[x] = bytes[INSTANCE_BYTES + x]
  BY ProofBytes
<1>2. /\ INSTANCE_BYTES \in Nat /\ WORD_BYTES \in Nat /\ PUBLIC_INPUTS \in Nat
      /\ Len(bytes) \in Nat /\ DOMAIN bytes = 1 .. Len(bytes)
  BY Sizes
<1>3. ASSUME NEW k \in 1 .. WORD_BYTES
      PROVE  ByteOf(ProofOf(bytes), i, k) = ByteOf(bytes, PUBLIC_INPUTS + i, k)
  <2> DEFINE x == (i - 1) * WORD_BYTES + k
  <2>1. ((PUBLIC_INPUTS + i) - 1) * WORD_BYTES + k = INSTANCE_BYTES + x
    BY <1>2, PlaceOfProofByte DEF INSTANCE_BYTES
  <2>2. x \in Nat \ {0}
    <3>1. i - 1 \in Nat
      OBVIOUS
    <3>2. (i - 1) * WORD_BYTES \in Nat
      BY <1>2, <3>1
    <3> QED  BY <1>2, <3>2
  <2>3. /\ ByteOf(ProofOf(bytes), i, k) = IF x \in DOMAIN ProofOf(bytes) THEN ProofOf(bytes)[x] ELSE 0
        /\ ByteOf(bytes, PUBLIC_INPUTS + i, k) =
             IF INSTANCE_BYTES + x \in DOMAIN bytes THEN bytes[INSTANCE_BYTES + x] ELSE 0
    BY <2>1 DEF ByteOf
  <2> HIDE DEF x
  <2>4. x \in DOMAIN ProofOf(bytes) <=> INSTANCE_BYTES + x \in DOMAIN bytes
    BY <1>1, <1>2, <2>2
  <2> QED  BY <1>1, <2>3, <2>4
<1> QED  BY <1>1, <1>3, SameBytesSameWord

\* What decoding accepts is the encoding of what it returns.
LEMMA AcceptedIsEncoded ==
  ASSUME NEW bytes \in Seq(Byte), NEW proof_bytes \in Nat, IsCalldata(bytes, proof_bytes)
  PROVE  encode_calldata(InputsOf(bytes), ProofOf(bytes)) = bytes
<1> DEFINE e == encode_calldata(InputsOf(bytes), ProofOf(bytes))
           n == Len(bytes)
<1>1. /\ n \in Nat /\ INSTANCE_BYTES \in Nat /\ PUBLIC_INPUTS \in Nat /\ WORD_BYTES \in Nat \ {0}
      /\ INSTANCE_BYTES <= n
  BY Sizes DEF IsCalldata
<1>2. InputsOf(bytes) \in [1 .. PUBLIC_INPUTS -> Nat] /\ \A i \in 1 .. PUBLIC_INPUTS : InputsOf(bytes)[i] = WordAt(bytes, i)
  BY Words DEF InputsOf
<1>3. /\ ProofOf(bytes) \in Seq(Byte)
      /\ Len(ProofOf(bytes)) = n - INSTANCE_BYTES
      /\ \A x \in 1 .. n - INSTANCE_BYTES : ProofOf(bytes)[x] = bytes[INSTANCE_BYTES + x]
  BY <1>1, ProofBytes
<1>4. /\ e \in Seq(Byte)
      /\ Len(e) = INSTANCE_BYTES + Len(ProofOf(bytes))
      /\ \A i \in 1 .. PUBLIC_INPUTS, k \in 1 .. WORD_BYTES :
           e[(i - 1) * WORD_BYTES + k] = field_bytes(InputsOf(bytes)[i])[k]
      /\ \A x \in 1 .. Len(ProofOf(bytes)) : e[INSTANCE_BYTES + x] = ProofOf(bytes)[x]
  BY <1>2, <1>3, EncodedBytes
<1> HIDE DEF e, n
<1>5. ASSUME NEW i \in 1 .. PUBLIC_INPUTS, NEW k \in 1 .. WORD_BYTES
      PROVE  e[(i - 1) * WORD_BYTES + k] = bytes[(i - 1) * WORD_BYTES + k]
  <2>1. (i - 1) * WORD_BYTES + k \in 1 .. INSTANCE_BYTES
    BY <1>1, ByteOfWord DEF INSTANCE_BYTES
  <2>2. (i - 1) * WORD_BYTES + k \in DOMAIN bytes
    BY <1>1, <2>1 DEF n
  <2>3. field_bytes(WordAt(bytes, i)) = [j \in 1 .. WORD_BYTES |-> ByteOf(bytes, i, j)]
    BY DigitsOfAWord
  <2>4. ByteOf(bytes, i, k) = bytes[(i - 1) * WORD_BYTES + k]
    BY <2>2 DEF ByteOf
  <2>5. field_bytes(WordAt(bytes, i))[k] = ByteOf(bytes, i, k)
    BY <2>3
  <2>6. e[(i - 1) * WORD_BYTES + k] = field_bytes(WordAt(bytes, i))[k]
    BY <1>2, <1>4
  <2> QED  BY <2>4, <2>5, <2>6
<1>6. ASSUME NEW x \in 1 .. n  PROVE e[x] = bytes[x]
  <2>1. CASE x <= INSTANCE_BYTES
    <3>1. PICK i \in 1 .. PUBLIC_INPUTS, k \in 1 .. WORD_BYTES : x = (i - 1) * WORD_BYTES + k
      <4>1. x \in 1 .. PUBLIC_INPUTS * WORD_BYTES
        BY <1>1, <2>1 DEF INSTANCE_BYTES
      <4> QED  BY <1>1, <4>1, WordOfByte
    <3> QED  BY <1>5, <3>1
  <2>2. CASE ~ (x <= INSTANCE_BYTES)
    <3> DEFINE y == x - INSTANCE_BYTES
    <3>1. y \in 1 .. n - INSTANCE_BYTES /\ INSTANCE_BYTES + y = x
      BY <1>1, <2>2
    <3> HIDE DEF y
    <3>2. e[INSTANCE_BYTES + y] = ProofOf(bytes)[y]
      BY <1>3, <1>4, <3>1
    <3> QED  BY <1>3, <3>1, <3>2
  <2> QED  BY <2>1, <2>2
<1>7. Len(e) = n
  BY <1>1, <1>3, <1>4
<1> QED  BY <1>4, <1>6, <1>7 DEF n, e

\* Each word of an encoding is the number it was written for.
LEMMA EncodingIsRead ==
  ASSUME NEW inputs \in InputLists, NEW bytes,
         bytes = encode_calldata(inputs, field_list_bytes(ValidProof[inputs]))
  PROVE  /\ bytes \in Seq(Byte)
         /\ Len(bytes) = INSTANCE_BYTES + PROOF_BYTES
         /\ \A i \in 1 .. PUBLIC_INPUTS : WordAt(bytes, i) = inputs[i]
         /\ \A i \in 1 .. PROOF_SCALARS : WordAt(bytes, PUBLIC_INPUTS + i) = ValidProof[inputs][i]
<1> DEFINE scalars == ValidProof[inputs]
           tail == field_list_bytes(scalars)
<1>1. /\ INSTANCE_BYTES \in Nat /\ PROOF_BYTES \in Nat /\ PUBLIC_INPUTS \in Nat /\ PROOF_SCALARS \in Nat
      /\ WORD_BYTES \in Nat \ {0} /\ MODULUS \in Nat /\ Fr = 0 .. MODULUS - 1
  BY Sizes
<1>2. inputs \in [1 .. PUBLIC_INPUTS -> Fr] /\ scalars \in [1 .. PROOF_SCALARS -> Fr]
  BY EncodingAssumption DEF InputLists
<1>3. inputs \in [1 .. PUBLIC_INPUTS -> Nat] /\ scalars \in [1 .. PROOF_SCALARS -> Nat]
  BY <1>1, <1>2
<1>4. \A v \in Fr : v \in Nat /\ v < PlaceValue[WORD_BYTES]
  <2>1. PlaceValue[WORD_BYTES] \in Nat /\ MODULUS <= PlaceValue[WORD_BYTES]
    BY <1>1, Places, EncodingAssumption
  <2> QED  BY <1>1, <2>1
<1>5. bytes = encode_calldata(inputs, tail)
  OBVIOUS
<1> HIDE DEF scalars
<1>6. /\ tail \in Seq(Byte)
      /\ Len(tail) = PROOF_BYTES
      /\ \A i \in 1 .. PROOF_SCALARS, k \in 1 .. WORD_BYTES :
           tail[(i - 1) * WORD_BYTES + k] = field_bytes(scalars[i])[k]
  BY <1>1, <1>3, ListBytes DEF PROOF_BYTES
<1> HIDE DEF tail
<1>7. /\ bytes \in Seq(Byte)
      /\ Len(bytes) = INSTANCE_BYTES + Len(tail)
      /\ \A i \in 1 .. PUBLIC_INPUTS, k \in 1 .. WORD_BYTES :
           bytes[(i - 1) * WORD_BYTES + k] = field_bytes(inputs[i])[k]
      /\ \A x \in 1 .. Len(tail) : bytes[INSTANCE_BYTES + x] = tail[x]
  <2> DEFINE e == encode_calldata(inputs, tail)
  <2>1. /\ e \in Seq(Byte)
        /\ Len(e) = INSTANCE_BYTES + Len(tail)
        /\ \A i \in 1 .. PUBLIC_INPUTS, k \in 1 .. WORD_BYTES :
             e[(i - 1) * WORD_BYTES + k] = field_bytes(inputs[i])[k]
        /\ \A x \in 1 .. Len(tail) : e[INSTANCE_BYTES + x] = tail[x]
    BY <1>3, <1>6, EncodedBytes
  <2> HIDE DEF e
  <2>2. bytes = e
    BY <1>5 DEF e
  <2> QED  BY <2>1, <2>2, Zenon
<1>8. Len(bytes) = INSTANCE_BYTES + PROOF_BYTES /\ DOMAIN bytes = 1 .. INSTANCE_BYTES + PROOF_BYTES
  BY <1>6, <1>7
<1>9. ASSUME NEW i \in 1 .. PUBLIC_INPUTS  PROVE WordAt(bytes, i) = inputs[i]
  <2>1. ASSUME NEW k \in 1 .. WORD_BYTES  PROVE ByteOf(bytes, i, k) = field_bytes(inputs[i])[k]
    <3>1. (i - 1) * WORD_BYTES + k \in 1 .. INSTANCE_BYTES
      BY <1>1, ByteOfWord DEF INSTANCE_BYTES
    <3>2. (i - 1) * WORD_BYTES + k \in DOMAIN bytes
      BY <1>1, <1>8, <3>1
    <3> QED  BY <1>7, <3>2 DEF ByteOf
  <2>2. inputs[i] \in Nat /\ inputs[i] < PlaceValue[WORD_BYTES]
    BY <1>2, <1>4
  <2> QED  BY <1>7, <2>1, <2>2, WordOfDigits
<1>10. ASSUME NEW i \in 1 .. PROOF_SCALARS  PROVE WordAt(bytes, PUBLIC_INPUTS + i) = scalars[i]
  <2>1. ASSUME NEW k \in 1 .. WORD_BYTES
        PROVE  ByteOf(bytes, PUBLIC_INPUTS + i, k) = field_bytes(scalars[i])[k]
    <3> DEFINE x == (i - 1) * WORD_BYTES + k
    <3>1. x \in 1 .. PROOF_BYTES
      BY <1>1, ByteOfWord DEF PROOF_BYTES
    <3>2. ((PUBLIC_INPUTS + i) - 1) * WORD_BYTES + k = INSTANCE_BYTES + x
      BY <1>1, PlaceOfProofByte DEF INSTANCE_BYTES
    <3>3. tail[x] = field_bytes(scalars[i])[k]
      BY <1>6
    <3>4. ByteOf(bytes, PUBLIC_INPUTS + i, k) =
            IF INSTANCE_BYTES + x \in DOMAIN bytes THEN bytes[INSTANCE_BYTES + x] ELSE 0
      BY <3>2 DEF ByteOf
    <3> HIDE DEF x
    <3>5. INSTANCE_BYTES + x \in DOMAIN bytes /\ bytes[INSTANCE_BYTES + x] = tail[x]
      BY <1>1, <1>6, <1>7, <1>8, <3>1
    <3> QED  BY <3>3, <3>4, <3>5
  <2>2. scalars[i] \in Nat /\ scalars[i] < PlaceValue[WORD_BYTES]
    BY <1>2, <1>4
  <2> QED  BY <1>7, <2>1, <2>2, WordOfDigits
<1> QED  BY <1>7, <1>8, <1>9, <1>10 DEF scalars

\* What both readers accept.
IsProof(bytes) ==
  /\ Len(bytes) = INSTANCE_BYTES + PROOF_BYTES
  /\ \A i \in 1 .. PUBLIC_INPUTS + PROOF_SCALARS : FitsField(WordAt(bytes, i))
  /\ \A i \in 1 .. PROOF_SCALARS : WordAt(bytes, PUBLIC_INPUTS + i) = ValidProof[InputsOf(bytes)][i]

\* Words of inputs in the field are a list that has a proof.
LEMMA ProofsFit ==
  ASSUME NEW bytes \in Seq(Byte), \A i \in 1 .. PUBLIC_INPUTS : FitsField(WordAt(bytes, i))
  PROVE  /\ InputsOf(bytes) \in InputLists
         /\ \A i \in 1 .. PROOF_SCALARS : FitsField(ValidProof[InputsOf(bytes)][i])
<1>1. InputsOf(bytes) \in InputLists
  BY Words DEF InputsOf, InputLists
<1>2. ValidProof[InputsOf(bytes)] \in [1 .. PROOF_SCALARS -> Fr]
  BY <1>1, EncodingAssumption
<1>3. MODULUS \in Nat /\ \A v \in 0 .. MODULUS - 1 : v < MODULUS
  BY Sizes
<1> QED  BY <1>1, <1>2, <1>3 DEF Fr, FitsField

LEMMA PlacesOfWords ==
  /\ \A i \in 1 .. PUBLIC_INPUTS : i \in 1 .. PUBLIC_INPUTS + PROOF_SCALARS
  /\ \A i \in 1 .. PROOF_SCALARS : PUBLIC_INPUTS + i \in 1 .. PUBLIC_INPUTS + PROOF_SCALARS
  /\ \A i \in 1 .. PUBLIC_INPUTS + PROOF_SCALARS :
       i \in 1 .. PUBLIC_INPUTS \/ \E j \in 1 .. PROOF_SCALARS : i = PUBLIC_INPUTS + j
<1>1. PUBLIC_INPUTS \in Nat /\ PROOF_SCALARS \in Nat
  BY Sizes
<1>2. ASSUME NEW i \in 1 .. PUBLIC_INPUTS + PROOF_SCALARS, i \notin 1 .. PUBLIC_INPUTS
      PROVE  \E j \in 1 .. PROOF_SCALARS : i = PUBLIC_INPUTS + j
  <2>1. i - PUBLIC_INPUTS \in 1 .. PROOF_SCALARS /\ i = PUBLIC_INPUTS + (i - PUBLIC_INPUTS)
    BY <1>1, <1>2
  <2> QED  BY <2>1
<1> QED  BY <1>1, <1>2

\* A proof's scalars are in the field, so words equal to them fit.
LEMMA AllWordsFit ==
  ASSUME NEW bytes \in Seq(Byte), \A i \in 1 .. PUBLIC_INPUTS : FitsField(WordAt(bytes, i)),
         \A i \in 1 .. PROOF_SCALARS : WordAt(bytes, PUBLIC_INPUTS + i) = ValidProof[InputsOf(bytes)][i]
  PROVE  \A i \in 1 .. PUBLIC_INPUTS + PROOF_SCALARS : FitsField(WordAt(bytes, i))
<1>1. \A j \in 1 .. PROOF_SCALARS : FitsField(WordAt(bytes, PUBLIC_INPUTS + j))
  BY ProofsFit
<1> QED  BY <1>1, PlacesOfWords

LEMMA RustAcceptsProofs ==
  ASSUME NEW bytes \in Seq(Byte)
  PROVE  RustAccepts(bytes) <=> IsProof(bytes)
<1> DEFINE decoded == decode_calldata(bytes, PROOF_BYTES)
<1>1. PROOF_BYTES \in Nat /\ INSTANCE_BYTES \in Nat /\ INSTANCE_BYTES + PROOF_BYTES <= USIZE_MAX
      /\ Len(bytes) \in Nat
  BY Sizes
<1>2. /\ decoded.ok <=> IsCalldata(bytes, PROOF_BYTES)
      /\ IsCalldata(bytes, PROOF_BYTES) =>
           decoded = [ok |-> TRUE, panic |-> FALSE, instances |-> InputsOf(bytes), proof |-> ProofOf(bytes)]
  BY <1>1, DecodesWhen
<1>3. RustAccepts(bytes) <=> decoded.ok /\ ~decoded.panic /\ RustVerifies(decoded.instances, decoded.proof)
  BY DEF RustAccepts
<1> HIDE DEF decoded
<1>4. RustAccepts(bytes) <=> IsCalldata(bytes, PROOF_BYTES) /\ RustVerifies(InputsOf(bytes), ProofOf(bytes))
  <2>1. CASE IsCalldata(bytes, PROOF_BYTES)
    <3>1. /\ decoded.ok /\ ~decoded.panic
          /\ decoded.instances = InputsOf(bytes) /\ decoded.proof = ProofOf(bytes)
      BY <1>2, <2>1
    <3> QED  BY <1>3, <2>1, <3>1
  <2>2. CASE ~IsCalldata(bytes, PROOF_BYTES)
    BY <1>2, <1>3, <2>2
  <2> QED  BY <2>1, <2>2
<1>5. IsCalldata(bytes, PROOF_BYTES) <=>
        /\ Len(bytes) = INSTANCE_BYTES + PROOF_BYTES
        /\ \A i \in 1 .. PUBLIC_INPUTS : FitsField(WordAt(bytes, i))
  BY <1>1 DEF IsCalldata
<1>6. ASSUME Len(bytes) = INSTANCE_BYTES + PROOF_BYTES
      PROVE  RustVerifies(InputsOf(bytes), ProofOf(bytes)) <=>
               \A i \in 1 .. PROOF_SCALARS : WordAt(bytes, PUBLIC_INPUTS + i) = ValidProof[InputsOf(bytes)][i]
  <2>1. INSTANCE_BYTES <= Len(bytes) /\ Len(bytes) - INSTANCE_BYTES = PROOF_BYTES
    BY <1>1, <1>6
  <2>2. Len(ProofOf(bytes)) = PROOF_BYTES
    BY <2>1, ProofBytes
  <2>3. \A i \in 1 .. PROOF_SCALARS : WordAt(ProofOf(bytes), i) = WordAt(bytes, PUBLIC_INPUTS + i)
    BY <2>1, ProofWords
  <2> QED  BY <2>2, <2>3 DEF RustVerifies
<1>7. ASSUME IsProof(bytes)  PROVE RustAccepts(bytes)
  BY <1>4, <1>5, <1>6, <1>7, PlacesOfWords DEF IsProof
<1>8. ASSUME RustAccepts(bytes)  PROVE IsProof(bytes)
  BY <1>4, <1>5, <1>6, <1>8, AllWordsFit DEF IsProof
<1> QED  BY <1>7, <1>8

\* Every verifier that is returned accepts a proof; with every scalar checked, it accepts
\* nothing else.
LEMMA PoolAcceptsProofs ==
  ASSUME NEW bytes \in Seq(Byte), NEW verifier \in Verifiers, SlicesFit(bytes)
  PROVE  /\ IsProof(bytes) => PoolAccepts(verifier, bytes)
         /\ verifier.found /\ PoolAccepts(verifier, bytes) => IsProof(bytes)
<1> DEFINE read == [n \in 1 .. PUBLIC_INPUTS |-> WordAt(bytes, n) % MODULUS]
           Fits == \A i \in 1 .. PUBLIC_INPUTS + PROOF_SCALARS : FitsField(WordAt(bytes, i))
           Valid == \A i \in 1 .. PROOF_SCALARS :
                      WordAt(bytes, PUBLIC_INPUTS + i) % MODULUS = ValidProof[read][i]
<1>1. /\ verifier.guarded
      /\ calldata_bytes = INSTANCE_BYTES + PROOF_BYTES
      /\ DOMAIN verifier.reads = 1 .. PUBLIC_INPUTS + PROOF_SCALARS
      /\ verifier.found => \A i \in DOMAIN verifier.reads : verifier.reads[i] = "checked"
  BY VerifierShape
<1>2. /\ Len(bytes) = INSTANCE_BYTES + PROOF_BYTES /\ Fits /\ Valid => FallbackAccepts(verifier, bytes)
      /\ FallbackAccepts(verifier, bytes) => Len(bytes) = INSTANCE_BYTES + PROOF_BYTES /\ Valid
      /\ verifier.found /\ FallbackAccepts(verifier, bytes) => Fits
  BY <1>1 DEF FallbackAccepts
<1>3. Fits =>
        /\ read = InputsOf(bytes)
        /\ \A i \in 1 .. PROOF_SCALARS :
             WordAt(bytes, PUBLIC_INPUTS + i) % MODULUS = WordAt(bytes, PUBLIC_INPUTS + i)
  BY Words, PlacesOfWords DEF InputsOf
<1> HIDE DEF read
<1>4. IsProof(bytes) <=> Len(bytes) = INSTANCE_BYTES + PROOF_BYTES /\ Fits /\ Valid
  BY <1>3 DEF IsProof
<1> HIDE DEF Fits, Valid
<1>5. ASSUME IsProof(bytes)  PROVE ~IsGetterCall(verifier, bytes)
  <2>1. ASSUME IsGetterCall(verifier, bytes)  PROVE FALSE
    <3>1. WordAt(bytes, 1) >= MODULUS
      BY <2>1, SelectorIsNoField DEF IsGetterCall
    <3>2. WordAt(bytes, 1) < MODULUS
      <4>1. 1 \in 1 .. PUBLIC_INPUTS + PROOF_SCALARS
        BY Sizes
      <4> QED  BY <1>5, <4>1 DEF IsProof, FitsField
    <3>3. WordAt(bytes, 1) \in Nat /\ MODULUS \in Nat
      BY Words, Sizes
    <3> QED  BY <3>1, <3>2, <3>3
  <2> QED  BY <2>1
<1>6. PoolAccepts(verifier, bytes) <=> FallbackAccepts(verifier, bytes) /\ ~IsGetterCall(verifier, bytes)
  BY DEF PoolAccepts, CallSucceeds, CallReturnsNothing
<1> QED  BY <1>2, <1>4, <1>5, <1>6

\* Sending keeps the bytes bytes, and unchanged bytes are the encoding.
CallTyped ==
  /\ instances \in InputLists
  /\ calldata \in Seq(Byte)
  /\ changes \in Nat
  /\ changes = 0 => calldata = encode_calldata(instances, field_list_bytes(ValidProof[instances]))

LEMMA CallStep == CallTyped /\ [CallNext]_callVars => CallTyped'
<1> SUFFICES ASSUME CallTyped, [CallNext]_callVars  PROVE CallTyped'
  OBVIOUS
<1>1. /\ instances \in InputLists /\ calldata \in Seq(Byte) /\ changes \in Nat
      /\ changes = 0 => calldata = encode_calldata(instances, field_list_bytes(ValidProof[instances]))
  BY DEF CallTyped
<1>2. CASE CallNext
  <2>1. instances' = instances /\ changes' \in Nat /\ changes' # 0
    BY <1>1, <1>2 DEF CallNext
  <2>2. CASE Change
    <3>1. PICK i \in DOMAIN calldata, byte \in Byte : calldata' = [calldata EXCEPT ![i] = byte]
      BY <2>2 DEF Change
    <3>2. calldata' \in Seq(Byte)
      BY <1>1, <3>1
    <3> QED  BY <1>1, <2>1, <3>2 DEF CallTyped
  <2>3. CASE Lengthen
    <3>1. PICK byte \in Byte : calldata' = Append(calldata, byte)
      BY <2>3 DEF Lengthen
    <3>2. calldata' \in Seq(Byte)
      BY <1>1, <3>1
    <3> QED  BY <1>1, <2>1, <3>2 DEF CallTyped
  <2>4. CASE Truncate
    <3>1. PICK length \in 0 .. Len(calldata) - 1 : calldata' = SubSeq(calldata, 1, length)
      BY <2>4 DEF Truncate
    <3>2. Len(calldata) \in Nat /\ \A x \in 1 .. Len(calldata) : calldata[x] \in Byte
      BY <1>1
    <3>3. 1 \in Int /\ length \in Int /\ \A x \in 1 .. length : calldata[x] \in Byte
      BY <3>1, <3>2
    <3>4. calldata' \in Seq(Byte)
      BY <3>1, <3>3, SubSeqProperties
    <3> QED  BY <1>1, <2>1, <3>4 DEF CallTyped
  <2> QED  BY <1>2, <2>2, <2>3, <2>4 DEF CallNext
<1>3. CASE UNCHANGED callVars
  BY <1>1, <1>3 DEF CallTyped, callVars
<1> QED  BY <1>2, <1>3

LEMMA CallIsTyped == CallSpec => []CallTyped
<1>1. CallInit => CallTyped
  <2> SUFFICES ASSUME CallInit  PROVE CallTyped
    OBVIOUS
  <2>1. /\ instances \in InputLists /\ changes = 0
        /\ calldata = encode_calldata(instances, field_list_bytes(ValidProof[instances]))
    BY DEF CallInit
  <2>2. calldata \in Seq(Byte)
    BY <2>1, EncodingIsRead
  <2> QED  BY <2>1, <2>2 DEF CallTyped
<1> QED  BY <1>1, CallStep, PTL DEF CallSpec

\* Whatever bytes arrive, of any length, and whatever proof length the caller states:
\* decode_calldata never slices past the end, and no two byte strings decode to the same
\* inputs and proof.
THEOREM CalldataIsCanonical == CallSpec => []DecodingIsCanonical
<1>1. CallTyped => DecodingIsCanonical
  <2> SUFFICES ASSUME CallTyped, NEW proof_bytes \in 0 .. USIZE_MAX,
                      decode_calldata(calldata, proof_bytes).ok
               PROVE  /\ ~decode_calldata(calldata, proof_bytes).panic
                      /\ encode_calldata(decode_calldata(calldata, proof_bytes).instances,
                                         decode_calldata(calldata, proof_bytes).proof) = calldata
    BY DEF DecodingIsCanonical
  <2>1. calldata \in Seq(Byte) /\ proof_bytes \in Nat
    BY DEF CallTyped
  <2>2. IsCalldata(calldata, proof_bytes)
    BY <2>1, DecodesWhen
  <2>3. decode_calldata(calldata, proof_bytes) =
          [ok |-> TRUE, panic |-> FALSE, instances |-> InputsOf(calldata), proof |-> ProofOf(calldata)]
    BY <2>1, <2>2, DecodesWhen
  <2>4. encode_calldata(InputsOf(calldata), ProofOf(calldata)) = calldata
    BY <2>1, <2>2, AcceptedIsEncoded
  <2>5. /\ decode_calldata(calldata, proof_bytes).panic = FALSE
        /\ decode_calldata(calldata, proof_bytes).instances = InputsOf(calldata)
        /\ decode_calldata(calldata, proof_bytes).proof = ProofOf(calldata)
    BY <2>3
  <2> QED  BY <2>4, <2>5
<1> QED  BY <1>1, CallIsTyped, PTL

\* For every field, word size and circuit: a proof encoded for the pool decodes to its
\* inputs, and is accepted by Rust and by every verifier the rewriting can return.
THEOREM CalldataIsAccepted == CallSpec => []EncodedIsAccepted
<1>1. CallTyped => EncodedIsAccepted
  <2> SUFFICES ASSUME CallTyped, changes = 0
               PROVE  /\ decode_calldata(calldata, PROOF_BYTES).instances = instances
                      /\ RustAccepts(calldata)
                      /\ \A verifier \in Verifiers : PoolAccepts(verifier, calldata)
    BY DEF EncodedIsAccepted
  <2>1. /\ instances \in InputLists /\ calldata \in Seq(Byte)
        /\ calldata = encode_calldata(instances, field_list_bytes(ValidProof[instances]))
    BY DEF CallTyped
  <2>2. /\ Len(calldata) = INSTANCE_BYTES + PROOF_BYTES
        /\ \A i \in 1 .. PUBLIC_INPUTS : WordAt(calldata, i) = instances[i]
        /\ \A i \in 1 .. PROOF_SCALARS : WordAt(calldata, PUBLIC_INPUTS + i) = ValidProof[instances][i]
    BY <2>1, EncodingIsRead
  <2>3. instances \in [1 .. PUBLIC_INPUTS -> Fr]
    BY <2>1 DEF InputLists
  <2>4. InputsOf(calldata) = instances
    BY <2>2, <2>3 DEF InputsOf
  <2>5. \A i \in 1 .. PUBLIC_INPUTS : FitsField(WordAt(calldata, i))
    <3>1. \A v \in Fr : v < MODULUS
      BY Sizes
    <3> QED  BY <2>2, <2>3, <3>1 DEF FitsField
  <2>6. IsProof(calldata)
    BY <2>1, <2>2, <2>4, <2>5, AllWordsFit DEF IsProof
  <2>7. /\ INSTANCE_BYTES \in Nat /\ PROOF_BYTES \in Nat
        /\ IsCalldata(calldata, PROOF_BYTES) /\ SlicesFit(calldata)
    BY <2>2, <2>5, Sizes DEF IsCalldata, SlicesFit
  <2>8. decode_calldata(calldata, PROOF_BYTES).instances = instances
    <3>1. decode_calldata(calldata, PROOF_BYTES) =
            [ok |-> TRUE, panic |-> FALSE, instances |-> InputsOf(calldata), proof |-> ProofOf(calldata)]
      BY <2>1, <2>7, DecodesWhen
    <3> QED  BY <2>4, <3>1
  <2> QED  BY <2>1, <2>6, <2>7, <2>8, RustAcceptsProofs, PoolAcceptsProofs
<1> QED  BY <1>1, CallIsTyped, PTL

\* On all bytes of every length: what Rust's verification accepts, the pool accepts with
\* any verifier that the rewriting can return; and a verifier from a text whose reads the
\* search saw, all of them, accepts nothing else.  No second encoding, no unreduced
\* scalar and no getter's answer is a proof to it.
THEOREM CalldataMeansTheSame == CallSpec => []PoolAgreesWithRust
<1>1. CallTyped => PoolAgreesWithRust
  BY RustAcceptsProofs, PoolAcceptsProofs DEF CallTyped, PoolAgreesWithRust
<1> QED  BY <1>1, CallIsTyped, PTL
=============================================================================
