----------------------------- MODULE Artifacts -----------------------------
(***************************************************************************)
(* `generate` of main.rs, and the deployments made from what is on disk.   *)
(* A run writes five files, one after the other, and may stop between two  *)
(* writes.  The four contracts among them are in the repository, so that a *)
(* checkout replaces them too, also while a run goes on.  A deployment     *)
(* compiles what it finds, in a step of its own for each contract; nothing *)
(* keeps runs and checkouts away from it.  The pool's constructor compares *)
(* the verifier's VERIFICATION_KEY_ID with the key library that the pool   *)
(* is compiled with, and knows nothing of the Poseidon it is given.        *)
(*                                                                         *)
(* Keys come from a fixed seed and from the circuit's shape, so every run  *)
(* at a revision writes the same contracts, those the repository has for   *)
(* it.  One run is in progress at a time; a checkout is one step.          *)
(***************************************************************************)
EXTENDS Integers, Sequences

\* The source trees that are checked out, by the verifier they generate and by the
\* text of their hash contracts: solidity.rs changes the second alone, proof.rs the
\* first, the parameters of the hash both.
CONSTANT Revisions

ASSUME RevisionsAssumption ==
  Revisions # {} /\ Revisions \subseteq [verifier : Nat \ {0}, hash : Nat \ {0}]

(* Texts, by what they were generated from *)

Absent == <<"absent">>
Emptied == <<"emptied">>  \* by a write that did not fill it
HoldsText(file) == file # Absent /\ file # Emptied

strict_verifier(r) == <<"verifier", r.verifier>>

\* The Keccak of the verifier's text; the hash is ideal.
KeyId(verifier) == <<"keccak", verifier>>

poseidon_source(width, r) == <<"poseidon", width, r.hash>>
verification_key_source(r) == <<"key", KeyId(strict_verifier(r))>>

\* Variant: both hash contracts have the text of one.
Generated_OneHash(r) ==
  [Halo2Verifier |-> strict_verifier(r), Poseidon1 |-> poseidon_source(1, r),
   Poseidon2 |-> poseidon_source(1, r), VerificationKey |-> verification_key_source(r),
   withdrawal |-> <<"withdrawal", KeyId(strict_verifier(r))>>]

\* What a run at a revision writes.
Generated(r) ==
  [Halo2Verifier |-> strict_verifier(r), Poseidon1 |-> poseidon_source(1, r),
   Poseidon2 |-> poseidon_source(2, r), VerificationKey |-> verification_key_source(r),
   withdrawal |-> <<"withdrawal", KeyId(strict_verifier(r))>>]

\* Variant: the key library is written beside the verifier.
Files_KeyFirst == <<"Halo2Verifier", "VerificationKey", "Poseidon1", "Poseidon2", "withdrawal">>

\* In the order they are written.
Files == <<"Halo2Verifier", "Poseidon1", "Poseidon2", "VerificationKey", "withdrawal">>
Contracts == {"Halo2Verifier", "Poseidon1", "Poseidon2", "VerificationKey"}

NoRun == [verifier |-> 0, hash |-> 0]
NothingCreated == [verifier |-> Absent, poseidon |-> Absent]
NoPool == [verifier |-> Absent, poseidon |-> Absent, key |-> Absent, quiet |-> FALSE]

VARIABLES
  revision,   \* of the source tree
  disk,       \* the text of each file
  running,    \* the revision of the run in progress, or NoRun
  written,    \* files it has written
  deploying,  \* what the deployment creates next
  created,    \* what it has created
  deployed,   \* the last pool: the texts of its contracts, and `quiet`
  begun,      \* rewritings of the contracts begun since they were last one set: 0, 1, more
  quiet       \* the deployment began at begun <= 1, and the disk is as it was then

deploymentVars == <<deploying, created, deployed>>
artifactVars == <<revision, disk, running, written, deploymentVars, begun, quiet>>

\* The four contracts are what one revision generates.
IsOneSet(files) == \E r \in Revisions : \A name \in Contracts : files[name] = Generated(r)[name]

(* The source tree *)

\* An edit, or a checkout that keeps the files that runs have changed.
Edit ==
  /\ revision' \in Revisions \ {revision}
  /\ UNCHANGED <<disk, running, written, deploymentVars, begun, quiet>>

\* A clean checkout: the contracts are the revision's own.  A run in progress keeps
\* its binary, and writes on over them.
Checkout ==
  /\ \E r \in Revisions :
       /\ revision' = r
       /\ disk' = [Generated(r) EXCEPT !.withdrawal = disk.withdrawal]
  /\ begun' = IF running = NoRun THEN 0 ELSE 2
  /\ quiet' = FALSE
  /\ UNCHANGED <<running, written, deploymentVars>>

(* generate_artifacts *)

\* Everything up to the first write: keys, proof, check, texts; it leaves no trace
\* when it fails.
StartGenerate ==
  /\ running = NoRun
  /\ running' = revision
  /\ written' = 0
  /\ begun' = IF begun = 0 THEN 1 ELSE 2
  /\ UNCHANGED <<revision, disk, deploymentVars, quiet>>

EndOfRun ==
  /\ running' = NoRun
  /\ begun' = IF IsOneSet(disk') THEN 0 ELSE begun

\* fs::write of the next file; the last one ends the run.
WriteFile ==
  /\ running # NoRun
  /\ LET name == Files[written + 1]
     IN  disk' = [disk EXCEPT ![name] = Generated(running)[name]]
  /\ written' = written + 1
  /\ IF written' = Len(Files) THEN EndOfRun ELSE UNCHANGED <<running, begun>>
  /\ quiet' = FALSE
  /\ UNCHANGED <<revision, deploymentVars>>

\* An error or a kill, between two writes or inside the next one.
StopHalfWay ==
  /\ running # NoRun
  /\ \/ UNCHANGED <<disk, quiet>>
     \/ disk' = [disk EXCEPT ![Files[written + 1]] = Emptied] /\ quiet' = FALSE
  /\ EndOfRun
  /\ UNCHANGED <<revision, written, deploymentVars>>

(* Deployment *)

\* `forge build` compiles every contract, whatever the deployment uses.  A deployment
\* that fails half way is begun again here.
Build ==
  /\ \A name \in Contracts : HoldsText(disk[name])
  /\ deploying' = "verifier"
  /\ created' = NothingCreated
  /\ quiet' = FALSE
  /\ UNCHANGED <<revision, disk, running, written, deployed, begun>>

\* `forge create` compiles its contract again, from what is on disk by then.
CreateVerifier ==
  /\ deploying = "verifier"
  /\ HoldsText(disk.Halo2Verifier)
  /\ created' = [created EXCEPT !.verifier = disk.Halo2Verifier]
  /\ deploying' = "poseidon"
  /\ quiet' = (begun <= 1)
  /\ UNCHANGED <<revision, disk, running, written, deployed, begun>>

CreatePoseidon ==
  /\ deploying = "poseidon"
  /\ HoldsText(disk.Poseidon2)
  /\ created' = [created EXCEPT !.poseidon = disk.Poseidon2]
  /\ deploying' = "pool"
  /\ UNCHANGED <<revision, disk, running, written, deployed, begun, quiet>>

\* Both dependencies have code, and the verifier's id is the library's.
ConstructorAccepts(dependencies, key) ==
  /\ HoldsText(dependencies.verifier)
  /\ HoldsText(dependencies.poseidon)
  /\ key = <<"key", KeyId(dependencies.verifier)>>

CreatePool ==
  /\ deploying = "pool"
  /\ HoldsText(disk.VerificationKey)
  /\ ConstructorAccepts(created, disk.VerificationKey)
  /\ deployed' = [verifier |-> created.verifier, poseidon |-> created.poseidon,
                  key |-> disk.VerificationKey, quiet |-> quiet]
  /\ deploying' = "none"
  /\ created' = NothingCreated
  /\ quiet' = FALSE
  /\ UNCHANGED <<revision, disk, running, written, begun>>

ArtifactsInit ==
  /\ revision \in Revisions
  /\ disk = [Generated(revision) EXCEPT !.withdrawal = Absent]
  /\ running = NoRun
  /\ written = 0
  /\ deploying = "none"
  /\ created = NothingCreated
  /\ deployed = NoPool
  /\ begun = 0
  /\ quiet = FALSE

ArtifactsNext ==
  \/ Edit \/ Checkout
  \/ StartGenerate \/ WriteFile \/ StopHalfWay
  \/ Build \/ CreateVerifier \/ CreatePoseidon \/ CreatePool

ArtifactsSpec == ArtifactsInit /\ [][ArtifactsNext]_artifactVars

(* Properties *)

VerifierTexts == {strict_verifier(r) : r \in Revisions}
HashTexts(width) == {poseidon_source(width, r) : r \in Revisions}
KeyTexts == {verification_key_source(r) : r \in Revisions}

\* Whatever runs and checkouts did to them, each file on disk is emptied or holds a
\* text of its own kind, and what was created is a verifier and a hash of two inputs.
FilesAreOfTheirKind ==
  /\ revision \in Revisions
  /\ running \in Revisions \cup {NoRun}
  /\ written \in 0 .. Len(Files)
  /\ DOMAIN disk = Contracts \cup {"withdrawal"}
  /\ disk.Halo2Verifier \in VerifierTexts \cup {Emptied}
  /\ disk.Poseidon1 \in HashTexts(1) \cup {Emptied}
  /\ disk.Poseidon2 \in HashTexts(2) \cup {Emptied}
  /\ disk.VerificationKey \in KeyTexts \cup {Emptied}
  /\ deploying \in {"none", "verifier", "poseidon", "pool"}
  /\ created.verifier \in VerifierTexts \cup {Absent}
  /\ created.poseidon \in HashTexts(2) \cup {Absent}
  /\ begun \in 0 .. 2
  /\ quiet \in BOOLEAN

\* The verifier, the hash and the key of a pool are what some one revision generates.
IsMatching(pool) ==
  \E r \in Revisions :
    /\ pool.verifier = strict_verifier(r)
    /\ pool.poseidon = poseidon_source(2, r)
    /\ pool.key = verification_key_source(r)

\* A pool is of one revision, though the constructor (WithdrawalPool.sol:59-68) looks
\* only at the verifier's id, and revisions that differ in their hash alone have one
\* id: where one run, going on or stopped anywhere, has written over one set, the key
\* library is still the old one until both hash contracts are new.  The deployment
\* must not begin after a second run, and the files must not change under it.
DeployedSetMatches == deployed.quiet => IsMatching(deployed)
=============================================================================
