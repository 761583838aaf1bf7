---------------------------- MODULE ProveCommand ----------------------------
(***************************************************************************)
(* The `prove` command of main.rs and the TestKeys of proof.rs it calls.   *)
(* Runs follow one another on one output path; each may stop at an error   *)
(* or be killed at any step.  A library caller may also hand TestKeys a    *)
(* circuit of its own: every field of WithdrawCircuit is public, so its    *)
(* public inputs need not belong to its witness.                           *)
(***************************************************************************)
EXTENDS Prover

CONSTANTS
  Requests,   \* [note, recipient, deployment] an input file may ask for
  Overrides,  \* values of domain_override; Zero stands for none
  MAX_RUNS

Lists == UNION {[0 .. length - 1 -> {Commitment(request.note) : request \in Requests}] :
                  length \in 0 .. TREE_CAPACITY + 1}

\* Input files that hold what prove_from_file reads, as it parses them.
Inputs == [request : Requests, list : Lists, leafIndex : 0 .. TREE_CAPACITY + 1,
           override : Overrides]

NoFile == [status |-> "none"]
NoProof == [statement |-> Zero, satisfied |-> FALSE]

VARIABLES
  caller,   \* "cli" or "library"
  input,
  step,     \* "parse", "path", "prove", "check", "write", "finish" or "stopped"
  result,   \* of the last run: "none", "ok", "error", "killed" and what follows
  circuit,  \* [statement, satisfied]: the public inputs, and whether the witness has them
  proof,    \* the bytes create_proof made, as what they are a proof of
  output,   \* the file at the output path
  runs      \* bounded

vars == <<caller, input, step, result, circuit, proof, output, runs>>

(* prove_from_file *)

Domain(in) ==
  IF in.override = Zero THEN DomainDigest(in.request.deployment) ELSE in.override

\* Variant: no comparison with the leaf.
IsListed_Unchecked(in) == in.leafIndex \in DOMAIN in.list

\* commitments.get(leaf_index) == Some(&note.commitment())
IsListed(in) ==
  /\ in.leafIndex \in DOMAIN in.list
  /\ in.list[in.leafIndex] = Commitment(in.request.note)

\* WithdrawCircuit::new on the rebuilt path: its witness is that of its public inputs.
NewCircuit(in) ==
  LET made == Statement(in.request, in.list, in.leafIndex)
      note == in.request.note
  IN  [statement |-> [made EXCEPT
         !.domain = Domain(in),
         !.binding = WithdrawalBinding(note.nullifier, in.request.recipient, Domain(in))],
       satisfied |-> TRUE]

Stop(outcome) ==
  /\ step' = "stopped"
  /\ result' = outcome

RunCommand ==
  /\ step = "stopped"
  /\ runs < MAX_RUNS
  /\ caller' = "cli"
  /\ input' \in Inputs
  /\ step' = "parse"
  /\ result' = "none"
  /\ proof' = NoProof
  /\ runs' = runs + 1
  /\ UNCHANGED <<circuit, output>>

\* Any ? up to the commitments: arguments, the file, JSON, hex, widths, canonical fields.
ParseFails ==
  /\ step = "parse"
  /\ Stop("error")
  /\ UNCHANGED <<caller, input, circuit, proof, output, runs>>

Parse ==
  /\ step = "parse"
  /\ IF IsListed(input) THEN step' = "path" /\ UNCHANGED result ELSE Stop("error")
  /\ UNCHANGED <<caller, input, circuit, proof, output, runs>>

\* Insert every commitment, build the path and the circuit.
BuildPath ==
  /\ step = "path"
  /\ IF Length(input.list) > TREE_CAPACITY THEN Stop("error") /\ UNCHANGED circuit
     ELSE IF input.leafIndex \notin DOMAIN input.list THEN Stop("no path") /\ UNCHANGED circuit
     ELSE /\ step' = "prove"
          /\ circuit' = NewCircuit(input)
          /\ UNCHANGED result
  /\ UNCHANGED <<caller, input, proof, output, runs>>

(* TestKeys *)

\* A caller of the library: its circuit's statement, with a witness for it or not.
CallProve ==
  /\ step = "stopped"
  /\ runs < MAX_RUNS
  /\ caller' = "library"
  /\ \E in \in {i \in Inputs : i.leafIndex \in DOMAIN i.list /\ Length(i.list) <= TREE_CAPACITY}, holds \in BOOLEAN :
       circuit' = [NewCircuit(in) EXCEPT !.satisfied = holds]
  /\ step' = "prove"
  /\ result' = "none"
  /\ proof' = NoProof
  /\ runs' = runs + 1
  /\ UNCHANGED <<input, output>>

\* create_proof makes bytes for a witness that fails the constraints too.
CreateProof ==
  /\ step = "prove"
  /\ proof' = [statement |-> circuit.statement, satisfied |-> circuit.satisfied]
  /\ step' = "check"
  /\ UNCHANGED <<caller, input, result, circuit, output, runs>>

\* Making the keys and the proof can fail, for a good witness as well.
CreateProofFails ==
  /\ step = "prove"
  /\ Stop("error")
  /\ UNCHANGED <<caller, input, circuit, proof, output, runs>>

\* Variant: the bytes are returned as they are.
Verifies_Unchecked(bytes, statement) == bytes.statement = statement

\* TestKeys::verify, on the five public inputs and the whole of the proof.
Verifies(bytes, statement) == bytes.statement = statement /\ bytes.satisfied

SelfCheck ==
  /\ step = "check"
  /\ IF ~Verifies(proof, circuit.statement) THEN Stop("self check failed")
     ELSE IF caller = "cli" THEN step' = "write" /\ UNCHANGED result
     ELSE Stop("ok")
  /\ UNCHANGED <<caller, input, circuit, proof, output, runs>>

(* Writing: fs::write empties the file before it fills it *)

OpenOutput ==
  /\ step = "write"
  /\ output' = [status |-> "partial"]
  /\ step' = "finish"
  /\ UNCHANGED <<caller, input, result, circuit, proof, runs>>

Written == [status |-> "complete", input |-> input, inputs |-> circuit.statement, proof |-> proof]

FillOutput ==
  /\ step = "finish"
  /\ output' = Written
  /\ Stop("ok")
  /\ UNCHANGED <<caller, input, circuit, proof, runs>>

\* Variant: an error of the file system is not returned.
WriteFails_Ignored ==
  /\ step \in {"write", "finish"}
  /\ Stop("ok")
  /\ UNCHANGED <<caller, input, circuit, proof, output, runs>>

\* The directory cannot be made, the file cannot be opened, or filled.
WriteFails ==
  /\ step \in {"write", "finish"}
  /\ Stop("error")
  /\ UNCHANGED <<caller, input, circuit, proof, output, runs>>

Killed ==
  /\ step # "stopped"
  /\ caller = "cli"
  /\ Stop("killed")
  /\ UNCHANGED <<caller, input, circuit, proof, output, runs>>

Init ==
  /\ caller = "cli"
  /\ input \in {in \in Inputs : in.list = [i \in {} |-> Zero] /\ in.leafIndex = 0 /\ in.override = Zero}
  /\ step = "stopped"
  /\ result = "none"
  /\ circuit = NoProof
  /\ proof = NoProof
  /\ output = NoFile
  /\ runs = 0

Next ==
  \/ RunCommand \/ ParseFails \/ Parse \/ BuildPath
  \/ CallProve \/ CreateProof \/ CreateProofFails \/ SelfCheck
  \/ OpenOutput \/ FillOutput \/ WriteFails \/ Killed

Spec == Init /\ [][Next]_vars

(* Properties *)

\* A complete file at the output path, whoever left it there and however later runs
\* ended, holds a proof that verifies for the inputs beside it, whose root is the
\* root of the list it was asked for and whose nullifier and recipient are the request's.
OutputsAreWithdrawable ==
  output.status = "complete" =>
    /\ Verifies(output.proof, output.inputs)
    /\ output.inputs.root = Root(output.input.list)
    /\ output.inputs.nullifierHash = NullifierHash(output.input.request.note)
    /\ output.inputs.recipient = output.input.request.recipient

\* Success means this run's output: no run that ends well leaves an earlier file, or
\* a part of one, in place of its own.
SuccessIsFresh ==
  result = "ok" /\ caller = "cli" => output.status = "complete" /\ output.input = input

\* Neither caller is given bytes that do not verify.
ReturnedProofsVerify ==
  result = "ok" => proof.satisfied /\ proof.statement = circuit.statement
=============================================================================
