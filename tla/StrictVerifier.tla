--------------------------- MODULE StrictVerifier ---------------------------
(***************************************************************************)
(* strict_solidity_verifier of proof.rs: the SDK's verifier text is        *)
(* rewritten line by line, so that no scalar is reduced before it is       *)
(* checked.  A text is a list of lines, by what the rewriting looks for.   *)
(* A changed SDK may write any text that reads each scalar once, in any    *)
(* form; the rewriting panics on some, and copies what it does not know.   *)
(***************************************************************************)
EXTENDS Integers, Sequences, SequencesExt, FiniteSets

CONSTANTS
  PUBLIC_INPUTS,  \* 5
  PROOF_SCALARS,  \* the scalars a proof holds
  WORD_BYTES,     \* 32
  USIZE_MAX,
  MAX_LINES       \* bound on the texts

ASSUME SizesAssumption ==
  /\ PUBLIC_INPUTS \in Nat \ {0} /\ PROOF_SCALARS \in Nat \ {0}
  /\ WORD_BYTES \in Nat \ {0} /\ USIZE_MAX \in Nat /\ MAX_LINES \in Nat

INSTANCE_BYTES == PUBLIC_INPUTS * WORD_BYTES
PROOF_BYTES == PROOF_SCALARS * WORD_BYTES

(***************************************************************************)
(* "load" reads a scalar as mod(calldataload(..), f_q); "loads" reads two  *)
(* of different offsets; "load_other" reduces by another modulus; "hidden" *)
(* reads one in a form that the search for mod(calldataload( misses.       *)
(* "anchor" opens an assembly block in the form looked for, "block" one in *)
(* another form; "contract" is the contract's header.                      *)
(***************************************************************************)
Readers == {"load", "loads", "load_other", "hidden"}
Openers == {"anchor", "block"}
SdkLines == Readers \cup Openers \cup {"contract", "other"}

LinesOf(text, kinds) == {i \in DOMAIN text : text[i] \in kinds}
Count(text, kind) == Cardinality(LinesOf(text, {kind}))
FirstOf(text, kind) == CHOOSE i \in LinesOf(text, {kind}) : \A j \in LinesOf(text, {kind}) : i <= j

\* How a text reads its scalars, in order.
ScalarReads(text) ==
  FlattenSeq([i \in DOMAIN text |->
    CASE text[i] \in {"load", "load_other", "hidden"} -> <<"reduced">>
      [] text[i] = "loads"                            -> <<"reduced", "reduced">>
      [] text[i] = "checked_load"                     -> <<"checked">>
      [] text[i] = "first_checked"                    -> <<"checked", "reduced">>
      [] OTHER                                        -> <<>>])

\* Line i is in an assembly block that a line of that kind opens.
IsInBlock(text, i, kinds) ==
  \E j \in LinesOf(text, kinds) :
    j < i /\ \A k \in LinesOf(text, Openers) : k <= j \/ i <= k

\* The SDK's verifiers of this circuit read each scalar once, in assembly.
SdkTexts ==
  {text \in SeqOf(SdkLines, MAX_LINES) :
     /\ Len(ScalarReads(text)) = PUBLIC_INPUTS + PROOF_SCALARS
     /\ \A i \in LinesOf(text, Readers) : IsInBlock(text, i, Openers)}

(* The asserts and expects, in their order; a failed one is a panic *)

\* Variant: a line is taken to hold one load.
LoadTemplateHolds_ManyPerLine(text) == LinesOf(text, {"load_other"}) = {}

LoadTemplateHolds(text) == LinesOf(text, {"loads", "load_other"}) = {}

\* Lines are counted, one scalar each.
EnoughScalars(text) == Cardinality(LinesOf(text, {"load", "loads"})) > PUBLIC_INPUTS

OneAnchor(text) == Count(text, "anchor") = 1

\* Variant: the sum wraps around.
checked_add_Wrapping(a, b) == (a + b) % (USIZE_MAX + 1)

\* None when the sum does not fit.
checked_add(a, b) == IF a + b <= USIZE_MAX THEN a + b ELSE -1

calldata_bytes == checked_add(INSTANCE_BYTES, PROOF_BYTES)

Returns(text) ==
  LoadTemplateHolds(text) /\ EnoughScalars(text) /\ OneAnchor(text) /\ calldata_bytes # -1

(* The rewriting *)

\* One load of a line is replaced.
Checked(line) ==
  CASE line = "load"  -> "checked_load"
    [] line = "loads" -> "first_checked"
    [] OTHER          -> line

\* The check of the length, and checked_scalar, go in after the first anchor.
Guarded(text) == InsertAt(text, FirstOf(text, "anchor") + 1, "guard")

strict_solidity_verifier(text) == Guarded([i \in DOMAIN text |-> Checked(text[i])])

\* The getter of the id goes in after the first contract header, if there is one.
solidity_verifier(text) ==
  LET strict == strict_solidity_verifier(text)
  IN  IF LinesOf(strict, {"contract"}) = {} THEN strict
      ELSE InsertAt(strict, FirstOf(strict, "contract") + 1, "id")

\* A function of one assembly block is unknown in another: forge refuses the text.
Compiles(text) ==
  \A i \in LinesOf(text, {"checked_load", "first_checked"}) : IsInBlock(text, i, {"anchor"})

\* What the contract of a text does with its calldata; `found`, whether the search saw
\* every read of the text it was rewritten from.
Behaviour(text) ==
  LET strict == solidity_verifier(text)
  IN  [reads   |-> ScalarReads(strict),
       guarded |-> LinesOf(strict, {"guard"}) # {},
       getter  |-> LinesOf(strict, {"id"}) # {},
       found   |-> LinesOf(text, {"hidden"}) = {}]

Verifiers ==
  {Behaviour(text) : text \in {t \in SdkTexts : Returns(t) /\ Compiles(solidity_verifier(t))}}
=============================================================================
