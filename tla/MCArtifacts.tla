---------------------------- MODULE MCArtifacts ----------------------------
(***************************************************************************)
(* Three revisions, so that two of them differ in the hash contracts       *)
(* alone, two in the verifier alone, and two in both.                      *)
(***************************************************************************)
EXTENDS Artifacts

ThreeRevisions ==
  {[verifier |-> 1, hash |-> 1], [verifier |-> 1, hash |-> 2], [verifier |-> 2, hash |-> 2]}
=============================================================================
