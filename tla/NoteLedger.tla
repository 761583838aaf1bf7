----------------------------- MODULE NoteLedger -----------------------------
(***************************************************************************)
(* What a pool promises, without a tree, a root, a proof or a callback: a  *)
(* list of leaves that only grows, a set of payouts that only grows, and   *)
(* the money that belongs to them.  One step is one transaction; it may    *)
(* add leaves and make at most one payout, whole or not at all.            *)
(***************************************************************************)
EXTENDS Protocol, Integers, FiniteSets

CONSTANTS DENOMINATION, Here, Requests

VARIABLES
  leaves,    \* a function on 0 .. n - 1
  payouts,   \* a set of [nullifierHash, recipient]
  funds

\* The note's owner asked for this payout here, and the note is a leaf already.
Authorised(payout, list) ==
  \E request \in Requests :
    /\ request.deployment = Here
    /\ request.recipient = payout.recipient
    /\ NullifierHash(request.note) = payout.nullifierHash
    /\ \E index \in DOMAIN list : list[index] = Commitment(request.note)

Init ==
  /\ leaves = [index \in {} |-> Zero]
  /\ payouts = {}
  /\ funds = 0

LeavesGrow ==
  /\ DOMAIN leaves \subseteq DOMAIN leaves'
  /\ \A index \in DOMAIN leaves : leaves'[index] = leaves[index]

NoPayout == payouts' = payouts

OnePayout ==
  /\ payouts \subseteq payouts'
  /\ \E payout \in payouts' \ payouts :
       /\ payouts' = payouts \union {payout}
       /\ \A earlier \in payouts : earlier.nullifierHash # payout.nullifierHash
       /\ Authorised(payout, leaves)

MoneyFollows ==
  LET deposits == Cardinality(DOMAIN leaves') - Cardinality(DOMAIN leaves)
      paid     == Cardinality(payouts') - Cardinality(payouts)
  IN  funds' = funds + DENOMINATION * (deposits - paid)

Transaction == LeavesGrow /\ (NoPayout \/ OnePayout) /\ MoneyFollows

Spec == Init /\ [][Transaction]_<<leaves, payouts, funds>>
=============================================================================
