------------------------------ MODULE MCPaygate ------------------------------
(***************************************************************************)
(* The provider with two concurrent requests over each ledger, and one key *)
(* that callers pay under and the seed imports.                            *)
(***************************************************************************)
EXTENDS Ledgers, TLC

CONSTANTS seeded, ref   \* the key that is imported, and what charges refer to

MCChargeId == 1..2
MCSeedId == {2}
MCRefundId == 1..2

MCImportRows == {[id |-> 2, key |-> seeded, reference |-> ref, amount |-> 2, refunded |-> 1]}

(* Slots and refund keys are interchangeable. *)
MCSymmetry == Permutations(Request) \cup Permutations(RefundKey)
=============================================================================
