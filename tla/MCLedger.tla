------------------------------ MODULE MCLedger ------------------------------
(* A small instance of Ledger: one wallet, since wallets never interact. *)
EXTENDS Ledger, TLC

CONSTANTS u1, p1, o1, f1, f2

MCOwner == [x \in Rows |-> u1]
MCAmount == [x \in Rows |-> IF x \in {p1, o1} THEN 2 ELSE 1]

Symmetry == Permutations(Workers)
=============================================================================
