----------------------------- MODULE MCPayments -----------------------------
(* A ZainCash and a QiCard payment with the same idempotency key: payments   *)
(* interact through nothing else.                                            *)
EXTENDS Payments

CONSTANTS z1, q1, k1

MCKey == [p \in Payments |-> k1]
=============================================================================
