---------------------------- MODULE MCFulfilment ----------------------------
(* Two orders: one of a single item from stock, one of two items from stock *)
(* or bought on demand.                                                     *)
EXTENDS Fulfilment, TLC

CONSTANTS o1, o2, i1, i2, i3

MCItemsOf == [o \in Orders |-> IF o = o1 THEN {i1} ELSE {i2, i3}]
MCMode == [o \in Orders |-> IF o = o1 THEN "inventory_only" ELSE "hybrid"]

Symmetry == Permutations(Workers) \cup Permutations(Esims) \cup Permutations({i2, i3})
=============================================================================
