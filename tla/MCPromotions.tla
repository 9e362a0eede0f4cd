---------------------------- MODULE MCPromotions ----------------------------
(* Two customers, one of them with two orders, one coupon, and in one run  *)
(* a third user to be referred by.                                         *)
EXTENDS Promotions, TLC

CONSTANTS u1, u2, u3, o1, o2, o3

MCBuyer == [o \in Orders |-> IF o = o3 THEN u2 ELSE u1]
MCLarge == {o2}
MCSettings == {t \in Terms : t.autoCredit => t.condition = "any_order"}
Symmetry == Permutations(Workers)
=============================================================================
