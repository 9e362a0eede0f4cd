------------------------------- MODULE Stock -------------------------------
(***************************************************************************)
(* What fulfilment promises, with no workers, locks, retries or provider   *)
(* calls: an eSIM profile enters the stock, is sold to one item of a       *)
(* charged order or is bought for one, and is then activated or suspended. *)
(* A profile never changes hands and never leaves "activated".             *)
(* Fulfilment is the detailed specification that implements this one.      *)
(***************************************************************************)
CONSTANTS Orders, Items, ItemsOf, Mode, Esims, NoItem

VARIABLES ord, inv, owner

stockVars == <<ord, inv, owner>>

Init ==
  /\ ord = [o \in Orders |-> "absent"]
  /\ inv = [e \in Esims |-> "absent"]
  /\ owner = [e \in Esims |-> NoItem]

Order(o, from, to) ==
  /\ ord[o] \in from
  /\ ord' = [ord EXCEPT ![o] = to]

Profile(e, from, to) ==
  /\ inv[e] \in from
  /\ inv' = [inv EXCEPT ![e] = to]

Import(e)   == Profile(e, {"absent"}, "available") /\ UNCHANGED <<ord, owner>>
Activate(e) == Profile(e, {"sold", "suspended"}, "activated") /\ UNCHANGED <<ord, owner>>
Suspend(e)  == Profile(e, {"sold"}, "suspended") /\ UNCHANGED <<ord, owner>>

Place(o)  == Order(o, {"absent"}, "pending_approval") /\ UNCHANGED <<inv, owner>>
Refund(o) == Order(o, {"paid"}, "refunded") /\ UNCHANGED <<inv, owner>>
Close(o)  == Order(o, {"pending_approval", "paid", "refunded"}, "cancelled")
             /\ UNCHANGED <<inv, owner>>

\* The order is charged and the profiles in S go to different items of it, to
\* all of them when only stock may be sold.
Sell(o, S) ==
  /\ Order(o, {"absent", "pending_approval"}, "paid")
  /\ \A e \in S : inv[e] = "available"
  /\ inv' = [e \in Esims |-> IF e \in S THEN "sold" ELSE inv[e]]
  /\ \E to \in [S -> ItemsOf[o]] :
       /\ \A e, d \in S : to[e] = to[d] => e = d
       /\ Mode[o] = "inventory_only" => \A it \in ItemsOf[o] : \E e \in S : to[e] = it
       /\ owner' = [e \in Esims |-> IF e \in S THEN to[e] ELSE owner[e]]

\* A profile bought for an item of a charged order that has none.
Supply(e, it) ==
  /\ Profile(e, {"absent"}, "activated")
  /\ \A o \in Orders : it \in ItemsOf[o] =>
       ord[o] \notin {"absent", "pending_approval"} /\ Mode[o] # "inventory_only"
  /\ \A d \in Esims : owner[d] # it
  /\ owner' = [owner EXCEPT ![e] = it]
  /\ UNCHANGED ord

Next ==
  \/ \E e \in Esims : Import(e) \/ Activate(e) \/ Suspend(e)
  \/ \E o \in Orders : Place(o) \/ Refund(o) \/ Close(o)
  \/ \E o \in Orders, S \in SUBSET Esims : Sell(o, S)
  \/ \E e \in Esims, it \in Items : Supply(e, it)

Spec == Init /\ [][Next]_stockVars
=============================================================================
