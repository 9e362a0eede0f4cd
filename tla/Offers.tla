------------------------------- MODULE Offers -------------------------------
(***************************************************************************)
(* What coupons and referrals promise, with no workers, locks or copies:   *)
(* a coupon is a set of users and a counter, placing an order may add its  *)
(* buyer to one of them, and a referral has one reward, that a charged     *)
(* order of the referred user qualifies.  The limit that counts is the one *)
(* in force when the order is placed.                                      *)
(* Promotions is the detailed specification that implements this one.      *)
(***************************************************************************)
EXTENDS Integers

CONSTANTS Users, Orders, Coupons, Buyer, Large, Limits, Settings, NoUser, NoOrder, NoTerms

VARIABLES ord, limit, active, used, users, reward, referrer, terms, trigger

coupons == <<limit, active, used, users>>
rewards == <<reward, referrer, terms, trigger>>
offersVars == <<ord, coupons, rewards>>

Init ==
  /\ ord = [o \in Orders |-> "absent"]
  /\ limit \in [Coupons -> Limits]
  /\ active = [c \in Coupons |-> TRUE]
  /\ used = [c \in Coupons |-> 0]
  /\ users = [c \in Coupons |-> {}]
  /\ reward = [u \in Users |-> "absent"]
  /\ referrer = [u \in Users |-> NoUser]
  /\ terms = [u \in Users |-> NoTerms]
  /\ trigger = [u \in Users |-> NoOrder]

Redeem(c, u) ==
  /\ active[c]
  /\ limit[c] > 0 => used[c] < limit[c]
  /\ u \notin users[c]
  /\ used' = [used EXCEPT ![c] = @ + 1]
  /\ users' = [users EXCEPT ![c] = @ \cup {u}]

\* An order is charged at once or waits for its approval.
Place(o) ==
  /\ ord[o] = "absent"
  /\ \E s \in {"pending_approval", "paid"} : ord' = [ord EXCEPT ![o] = s]
  /\ \/ \E c \in Coupons : Redeem(c, Buyer[o])
     \/ UNCHANGED <<used, users>>
  /\ UNCHANGED <<limit, active, rewards>>

Approve(o) ==
  /\ ord[o] = "pending_approval"
  /\ ord' = [ord EXCEPT ![o] = "paid"]
  /\ UNCHANGED <<coupons, rewards>>

\* An administrator sets the limit or the switch of a coupon, or both.
Change(c) ==
  /\ \E n \in Limits \cup {limit[c]} : limit' = [limit EXCEPT ![c] = n]
  /\ \E on \in BOOLEAN : active' = [active EXCEPT ![c] = on]
  /\ UNCHANGED <<ord, used, users, rewards>>

\* User u is referred by v under the settings of the day, once and for all.
Refer(u, v) ==
  /\ u # v /\ reward[u] = "absent"
  /\ reward' = [reward EXCEPT ![u] = "pending"]
  /\ referrer' = [referrer EXCEPT ![u] = v]
  /\ \E t \in Settings : terms' = [terms EXCEPT ![u] = t]
  /\ UNCHANGED <<ord, coupons, trigger>>

Qualify(o) ==
  LET u == Buyer[o] IN
  /\ ord[o] = "paid" /\ reward[u] = "pending"
  /\ terms[u].condition = "min_amount" => o \in Large
  /\ ~terms[u].autoCredit
  /\ reward' = [reward EXCEPT ![u] = "qualified"]
  /\ trigger' = [trigger EXCEPT ![u] = o]
  /\ UNCHANGED <<ord, coupons, referrer, terms>>

Cancel(u) ==
  /\ reward[u] \in {"pending", "qualified"}
  /\ reward' = [reward EXCEPT ![u] = "cancelled"]
  /\ UNCHANGED <<ord, coupons, referrer, terms, trigger>>

Next ==
  \/ \E o \in Orders : Place(o) \/ Approve(o) \/ Qualify(o)
  \/ \E c \in Coupons : Change(c)
  \/ \E u \in Users : Cancel(u) \/ \E v \in Users : Refer(u, v)

Spec == Init /\ [][Next]_offersVars
=============================================================================
