----------------------------- MODULE Promotions -----------------------------
(***************************************************************************)
(* Coupons that orders use up while administrators change them, and the    *)
(* rewards for referrals, which the referred user's orders qualify.        *)
(*                                                                         *)
(* create_order holds the coupon's row from its validation to its commit.  *)
(* update_coupon, apply_referral and cancel_reward read without a lock and *)
(* meet other transactions only when their UPDATE waits for the row.       *)
(* Cancelling or refunding an order gives back neither the use of a coupon *)
(* nor the reward it has qualified, so orders end here when they are paid. *)
(***************************************************************************)
EXTENDS Integers, FiniteSets

CONSTANTS
  Users, Orders, Coupons, Workers,
  Buyer,        \* who places an order
  Large,        \* orders whose total reaches a reward's qualify_threshold
  Limits,       \* values an administrator gives max_uses; 0 is no limit
  Settings,     \* the referral settings in force from time to time
  NoUser, NoOrder, NoCoupon

Terms == [condition : {"any_order", "min_amount"}, autoCredit : BOOLEAN]

ASSUME OrdersAreFinite == IsFiniteSet(Orders)
ASSUME BuyersAreUsers == Buyer \in [Orders -> Users] /\ Large \subseteq Orders
ASSUME SettingsAreTerms == Settings \subseteq Terms
ASSUME LimitsAreNatural == Limits \subseteq Nat
ASSUME NullsAreNoIds == NoUser \notin Users /\ NoOrder \notin Orders /\ NoCoupon \notin Coupons

VARIABLES
  ord,          \* orders.status
  maxUses, active, usedCount,  \* the columns of coupons
  usage,        \* coupon_usages: the coupon an order used
  referredBy,   \* users.referred_by_id
  reward,       \* referral_rewards.status
  referrer,     \* referral_rewards.referrer_id
  terms,        \* its qualify_condition and auto_credit
  trigger,      \* its order_id
  pc,           \* what each worker does next
  order,        \* the order it places or has charged
  coupon,       \* the coupon it has locked or edits
  copy,         \* the coupon in its session
  user, code    \* the user it refers, to whom; or whose reward it cancels

coupons == <<maxUses, active, usedCount, usage>>
rewards == <<reward, referrer, terms, trigger>>
session == <<pc, order, coupon, copy, user, code>>
vars == <<ord, coupons, referredBy, rewards, session>>

Records == [maxUses : Nat, active : BOOLEAN, usedCount : Nat]
NoTerms == [condition |-> "any_order", autoCredit |-> FALSE]
NoRecord == [maxUses |-> 0, active |-> FALSE, usedCount |-> 0]

TypeOK ==
  /\ ord \in [Orders -> {"absent", "pending_approval", "paid"}]
  /\ maxUses \in [Coupons -> Nat]
  /\ active \in [Coupons -> BOOLEAN]
  /\ usedCount \in [Coupons -> Nat]
  /\ usage \in [Orders -> Coupons \cup {NoCoupon}]
  /\ referredBy \in [Users -> Users \cup {NoUser}]
  /\ reward \in [Users -> {"absent", "pending", "qualified", "cancelled"}]
  /\ referrer \in [Users -> Users \cup {NoUser}]
  /\ terms \in [Users -> Terms]
  /\ trigger \in [Users -> Orders \cup {NoOrder}]
  /\ pc \in [Workers -> {"idle", "ordering", "charged", "editing", "referring", "cancelling"}]
  /\ order \in [Workers -> Orders \cup {NoOrder}]
  /\ coupon \in [Workers -> Coupons \cup {NoCoupon}]
  /\ copy \in [Workers -> Records]
  /\ user \in [Workers -> Users \cup {NoUser}]
  /\ code \in [Workers -> Users \cup {NoUser}]

Init ==
  /\ ord = [o \in Orders |-> "absent"]
  /\ maxUses \in [Coupons -> Limits]
  /\ active = [c \in Coupons |-> TRUE]
  /\ usedCount = [c \in Coupons |-> 0]
  /\ usage = [o \in Orders |-> NoCoupon]
  /\ referredBy = [u \in Users |-> NoUser]
  /\ reward = [u \in Users |-> "absent"]
  /\ referrer = [u \in Users |-> NoUser]
  /\ terms = [u \in Users |-> NoTerms]
  /\ trigger = [u \in Users |-> NoOrder]
  /\ pc = [w \in Workers |-> "idle"]
  /\ order = [w \in Workers |-> NoOrder]
  /\ coupon = [w \in Workers |-> NoCoupon]
  /\ copy = [w \in Workers |-> NoRecord]
  /\ user = [w \in Workers |-> NoUser]
  /\ code = [w \in Workers |-> NoUser]

-----------------------------------------------------------------------------
(* Sessions and locks                                                      *)

\* The worker goes on to s, with order o and coupon c read as record r.
Goto(w, s, o, c, r) ==
  /\ pc' = [pc EXCEPT ![w] = s]
  /\ order' = [order EXCEPT ![w] = o]
  /\ coupon' = [coupon EXCEPT ![w] = c]
  /\ copy' = [copy EXCEPT ![w] = r]

\* It goes on to s, with user u and the user v a referral code belongs to.
About(w, s, u, v) ==
  /\ pc' = [pc EXCEPT ![w] = s]
  /\ user' = [user EXCEPT ![w] = u]
  /\ code' = [code EXCEPT ![w] = v]

End(w) == Goto(w, "idle", NoOrder, NoCoupon, NoRecord) /\ UNCHANGED <<user, code>>
EndAbout(w) == About(w, "idle", NoUser, NoUser) /\ UNCHANGED <<order, coupon, copy>>

\* Variant: the coupon is read without FOR UPDATE.
CouponNeverLocked(c) == c \in Coupons

CouponFree(c) == \A v \in Workers : pc[v] = "ordering" => coupon[v] # c

Stored(c) == [maxUses |-> maxUses[c], active |-> active[c], usedCount |-> usedCount[c]]

-----------------------------------------------------------------------------
(* Coupons                                                                 *)

\* Variant: one use too many.
ValidToTheLimit(c, u) ==
  /\ active[c]
  /\ maxUses[c] > 0 => usedCount[c] <= maxUses[c]
  /\ \A o \in Orders : usage[o] = c => Buyer[o] # u

\* Dates, minimum amounts and plans are conditions on the order alone.
Valid(c, u) ==
  /\ active[c]
  /\ maxUses[c] > 0 => usedCount[c] < maxUses[c]
  /\ \A o \in Orders : usage[o] = c => Buyer[o] # u

\* The id of the order is new.
NewOrder(o) == ord[o] = "absent" /\ \A v \in Workers : order[v] # o

CreateOrder(w, o) ==
  /\ pc[w] = "idle" /\ NewOrder(o)
  /\ Goto(w, "ordering", o, NoCoupon, NoRecord)
  /\ UNCHANGED <<ord, coupons, referredBy, rewards, user, code>>

CreateOrderWithCoupon(w, o, c) ==
  /\ pc[w] = "idle" /\ NewOrder(o)
  /\ CouponFree(c) /\ Valid(c, Buyer[o])
  /\ Goto(w, "ordering", o, c, Stored(c))
  /\ UNCHANGED <<ord, coupons, referredBy, rewards, user, code>>

\* A discount that rounds to nothing is not a use of the coupon.
Use(o, c, r, reduced) ==
  /\ usedCount' = IF reduced THEN [usedCount EXCEPT ![c] = r.usedCount + 1] ELSE usedCount
  /\ usage' = IF reduced THEN [usage EXCEPT ![o] = c] ELSE usage

\* An order that waits for approval has used its coupon, too.
CommitOrder(w) ==
  /\ pc[w] = "ordering"
  /\ IF coupon[w] = NoCoupon THEN UNCHANGED <<usedCount, usage>>
     ELSE \E reduced \in BOOLEAN : Use(order[w], coupon[w], copy[w], reduced)
  /\ \/ /\ ord' = [ord EXCEPT ![order[w]] = "pending_approval"]
        /\ End(w)
     \/ /\ ord' = [ord EXCEPT ![order[w]] = "paid"]
        /\ Goto(w, "charged", order[w], NoCoupon, NoRecord)
        /\ UNCHANGED <<user, code>>
  /\ UNCHANGED <<maxUses, active, referredBy, rewards>>

ApproveOrder(w, o) ==
  /\ pc[w] = "idle" /\ ord[o] = "pending_approval"
  /\ ord' = [ord EXCEPT ![o] = "paid"]
  /\ Goto(w, "charged", o, NoCoupon, NoRecord)
  /\ UNCHANGED <<coupons, referredBy, rewards, user, code>>

UpdateCoupon(w, c) ==
  /\ pc[w] = "idle"
  /\ Goto(w, "editing", NoOrder, c, Stored(c))
  /\ UNCHANGED <<ord, coupons, referredBy, rewards, user, code>>

\* Variant: the new limit is on the uses that are left.
CommitRemaining(w) ==
  LET c == coupon[w] IN
  /\ pc[w] = "editing"
  /\ CouponFree(c)
  /\ \E limit \in Limits, on \in BOOLEAN :
       /\ maxUses' = [maxUses EXCEPT ![c] = limit - copy[w].usedCount]
       /\ active' = [active EXCEPT ![c] = on]
  /\ End(w)
  /\ UNCHANGED <<ord, usedCount, usage, referredBy, rewards>>

\* Variant: every column of the copy is written back.
CommitWholeCoupon(w) ==
  LET c == coupon[w] IN
  /\ pc[w] = "editing"
  /\ CouponFree(c)
  /\ \E limit \in Limits, on \in BOOLEAN :
       /\ maxUses' = [maxUses EXCEPT ![c] = limit]
       /\ active' = [active EXCEPT ![c] = on]
  /\ usedCount' = [usedCount EXCEPT ![c] = copy[w].usedCount]
  /\ End(w)
  /\ UNCHANGED <<ord, usage, referredBy, rewards>>

\* Only attributes that differ from the copy are written; without any there is
\* no UPDATE and nothing to wait for.
CommitCoupon(w) ==
  LET c == coupon[w]
      r == copy[w]
  IN
  /\ pc[w] = "editing"
  /\ \E limit \in Limits, on \in BOOLEAN :
       /\ (limit # r.maxUses \/ on # r.active) => CouponFree(c)
       /\ maxUses' = IF limit = r.maxUses THEN maxUses ELSE [maxUses EXCEPT ![c] = limit]
       /\ active' = IF on = r.active THEN active ELSE [active EXCEPT ![c] = on]
  /\ End(w)
  /\ UNCHANGED <<ord, usedCount, usage, referredBy, rewards>>

-----------------------------------------------------------------------------
(* Referral rewards                                                        *)

ApplyReferral(w, u, v) ==
  /\ pc[w] = "idle"
  /\ u # v /\ referredBy[u] = NoUser
  /\ About(w, "referring", u, v)
  /\ UNCHANGED <<ord, coupons, referredBy, rewards, order, coupon, copy>>

\* Variant: an existing reward is replaced.
CommitReferralAgain(w) ==
  LET u == user[w] IN
  /\ pc[w] = "referring"
  /\ referredBy' = [referredBy EXCEPT ![u] = code[w]]
  /\ reward' = [reward EXCEPT ![u] = "pending"]
  /\ referrer' = [referrer EXCEPT ![u] = code[w]]
  /\ \E t \in Settings : terms' = [terms EXCEPT ![u] = t]
  /\ EndAbout(w)
  /\ UNCHANGED <<ord, coupons, trigger>>

\* The UPDATE of the user waits for any other one; what is then in
\* referral_rewards decides whether a reward is inserted.
CommitReferral(w) ==
  LET u == user[w] IN
  /\ pc[w] = "referring"
  /\ referredBy' = [referredBy EXCEPT ![u] = code[w]]
  /\ IF reward[u] # "absent" THEN UNCHANGED rewards
     ELSE /\ reward' = [reward EXCEPT ![u] = "pending"]
          /\ referrer' = [referrer EXCEPT ![u] = code[w]]
          /\ \E t \in Settings : terms' = [terms EXCEPT ![u] = t]
          /\ UNCHANGED trigger
  /\ EndAbout(w)
  /\ UNCHANGED <<ord, coupons>>

Qualifies(u, o) == terms[u].condition = "any_order" \/ o \in Large

\* Variant: the threshold is forgotten.
QualifyAnyOrder(w) ==
  LET o == order[w]
      u == Buyer[o]
  IN
  /\ pc[w] = "charged"
  /\ reward[u] = "pending" /\ ~terms[u].autoCredit
  /\ reward' = [reward EXCEPT ![u] = "qualified"]
  /\ trigger' = [trigger EXCEPT ![u] = o]
  /\ End(w)
  /\ UNCHANGED <<ord, coupons, referredBy, referrer, terms>>

\* check_and_qualify after the commit of a charged order.  With auto_credit
\* _do_credit raises, so that nothing of it is committed.
CheckAndQualify(w) ==
  LET o == order[w]
      u == Buyer[o]
  IN
  /\ pc[w] = "charged"
  /\ reward[u] = "pending" /\ Qualifies(u, o) /\ ~terms[u].autoCredit
  /\ reward' = [reward EXCEPT ![u] = "qualified"]
  /\ trigger' = [trigger EXCEPT ![u] = o]
  /\ End(w)
  /\ UNCHANGED <<ord, coupons, referredBy, referrer, terms>>

CancelReward(w, u) ==
  /\ pc[w] = "idle" /\ reward[u] # "absent"
  /\ About(w, "cancelling", u, NoUser)
  /\ UNCHANGED <<ord, coupons, referredBy, rewards, order, coupon, copy>>

CommitCancel(w) ==
  /\ pc[w] = "cancelling"
  /\ reward' = [reward EXCEPT ![user[w]] = "cancelled"]
  /\ EndAbout(w)
  /\ UNCHANGED <<ord, coupons, referredBy, referrer, terms, trigger>>

\* The request is refused, fails or has nothing more to do.
Return(w) ==
  /\ pc[w] # "idle"
  /\ Goto(w, "idle", NoOrder, NoCoupon, NoRecord)
  /\ user' = [user EXCEPT ![w] = NoUser]
  /\ code' = [code EXCEPT ![w] = NoUser]
  /\ UNCHANGED <<ord, coupons, referredBy, rewards>>

-----------------------------------------------------------------------------
Next ==
  \/ \E w \in Workers, o \in Orders :
       CreateOrder(w, o) \/ ApproveOrder(w, o)
         \/ \E c \in Coupons : CreateOrderWithCoupon(w, o, c)
  \/ \E w \in Workers, c \in Coupons : UpdateCoupon(w, c)
  \/ \E w \in Workers, u \in Users :
       CancelReward(w, u) \/ \E v \in Users : ApplyReferral(w, u, v)
  \/ \E w \in Workers :
       CommitOrder(w) \/ CommitCoupon(w) \/ CommitReferral(w) \/ CheckAndQualify(w)
         \/ CommitCancel(w) \/ Return(w)

Spec == Init /\ [][Next]_vars

-----------------------------------------------------------------------------
(* Properties                                                              *)

\* coupons.used_count is the number of rows of coupon_usages, although it is
\* written as an absolute value and administrators write the same row.
CountIsUsages ==
  \A c \in Coupons : usedCount[c] = Cardinality({o \in Orders : usage[o] = c})

\* A user uses a coupon once, however many orders are placed at the same time;
\* no constraint of the database says so.
OncePerUser ==
  \A o, p \in Orders :
    usage[o] # NoCoupon /\ usage[o] = usage[p] /\ Buyer[o] = Buyer[p] => o = p

\* An order uses a coupon only while it is active and below the limit in force at
\* the order's commit, not merely at its validation.
UsedWithinLimit ==
  [][\A c \in Coupons : usedCount'[c] # usedCount[c] =>
       /\ usedCount'[c] = usedCount[c] + 1
       /\ active[c]
       /\ maxUses[c] > 0 => usedCount[c] < maxUses[c]]_vars

\* A reward is qualified by an order its referred user was charged for, that is
\* large enough, and a reward nobody was referred for does not exist.
QualifiedByOrder ==
  \A u \in Users :
    /\ reward[u] = "qualified" =>
         /\ trigger[u] \in Orders /\ Buyer[trigger[u]] = u
         /\ ord[trigger[u]] = "paid"
         /\ terms[u].condition = "min_amount" => trigger[u] \in Large
    /\ reward[u] # "absent" => referrer[u] # u /\ referredBy[u] \notin {NoUser, u}

\* A cancelled reward stays cancelled, although cancel_reward takes no lock and
\* orders qualify rewards at the same time.
CancelledStays ==
  [][\A u \in Users : reward[u] = "cancelled" => reward'[u] = "cancelled"]_vars

\* Who has used each coupon.
UsersOf == [c \in Coupons |-> {Buyer[o] : o \in {x \in Orders : usage[x] = c}}]

\* The coupon and referral requests of all workers, interleaved, are a behaviour
\* of Offers: each transaction takes effect in one step, a coupon is redeemed at
\* most once by a user and within the limit in force at that moment, and a reward
\* goes from "pending" only to "qualified" by a charged order, or to "cancelled".
Promise == INSTANCE Offers WITH
  limit <- maxUses,
  used <- usedCount,
  users <- UsersOf

KeepsOffers == Promise!Spec

\* The user a reward is for is the one users.referred_by_id names.
RewardIsForReferrer ==
  \A u \in Users : reward[u] # "absent" => referrer[u] = referredBy[u]
=============================================================================
