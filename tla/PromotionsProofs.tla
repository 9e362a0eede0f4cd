-------------------------- MODULE PromotionsProofs --------------------------
(***************************************************************************)
(* Proofs about Promotions, for any users, orders, coupons, limits and     *)
(* workers.  The inductive invariant says what a request keeps true        *)
(* between its transactions: by the lock of its coupon when it places an   *)
(* order, and because nobody undoes it in the requests that hold no lock.  *)
(***************************************************************************)
EXTENDS Promotions, FiniteSetTheorems, TLAPS

Uses(c) == {o \in Orders : usage[o] = c}

\* An order being placed is new to the database and nobody else's.
NewOrders ==
  /\ \A w \in Workers : pc[w] = "ordering" =>
       order[w] \in Orders /\ ord[order[w]] = "absent"
  /\ \A v, w \in Workers : v # w /\ pc[w] = "ordering" => order[v] # order[w]
  /\ \A o \in Orders : ord[o] = "absent" => usage[o] = NoCoupon

\* The lock of its coupon keeps true what the validation of an order has read.
CouponsHeld ==
  /\ \A w \in Workers : pc[w] = "ordering" /\ coupon[w] # NoCoupon =>
       copy[w] = Stored(coupon[w]) /\ Valid(coupon[w], Buyer[order[w]])
  /\ \A v, w \in Workers :
       v # w /\ pc[v] = "ordering" /\ pc[w] = "ordering" /\ coupon[v] = coupon[w]
         => coupon[v] = NoCoupon

\* Requests that hold no lock: a charged order stays charged, a reward exists
\* from its insertion on, and nobody refers themselves.
Unlocked ==
  \A w \in Workers :
    /\ pc[w] = "charged" => order[w] \in Orders /\ ord[order[w]] = "paid"
    /\ pc[w] = "editing" => coupon[w] \in Coupons
    /\ pc[w] = "referring" => user[w] \in Users /\ code[w] \in Users /\ user[w] # code[w]
    /\ pc[w] = "cancelling" => user[w] \in Users /\ reward[user[w]] # "absent"

IInv ==
  /\ TypeOK
  /\ NewOrders /\ CouponsHeld /\ Unlocked
  /\ CountIsUsages /\ OncePerUser /\ QualifiedByOrder

-----------------------------------------------------------------------------
\* One more order that uses a coupon makes one more use.
LEMMA OneMoreUse ==
  ASSUME NEW S \in SUBSET Orders, NEW o \in Orders \ S
  PROVE  Cardinality(S \cup {o}) = Cardinality(S) + 1
<1>1. IsFiniteSet(S)
  BY OrdersAreFinite, FS_Subset
<1> QED BY <1>1, FS_AddElement

\* A new order has an id of its own.
LEMMA CreateOrderKeeps ==
  ASSUME IInv, NEW w \in Workers, NEW o \in Orders, CreateOrder(w, o)
  PROVE  IInv'
<1> USE DEF IInv, TypeOK, CreateOrder, Goto, NewOrder, coupons, rewards, session
<1>1. TypeOK'
  BY BuyersAreUsers DEF Records, NoRecord, Terms, Stored, Unlocked
<1>2. NewOrders'
  BY NullsAreNoIds DEF NewOrders
<1>3. CouponsHeld'
  BY NullsAreNoIds DEF CouponsHeld, Valid, Stored
<1>4. Unlocked'
  BY DEF Unlocked
<1>5. CountIsUsages'
  BY DEF CountIsUsages
<1>6. OncePerUser'
  BY DEF OncePerUser
<1>7. QualifiedByOrder'
  BY DEF QualifiedByOrder
<1> QED BY <1>1, <1>2, <1>3, <1>4, <1>5, <1>6, <1>7 DEF IInv

\* A coupon that is validated is locked by nobody else.
LEMMA CreateOrderWithCouponKeeps ==
  ASSUME IInv, NEW w \in Workers, NEW o \in Orders, NEW c \in Coupons, CreateOrderWithCoupon(w, o, c)
  PROVE  IInv'
<1> USE DEF IInv, TypeOK, CreateOrderWithCoupon, Goto, NewOrder, CouponFree, coupons, rewards, session
<1>1. TypeOK'
  BY BuyersAreUsers DEF Records, NoRecord, Terms, Stored, Unlocked
<1>2. NewOrders'
  BY NullsAreNoIds DEF NewOrders
<1>3. CouponsHeld'
  <2>1. /\ pc'[w] = "ordering" /\ order'[w] = o /\ coupon'[w] = c /\ copy'[w] = Stored(c)
        /\ \A v \in Workers \ {w} :
             /\ pc'[v] = pc[v] /\ order'[v] = order[v]
             /\ coupon'[v] = coupon[v] /\ copy'[v] = copy[v]
    OBVIOUS
  <2>2. \A d, u : Stored(d)' = Stored(d) /\ (Valid(d, u) => Valid(d, u)')
    BY DEF Stored, Valid
  <2>3. ASSUME NEW v \in Workers, pc'[v] = "ordering", coupon'[v] # NoCoupon
        PROVE  (copy[v] = Stored(coupon[v]) /\ Valid(coupon[v], Buyer[order[v]]))'
    <3>1. CASE v = w
      BY <2>1, <2>2, <3>1
    <3>2. CASE v # w
      BY <2>1, <2>2, <2>3, <3>2 DEF CouponsHeld
    <3> QED BY <3>1, <3>2
  <2>4. \A v \in Workers \ {w} : pc[v] = "ordering" => coupon[v] # c
    OBVIOUS
  <2>5. \A v, x \in Workers :
           v # x /\ pc'[v] = "ordering" /\ pc'[x] = "ordering" /\ coupon'[v] = coupon'[x]
             => coupon'[v] = NoCoupon
    BY <2>1, <2>4 DEF CouponsHeld
  <2> QED BY <2>3, <2>5 DEF CouponsHeld
<1>4. Unlocked'
  BY DEF Unlocked
<1>5. CountIsUsages'
  BY DEF CountIsUsages
<1>6. OncePerUser'
  BY DEF OncePerUser
<1>7. QualifiedByOrder'
  BY DEF QualifiedByOrder
<1> QED BY <1>1, <1>2, <1>3, <1>4, <1>5, <1>6, <1>7 DEF IInv

\* What the lock has kept true allows the use that the commit writes.
LEMMA CommitOrderKeeps ==
  ASSUME IInv, NEW w \in Workers, CommitOrder(w)
  PROVE  IInv'
<1>0. PICK o, c : o = order[w] /\ c = coupon[w]
  OBVIOUS
<1>1. /\ o \in Orders /\ ord[o] = "absent" /\ usage[o] = NoCoupon
      /\ c \in Coupons \cup {NoCoupon} /\ Buyer[o] \in Users
  BY <1>0, BuyersAreUsers DEF IInv, TypeOK, NewOrders, CommitOrder
<1>2. \/ usedCount' = usedCount /\ usage' = usage
      \/ /\ c \in Coupons /\ Valid(c, Buyer[o])
         /\ usedCount' = [usedCount EXCEPT ![c] = usedCount[c] + 1]
         /\ usage' = [usage EXCEPT ![o] = c]
  BY <1>0, <1>1 DEF IInv, TypeOK, CouponsHeld, CommitOrder, Use, Stored
<1> USE <1>0, <1>1 DEF IInv, TypeOK, CommitOrder, End, Goto, rewards
<1>3. TypeOK'
  <2>1. usedCount' \in [Coupons -> Nat] /\ usage' \in [Orders -> Coupons \cup {NoCoupon}]
    BY <1>2
  <2>2. NoRecord \in Records /\ ord' \in [Orders -> {"absent", "pending_approval", "paid"}]
    BY DEF Records, NoRecord
  <2>3. /\ pc' \in [Workers -> {"idle", "ordering", "charged", "editing", "referring", "cancelling"}]
        /\ order' \in [Workers -> Orders \cup {NoOrder}]
        /\ coupon' \in [Workers -> Coupons \cup {NoCoupon}]
        /\ copy' \in [Workers -> Records]
    BY <2>2
  <2> QED BY <2>1, <2>2, <2>3
<1>4. NewOrders'
  <2>1. \A v \in Workers : pc'[v] = "ordering" => v # w /\ pc[v] = "ordering" /\ order'[v] = order[v]
    OBVIOUS
  <2>2. \A v \in Workers \ {w} : pc[v] = "ordering" => order[v] # o
    BY DEF NewOrders
  <2>3. ord'[o] # "absent" /\ \A x \in Orders \ {o} : ord'[x] = ord[x] /\ usage'[x] = usage[x]
    BY <1>2
  <2>4. \A v \in Workers : pc'[v] = "ordering" => order'[v] \in Orders /\ ord'[order'[v]] = "absent"
    BY <2>1, <2>2, <2>3 DEF NewOrders
  <2>5. \A v, x \in Workers : v # x /\ pc'[v] = "ordering" => order'[v] # order'[x]
    BY <2>1, NullsAreNoIds DEF NewOrders
  <2>6. \A x \in Orders : ord'[x] = "absent" => usage'[x] = NoCoupon
    BY <2>3 DEF NewOrders
  <2> QED BY <2>4, <2>5, <2>6 DEF NewOrders
<1>5. CouponsHeld'
  <2>1. ASSUME NEW v \in Workers, pc'[v] = "ordering"
        PROVE  /\ v # w /\ pc[v] = "ordering" /\ order'[v] = order[v]
               /\ coupon'[v] = coupon[v] /\ copy'[v] = copy[v]
               /\ coupon[v] # NoCoupon => coupon[v] # c
    BY <2>1 DEF CouponsHeld
  <2>2. ASSUME NEW d \in Coupons, d # c, NEW u
        PROVE  Stored(d)' = Stored(d) /\ (Valid(d, u) => Valid(d, u)')
    BY <1>2, <2>2 DEF Stored, Valid
  <2>3. ASSUME NEW v \in Workers, pc'[v] = "ordering", coupon'[v] # NoCoupon
        PROVE  copy'[v] = Stored(coupon[v])' /\ Valid(coupon[v], Buyer[order[v]])'
    BY <2>1, <2>2, <2>3 DEF CouponsHeld
  <2> QED BY <2>1, <2>3 DEF CouponsHeld
<1>6. Unlocked'
  BY DEF Unlocked
<1>7. CountIsUsages'
  <2>1. CASE usedCount' = usedCount /\ usage' = usage
    BY <2>1 DEF CountIsUsages
  <2>2. CASE /\ c \in Coupons
             /\ usedCount' = [usedCount EXCEPT ![c] = usedCount[c] + 1]
             /\ usage' = [usage EXCEPT ![o] = c]
    <3>1. o \in Orders \ Uses(c)
      BY <2>2, NullsAreNoIds DEF Uses
    <3>2. Uses(c)' = Uses(c) \cup {o}
      BY <2>2, NullsAreNoIds DEF Uses
    <3>3. Cardinality(Uses(c) \cup {o}) = Cardinality(Uses(c)) + 1
      BY <3>1, OneMoreUse DEF Uses
    <3>4. \A d \in Coupons : usedCount[d] = Cardinality(Uses(d))
      BY DEF CountIsUsages, Uses
    <3>5. ASSUME NEW d \in Coupons
          PROVE  usedCount'[d] = Cardinality(Uses(d)')
      <4>1. CASE d = c
        BY <2>2, <3>2, <3>3, <3>4, <4>1
      <4>2. CASE d # c
        <5>1. Uses(d)' = Uses(d)
          BY <2>2, <4>2, NullsAreNoIds DEF Uses
        <5>2. usedCount'[d] = usedCount[d]
          BY <2>2, <4>2
        <5> QED BY <3>4, <5>1, <5>2
      <4> QED BY <4>1, <4>2
    <3> QED BY <3>5 DEF CountIsUsages, Uses
  <2> QED BY <1>2, <2>1, <2>2
<1>8. OncePerUser'
  BY <1>2 DEF OncePerUser, Valid
<1>9. QualifiedByOrder'
  BY DEF QualifiedByOrder
<1> QED BY <1>3, <1>4, <1>5, <1>6, <1>7, <1>8, <1>9 DEF IInv

\* An approved order was committed before.
LEMMA ApproveOrderKeeps ==
  ASSUME IInv, NEW w \in Workers, NEW o \in Orders, ApproveOrder(w, o)
  PROVE  IInv'
<1> USE DEF IInv, TypeOK, ApproveOrder, Goto, coupons, rewards, session
<1>1. TypeOK'
  BY BuyersAreUsers DEF Records, NoRecord, Terms, Stored, Unlocked
<1>2. NewOrders'
  BY DEF NewOrders
<1>3. CouponsHeld'
  BY DEF CouponsHeld, Valid, Stored
<1>4. Unlocked'
  BY DEF Unlocked
<1>5. CountIsUsages'
  BY DEF CountIsUsages
<1>6. OncePerUser'
  BY DEF OncePerUser
<1>7. QualifiedByOrder'
  BY DEF QualifiedByOrder
<1> QED BY <1>1, <1>2, <1>3, <1>4, <1>5, <1>6, <1>7 DEF IInv

\* Reading a coupon disturbs nothing.
LEMMA UpdateCouponKeeps ==
  ASSUME IInv, NEW w \in Workers, NEW c \in Coupons, UpdateCoupon(w, c)
  PROVE  IInv'
<1> USE DEF IInv, TypeOK, UpdateCoupon, Goto, coupons, rewards, session
<1>1. TypeOK'
  BY BuyersAreUsers DEF Records, NoRecord, Terms, Stored, Unlocked
<1>2. NewOrders'
  BY NullsAreNoIds DEF NewOrders
<1>3. CouponsHeld'
  BY NullsAreNoIds DEF CouponsHeld, Valid, Stored
<1>4. Unlocked'
  BY DEF Unlocked
<1>5. CountIsUsages'
  BY DEF CountIsUsages
<1>6. OncePerUser'
  BY DEF OncePerUser
<1>7. QualifiedByOrder'
  BY DEF QualifiedByOrder
<1> QED BY <1>1, <1>2, <1>3, <1>4, <1>5, <1>6, <1>7 DEF IInv

\* A changed limit waits for the orders that have validated the old one.
LEMMA CommitCouponKeeps ==
  ASSUME IInv, NEW w \in Workers, CommitCoupon(w)
  PROVE  IInv'
<1> USE DEF IInv, TypeOK, CommitCoupon, End, Goto, CouponFree, coupons, rewards, session
<1>1. TypeOK'
  BY LimitsAreNatural, SettingsAreTerms, BuyersAreUsers DEF Records, NoRecord, Terms, Stored, Unlocked
<1>2. NewOrders'
  BY NullsAreNoIds DEF NewOrders
<1>3. CouponsHeld'
  BY NullsAreNoIds DEF CouponsHeld, Valid, Stored, NewOrders, Unlocked
<1>4. Unlocked'
  BY DEF Unlocked, NewOrders
<1>5. CountIsUsages'
  BY DEF CountIsUsages
<1>6. OncePerUser'
  BY DEF OncePerUser
<1>7. QualifiedByOrder'
  BY DEF QualifiedByOrder, NewOrders, Unlocked
<1> QED BY <1>1, <1>2, <1>3, <1>4, <1>5, <1>6, <1>7 DEF IInv

\* Nobody refers themselves.
LEMMA ApplyReferralKeeps ==
  ASSUME IInv, NEW w \in Workers, NEW u \in Users, NEW v \in Users, ApplyReferral(w, u, v)
  PROVE  IInv'
<1> USE DEF IInv, TypeOK, ApplyReferral, About, coupons, rewards, session
<1>1. TypeOK'
  BY BuyersAreUsers DEF Records, NoRecord, Terms, Stored, Unlocked
<1>2. NewOrders'
  BY DEF NewOrders
<1>3. CouponsHeld'
  BY DEF CouponsHeld, Valid, Stored
<1>4. Unlocked'
  BY DEF Unlocked
<1>5. CountIsUsages'
  BY DEF CountIsUsages
<1>6. OncePerUser'
  BY DEF OncePerUser
<1>7. QualifiedByOrder'
  BY DEF QualifiedByOrder
<1> QED BY <1>1, <1>2, <1>3, <1>4, <1>5, <1>6, <1>7 DEF IInv

\* A referral leaves an existing reward alone.
LEMMA CommitReferralKeeps ==
  ASSUME IInv, NEW w \in Workers, CommitReferral(w)
  PROVE  IInv'
<1> USE DEF IInv, TypeOK, CommitReferral, EndAbout, About, coupons, rewards, session
<1>1. TypeOK'
  <2>1. /\ referredBy' \in [Users -> Users \cup {NoUser}]
        /\ reward' \in [Users -> {"absent", "pending", "qualified", "cancelled"}]
        /\ referrer' \in [Users -> Users \cup {NoUser}]
        /\ trigger' \in [Users -> Orders \cup {NoOrder}]
    BY DEF Unlocked
  <2>2. terms' \in [Users -> Terms]
    BY SettingsAreTerms DEF Unlocked
  <2> QED BY <2>1, <2>2 DEF Unlocked
<1>2. NewOrders'
  BY DEF NewOrders
<1>3. CouponsHeld'
  BY DEF CouponsHeld, Valid, Stored, NewOrders, Unlocked
<1>4. Unlocked'
  BY DEF Unlocked, NewOrders
<1>5. CountIsUsages'
  BY DEF CountIsUsages
<1>6. OncePerUser'
  BY DEF OncePerUser
<1>7. QualifiedByOrder'
  BY NullsAreNoIds DEF QualifiedByOrder, NewOrders, Unlocked
<1> QED BY <1>1, <1>2, <1>3, <1>4, <1>5, <1>6, <1>7 DEF IInv

\* The order that qualifies a reward is its user's, and charged.
LEMMA CheckAndQualifyKeeps ==
  ASSUME IInv, NEW w \in Workers, CheckAndQualify(w)
  PROVE  IInv'
<1> USE DEF IInv, TypeOK, CheckAndQualify, End, Goto, coupons, rewards, session
<1>1. TypeOK'
  BY BuyersAreUsers DEF Records, NoRecord, Terms, Stored, Unlocked
<1>2. NewOrders'
  BY NullsAreNoIds DEF NewOrders
<1>3. CouponsHeld'
  BY NullsAreNoIds DEF CouponsHeld, Valid, Stored, NewOrders, Unlocked
<1>4. Unlocked'
  BY DEF Unlocked, NewOrders
<1>5. CountIsUsages'
  BY DEF CountIsUsages
<1>6. OncePerUser'
  BY DEF OncePerUser
<1>7. QualifiedByOrder'
  BY BuyersAreUsers, LimitsAreNatural DEF QualifiedByOrder, NewOrders, Unlocked, Qualifies, Terms
<1> QED BY <1>1, <1>2, <1>3, <1>4, <1>5, <1>6, <1>7 DEF IInv

\* Rewards are never deleted.
LEMMA CancelRewardKeeps ==
  ASSUME IInv, NEW w \in Workers, NEW u \in Users, CancelReward(w, u)
  PROVE  IInv'
<1> USE DEF IInv, TypeOK, CancelReward, About, coupons, rewards, session
<1>1. TypeOK'
  BY BuyersAreUsers DEF Records, NoRecord, Terms, Stored, Unlocked
<1>2. NewOrders'
  BY DEF NewOrders
<1>3. CouponsHeld'
  BY DEF CouponsHeld, Valid, Stored
<1>4. Unlocked'
  BY DEF Unlocked
<1>5. CountIsUsages'
  BY DEF CountIsUsages
<1>6. OncePerUser'
  BY DEF OncePerUser
<1>7. QualifiedByOrder'
  BY DEF QualifiedByOrder
<1> QED BY <1>1, <1>2, <1>3, <1>4, <1>5, <1>6, <1>7 DEF IInv

\* Cancelling leaves the reward in place.
LEMMA CommitCancelKeeps ==
  ASSUME IInv, NEW w \in Workers, CommitCancel(w)
  PROVE  IInv'
<1> USE DEF IInv, TypeOK, CommitCancel, EndAbout, About, coupons, rewards, session
<1>1. TypeOK'
  BY BuyersAreUsers DEF Records, NoRecord, Terms, Stored, Unlocked
<1>2. NewOrders'
  BY DEF NewOrders
<1>3. CouponsHeld'
  BY DEF CouponsHeld, Valid, Stored, NewOrders, Unlocked
<1>4. Unlocked'
  BY DEF Unlocked, NewOrders
<1>5. CountIsUsages'
  BY DEF CountIsUsages
<1>6. OncePerUser'
  BY DEF OncePerUser
<1>7. QualifiedByOrder'
  BY DEF QualifiedByOrder, NewOrders, Unlocked
<1> QED BY <1>1, <1>2, <1>3, <1>4, <1>5, <1>6, <1>7 DEF IInv

\* A rollback leaves the database as it is.
LEMMA ReturnKeeps ==
  ASSUME IInv, NEW w \in Workers, Return(w)
  PROVE  IInv'
<1> USE DEF IInv, TypeOK, Return, Goto, coupons, rewards, session
<1>1. TypeOK'
  BY BuyersAreUsers DEF Records, NoRecord, Terms, Stored, Unlocked
<1>2. NewOrders'
  BY NullsAreNoIds DEF NewOrders
<1>3. CouponsHeld'
  BY NullsAreNoIds DEF CouponsHeld, Valid, Stored
<1>4. Unlocked'
  BY DEF Unlocked
<1>5. CountIsUsages'
  BY DEF CountIsUsages
<1>6. OncePerUser'
  BY DEF OncePerUser
<1>7. QualifiedByOrder'
  BY DEF QualifiedByOrder
<1> QED BY <1>1, <1>2, <1>3, <1>4, <1>5, <1>6, <1>7 DEF IInv

LEMMA InitIInv ==
  ASSUME Init
  PROVE  IInv
<1> USE DEF Init
<1>1. TypeOK
  BY LimitsAreNatural DEF TypeOK, Records, NoRecord, Terms, NoTerms
<1>2. NewOrders /\ CouponsHeld /\ Unlocked /\ OncePerUser /\ QualifiedByOrder
  BY DEF NewOrders, CouponsHeld, Unlocked, OncePerUser, QualifiedByOrder
<1>3. CountIsUsages
  <2>1. \A c \in Coupons : {o \in Orders : usage[o] = c} = {}
    BY NullsAreNoIds
  <2> QED BY <2>1, FS_EmptySet DEF CountIsUsages
<1> QED BY <1>1, <1>2, <1>3 DEF IInv

\* Every step keeps the invariant.
LEMMA NextKeeps ==
  ASSUME IInv, [Next]_vars
  PROVE  IInv'
<1>1. CASE Next
  BY <1>1, CreateOrderKeeps, CreateOrderWithCouponKeeps, CommitOrderKeeps,
     ApproveOrderKeeps, UpdateCouponKeeps, CommitCouponKeeps, ApplyReferralKeeps,
     CommitReferralKeeps, CheckAndQualifyKeeps, CancelRewardKeeps, CommitCancelKeeps,
     ReturnKeeps DEF Next
<1>2. CASE UNCHANGED vars
  BY <1>2 DEF vars, coupons, rewards, session, IInv, TypeOK, NewOrders, CouponsHeld, Valid,
     Stored, Unlocked, CountIsUsages, OncePerUser, QualifiedByOrder
<1> QED BY <1>1, <1>2

LEMMA IInvAlways == Spec => []IInv
<1>1. Init => IInv
  BY InitIInv
<1>2. IInv /\ [Next]_vars => IInv'
  BY NextKeeps
<1> QED BY <1>1, <1>2, PTL DEF Spec

-----------------------------------------------------------------------------
\* Only the commit of an order writes used_count, under the lock of its coupon.
LEMMA UsesAreValid ==
  ASSUME IInv, [Next]_vars, NEW c \in Coupons, usedCount'[c] # usedCount[c]
  PROVE  /\ usedCount'[c] = usedCount[c] + 1
         /\ active[c]
         /\ maxUses[c] > 0 => usedCount[c] < maxUses[c]
<1>1. PICK w \in Workers : CommitOrder(w)
  BY DEF Next, vars, coupons, CreateOrder, CreateOrderWithCoupon, ApproveOrder,
     UpdateCoupon, CommitCoupon, ApplyReferral, CommitReferral, CheckAndQualify,
     CancelReward, CommitCancel, Return
<1>2. /\ coupon[w] = c /\ usedCount'[c] = copy[w].usedCount + 1
      /\ pc[w] = "ordering" /\ c # NoCoupon
  BY <1>1, NullsAreNoIds DEF CommitOrder, Use, IInv, TypeOK
<1> QED BY <1>2 DEF IInv, TypeOK, CouponsHeld, Valid, Stored

\* No step takes a reward out of "cancelled".
LEMMA CancelledKept ==
  ASSUME IInv, [Next]_vars, NEW u \in Users, reward[u] = "cancelled"
  PROVE  reward'[u] = "cancelled"
BY DEF IInv, TypeOK, Next, vars, rewards, CreateOrder, CreateOrderWithCoupon, CommitOrder,
   ApproveOrder, UpdateCoupon, CommitCoupon, ApplyReferral, CommitReferral,
   CheckAndQualify, CancelReward, CommitCancel, Return

\* The columns, and what a session has read of them, keep their types.
THEOREM PromotionsTypes == Spec => []TypeOK
<1>1. IInv => TypeOK
  BY DEF IInv
<1> QED BY <1>1, IInvAlways, PTL

\* coupons.used_count counts the rows of coupon_usages.
THEOREM PromotionsCountUsages == Spec => []CountIsUsages
<1>1. IInv => CountIsUsages
  BY DEF IInv
<1> QED BY <1>1, IInvAlways, PTL

\* A user uses a coupon once.
THEOREM PromotionsOncePerUser == Spec => []OncePerUser
<1>1. IInv => OncePerUser
  BY DEF IInv
<1> QED BY <1>1, IInvAlways, PTL

\* A reward is qualified by a charged order of the referred user.
THEOREM PromotionsQualified == Spec => []QualifiedByOrder
<1>1. IInv => QualifiedByOrder
  BY DEF IInv
<1> QED BY <1>1, IInvAlways, PTL

\* A coupon is used within the limit that is in force at the order's commit.
THEOREM PromotionsWithinLimit == Spec => UsedWithinLimit
<1>1. IInv /\ [Next]_vars =>
        [\A c \in Coupons : usedCount'[c] # usedCount[c] =>
           /\ usedCount'[c] = usedCount[c] + 1
           /\ active[c]
           /\ maxUses[c] > 0 => usedCount[c] < maxUses[c]]_vars
  BY UsesAreValid
<1> QED BY <1>1, IInvAlways, PTL DEF Spec, UsedWithinLimit

\* A cancelled reward stays cancelled.
THEOREM PromotionsCancelledStays == Spec => CancelledStays
<1>1. IInv /\ [Next]_vars =>
        [\A u \in Users : reward[u] = "cancelled" => reward'[u] = "cancelled"]_vars
  BY CancelledKept
<1> QED BY <1>1, IInvAlways, PTL DEF Spec, CancelledStays

-----------------------------------------------------------------------------
(* Promotions implements Offers                                            *)

\* The users of a coupon follow from coupon_usages.
LEMMA UsersFollow ==
  ASSUME usage' = usage
  PROVE  UsersOf' = UsersOf
BY DEF UsersOf

LEMMA OffersInit == Init => Promise!Init
<1>1. SUFFICES ASSUME Init PROVE UsersOf = [c \in Coupons |-> {}]
  BY DEF Init, Promise!Init
<1>2. \A c \in Coupons : {x \in Orders : usage[x] = c} = {}
  BY <1>1, NullsAreNoIds DEF Init
<1> QED BY <1>2 DEF UsersOf

\* A transaction that writes none of the tables is a stutter.
LEMMA OffersStutter ==
  ASSUME UNCHANGED <<ord, coupons, rewards>>
  PROVE  UNCHANGED Promise!offersVars
BY UsersFollow DEF coupons, rewards, Promise!offersVars, Promise!coupons, Promise!rewards

\* The commit of an order places it, and redeems the coupon its lock has kept valid.
LEMMA CommitOrderPlaces ==
  ASSUME IInv, NEW w \in Workers, CommitOrder(w)
  PROVE  \E o \in Orders : Promise!Place(o)
<1>0. PICK o, c : o = order[w] /\ c = coupon[w]
  OBVIOUS
<1>1. /\ o \in Orders /\ ord[o] = "absent" /\ usage[o] = NoCoupon
      /\ c \in Coupons \cup {NoCoupon} /\ Buyer[o] \in Users
  BY <1>0, BuyersAreUsers DEF IInv, TypeOK, NewOrders, CommitOrder
<1>2. \/ usedCount' = usedCount /\ usage' = usage
      \/ /\ c \in Coupons /\ Valid(c, Buyer[o])
         /\ usedCount' = [usedCount EXCEPT ![c] = usedCount[c] + 1]
         /\ usage' = [usage EXCEPT ![o] = c]
  BY <1>0, <1>1 DEF IInv, TypeOK, CouponsHeld, CommitOrder, Use, Stored
<1>3. \/ UNCHANGED <<usedCount, UsersOf>>
      \/ \E d \in Coupons : Promise!Redeem(d, Buyer[o])
  <2>1. CASE usedCount' = usedCount /\ usage' = usage
    BY <2>1, UsersFollow
  <2>2. CASE /\ c \in Coupons /\ Valid(c, Buyer[o])
             /\ usedCount' = [usedCount EXCEPT ![c] = usedCount[c] + 1]
             /\ usage' = [usage EXCEPT ![o] = c]
    <3>1. Uses(c)' = Uses(c) \cup {o} /\ \A d \in Coupons \ {c} : Uses(d)' = Uses(d)
      BY <1>1, <2>2, NullsAreNoIds DEF Uses, IInv, TypeOK
    <3>2. \A d \in Coupons : UsersOf[d] = {Buyer[x] : x \in Uses(d)}
      BY DEF UsersOf, Uses
    <3>3. \A d \in Coupons : UsersOf'[d] = {Buyer[x] : x \in Uses(d)'}
      BY DEF UsersOf, Uses
    <3>4. UsersOf'[c] = UsersOf[c] \cup {Buyer[o]}
      BY <2>2, <3>1, <3>2, <3>3
    <3>5. \A d \in Coupons \ {c} : UsersOf'[d] = UsersOf[d]
      BY <3>1, <3>2, <3>3
    <3>6. UsersOf' = [UsersOf EXCEPT ![c] = UsersOf[c] \cup {Buyer[o]}]
      BY <2>2, <3>4, <3>5 DEF UsersOf
    <3>7. Buyer[o] \notin UsersOf[c]
      BY <2>2, <3>2 DEF Valid, Uses
    <3> QED BY <2>2, <3>6, <3>7 DEF Promise!Redeem, Valid
  <2> QED BY <1>2, <2>1, <2>2
<1>4. \E s \in {"pending_approval", "paid"} : ord' = [ord EXCEPT ![o] = s]
  BY <1>0 DEF CommitOrder
<1>5. UNCHANGED <<maxUses, active, reward, referrer, terms, trigger>>
  BY DEF CommitOrder, rewards
<1> QED BY <1>1, <1>3, <1>4, <1>5 DEF Promise!Place, Promise!rewards

LEMMA ApproveOrderApproves ==
  ASSUME NEW w \in Workers, NEW o \in Orders, ApproveOrder(w, o)
  PROVE  Promise!Approve(o)
BY UsersFollow DEF ApproveOrder, coupons, rewards, Promise!Approve, Promise!coupons, Promise!rewards

LEMMA CommitCouponChanges ==
  ASSUME IInv, NEW w \in Workers, CommitCoupon(w)
  PROVE  \E c \in Coupons : Promise!Change(c)
<1>1. PICK c \in Coupons : c = coupon[w]
  BY DEF IInv, Unlocked, CommitCoupon
<1>2. PICK n \in Limits, on \in BOOLEAN :
        /\ maxUses' = IF n = copy[w].maxUses THEN maxUses ELSE [maxUses EXCEPT ![c] = n]
        /\ active' = IF on = copy[w].active THEN active ELSE [active EXCEPT ![c] = on]
  BY <1>1 DEF CommitCoupon
<1>3. \E m \in Limits \cup {maxUses[c]} : maxUses' = [maxUses EXCEPT ![c] = m]
  <2>1. maxUses = [maxUses EXCEPT ![c] = maxUses[c]]
    BY DEF IInv, TypeOK
  <2> QED BY <1>2, <2>1
<1>4. \E b \in BOOLEAN : active' = [active EXCEPT ![c] = b]
  <2>1. active = [active EXCEPT ![c] = active[c]] /\ active[c] \in BOOLEAN
    BY DEF IInv, TypeOK
  <2>2. CASE on = copy[w].active
    BY <1>2, <2>1, <2>2
  <2>3. CASE on # copy[w].active
    BY <1>2, <2>3
  <2> QED BY <2>2, <2>3
<1>5. UNCHANGED <<ord, usedCount, usage, reward, referrer, terms, trigger>>
  BY DEF CommitCoupon, rewards
<1> QED BY <1>3, <1>4, <1>5, UsersFollow DEF Promise!Change, Promise!rewards

LEMMA CommitReferralRefers ==
  ASSUME IInv, NEW w \in Workers, CommitReferral(w)
  PROVE  \/ UNCHANGED <<ord, coupons, rewards>>
         \/ \E u, v \in Users : Promise!Refer(u, v)
<1>1. PICK u \in Users, v \in Users : u = user[w] /\ v = code[w] /\ u # v
  BY DEF IInv, Unlocked, CommitReferral
<1>2. CASE reward[u] # "absent"
  BY <1>1, <1>2 DEF CommitReferral
<1>3. CASE reward[u] = "absent"
  <2>1. /\ reward' = [reward EXCEPT ![u] = "pending"]
        /\ referrer' = [referrer EXCEPT ![u] = v]
        /\ \E t \in Settings : terms' = [terms EXCEPT ![u] = t]
        /\ UNCHANGED <<trigger, ord, maxUses, active, usedCount, usage>>
    BY <1>1, <1>3 DEF CommitReferral, coupons
  <2> QED BY <1>1, <1>3, <2>1, UsersFollow DEF Promise!Refer, Promise!coupons
<1> QED BY <1>2, <1>3

LEMMA CheckAndQualifyQualifies ==
  ASSUME IInv, NEW w \in Workers, CheckAndQualify(w)
  PROVE  \E o \in Orders : Promise!Qualify(o)
<1>1. PICK o \in Orders : o = order[w] /\ ord[o] = "paid"
  BY DEF IInv, Unlocked, CheckAndQualify
<1>2. UNCHANGED <<ord, maxUses, active, usedCount, usage, referrer, terms>>
  BY DEF CheckAndQualify, coupons
<1>3. terms[Buyer[o]].condition = "min_amount" => o \in Large
  BY <1>1 DEF CheckAndQualify, Qualifies
<1> QED BY <1>1, <1>2, <1>3, UsersFollow DEF CheckAndQualify, Promise!Qualify, Promise!coupons

LEMMA CommitCancelCancels ==
  ASSUME IInv, NEW w \in Workers, CommitCancel(w)
  PROVE  \/ UNCHANGED <<ord, coupons, rewards>>
         \/ \E u \in Users : Promise!Cancel(u)
<1>1. PICK u \in Users : u = user[w] /\ reward[u] # "absent"
  BY DEF IInv, Unlocked, CommitCancel
<1>2. /\ reward' = [reward EXCEPT ![u] = "cancelled"]
      /\ UNCHANGED <<ord, coupons, referrer, terms, trigger>>
  BY <1>1 DEF CommitCancel
<1>3. CASE reward[u] = "cancelled"
  BY <1>1, <1>2, <1>3 DEF rewards, IInv, TypeOK
<1>4. CASE reward[u] # "cancelled"
  BY <1>1, <1>2, <1>4, UsersFollow
     DEF Promise!Cancel, Promise!coupons, coupons, IInv, TypeOK
<1> QED BY <1>3, <1>4

\* Every step of a worker is a step of Offers or a stutter.
LEMMA StepKeepsOffers == IInv /\ [Next]_vars => [Promise!Next]_(Promise!offersVars)
<1> SUFFICES ASSUME IInv, [Next]_vars
             PROVE  Promise!Next \/ UNCHANGED Promise!offersVars
  OBVIOUS
<1>1. CASE \E w \in Workers : CommitOrder(w)
  BY <1>1, CommitOrderPlaces DEF Promise!Next
<1>2. CASE \E w \in Workers, o \in Orders : ApproveOrder(w, o)
  BY <1>2, ApproveOrderApproves DEF Promise!Next
<1>3. CASE \E w \in Workers : CommitCoupon(w)
  BY <1>3, CommitCouponChanges DEF Promise!Next
<1>4. CASE \E w \in Workers : CommitReferral(w)
  BY <1>4, CommitReferralRefers, OffersStutter DEF Promise!Next
<1>5. CASE \E w \in Workers : CheckAndQualify(w)
  BY <1>5, CheckAndQualifyQualifies DEF Promise!Next
<1>6. CASE \E w \in Workers : CommitCancel(w)
  BY <1>6, CommitCancelCancels, OffersStutter DEF Promise!Next
<1>7. CASE UNCHANGED <<ord, coupons, rewards>>
  BY <1>7, OffersStutter
<1>8. Next \/ UNCHANGED <<ord, coupons, rewards>>
  BY DEF vars
<1> QED BY <1>1, <1>2, <1>3, <1>4, <1>5, <1>6, <1>7, <1>8
     DEF Next, CreateOrder, CreateOrderWithCoupon, UpdateCoupon, ApplyReferral, CancelReward, Return

\* The requests of all workers, interleaved, behave like Offers.
THEOREM PromotionsKeepOffers == Spec => KeepsOffers
<1>1. Init => Promise!Init
  BY OffersInit
<1>2. IInv /\ [Next]_vars => [Promise!Next]_(Promise!offersVars)
  BY StepKeepsOffers
<1> QED BY <1>1, <1>2, IInvAlways, PTL DEF Spec, KeepsOffers, Promise!Spec

-----------------------------------------------------------------------------
(* What follows from Offers alone                                          *)

\* The counter of a coupon is the number of different users who have used it.
HeadsCounted == \A c \in Coupons : usedCount[c] = Cardinality(UsersOf[c])

Heads ==
  /\ usedCount \in [Coupons -> Nat]
  /\ \A c \in Coupons : IsFiniteSet(UsersOf[c])
  /\ HeadsCounted

\* A step of Offers redeems one coupon for one new user, or none.
LEMMA OffersRedeem ==
  ASSUME Promise!Next
  PROVE  \/ UNCHANGED <<usedCount, UsersOf>>
         \/ \E c \in Coupons : \E o \in Orders : Promise!Redeem(c, Buyer[o])
BY DEF Promise!Next, Promise!Place, Promise!Approve, Promise!Change, Promise!Refer,
   Promise!Qualify, Promise!Cancel, Promise!coupons

LEMMA HeadsStep == Heads /\ [Promise!Next]_(Promise!offersVars) => Heads'
<1> SUFFICES ASSUME Heads, [Promise!Next]_(Promise!offersVars) PROVE Heads'
  OBVIOUS
<1>1. CASE UNCHANGED <<usedCount, UsersOf>>
  BY <1>1 DEF Heads, HeadsCounted
<1>2. CASE \E c \in Coupons : \E o \in Orders : Promise!Redeem(c, Buyer[o])
  <2>1. PICK c \in Coupons, o \in Orders : Promise!Redeem(c, Buyer[o])
    BY <1>2
  <2>2. /\ usedCount' = [usedCount EXCEPT ![c] = usedCount[c] + 1]
        /\ UsersOf' = [UsersOf EXCEPT ![c] = UsersOf[c] \cup {Buyer[o]}]
        /\ Buyer[o] \notin UsersOf[c]
    BY <2>1 DEF Promise!Redeem
  <2>3. /\ UsersOf'[c] = UsersOf[c] \cup {Buyer[o]}
        /\ \A d \in Coupons \ {c} : UsersOf'[d] = UsersOf[d]
    BY <2>2 DEF UsersOf
  <2>4. /\ IsFiniteSet(UsersOf[c] \cup {Buyer[o]})
        /\ Cardinality(UsersOf[c] \cup {Buyer[o]}) = Cardinality(UsersOf[c]) + 1
    BY <2>2, FS_AddElement DEF Heads
  <2> QED BY <2>2, <2>3, <2>4 DEF Heads, HeadsCounted
<1> QED BY <1>1, <1>2, OffersRedeem DEF Promise!offersVars, Promise!coupons

LEMMA HeadsAlways == KeepsOffers => []Heads
<1>1. Promise!Init => Heads
  BY FS_EmptySet DEF Promise!Init, Heads, HeadsCounted
<1> QED BY <1>1, HeadsStep, PTL DEF KeepsOffers, Promise!Spec

\* Whatever behaves like Offers counts the users of a coupon.
THEOREM OffersCountHeads == KeepsOffers => []HeadsCounted
<1>1. Heads => HeadsCounted
  BY DEF Heads
<1> QED BY <1>1, HeadsAlways, PTL

\* As long as nobody changes the limit of a coupon, no more users than that use it,
\* however many orders are placed at the same time.
THEOREM OffersKeepLimit ==
  ASSUME NEW c \in Coupons, NEW n \in Nat \ {0}
  PROVE  KeepsOffers /\ [](maxUses[c] = n) => [](Cardinality(UsersOf[c]) <= n)
<1> DEFINE Within == usedCount[c] <= n
<1>1. Promise!Init => Within
  BY DEF Promise!Init
<1>2. Heads /\ Within /\ maxUses[c] = n /\ [Promise!Next]_(Promise!offersVars) => Within'
  <2> SUFFICES ASSUME Heads, Within, maxUses[c] = n, [Promise!Next]_(Promise!offersVars)
               PROVE  Within'
    OBVIOUS
  <2>1. CASE \E d \in Coupons : \E o \in Orders : Promise!Redeem(d, Buyer[o])
    BY <2>1 DEF Promise!Redeem, Heads
  <2>2. CASE UNCHANGED usedCount
    BY <2>2
  <2> QED BY <2>1, <2>2, OffersRedeem DEF Promise!offersVars, Promise!coupons
<1>3. Heads /\ Within => Cardinality(UsersOf[c]) <= n
  BY DEF Heads, HeadsCounted
<1> HIDE DEF Within
<1> QED BY <1>1, <1>2, <1>3, HeadsAlways, PTL DEF KeepsOffers, Promise!Spec

-----------------------------------------------------------------------------
(* Referrals of one user, one at a time                                    *)

\* No two requests apply a referral code for the same user.
OneReferralAtATime ==
  \A v, w \in Workers :
    v # w /\ pc[v] = "referring" /\ pc[w] = "referring" => user[v] # user[w]

\* Then what the request has read of users.referred_by_id still holds.
ReferralsHeld == \A w \in Workers : pc[w] = "referring" => referredBy[user[w]] = NoUser

LEMMA ReferralStep ==
  ASSUME IInv, OneReferralAtATime, ReferralsHeld, RewardIsForReferrer, [Next]_vars
  PROVE  ReferralsHeld' /\ RewardIsForReferrer'
<1>1. ASSUME NEW w \in Workers, CommitReferral(w) PROVE ReferralsHeld' /\ RewardIsForReferrer'
  <2>1. PICK u \in Users : u = user[w]
    BY <1>1 DEF CommitReferral, IInv, Unlocked
  <2>2. /\ pc[w] = "referring" /\ pc' = [pc EXCEPT ![w] = "idle"]
        /\ user' = [user EXCEPT ![w] = NoUser]
        /\ referredBy' = [referredBy EXCEPT ![u] = code[w]]
    BY <1>1, <2>1 DEF CommitReferral, EndAbout, About
  <2>3. reward[u] = "absent"
    BY <2>1, <2>2 DEF ReferralsHeld, IInv, QualifiedByOrder
  <2>4. /\ reward' = [reward EXCEPT ![u] = "pending"]
        /\ referrer' = [referrer EXCEPT ![u] = code[w]]
    BY <1>1, <2>1, <2>3 DEF CommitReferral
  <2>5. \A v \in Workers : pc'[v] = "referring" =>
           v # w /\ pc[v] = "referring" /\ user'[v] = user[v] /\ user[v] # u
    BY <2>1, <2>2 DEF OneReferralAtATime, IInv, TypeOK
  <2>6. ReferralsHeld'
    BY <2>2, <2>5 DEF ReferralsHeld, IInv, TypeOK, Unlocked
  <2>7. RewardIsForReferrer'
    BY <2>2, <2>4 DEF RewardIsForReferrer, IInv, TypeOK
  <2> QED BY <2>6, <2>7
<1>2. ASSUME UNCHANGED <<referredBy, referrer>>,
             \A u \in Users : reward[u] = "absent" => reward'[u] = "absent"
      PROVE  RewardIsForReferrer'
  BY <1>2 DEF RewardIsForReferrer
<1>3. ASSUME NEW w \in Workers, NEW u \in Users, NEW v \in Users, ApplyReferral(w, u, v)
      PROVE  ReferralsHeld' /\ RewardIsForReferrer'
  BY <1>2, <1>3 DEF ApplyReferral, About, rewards, ReferralsHeld, IInv, TypeOK
<1>4. ASSUME UNCHANGED <<referredBy, referrer>>,
             \A u \in Users : reward[u] = "absent" => reward'[u] = "absent",
             \A w \in Workers : pc'[w] = "referring" => pc[w] = "referring" /\ user'[w] = user[w]
      PROVE  ReferralsHeld' /\ RewardIsForReferrer'
  BY <1>2, <1>4 DEF ReferralsHeld
<1>5. ASSUME NEW w \in Workers,
             \/ \E o \in Orders : CreateOrder(w, o) \/ ApproveOrder(w, o)
             \/ \E o \in Orders, c \in Coupons : CreateOrderWithCoupon(w, o, c)
             \/ \E c \in Coupons : UpdateCoupon(w, c)
             \/ CommitOrder(w) \/ CommitCoupon(w) \/ Return(w)
      PROVE  ReferralsHeld' /\ RewardIsForReferrer'
  <2>1. /\ UNCHANGED <<referredBy, referrer, reward>>
        /\ \A v \in Workers :
             pc'[v] = "referring" => pc[v] = "referring" /\ user'[v] = user[v]
    BY <1>5 DEF CreateOrder, ApproveOrder, CreateOrderWithCoupon, UpdateCoupon, CommitOrder,
       CommitCoupon, Return, End, Goto, rewards, IInv, TypeOK
  <2> QED BY <1>4, <2>1
<1>6. ASSUME NEW w \in Workers,
             CheckAndQualify(w) \/ CommitCancel(w) \/ \E u \in Users : CancelReward(w, u)
      PROVE  ReferralsHeld' /\ RewardIsForReferrer'
  <2>1. UNCHANGED <<referredBy, referrer>>
    BY <1>6 DEF CheckAndQualify, CommitCancel, CancelReward, rewards
  <2>2. \A u \in Users : reward[u] = "absent" => reward'[u] = "absent"
    BY <1>6, BuyersAreUsers DEF CheckAndQualify, CommitCancel, CancelReward, rewards, IInv, TypeOK, Unlocked
  <2>3. \A v \in Workers : pc'[v] = "referring" => pc[v] = "referring" /\ user'[v] = user[v]
    BY <1>6 DEF CheckAndQualify, CommitCancel, CancelReward, End, Goto, EndAbout, About, IInv, TypeOK
  <2> QED BY <1>4, <2>1, <2>2, <2>3
<1>7. CASE UNCHANGED vars
  BY <1>4, <1>7 DEF vars, rewards, session
<1> QED BY <1>1, <1>3, <1>5, <1>6, <1>7 DEF Next

\* The race of two referrals of one user is the only way in which users.referred_by_id
\* and the reward come to name different users.
THEOREM ReferrerKeptOneAtATime == Spec /\ []OneReferralAtATime => []RewardIsForReferrer
<1> DEFINE Held == ReferralsHeld /\ RewardIsForReferrer
<1>1. Init => Held
  BY DEF Init, ReferralsHeld, RewardIsForReferrer
<1>2. IInv /\ OneReferralAtATime /\ Held /\ [Next]_vars => Held'
  BY ReferralStep
<1>3. Held => RewardIsForReferrer
  OBVIOUS
<1> HIDE DEF Held
<1> QED BY <1>1, <1>2, <1>3, IInvAlways, PTL DEF Spec
=============================================================================
