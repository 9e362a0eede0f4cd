-------------------------- MODULE FulfilmentProofs --------------------------
(***************************************************************************)
(* Proofs about Fulfilment, for any orders, eSIMs, purchase modes and      *)
(* workers.  The inductive invariant says what a request may rely on       *)
(* between its transactions, when it holds no lock: the items it still has *)
(* to buy for stay without an eSIM, the eSIM it has bought stays unknown   *)
(* to the database, and the rows it activates stay sold.                   *)
(***************************************************************************)
EXTENDS Fulfilment, TLAPS

Uncharged(o) == ord[o] \in {"absent", "pending_approval"}
\* The statuses a row has once it is sold.
SoldOnce == {"sold", "activated", "suspended"}

Unbought(it) == \A e \in Esims : boughtFor[e] # it
OnDemand(it) == \A o \in Orders : it \in ItemsOf[o] => Mode[o] # "inventory_only"

\* An order whose row is locked is still not charged; one being closed exists.
OrdersHeld ==
  \A w \in Workers :
    /\ pc[w] = "holding" => order[w] \in Orders /\ Uncharged(order[w])
    /\ pc[w] = "closing" => order[w] \in Orders /\ ord[order[w]] # "absent"

\* A row has an owner from its sale on.
SoldHaveOwners ==
  \A e \in Esims : inv[e] \in SoldOnce <=> owner[e] # NoItem

\* Nothing is bought, or waits to be bought, for an order that is not charged.
UnchargedHaveNothing ==
  \A o \in Orders : Uncharged(o) => \A it \in ItemsOf[o] :
    Unbought(it) /\ \A w \in Workers : it \notin want[w]

\* The items a request has to buy for are nobody else's and still have nothing.
WantsAreOpen ==
  /\ \A w \in Workers : \A it \in want[w] :
       iccid[it] = NoEsim /\ Unbought(it) /\ OnDemand(it)
  /\ \A v, w \in Workers : v # w => want[v] \cap want[w] = {}

\* An eSIM that was bought and not recorded yet is not in the database.
Purchases ==
  /\ \A e \in Esims : boughtFor[e] # NoItem => OnDemand(boughtFor[e])
  /\ \A w \in Workers : pc[w] = "bought" =>
       /\ cur[w] \in Esims /\ inv[cur[w]] = "absent"
       /\ boughtFor[cur[w]] \in Items /\ iccid[boughtFor[cur[w]]] = NoEsim
       /\ bundle[cur[w]] = "applied"
  /\ \A v, w \in Workers :
       v # w /\ pc[v] = "bought" /\ pc[w] = "bought" => cur[v] # cur[w]

\* The rows a request activates are sold; what the provider said holds.
Working ==
  /\ \A w \in Workers : pc[w] # "holding" => \A e \in rows[w] : inv[e] \in SoldOnce
  /\ \A w \in Workers : pc[w] \in {"applying", "applied", "copied", "attaching"} =>
       cur[w] \in Esims /\ inv[cur[w]] \in SoldOnce
  /\ \A w \in Workers : pc[w] \in {"applied", "copied", "attaching"} =>
       bundle[cur[w]] = "applied"
  /\ \A w \in Workers : pc[w] = "copied" /\ copy[w].status = "activated" =>
       inv[cur[w]] = "activated"

\* The row lock of a retry keeps the status and the count it has read.
Retrying ==
  /\ \A w \in Workers : pc[w] = "retrying" =>
       cur[w] \in Esims /\ inv[cur[w]] = "sold" /\ retries[cur[w]] < MaxRetries
  /\ \A v, w \in Workers :
       v # w /\ pc[v] = "retrying" /\ pc[w] = "retrying" => cur[v] # cur[w]

\* The provider has not been asked to activate an eSIM that is not sold.
StockIsBlank ==
  \A e \in Esims :
    /\ inv[e] = "available" \/ (inv[e] = "absent" /\ boughtFor[e] = NoItem)
         => bundle[e] = "none"
    /\ inv[e] \in {"absent", "available"} => retries[e] = 0

IInv ==
  /\ TypeOK
  /\ TakenRowsAreExclusive /\ OrdersHeld
  /\ OneOwner /\ SoldHaveOwners /\ UnchargedHaveNothing /\ WantsAreOpen
  /\ BoughtOnce /\ Purchases
  /\ Working /\ Retrying /\ StockIsBlank
  /\ SuspendedAtLimit /\ ActivatedHasBundle /\ InventoryOnlyComplete

-----------------------------------------------------------------------------
\* The rows SKIP LOCKED returns are available and locked by nobody.
LEMMA TakenAreFree ==
  ASSUME NEW o, NEW S \in Taken(o)
  PROVE  S \subseteq FreeRows
BY DEF Taken

\* New stock disturbs only what is known of eSIMs that are not in the database.
LEMMA ImportKeeps ==
  ASSUME IInv, NEW e \in Esims, Import(e)
  PROVE  IInv'
<1> USE DEF IInv, TypeOK, Import, stock, provider, session
<1>1. /\ TypeOK' /\ TakenRowsAreExclusive' /\ OrdersHeld' /\ OneOwner'
      /\ SoldHaveOwners' /\ UnchargedHaveNothing' /\ WantsAreOpen' /\ BoughtOnce'
      /\ Working' /\ Retrying' /\ StockIsBlank' /\ SuspendedAtLimit'
      /\ ActivatedHasBundle' /\ InventoryOnlyComplete'
  BY DEF Statuses, Copies, Busy, TakenRowsAreExclusive, OrdersHeld, Uncharged, OneOwner,
     SoldHaveOwners, SoldOnce, UnchargedHaveNothing, Unbought, WantsAreOpen, BoughtOnce,
     Working, Retrying, StockIsBlank, SuspendedAtLimit, ActivatedHasBundle,
     InventoryOnlyComplete
<1>2. Purchases'
  BY NullsAreNoRows DEF Purchases
<1> QED BY <1>1, <1>2 DEF IInv

\* A new order takes rows that nobody has.
LEMMA CreateOrderKeeps ==
  ASSUME IInv, NEW w \in Workers, NEW o \in Orders, CreateOrder(w, o)
  PROVE  IInv'
<1> USE DEF IInv, TypeOK, CreateOrder, Start, Goto, Taken, FreeRows, RowFree, OrderFree,
    stock, provider, session
<1>1. /\ TypeOK' /\ OrdersHeld' /\ OneOwner' /\ SoldHaveOwners'
      /\ UnchargedHaveNothing' /\ WantsAreOpen' /\ BoughtOnce' /\ Purchases'
      /\ Working' /\ Retrying' /\ StockIsBlank' /\ SuspendedAtLimit'
      /\ ActivatedHasBundle' /\ InventoryOnlyComplete'
  BY DEF Statuses, Copies, Busy, OrdersHeld, Uncharged, OneOwner, SoldHaveOwners,
     SoldOnce, UnchargedHaveNothing, Unbought, WantsAreOpen, BoughtOnce, Purchases,
     Working, Retrying, StockIsBlank, SuspendedAtLimit, ActivatedHasBundle,
     InventoryOnlyComplete
<1>2. TakenRowsAreExclusive'
  BY TakenAreFree DEF TakenRowsAreExclusive, FreeRows, RowFree, OrderFree, SoldHaveOwners,
     SoldOnce
<1> QED BY <1>1, <1>2 DEF IInv

\* An approval takes rows that nobody has.
LEMMA ApproveOrderKeeps ==
  ASSUME IInv, NEW w \in Workers, NEW o \in Orders, ApproveOrder(w, o)
  PROVE  IInv'
<1> USE DEF IInv, TypeOK, ApproveOrder, Start, Goto, Taken, FreeRows, RowFree, OrderFree,
    stock, provider, session
<1>1. /\ TypeOK' /\ OrdersHeld' /\ OneOwner' /\ SoldHaveOwners'
      /\ UnchargedHaveNothing' /\ WantsAreOpen' /\ BoughtOnce' /\ Purchases'
      /\ Working' /\ Retrying' /\ StockIsBlank' /\ SuspendedAtLimit'
      /\ ActivatedHasBundle' /\ InventoryOnlyComplete'
  BY DEF Statuses, Copies, Busy, OrdersHeld, Uncharged, OneOwner, SoldHaveOwners,
     SoldOnce, UnchargedHaveNothing, Unbought, WantsAreOpen, BoughtOnce, Purchases,
     Working, Retrying, StockIsBlank, SuspendedAtLimit, ActivatedHasBundle,
     InventoryOnlyComplete
<1>2. TakenRowsAreExclusive'
  BY TakenAreFree DEF TakenRowsAreExclusive, FreeRows, RowFree, OrderFree, SoldHaveOwners,
     SoldOnce
<1> QED BY <1>1, <1>2 DEF IInv

\* An order that waits for approval gives its rows back.
LEMMA PlaceOrderKeeps ==
  ASSUME IInv, NEW w \in Workers, PlaceOrder(w)
  PROVE  IInv'
<1> USE DEF IInv, TypeOK, PlaceOrder, End, Goto, Read, NoCopy, stock, provider, session
<1>1. /\ TypeOK' /\ TakenRowsAreExclusive' /\ OrdersHeld' /\ OneOwner'
      /\ SoldHaveOwners' /\ UnchargedHaveNothing' /\ WantsAreOpen' /\ BoughtOnce'
      /\ Purchases' /\ Working' /\ Retrying' /\ StockIsBlank' /\ SuspendedAtLimit'
      /\ ActivatedHasBundle' /\ InventoryOnlyComplete'
  BY DEF Statuses, Copies, Busy, TakenRowsAreExclusive, OrdersHeld, Uncharged, OneOwner,
     SoldHaveOwners, SoldOnce, UnchargedHaveNothing, Unbought, WantsAreOpen, BoughtOnce,
     Purchases, Working, Retrying, StockIsBlank, SuspendedAtLimit, ActivatedHasBundle,
     InventoryOnlyComplete
<1> QED BY <1>1 DEF IInv

\* The sale: the rows go to items that had nothing, the rest is to be bought.
LEMMA CommitSaleKeeps ==
  ASSUME IInv, NEW w \in Workers, CommitSale(w)
  PROVE  IInv'
<1> USE ItemsBelongToOneOrder, ModeIsMode, MaxRetriesIsPositive, NullsAreNoRows
    DEF IInv, TypeOK, CommitSale, Sell, Goto, stock, provider, session
<1>1. PICK o \in Orders : \E to \in [rows[w] -> ItemsOf[o]] :
          Sell(w, o, to) /\ (Mode[o] = "inventory_only" => want'[w] = {})
  OBVIOUS
<1>2. PICK to \in [rows[w] -> ItemsOf[o]] :
          Sell(w, o, to) /\ (Mode[o] = "inventory_only" => want'[w] = {})
  BY <1>1
<1> DEFINE R == rows[w]
           sold == {to[e] : e \in R}
<1>3. /\ R \subseteq Esims /\ sold \subseteq ItemsOf[o] /\ ItemsOf[o] \subseteq Items
      /\ Uncharged(o) /\ order[w] = o /\ pc[w] = "holding"
  <2>1. order[w] = o /\ pc[w] = "holding"
    BY <1>2
  <2>2. Uncharged(o)
    BY <2>1 DEF OrdersHeld
  <2>3. R \subseteq Esims /\ ItemsOf[o] \subseteq Items
    OBVIOUS
  <2> QED BY <2>1, <2>2, <2>3
<1>4. \A e \in R : inv[e] = "available" /\ owner[e] = NoItem
  BY <1>2 DEF TakenRowsAreExclusive
<1>5. \A e \in R : to[e] \in Items /\ to[e] # NoItem /\ e # NoEsim
  BY <1>3
<1>6. \A e \in R : iccid'[to[e]] = e
  <2>1. ASSUME NEW e \in R PROVE (CHOOSE d \in R : to[d] = to[e]) = e
    BY <1>2
  <2> QED BY <1>2, <1>5, <2>1
<1>7. \A it \in Items \ sold : iccid'[it] = iccid[it]
  BY <1>2
<1>8. /\ \A it \in ItemsOf[o] : iccid[it] = NoEsim /\ Unbought(it)
      /\ \A it \in ItemsOf[o], v \in Workers : it \notin want[v]
  BY <1>3 DEF UnchargedHaveNothing, OneOwner, Uncharged
<1>9. /\ ord' = [ord EXCEPT ![o] = "paid"]
      /\ inv' = [e \in Esims |-> IF e \in R THEN "sold" ELSE inv[e]]
      /\ owner' = [e \in Esims |-> IF e \in R THEN to[e] ELSE owner[e]]
      /\ Goto(w, "serving", NoOrder, R, ItemsOf[o] \ sold, NoEsim)
      /\ UNCHANGED <<retries, bundle, boughtFor, copy>>
  BY <1>2
<1>10. iccid' \in [Items -> Esims \cup {NoEsim}]
  <2>1. iccid' = [it \in Items |-> IF it \in sold THEN CHOOSE e \in R : to[e] = it ELSE
     iccid[it]]
    BY <1>2
  <2>2. ASSUME NEW it \in sold PROVE (CHOOSE e \in R : to[e] = it) \in Esims
    BY <1>3
  <2> QED BY <2>1, <2>2
<1> HIDE DEF CommitSale, Sell, R, sold
<1>21. TypeOK'
  BY <1>3, <1>5, <1>9, <1>10 DEF Statuses, Busy, R
<1>22. TakenRowsAreExclusive'
  BY <1>9, <1>3 DEF TakenRowsAreExclusive, R
<1>23. OrdersHeld'
  BY <1>9, <1>3 DEF OrdersHeld, Uncharged, TakenRowsAreExclusive
<1>24. OneOwner'
  <2>1. ASSUME NEW e \in Esims, NEW it \in Items PROVE owner'[e] = it <=> iccid'[it] = e
    <3>1. CASE e \in R
      BY <1>3, <1>4, <1>5, <1>6, <1>7, <1>9, <3>1 DEF OneOwner, sold
    <3>2. CASE e \notin R /\ it \in sold
      BY <1>3, <1>5, <1>6, <1>8, <1>9, <3>2 DEF OneOwner, sold
    <3>3. CASE e \notin R /\ it \notin sold
      BY <1>7, <1>9, <3>3 DEF OneOwner
    <3> QED BY <3>1, <3>2, <3>3
  <2>2. ASSUME NEW p \in Orders, ord'[p] \in {"absent", "pending_approval"}, NEW it \in
     ItemsOf[p]
        PROVE iccid'[it] = NoEsim
    <3>1. p # o /\ it \notin sold /\ it \in Items
      BY <1>3, <1>9, <2>2
    <3> QED BY <1>7, <1>9, <2>2, <3>1 DEF OneOwner
  <2> QED BY <2>1, <2>2 DEF OneOwner
<1>25. SoldHaveOwners'
  BY <1>4, <1>5, <1>9 DEF SoldHaveOwners, SoldOnce
<1>26. UnchargedHaveNothing'
  <2> SUFFICES ASSUME NEW p \in Orders, Uncharged(p)', NEW it \in ItemsOf[p]
               PROVE  Unbought(it)' /\ \A v \in Workers : it \notin want'[v]
    BY DEF UnchargedHaveNothing
  <2>1. p # o /\ Uncharged(p) /\ it \notin ItemsOf[o]
    BY <1>9 DEF Uncharged
  <2> QED BY <1>9, <2>1 DEF UnchargedHaveNothing, Unbought
<1>27. WantsAreOpen'
  <2>1. ASSUME NEW v \in Workers, v # w, NEW it \in want'[v]
        PROVE  iccid'[it] = NoEsim /\ Unbought(it)' /\ OnDemand(it)' /\ it \notin ItemsOf[o]
    <3>1. it \in want[v] /\ it \in Items /\ it \notin ItemsOf[o]
      BY <1>8, <1>9, <2>1
    <3> QED BY <1>3, <1>7, <1>9, <3>1 DEF WantsAreOpen, Unbought, OnDemand
  <2>2. ASSUME NEW it \in want'[w]
        PROVE  iccid'[it] = NoEsim /\ Unbought(it)' /\ OnDemand(it)' /\ it \in ItemsOf[o]
    <3>1. it \in ItemsOf[o] \ sold /\ Mode[o] # "inventory_only"
      BY <1>2, <1>9, <2>2
    <3>2. OnDemand(it)
      BY <3>1 DEF OnDemand
    <3> QED BY <1>3, <1>7, <1>8, <1>9, <3>1, <3>2 DEF Unbought, OnDemand
  <2>3. ASSUME NEW v \in Workers, NEW x \in Workers, v # x PROVE want'[v] \cap want'[x] = {}
    <3>1. CASE v # w /\ x # w
      BY <1>9, <2>3, <3>1 DEF WantsAreOpen
    <3> QED BY <2>1, <2>2, <2>3, <3>1
  <2> QED BY <2>1, <2>2, <2>3 DEF WantsAreOpen
<1>28. BoughtOnce'
  <2>1. \A e \in Esims : boughtFor[e] # NoItem => boughtFor[e] \in Items /\ boughtFor[e]
     \notin ItemsOf[o]
    BY <1>8 DEF Unbought
  <2> QED BY <1>3, <1>7, <1>9, <2>1 DEF BoughtOnce
<1>29. Purchases'
  <2>0. \A v \in Workers : pc[v] = "bought" =>
           /\ cur[v] \in Esims /\ inv[cur[v]] = "absent"
           /\ boughtFor[cur[v]] \in Items /\ iccid[boughtFor[cur[v]]] = NoEsim
           /\ bundle[cur[v]] = "applied"
    BY DEF Purchases
  <2>1. \A e \in Esims : boughtFor[e] # NoItem => boughtFor[e] \in Items /\ boughtFor[e]
     \notin ItemsOf[o]
    BY <1>8 DEF Unbought
  <2>2. \A v \in Workers : pc'[v] = "bought" => pc[v] = "bought" /\ cur'[v] = cur[v]
    BY <1>9
  <2>3. \A v \in Workers : pc[v] = "bought" =>
           inv'[cur[v]] = inv[cur[v]] /\ iccid'[boughtFor[cur[v]]] =
     iccid[boughtFor[cur[v]]]
    BY <1>3, <1>4, <1>7, <1>9, <2>1 DEF Purchases
  <2>4. ASSUME NEW v \in Workers, pc'[v] = "bought"
        PROVE  /\ cur'[v] \in Esims /\ inv'[cur'[v]] = "absent"
               /\ boughtFor'[cur'[v]] \in Items /\ iccid'[boughtFor'[cur'[v]]] = NoEsim
               /\ bundle'[cur'[v]] = "applied"
    <3>1. pc[v] = "bought" /\ cur'[v] = cur[v] /\ UNCHANGED <<boughtFor, bundle>>
      BY <1>9, <2>2, <2>4
    <3> QED BY <2>0, <2>3, <3>1
  <2>5. \A v, x \in Workers :
           v # x /\ pc'[v] = "bought" /\ pc'[x] = "bought" => cur'[v] # cur'[x]
    BY <2>2 DEF Purchases
  <2>6. \A e \in Esims : boughtFor[e] # NoItem => OnDemand(boughtFor[e])
    BY DEF Purchases
  <2> QED BY <1>9, <2>4, <2>5, <2>6 DEF Purchases, OnDemand
<1>30. Working'
  <2>1. \A e \in Esims : inv[e] \in SoldOnce => inv'[e] = inv[e]
    BY <1>4, <1>9 DEF SoldOnce
  <2>2. \A e \in R : inv'[e] \in SoldOnce
    BY <1>3, <1>9 DEF SoldOnce
  <2> QED BY <1>9, <2>1, <2>2 DEF Working
<1>31. Retrying'
  BY <1>4, <1>9 DEF Retrying
<1>32. StockIsBlank'
  BY <1>4, <1>9 DEF StockIsBlank
<1>33. SuspendedAtLimit'
  BY <1>3, <1>4, <1>9 DEF SuspendedAtLimit, StockIsBlank
<1>34. ActivatedHasBundle'
  BY <1>9 DEF ActivatedHasBundle
<1>35. InventoryOnlyComplete'
  <2>1. ASSUME NEW p \in Orders, p # o, NEW it \in ItemsOf[p] PROVE it \in Items /\ it
     \notin sold
    BY <1>3, <2>1
  <2>2. want'[w] = ItemsOf[o] \ sold
    BY <1>9
  <2>3. \A it \in sold : iccid'[it] # NoEsim
    BY <1>5, <1>6 DEF sold
  <2>4. Mode[o] = "inventory_only" => \A it \in ItemsOf[o] : iccid'[it] # NoEsim
    BY <1>2, <2>2, <2>3
  <2> QED BY <1>7, <1>9, <2>1, <2>4 DEF InventoryOnlyComplete
<1> QED BY <1>21, <1>22, <1>23, <1>24, <1>25, <1>26, <1>27, <1>28, <1>29, <1>30, <1>31,
     <1>32,
           <1>33, <1>34, <1>35 DEF IInv

\* A refund leaves the eSIMs where they are.
LEMMA RefundOrderKeeps ==
  ASSUME IInv, NEW o \in Orders, RefundOrder(o)
  PROVE  IInv'
<1> USE DEF IInv, TypeOK, RefundOrder, OrderFree, stock, provider, session
<1>1. /\ TypeOK' /\ TakenRowsAreExclusive' /\ OrdersHeld' /\ OneOwner'
      /\ SoldHaveOwners' /\ UnchargedHaveNothing' /\ WantsAreOpen' /\ BoughtOnce'
      /\ Purchases' /\ Working' /\ Retrying' /\ StockIsBlank' /\ SuspendedAtLimit'
      /\ ActivatedHasBundle' /\ InventoryOnlyComplete'
  BY DEF Statuses, Copies, Busy, TakenRowsAreExclusive, OrdersHeld, Uncharged, OneOwner,
     SoldHaveOwners, SoldOnce, UnchargedHaveNothing, Unbought, WantsAreOpen, BoughtOnce,
     Purchases, Working, Retrying, StockIsBlank, SuspendedAtLimit, ActivatedHasBundle,
     InventoryOnlyComplete
<1> QED BY <1>1 DEF IInv

\* A cancellation begins: only the worker's own state changes.
LEMMA CancelOrderKeeps ==
  ASSUME IInv, NEW w \in Workers, NEW o \in Orders, CancelOrder(w, o)
  PROVE  IInv'
<1> USE DEF IInv, TypeOK, CancelOrder, Start, Goto, stock, provider, session
<1>1. /\ TypeOK' /\ TakenRowsAreExclusive' /\ OrdersHeld' /\ OneOwner'
      /\ SoldHaveOwners' /\ UnchargedHaveNothing' /\ WantsAreOpen' /\ BoughtOnce'
      /\ Purchases' /\ Working' /\ Retrying' /\ StockIsBlank' /\ SuspendedAtLimit'
      /\ ActivatedHasBundle' /\ InventoryOnlyComplete'
  BY DEF Statuses, Copies, Busy, TakenRowsAreExclusive, OrdersHeld, Uncharged, OneOwner,
     SoldHaveOwners, SoldOnce, UnchargedHaveNothing, Unbought, WantsAreOpen, BoughtOnce,
     Purchases, Working, Retrying, StockIsBlank, SuspendedAtLimit, ActivatedHasBundle,
     InventoryOnlyComplete
<1> QED BY <1>1 DEF IInv

\* A cancellation ends; nobody holds the order.
LEMMA CloseOrderKeeps ==
  ASSUME IInv, NEW w \in Workers, CloseOrder(w)
  PROVE  IInv'
<1> USE DEF IInv, TypeOK, CloseOrder, End, Goto, Read, NoCopy, OrderFree, stock, provider,
    session
<1>1. /\ TypeOK' /\ TakenRowsAreExclusive' /\ OrdersHeld'
  BY DEF Statuses, Copies, Busy, TakenRowsAreExclusive, OrdersHeld, Uncharged
<1>2. /\ OneOwner' /\ SoldHaveOwners' /\ UnchargedHaveNothing'
  BY DEF OneOwner, SoldHaveOwners, SoldOnce, UnchargedHaveNothing, Uncharged, Unbought
<1>3. /\ WantsAreOpen' /\ BoughtOnce' /\ Purchases'
  BY DEF WantsAreOpen, Unbought, Uncharged, BoughtOnce, Purchases
<1>4. /\ Working' /\ Retrying' /\ StockIsBlank' /\ SuspendedAtLimit'
      /\ ActivatedHasBundle' /\ InventoryOnlyComplete'
  BY DEF Working, SoldOnce, Retrying, StockIsBlank, SuspendedAtLimit, ActivatedHasBundle,
     InventoryOnlyComplete
<1> QED BY <1>1, <1>2, <1>3, <1>4 DEF IInv

\* A purchase, answered or not: the item leaves the list, the eSIM is the item's.
LEMMA BuyKeeps ==
  ASSUME IInv, NEW w \in Workers, NEW it \in Items, NEW e \in Esims, Buy(w, it, e)
  PROVE  IInv'
<1> USE DEF IInv, TypeOK, Buy, Buying, Fresh, stock, provider, session
<1>1. /\ TypeOK' /\ TakenRowsAreExclusive' /\ OrdersHeld'
  BY DEF Statuses, Copies, Busy, TakenRowsAreExclusive, OrdersHeld, Uncharged
<1>2. /\ OneOwner' /\ SoldHaveOwners' /\ UnchargedHaveNothing'
  BY DEF OneOwner, SoldHaveOwners, SoldOnce, UnchargedHaveNothing, Uncharged, Unbought
<1>3. /\ WantsAreOpen' /\ Working' /\ Retrying' /\ SuspendedAtLimit'
      /\ ActivatedHasBundle' /\ InventoryOnlyComplete'
  <2>1. WantsAreOpen' /\ InventoryOnlyComplete'
    BY DEF WantsAreOpen, Unbought, InventoryOnlyComplete
  <2>2. Working' /\ Retrying'
    BY DEF Working, SoldOnce, Retrying
  <2>3. SuspendedAtLimit' /\ ActivatedHasBundle'
    BY DEF SuspendedAtLimit, ActivatedHasBundle
  <2> QED BY <2>1, <2>2, <2>3
<1>4. BoughtOnce'
  BY DEF BoughtOnce, WantsAreOpen, Unbought
<1>5. Purchases'
  <2>1. iccid[it] = NoEsim /\ OnDemand(it)
    BY DEF WantsAreOpen
  <2>2. \A v \in Workers : pc[v] = "bought" => cur[v] # e
    BY NullsAreNoRows DEF Purchases
  <2>3. \A v \in Workers : pc'[v] = "bought" =>
           \/ v = w /\ cur'[v] = e
           \/ v # w /\ pc[v] = "bought" /\ cur'[v] = cur[v]
    OBVIOUS
  <2>4. \A d \in Esims : boughtFor'[d] = IF d = e THEN it ELSE boughtFor[d]
    OBVIOUS
  <2>5. \A d \in Esims : boughtFor'[d] # NoItem => OnDemand(boughtFor'[d])
    BY <2>1, <2>4 DEF Purchases
  <2>6. \A v \in Workers : pc'[v] = "bought" =>
           /\ cur'[v] \in Esims /\ inv'[cur'[v]] = "absent"
           /\ boughtFor'[cur'[v]] \in Items /\ iccid'[boughtFor'[cur'[v]]] = NoEsim
           /\ bundle'[cur'[v]] = "applied"
    BY <2>1, <2>2, <2>3, <2>4 DEF Purchases
  <2>7. \A v, x \in Workers :
           v # x /\ pc'[v] = "bought" /\ pc'[x] = "bought" => cur'[v] # cur'[x]
    BY <2>2, <2>3 DEF Purchases
  <2> QED BY <2>5, <2>6, <2>7 DEF Purchases, OnDemand
<1>6. StockIsBlank'
  BY NullsAreNoRows DEF StockIsBlank
<1> QED BY <1>1, <1>2, <1>3, <1>4, <1>5, <1>6 DEF IInv

\* A refused purchase: the item leaves the list for good.
LEMMA BuyFailedKeeps ==
  ASSUME IInv, NEW w \in Workers, NEW it \in Items, BuyFailed(w, it)
  PROVE  IInv'
<1> USE DEF IInv, TypeOK, BuyFailed, Buying, stock, provider, session
<1>1. /\ TypeOK' /\ TakenRowsAreExclusive' /\ OrdersHeld' /\ OneOwner'
      /\ SoldHaveOwners' /\ UnchargedHaveNothing' /\ WantsAreOpen' /\ BoughtOnce'
      /\ Purchases' /\ Working' /\ Retrying' /\ StockIsBlank' /\ SuspendedAtLimit'
      /\ ActivatedHasBundle' /\ InventoryOnlyComplete'
  BY DEF Statuses, Copies, Busy, TakenRowsAreExclusive, OrdersHeld, Uncharged, OneOwner,
     SoldHaveOwners, SoldOnce, UnchargedHaveNothing, Unbought, WantsAreOpen, BoughtOnce,
     Purchases, Working, Retrying, StockIsBlank, SuspendedAtLimit, ActivatedHasBundle,
     InventoryOnlyComplete
<1> QED BY <1>1 DEF IInv

\* A bought eSIM enters the database: its item still had none.
LEMMA RecordKeeps ==
  ASSUME IInv, NEW w \in Workers, Record(w)
  PROVE  IInv'
<1> USE DEF IInv, TypeOK, Record, Continue, Goto, Read, NoCopy, stock, provider, session
<1>0. /\ cur[w] \in Esims /\ inv[cur[w]] = "absent" /\ bundle[cur[w]] = "applied"
      /\ boughtFor[cur[w]] \in Items /\ iccid[boughtFor[cur[w]]] = NoEsim
      /\ OnDemand(boughtFor[cur[w]])
  BY ItemsBelongToOneOrder, NullsAreNoRows DEF Purchases
<1>1. TypeOK'
  BY DEF Statuses, Copies, Busy
<1>2. TakenRowsAreExclusive'
  BY DEF TakenRowsAreExclusive
<1>3. /\ OrdersHeld' /\ SoldHaveOwners' /\ UnchargedHaveNothing'
  BY DEF OrdersHeld, Uncharged, SoldHaveOwners, SoldOnce, UnchargedHaveNothing, Unbought
<1>4. /\ WantsAreOpen' /\ BoughtOnce' /\ Working' /\ Retrying' /\ StockIsBlank'
      /\ SuspendedAtLimit'
  BY DEF WantsAreOpen, Unbought, BoughtOnce, Working, SoldOnce, Retrying, StockIsBlank,
     SuspendedAtLimit
<1>5. OneOwner'
  <2> DEFINE e == cur[w]
             it == boughtFor[e]
  <2>1. /\ owner' = [owner EXCEPT ![e] = it] /\ iccid' = [iccid EXCEPT ![it] = e]
        /\ \A d \in Esims : owner[d] # it
    OBVIOUS
  <2>2. \A j \in Items : iccid[j] # e
    BY <1>0, NullsAreNoRows DEF OneOwner, SoldHaveOwners, SoldOnce
  <2>3. \A d \in Esims, j \in Items : owner'[d] = j <=> iccid'[j] = d
    BY <1>0, <2>1, <2>2, NullsAreNoRows DEF OneOwner
  <2>4. \A o \in Orders : ord[o] \in {"absent", "pending_approval"} => it \notin ItemsOf[o]
    BY <1>0 DEF UnchargedHaveNothing, Uncharged, Unbought
  <2>5. \A o \in Orders : \A j \in ItemsOf[o] : j # it => iccid'[j] = iccid[j]
    BY <1>0, <2>1, ItemsBelongToOneOrder
  <2> QED BY <2>3, <2>4, <2>5 DEF OneOwner
<1>6. Purchases'
  <2>1. ASSUME NEW v \in Workers, v # w, pc[v] = "bought"
        PROVE  cur[v] # cur[w] /\ boughtFor[cur[v]] # boughtFor[cur[w]]
    BY <1>0, <2>1, NullsAreNoRows DEF Purchases, BoughtOnce
  <2>2. \A v \in Workers : pc'[v] = "bought" => v # w /\ pc[v] = "bought" /\ cur'[v] =
     cur[v]
    OBVIOUS
  <2> QED BY <1>0, <2>1, <2>2 DEF Purchases
<1>7. ActivatedHasBundle'
  BY <1>0 DEF ActivatedHasBundle
<1>8. InventoryOnlyComplete'
  BY <1>0 DEF InventoryOnlyComplete
<1> QED BY <1>1, <1>2, <1>3, <1>4, <1>5, <1>6, <1>7, <1>8 DEF IInv

\* apply_bundle is asked for a sold row.
LEMMA ApplyKeeps ==
  ASSUME IInv, NEW w \in Workers, NEW e \in Esims, Apply(w, e)
  PROVE  IInv'
<1> USE DEF IInv, TypeOK, Apply, Goto, Ask, stock, provider, session
<1>1. /\ TypeOK' /\ TakenRowsAreExclusive' /\ OrdersHeld' /\ OneOwner'
      /\ SoldHaveOwners' /\ UnchargedHaveNothing' /\ WantsAreOpen' /\ BoughtOnce'
      /\ Purchases' /\ Working' /\ Retrying' /\ SuspendedAtLimit'
      /\ ActivatedHasBundle' /\ InventoryOnlyComplete'
  BY DEF Statuses, Copies, Busy, TakenRowsAreExclusive, OrdersHeld, Uncharged, OneOwner,
     SoldHaveOwners, SoldOnce, UnchargedHaveNothing, Unbought, WantsAreOpen, BoughtOnce,
     Purchases, Working, Retrying, SuspendedAtLimit, ActivatedHasBundle,
     InventoryOnlyComplete
<1>2. StockIsBlank'
  BY DEF StockIsBlank, Working, SoldOnce
<1> QED BY <1>1, <1>2 DEF IInv

\* The provider carries out a request, at once or late.
LEMMA ProviderAppliesKeeps ==
  ASSUME IInv, NEW e \in Esims, ProviderApplies(e)
  PROVE  IInv'
<1> USE DEF IInv, TypeOK, ProviderApplies, stock, provider, session
<1>1. /\ TypeOK' /\ TakenRowsAreExclusive' /\ OrdersHeld' /\ OneOwner'
      /\ SoldHaveOwners' /\ UnchargedHaveNothing' /\ WantsAreOpen' /\ BoughtOnce'
      /\ Purchases' /\ Working' /\ Retrying' /\ StockIsBlank' /\ SuspendedAtLimit'
      /\ ActivatedHasBundle' /\ InventoryOnlyComplete'
  BY DEF Statuses, Copies, Busy, TakenRowsAreExclusive, OrdersHeld, Uncharged, OneOwner,
     SoldHaveOwners, SoldOnce, UnchargedHaveNothing, Unbought, WantsAreOpen, BoughtOnce,
     Purchases, Working, Retrying, StockIsBlank, SuspendedAtLimit, ActivatedHasBundle,
     InventoryOnlyComplete
<1> QED BY <1>1 DEF IInv

\* The provider's answer changes nothing in the database.
LEMMA ApplySucceededKeeps ==
  ASSUME IInv, NEW w \in Workers, ApplySucceeded(w)
  PROVE  IInv'
<1> USE DEF IInv, TypeOK, ApplySucceeded, Continue, Goto, Read, NoCopy, stock, provider,
    session
<1>1. /\ TypeOK' /\ TakenRowsAreExclusive' /\ OrdersHeld' /\ OneOwner'
      /\ SoldHaveOwners' /\ UnchargedHaveNothing' /\ WantsAreOpen' /\ BoughtOnce'
      /\ Purchases' /\ Working' /\ Retrying' /\ StockIsBlank' /\ SuspendedAtLimit'
      /\ ActivatedHasBundle' /\ InventoryOnlyComplete'
  BY DEF Statuses, Copies, Busy, TakenRowsAreExclusive, OrdersHeld, Uncharged, OneOwner,
     SoldHaveOwners, SoldOnce, UnchargedHaveNothing, Unbought, WantsAreOpen, BoughtOnce,
     Purchases, Working, Retrying, StockIsBlank, SuspendedAtLimit, ActivatedHasBundle,
     InventoryOnlyComplete
<1> QED BY <1>1 DEF IInv

\* A failed activation leaves the row as it is.
LEMMA ApplyFailedKeeps ==
  ASSUME IInv, NEW w \in Workers, ApplyFailed(w)
  PROVE  IInv'
<1> USE DEF IInv, TypeOK, ApplyFailed, Continue, Goto, Read, NoCopy, stock, provider,
    session
<1>1. /\ TypeOK' /\ TakenRowsAreExclusive' /\ OrdersHeld' /\ OneOwner'
      /\ SoldHaveOwners' /\ UnchargedHaveNothing' /\ WantsAreOpen' /\ BoughtOnce'
      /\ Purchases' /\ Working' /\ Retrying' /\ StockIsBlank' /\ SuspendedAtLimit'
      /\ ActivatedHasBundle' /\ InventoryOnlyComplete'
  BY DEF Statuses, Copies, Busy, TakenRowsAreExclusive, OrdersHeld, Uncharged, OneOwner,
     SoldHaveOwners, SoldOnce, UnchargedHaveNothing, Unbought, WantsAreOpen, BoughtOnce,
     Purchases, Working, Retrying, StockIsBlank, SuspendedAtLimit, ActivatedHasBundle,
     InventoryOnlyComplete
<1> QED BY <1>1 DEF IInv

\* The unlocked read before an activation is written.
LEMMA ReadRecordKeeps ==
  ASSUME IInv, NEW w \in Workers, ReadRecord(w)
  PROVE  IInv'
<1> USE DEF IInv, TypeOK, ReadRecord, Goto, Read, stock, provider, session
<1>0. cur[w] \in Esims
  BY ItemsBelongToOneOrder, NullsAreNoRows DEF Working, Retrying, SoldOnce
<1>1. /\ TakenRowsAreExclusive' /\ OrdersHeld' /\ OneOwner' /\ SoldHaveOwners'
      /\ UnchargedHaveNothing' /\ WantsAreOpen' /\ BoughtOnce' /\ Purchases'
      /\ Working' /\ Retrying' /\ StockIsBlank' /\ SuspendedAtLimit'
      /\ ActivatedHasBundle' /\ InventoryOnlyComplete'
  BY DEF TakenRowsAreExclusive, OrdersHeld, Uncharged, OneOwner, SoldHaveOwners,
     SoldOnce, UnchargedHaveNothing, Unbought, WantsAreOpen, BoughtOnce, Purchases,
     Working, Retrying, StockIsBlank, SuspendedAtLimit, ActivatedHasBundle,
     InventoryOnlyComplete
<1>2. TypeOK'
  BY <1>0 DEF TypeOK, Statuses, Copies, Busy
<1> QED BY <1>1, <1>2 DEF IInv

\* The write of an activation, from a copy that may be stale.
LEMMA CommitActivatedKeeps ==
  ASSUME IInv, NEW w \in Workers, CommitActivated(w)
  PROVE  IInv'
<1> USE DEF IInv, TypeOK, CommitActivated, Continue, Goto, Read, NoCopy, RowFree, stock,
    provider, session
<1>0. cur[w] \in Esims /\ inv[cur[w]] \in SoldOnce
  BY ItemsBelongToOneOrder, NullsAreNoRows DEF Working, Retrying, SoldOnce
<1>1. /\ OrdersHeld' /\ OneOwner' /\ UnchargedHaveNothing' /\ WantsAreOpen'
      /\ BoughtOnce' /\ Retrying' /\ StockIsBlank' /\ InventoryOnlyComplete'
  BY DEF OrdersHeld, Uncharged, OneOwner, UnchargedHaveNothing, Unbought, WantsAreOpen,
     BoughtOnce, Retrying, StockIsBlank, InventoryOnlyComplete
<1>2. TypeOK'
  BY <1>0, MaxRetriesIsPositive DEF TypeOK, Statuses, Copies, Busy
<1>3. TakenRowsAreExclusive'
  BY <1>0 DEF TakenRowsAreExclusive, SoldOnce
<1>4. SoldHaveOwners'
  BY <1>0 DEF SoldHaveOwners, SoldOnce
<1>5. Purchases'
  BY <1>0 DEF Purchases, SoldOnce
<1>6. Working'
  BY <1>0 DEF Working, SoldOnce
<1>7. SuspendedAtLimit'
  BY <1>0, MaxRetriesIsPositive DEF SuspendedAtLimit, Working, SoldOnce
<1>8. ActivatedHasBundle'
  BY <1>0 DEF ActivatedHasBundle, Working
<1> QED BY <1>1, <1>2, <1>3, <1>4, <1>5, <1>6, <1>7, <1>8 DEF IInv

\* Reprocessing takes rows that are sold already.
LEMMA ReprocessKeeps ==
  ASSUME IInv, NEW w \in Workers, NEW o \in Orders, Reprocess(w, o)
  PROVE  IInv'
<1> USE DEF IInv, TypeOK, Reprocess, Start, Goto, stock, provider, session
<1>0. {iccid[it] : it \in ItemsOf[o]} \ {NoEsim} \subseteq {e \in Esims : inv[e] \in
     SoldOnce}
  BY ItemsBelongToOneOrder, NullsAreNoRows DEF OneOwner, SoldHaveOwners
<1>1. /\ TakenRowsAreExclusive' /\ OrdersHeld' /\ OneOwner' /\ SoldHaveOwners'
      /\ UnchargedHaveNothing' /\ WantsAreOpen' /\ BoughtOnce' /\ Purchases'
      /\ Retrying' /\ StockIsBlank' /\ SuspendedAtLimit' /\ ActivatedHasBundle'
      /\ InventoryOnlyComplete'
  BY DEF TakenRowsAreExclusive, OrdersHeld, Uncharged, OneOwner, SoldHaveOwners,
     SoldOnce, UnchargedHaveNothing, Unbought, WantsAreOpen, BoughtOnce, Purchases,
     Retrying, StockIsBlank, SuspendedAtLimit, ActivatedHasBundle, InventoryOnlyComplete
<1>2. TypeOK'
  BY <1>0 DEF TypeOK, Statuses, Copies, Busy
<1>3. Working'
  BY <1>0 DEF Working
<1> QED BY <1>1, <1>2, <1>3 DEF IInv

\* A retry locks a sold row that no other retry has.
LEMMA RetryActivationKeeps ==
  ASSUME IInv, NEW w \in Workers, NEW e \in Esims, RetryActivation(w, e)
  PROVE  IInv'
<1> USE DEF IInv, TypeOK, RetryActivation, Start, Goto, Ask, RowFree, stock, provider,
    session
<1>1. /\ TypeOK' /\ TakenRowsAreExclusive' /\ OrdersHeld' /\ OneOwner'
      /\ SoldHaveOwners' /\ UnchargedHaveNothing' /\ WantsAreOpen' /\ BoughtOnce'
      /\ Purchases' /\ Working' /\ Retrying' /\ StockIsBlank' /\ SuspendedAtLimit'
      /\ ActivatedHasBundle' /\ InventoryOnlyComplete'
  BY DEF Statuses, Copies, Busy, TakenRowsAreExclusive, OrdersHeld, Uncharged, OneOwner,
     SoldHaveOwners, SoldOnce, UnchargedHaveNothing, Unbought, WantsAreOpen, BoughtOnce,
     Purchases, Working, Retrying, StockIsBlank, SuspendedAtLimit, ActivatedHasBundle,
     InventoryOnlyComplete
<1> QED BY <1>1 DEF IInv

\* The retry's row was its own from the read to the commit.
LEMMA RetrySucceededKeeps ==
  ASSUME IInv, NEW w \in Workers, RetrySucceeded(w)
  PROVE  IInv'
<1> USE DEF IInv, TypeOK, RetrySucceeded, End, Goto, Read, NoCopy, stock, provider, session
<1>0. cur[w] \in Esims /\ inv[cur[w]] = "sold" /\ retries[cur[w]] < MaxRetries
  BY ItemsBelongToOneOrder, NullsAreNoRows DEF Working, Retrying, SoldOnce
<1>1. /\ OrdersHeld' /\ OneOwner' /\ UnchargedHaveNothing' /\ WantsAreOpen'
      /\ BoughtOnce' /\ Retrying' /\ StockIsBlank' /\ InventoryOnlyComplete'
  BY DEF OrdersHeld, Uncharged, OneOwner, UnchargedHaveNothing, Unbought, WantsAreOpen,
     BoughtOnce, Retrying, StockIsBlank, InventoryOnlyComplete
<1>2. TypeOK'
  BY <1>0, MaxRetriesIsPositive DEF TypeOK, Statuses, Copies, Busy
<1>3. TakenRowsAreExclusive'
  BY <1>0 DEF TakenRowsAreExclusive, SoldOnce
<1>4. SoldHaveOwners'
  BY <1>0 DEF SoldHaveOwners, SoldOnce
<1>5. Purchases'
  BY <1>0 DEF Purchases, SoldOnce
<1>6. Working'
  BY <1>0 DEF Working, SoldOnce
<1>7. SuspendedAtLimit'
  BY <1>0, MaxRetriesIsPositive DEF SuspendedAtLimit, Working, SoldOnce
<1>8. ActivatedHasBundle'
  BY <1>0 DEF ActivatedHasBundle, Working
<1> QED BY <1>1, <1>2, <1>3, <1>4, <1>5, <1>6, <1>7, <1>8 DEF IInv

\* The count goes up by one, to the limit at most.
LEMMA RetryFailedKeeps ==
  ASSUME IInv, NEW w \in Workers, RetryFailed(w)
  PROVE  IInv'
<1> USE DEF IInv, TypeOK, RetryFailed, End, Goto, Read, NoCopy, stock, provider, session
<1>0. cur[w] \in Esims /\ inv[cur[w]] = "sold" /\ retries[cur[w]] < MaxRetries
  BY ItemsBelongToOneOrder, NullsAreNoRows DEF Working, Retrying, SoldOnce
<1>1. /\ OrdersHeld' /\ OneOwner' /\ UnchargedHaveNothing' /\ WantsAreOpen'
      /\ BoughtOnce' /\ Retrying' /\ InventoryOnlyComplete'
  BY DEF OrdersHeld, Uncharged, OneOwner, UnchargedHaveNothing, Unbought, WantsAreOpen,
     BoughtOnce, Retrying, InventoryOnlyComplete
<1>2. TypeOK'
  BY <1>0, MaxRetriesIsPositive DEF TypeOK, Statuses, Copies, Busy
<1>3. TakenRowsAreExclusive'
  BY <1>0 DEF TakenRowsAreExclusive, SoldOnce
<1>4. SoldHaveOwners'
  BY <1>0 DEF SoldHaveOwners, SoldOnce
<1>5. Purchases'
  BY <1>0 DEF Purchases, SoldOnce
<1>6. Working'
  BY <1>0 DEF Working, SoldOnce
<1>7. StockIsBlank'
  BY <1>0 DEF StockIsBlank
<1>8. SuspendedAtLimit'
  BY <1>0, MaxRetriesIsPositive DEF SuspendedAtLimit, Working, SoldOnce
<1>9. ActivatedHasBundle'
  BY <1>0 DEF ActivatedHasBundle, Working
<1> QED BY <1>1, <1>2, <1>3, <1>4, <1>5, <1>6, <1>7, <1>8, <1>9 DEF IInv

\* The callback's unlocked read finds a sold row.
LEMMA FirstAttachmentKeeps ==
  ASSUME IInv, NEW w \in Workers, NEW e \in Esims, FirstAttachment(w, e)
  PROVE  IInv'
<1> USE DEF IInv, TypeOK, FirstAttachment, Start, Goto, stock, provider, session
<1>0. inv[e] \in SoldOnce
  BY ItemsBelongToOneOrder, NullsAreNoRows DEF StockIsBlank, SoldOnce, Statuses
<1>1. /\ TypeOK' /\ TakenRowsAreExclusive' /\ OrdersHeld' /\ OneOwner'
      /\ SoldHaveOwners' /\ UnchargedHaveNothing' /\ WantsAreOpen' /\ BoughtOnce'
      /\ Purchases' /\ Retrying' /\ StockIsBlank' /\ SuspendedAtLimit'
      /\ ActivatedHasBundle' /\ InventoryOnlyComplete'
  BY DEF Statuses, Copies, Busy, TakenRowsAreExclusive, OrdersHeld, Uncharged, OneOwner,
     SoldHaveOwners, SoldOnce, UnchargedHaveNothing, Unbought, WantsAreOpen, BoughtOnce,
     Purchases, Retrying, StockIsBlank, SuspendedAtLimit, ActivatedHasBundle,
     InventoryOnlyComplete
<1>2. Working'
  BY <1>0 DEF Working, SoldOnce
<1> QED BY <1>1, <1>2 DEF IInv

\* The callback's write, whatever the row has become.
LEMMA CommitAttachmentKeeps ==
  ASSUME IInv, NEW w \in Workers, CommitAttachment(w)
  PROVE  IInv'
<1> USE DEF IInv, TypeOK, CommitAttachment, End, Goto, Read, NoCopy, RowFree, stock,
    provider, session
<1>0. cur[w] \in Esims /\ inv[cur[w]] \in SoldOnce
  BY ItemsBelongToOneOrder, NullsAreNoRows DEF Working, Retrying, SoldOnce
<1>1. /\ OrdersHeld' /\ OneOwner' /\ UnchargedHaveNothing' /\ WantsAreOpen'
      /\ BoughtOnce' /\ Retrying' /\ StockIsBlank' /\ InventoryOnlyComplete'
  BY DEF OrdersHeld, Uncharged, OneOwner, UnchargedHaveNothing, Unbought, WantsAreOpen,
     BoughtOnce, Retrying, StockIsBlank, InventoryOnlyComplete
<1>2. TypeOK'
  BY <1>0, MaxRetriesIsPositive DEF TypeOK, Statuses, Copies, Busy
<1>3. TakenRowsAreExclusive'
  BY <1>0 DEF TakenRowsAreExclusive, SoldOnce
<1>4. SoldHaveOwners'
  BY <1>0 DEF SoldHaveOwners, SoldOnce
<1>5. Purchases'
  BY <1>0 DEF Purchases, SoldOnce
<1>6. Working'
  BY <1>0 DEF Working, SoldOnce
<1>7. SuspendedAtLimit'
  BY <1>0, MaxRetriesIsPositive DEF SuspendedAtLimit, Working, SoldOnce
<1>8. ActivatedHasBundle'
  BY <1>0 DEF ActivatedHasBundle, Working
<1> QED BY <1>1, <1>2, <1>3, <1>4, <1>5, <1>6, <1>7, <1>8 DEF IInv

\* An end of a request, planned or not, drops the worker's state only.
LEMMA ReturnKeeps ==
  ASSUME IInv, NEW w \in Workers, Return(w)
  PROVE  IInv'
<1> USE DEF IInv, TypeOK, Return, End, Goto, Read, NoCopy, stock, provider, session
<1>1. /\ TypeOK' /\ TakenRowsAreExclusive' /\ OrdersHeld' /\ OneOwner'
      /\ SoldHaveOwners' /\ UnchargedHaveNothing' /\ WantsAreOpen' /\ BoughtOnce'
      /\ Purchases' /\ Working' /\ Retrying' /\ StockIsBlank' /\ SuspendedAtLimit'
      /\ ActivatedHasBundle' /\ InventoryOnlyComplete'
  BY DEF Statuses, Copies, Busy, TakenRowsAreExclusive, OrdersHeld, Uncharged, OneOwner,
     SoldHaveOwners, SoldOnce, UnchargedHaveNothing, Unbought, WantsAreOpen, BoughtOnce,
     Purchases, Working, Retrying, StockIsBlank, SuspendedAtLimit, ActivatedHasBundle,
     InventoryOnlyComplete
<1> QED BY <1>1 DEF IInv

-----------------------------------------------------------------------------
\* The empty database satisfies the invariant.
LEMMA InitIInv == Init => IInv
<1> SUFFICES ASSUME Init PROVE IInv
  OBVIOUS
<1> USE MaxRetriesIsPositive, NullsAreNoRows DEF Init
<1>1. TypeOK
  BY DEF TypeOK, Statuses, Copies, NoCopy, Busy
<1>2. TakenRowsAreExclusive /\ OrdersHeld /\ Working /\ Retrying
  BY DEF TakenRowsAreExclusive, OrdersHeld, Working, Retrying
<1>3. OneOwner /\ SoldHaveOwners
  BY ItemsBelongToOneOrder DEF OneOwner, SoldHaveOwners, SoldOnce
<1>4. UnchargedHaveNothing /\ WantsAreOpen
  BY ItemsBelongToOneOrder DEF UnchargedHaveNothing, WantsAreOpen, Unbought
<1>5. BoughtOnce /\ Purchases /\ StockIsBlank
  BY DEF BoughtOnce, Purchases, StockIsBlank
<1>6. SuspendedAtLimit /\ ActivatedHasBundle /\ InventoryOnlyComplete
  BY DEF SuspendedAtLimit, ActivatedHasBundle, InventoryOnlyComplete
<1> QED BY <1>1, <1>2, <1>3, <1>4, <1>5, <1>6 DEF IInv

\* The invariant is inductive.
LEMMA NextKeeps == IInv /\ [Next]_vars => IInv'
<1> SUFFICES ASSUME IInv, [Next]_vars PROVE IInv'
  OBVIOUS
<1>1. ASSUME NEW w \in Workers, Request(w) PROVE IInv'
  BY <1>1, CreateOrderKeeps, ApproveOrderKeeps, CancelOrderKeeps, ReprocessKeeps,
     RetryActivationKeeps, FirstAttachmentKeeps DEF Request
<1>2. ASSUME NEW w \in Workers, Step(w) PROVE IInv'
  <2>1. CASE PlaceOrder(w) \/ CommitSale(w) \/ CloseOrder(w) \/ Record(w)
    BY <2>1, PlaceOrderKeeps, CommitSaleKeeps, CloseOrderKeeps, RecordKeeps
  <2>2. CASE \E it \in Items : BuyFailed(w, it) \/ \E e \in Esims : Buy(w, it, e)
    BY <2>2, BuyFailedKeeps, BuyKeeps
  <2>3. CASE (\E e \in Esims : Apply(w, e)) \/ ApplySucceeded(w) \/ ApplyFailed(w)
    BY <2>3, ApplyKeeps, ApplySucceededKeeps, ApplyFailedKeeps
  <2>4. CASE ReadRecord(w) \/ CommitActivated(w) \/ CommitAttachment(w) \/ Return(w)
    BY <2>4, ReadRecordKeeps, CommitActivatedKeeps, CommitAttachmentKeeps, ReturnKeeps
  <2>5. CASE RetrySucceeded(w) \/ RetryFailed(w)
    BY <2>5, RetrySucceededKeeps, RetryFailedKeeps
  <2> QED BY <1>2, <2>1, <2>2, <2>3, <2>4, <2>5 DEF Step
<1>3. ASSUME NEW e \in Esims, Import(e) \/ ProviderApplies(e) PROVE IInv'
  BY <1>3, ImportKeeps, ProviderAppliesKeeps
<1>4. ASSUME NEW o \in Orders, RefundOrder(o) PROVE IInv'
  BY <1>4, RefundOrderKeeps
<1>5. CASE UNCHANGED vars
  BY <1>5 DEF vars, stock, provider, session, IInv, TypeOK, Copies, TakenRowsAreExclusive,
     OrdersHeld, Uncharged, OneOwner, SoldHaveOwners, SoldOnce, UnchargedHaveNothing,
     Unbought, WantsAreOpen, OnDemand, BoughtOnce, Purchases, Working, Retrying,
     StockIsBlank, SuspendedAtLimit, ActivatedHasBundle, InventoryOnlyComplete
<1> QED BY <1>1, <1>2, <1>3, <1>4, <1>5 DEF Next

\* It holds in every reachable state.
LEMMA IInvAlways == Spec => []IInv
BY InitIInv, NextKeeps, PTL DEF Spec
\* Every variable keeps to its set.
THEOREM FulfilmentTypes == Spec => []TypeOK
<1>1. IInv => TypeOK
  BY DEF IInv
<1> QED BY <1>1, IInvAlways, PTL

\* However many orders compete for the stock, none of them commits a row that
\* another one has taken.
THEOREM FulfilmentSalesAreExclusive == Spec => []TakenRowsAreExclusive
<1>1. IInv => TakenRowsAreExclusive
  BY DEF IInv
<1> QED BY <1>1, IInvAlways, PTL

\* The two columns that tie an eSIM to an item agree, whatever is interrupted.
THEOREM FulfilmentOneOwner == Spec => []OneOwner
<1>1. IInv => OneOwner
  BY DEF IInv
<1> QED BY <1>1, IInvAlways, PTL

\* An order sold from stock only is never charged short.
THEOREM FulfilmentInventoryOnly == Spec => []InventoryOnlyComplete
<1>1. IInv => InventoryOnlyComplete
  BY DEF IInv
<1> QED BY <1>1, IInvAlways, PTL

\* The provider is never paid twice for one item.
THEOREM FulfilmentBuysOnce == Spec => []BoughtOnce
<1>1. IInv => BoughtOnce
  BY DEF IInv
<1> QED BY <1>1, IInvAlways, PTL

\* A suspension is the last of exactly MaxRetries failures.
THEOREM FulfilmentSuspends == Spec => []SuspendedAtLimit
<1>1. IInv => SuspendedAtLimit
  BY DEF IInv
<1> QED BY <1>1, IInvAlways, PTL

\* What the server calls activated is activated.
THEOREM FulfilmentActivates == Spec => []ActivatedHasBundle
<1>1. IInv => ActivatedHasBundle
  BY DEF IInv
<1> QED BY <1>1, IInvAlways, PTL

-----------------------------------------------------------------------------
(* Fulfilment implements Stock                                             *)

\* A step that leaves orders, rows and owners alone.
LEMMA StockStutters ==
  ASSUME UNCHANGED <<ord, inv, owner>>
  PROVE  [Promise!Next]_(Promise!stockVars)
BY DEF Promise!stockVars

\* Writing "activated" on a sold row is an activation, or no change.
LEMMA WritingActivated ==
  ASSUME TypeOK, NEW e \in Esims, inv[e] \in SoldOnce,
         inv' = [inv EXCEPT ![e] = "activated"], UNCHANGED <<ord, owner>>
  PROVE  [Promise!Next]_(Promise!stockVars)
<1>1. CASE inv[e] = "activated"
  <2>1. inv' = inv
    BY <1>1 DEF TypeOK
  <2> QED BY <2>1, StockStutters
<1>2. CASE inv[e] \in {"sold", "suspended"}
  <2>1. Promise!Activate(e)
    BY <1>2 DEF Promise!Activate, Promise!Profile
  <2> QED BY <2>1 DEF Promise!Next
<1> QED BY <1>1, <1>2 DEF SoldOnce

\* The commit of a charged order is a sale.
LEMMA CommitSaleSells ==
  ASSUME IInv, NEW w \in Workers, CommitSale(w)
  PROVE  [Promise!Next]_(Promise!stockVars)
<1>1. PICK o \in Orders : \E to \in [rows[w] -> ItemsOf[o]] :
          Sell(w, o, to) /\ (Mode[o] = "inventory_only" => want'[w] = {})
  BY DEF CommitSale
<1>2. PICK to \in [rows[w] -> ItemsOf[o]] :
          Sell(w, o, to) /\ (Mode[o] = "inventory_only" => want'[w] = {})
  BY <1>1
<1>3. /\ ord' = [ord EXCEPT ![o] = "paid"]
      /\ inv' = [e \in Esims |-> IF e \in rows[w] THEN "sold" ELSE inv[e]]
      /\ owner' = [e \in Esims |-> IF e \in rows[w] THEN to[e] ELSE owner[e]]
      /\ want'[w] = ItemsOf[o] \ {to[e] : e \in rows[w]}
      /\ \A e, d \in rows[w] : to[e] = to[d] => e = d
      /\ rows[w] \subseteq Esims /\ pc[w] = "holding" /\ order[w] = o
  BY <1>2 DEF Sell, Goto, IInv, TypeOK
<1>4. ord[o] \in {"absent", "pending_approval"}
  BY <1>3 DEF IInv, OrdersHeld, Uncharged
<1>5. \A e \in rows[w] : inv[e] = "available"
  BY <1>3 DEF IInv, TakenRowsAreExclusive
<1>6. ASSUME Mode[o] = "inventory_only", NEW it \in ItemsOf[o]
      PROVE  \E e \in rows[w] : to[e] = it
  <2>1. it \in {to[e] : e \in rows[w]}
    BY <1>2, <1>3, <1>6
  <2> QED BY <2>1
<1>7. Promise!Sell(o, rows[w])
  BY <1>3, <1>4, <1>5, <1>6 DEF Promise!Sell, Promise!Order
<1> QED BY <1>3, <1>7 DEF Promise!Next

\* The record of a purchase is a supply.
LEMMA RecordSupplies ==
  ASSUME IInv, NEW w \in Workers, Record(w)
  PROVE  [Promise!Next]_(Promise!stockVars)
<1> DEFINE e == cur[w]
           it == boughtFor[e]
<1>1. e \in Esims /\ it \in Items /\ it # NoItem /\ inv[e] = "absent"
  BY NullsAreNoRows DEF IInv, Purchases, Record
<1>2. /\ inv' = [inv EXCEPT ![e] = "activated"] /\ owner' = [owner EXCEPT ![e] = it]
      /\ \A d \in Esims : owner[d] # it
      /\ ord' = ord
  BY DEF Record
<1>3. \A o \in Orders : it \in ItemsOf[o] =>
         ord[o] \notin {"absent", "pending_approval"} /\ Mode[o] # "inventory_only"
  BY <1>1 DEF IInv, Purchases, OnDemand, UnchargedHaveNothing, Uncharged, Unbought
<1>4. Promise!Supply(e, it)
  BY <1>1, <1>2, <1>3 DEF Promise!Supply, Promise!Profile
<1> QED BY <1>1, <1>4 DEF Promise!Next

\* The steps of a request that only change what the worker or the provider knows.
LEMMA QuietSteps ==
  ASSUME NEW w \in Workers,
         \/ Request(w)
         \/ \E it \in Items : BuyFailed(w, it) \/ \E e \in Esims : Buy(w, it, e)
         \/ \E e \in Esims : Apply(w, e)
         \/ ApplySucceeded(w) \/ ApplyFailed(w) \/ ReadRecord(w) \/ Return(w)
  PROVE  UNCHANGED <<ord, inv, owner>>
BY DEF Request, CreateOrder, ApproveOrder, CancelOrder, Reprocess, RetryActivation,
   FirstAttachment, Start, BuyFailed, Buy, Apply, ApplySucceeded, ApplyFailed, ReadRecord,
   Return, stock

\* Every step of Fulfilment is a step of Stock or changes nothing it speaks of.
LEMMA StepDelivers == IInv /\ [Next]_vars => [Promise!Next]_(Promise!stockVars)
<1> SUFFICES ASSUME IInv, [Next]_vars PROVE [Promise!Next]_(Promise!stockVars)
  OBVIOUS
<1>0. TypeOK
  BY DEF IInv
<1>1. ASSUME NEW w \in Workers, Request(w) PROVE [Promise!Next]_(Promise!stockVars)
  BY <1>1, QuietSteps, StockStutters
<1>2. ASSUME NEW w \in Workers, Step(w) PROVE [Promise!Next]_(Promise!stockVars)
  <2>1. CASE PlaceOrder(w)
    <3>1. order[w] \in Orders
      BY <2>1 DEF IInv, OrdersHeld, PlaceOrder
    <3>2. Promise!Place(order[w])
      BY <2>1 DEF PlaceOrder, Promise!Place, Promise!Order, stock
    <3> QED BY <3>1, <3>2 DEF Promise!Next
  <2>2. CASE CommitSale(w)
    BY <2>2, CommitSaleSells
  <2>3. CASE CloseOrder(w)
    <3>1. order[w] \in Orders /\ ord[order[w]] # "absent"
      BY <2>3 DEF IInv, OrdersHeld, CloseOrder
    <3>2. CASE ord[order[w]] = "cancelled"
      <4>1. UNCHANGED <<ord, inv, owner>>
        BY <1>0, <2>3, <3>1, <3>2 DEF TypeOK, CloseOrder, stock
      <4> QED BY <4>1, StockStutters
    <3>3. CASE ord[order[w]] # "cancelled"
      <4>1. Promise!Close(order[w])
        BY <1>0, <2>3, <3>1, <3>3 DEF TypeOK, CloseOrder, Promise!Close, Promise!Order,
     stock
      <4> QED BY <3>1, <4>1 DEF Promise!Next
    <3> QED BY <3>2, <3>3
  <2>4. CASE Record(w)
    BY <2>4, RecordSupplies
  <2>5. CASE CommitActivated(w)
    <3>1. cur[w] \in Esims /\ inv[cur[w]] \in SoldOnce
      BY <2>5 DEF IInv, Working, CommitActivated
    <3>2. UNCHANGED <<ord, owner>>
      BY <2>5 DEF CommitActivated
    <3>3. inv' = inv \/ inv' = [inv EXCEPT ![cur[w]] = "activated"]
      BY <2>5 DEF CommitActivated
    <3> QED BY <1>0, <3>1, <3>2, <3>3, StockStutters, WritingActivated
  <2>6. CASE CommitAttachment(w)
    <3>1. cur[w] \in Esims /\ inv[cur[w]] \in SoldOnce
      BY <2>6 DEF IInv, Working, CommitAttachment
    <3> QED BY <1>0, <2>6, <3>1, WritingActivated DEF CommitAttachment
  <2>7. CASE RetrySucceeded(w)
    <3>1. cur[w] \in Esims /\ inv[cur[w]] \in SoldOnce
      BY <2>7 DEF IInv, Retrying, RetrySucceeded, SoldOnce
    <3> QED BY <1>0, <2>7, <3>1, WritingActivated DEF RetrySucceeded
  <2>8. CASE RetryFailed(w)
    <3>1. cur[w] \in Esims /\ inv[cur[w]] = "sold"
      BY <2>8 DEF IInv, Retrying, RetryFailed
    <3>2. UNCHANGED <<ord, owner>>
      BY <2>8 DEF RetryFailed
    <3>3. CASE inv' = [inv EXCEPT ![cur[w]] = "suspended"]
      <4>1. Promise!Suspend(cur[w])
        BY <3>1, <3>2, <3>3 DEF Promise!Suspend, Promise!Profile
      <4> QED BY <3>1, <4>1 DEF Promise!Next
    <3>4. CASE inv' = inv
      BY <3>2, <3>4, StockStutters
    <3>5. inv' = inv \/ inv' = [inv EXCEPT ![cur[w]] = "suspended"]
      BY <1>0, <2>8, <3>1 DEF RetryFailed, TypeOK
    <3> QED BY <3>3, <3>4, <3>5
  <2>9. CASE \/ \E it \in Items : BuyFailed(w, it) \/ \E e \in Esims : Buy(w, it, e)
             \/ \E e \in Esims : Apply(w, e)
             \/ ApplySucceeded(w) \/ ApplyFailed(w) \/ ReadRecord(w) \/ Return(w)
    BY <2>9, QuietSteps, StockStutters
  <2> QED BY <1>2, <2>1, <2>2, <2>3, <2>4, <2>5, <2>6, <2>7, <2>8, <2>9 DEF Step
<1>3. ASSUME NEW e \in Esims, Import(e) PROVE [Promise!Next]_(Promise!stockVars)
  <2>1. Promise!Import(e)
    BY <1>3 DEF Import, Promise!Import, Promise!Profile
  <2> QED BY <2>1 DEF Promise!Next
<1>4. ASSUME NEW e \in Esims, ProviderApplies(e) PROVE [Promise!Next]_(Promise!stockVars)
  BY <1>4, StockStutters DEF ProviderApplies, stock
<1>5. ASSUME NEW o \in Orders, RefundOrder(o) PROVE [Promise!Next]_(Promise!stockVars)
  <2>1. Promise!Refund(o)
    BY <1>5 DEF RefundOrder, Promise!Refund, Promise!Order, stock
  <2> QED BY <2>1 DEF Promise!Next
<1>6. CASE UNCHANGED vars
  BY <1>6, StockStutters DEF vars, stock
<1> QED BY <1>1, <1>2, <1>3, <1>4, <1>5, <1>6 DEF Next

\* Fulfilment, with its workers, retries and lost replies, does only what Stock
\* promises.
THEOREM FulfilmentDelivers == Spec => Delivers
<1>1. Init => Promise!Init
  BY DEF Init, Promise!Init
<1> QED BY <1>1, IInvAlways, StepDelivers, PTL DEF Spec, Delivers, Promise!Spec

-----------------------------------------------------------------------------
(* What follows from Stock alone                                           *)

\* An item has one eSIM at most; an order charged from stock has one for each.
OneEsimEach ==
  /\ \A e, d \in Esims : owner[e] # NoItem /\ owner[e] = owner[d] => e = d
  /\ \A o \in Orders : Mode[o] = "inventory_only" /\ ord[o] \in {"paid", "refunded"} =>
       \A it \in ItemsOf[o] : \E e \in Esims : owner[e] = it

StockTypes ==
  /\ ord \in [Orders -> {"absent", "pending_approval", "paid", "refunded", "cancelled"}]
  /\ inv \in [Esims -> Statuses]
  /\ owner \in [Esims -> Items \cup {NoItem}]

\* A row has an owner from its sale on, and owners are items of charged orders.
OwnersAreCharged ==
  /\ \A e \in Esims : owner[e] # NoItem <=> inv[e] \in SoldOnce
  /\ \A e \in Esims, o \in Orders :
       ord[o] \in {"absent", "pending_approval"} => owner[e] \notin ItemsOf[o]

StockInv == StockTypes /\ OwnersAreCharged /\ OneEsimEach

\* A sale gives eSIMs to items that had none.
LEMMA SellKeepsStock ==
  ASSUME StockInv, NEW o \in Orders, NEW S \in SUBSET Esims, Promise!Sell(o, S)
  PROVE  StockInv'
<1>0. PICK to \in [S -> ItemsOf[o]] :
        /\ \A e, d \in S : to[e] = to[d] => e = d
        /\ Mode[o] = "inventory_only" => \A it \in ItemsOf[o] : \E e \in S : to[e] = it
        /\ owner' = [e \in Esims |-> IF e \in S THEN to[e] ELSE owner[e]]
  BY DEF Promise!Sell
<1>1. /\ ord[o] \in {"absent", "pending_approval"}
      /\ ord' = [ord EXCEPT ![o] = "paid"]
      /\ \A e \in S : inv[e] = "available" /\ owner[e] = NoItem /\ owner'[e] \in ItemsOf[o]
      /\ inv' = [e \in Esims |-> IF e \in S THEN "sold" ELSE inv[e]]
      /\ \A e \in Esims \ S : owner'[e] = owner[e] /\ owner[e] \notin ItemsOf[o]
      /\ \A e, d \in S : owner'[e] = owner'[d] => e = d
      /\ Mode[o] = "inventory_only" => \A it \in ItemsOf[o] : \E e \in S : owner'[e] = it
  BY <1>0 DEF Promise!Sell, Promise!Order, StockInv, OwnersAreCharged, SoldOnce
<1>2. ItemsOf[o] \subseteq Items /\ NoItem \notin ItemsOf[o]
  BY ItemsBelongToOneOrder, NullsAreNoRows
<1>3. StockTypes'
  BY <1>0, <1>1, <1>2 DEF StockInv, StockTypes, Statuses
<1>4. OwnersAreCharged'
  BY <1>1, <1>2, ItemsBelongToOneOrder DEF StockInv, StockTypes, OwnersAreCharged, SoldOnce
<1>5. OneEsimEach'
  <2>1. ASSUME NEW e \in Esims, NEW d \in Esims, owner'[e] # NoItem, owner'[e] = owner'[d]
        PROVE  e = d
    BY <1>1, <2>1 DEF StockInv, OneEsimEach
  <2>2. ASSUME NEW p \in Orders, Mode[p] = "inventory_only", ord'[p] \in {"paid", "refunded"},
               NEW it \in ItemsOf[p]
        PROVE  \E e \in Esims : owner'[e] = it
    <3>1. CASE p = o
      BY <1>1, <2>2, <3>1
    <3>2. CASE p # o
      <4>1. PICK e \in Esims : owner[e] = it
        BY <1>1, <2>2, <3>2 DEF StockInv, StockTypes, OneEsimEach
      <4>2. e \notin S
        BY <1>1, <2>2, <4>1, ItemsBelongToOneOrder, NullsAreNoRows
      <4> QED BY <1>1, <4>1, <4>2
    <3> QED BY <3>1, <3>2
  <2> QED BY <2>1, <2>2 DEF OneEsimEach
<1> QED BY <1>3, <1>4, <1>5 DEF StockInv

\* A purchase is for an item that had none, of an order that may buy.
LEMMA SupplyKeepsStock ==
  ASSUME StockInv, NEW e \in Esims, NEW it \in Items, Promise!Supply(e, it)
  PROVE  StockInv'
<1>1. /\ inv[e] = "absent" /\ inv' = [inv EXCEPT ![e] = "activated"]
      /\ owner' = [owner EXCEPT ![e] = it] /\ ord' = ord
      /\ \A d \in Esims : owner[d] # it
      /\ \A o \in Orders : it \in ItemsOf[o] => ord[o] \notin {"absent", "pending_approval"}
      /\ owner[e] = NoItem
  BY DEF Promise!Supply, Promise!Profile, StockInv, OwnersAreCharged, SoldOnce
<1>2. StockTypes'
  BY <1>1 DEF StockInv, StockTypes, Statuses
<1>3. OwnersAreCharged'
  BY <1>1, NullsAreNoRows DEF StockInv, StockTypes, OwnersAreCharged, SoldOnce
<1>4. OneEsimEach'
  BY <1>1, ItemsBelongToOneOrder, NullsAreNoRows DEF StockInv, StockTypes, OneEsimEach
<1> QED BY <1>2, <1>3, <1>4 DEF StockInv

\* The other steps give nothing to anybody.
LEMMA OthersKeepStock ==
  ASSUME StockInv, UNCHANGED owner,
         \/ \E e \in Esims : Promise!Import(e) \/ Promise!Activate(e) \/ Promise!Suspend(e)
         \/ \E o \in Orders : Promise!Place(o) \/ Promise!Refund(o) \/ Promise!Close(o)
  PROVE  StockInv'
<1>1. CASE \E e \in Esims : Promise!Import(e) \/ Promise!Activate(e) \/ Promise!Suspend(e)
  BY <1>1 DEF Promise!Import, Promise!Activate, Promise!Suspend, Promise!Profile,
     StockInv, StockTypes, OwnersAreCharged, OneEsimEach, SoldOnce, Statuses
<1>2. CASE \E o \in Orders : Promise!Place(o) \/ Promise!Refund(o) \/ Promise!Close(o)
  BY <1>2 DEF Promise!Place, Promise!Refund, Promise!Close, Promise!Order,
     StockInv, StockTypes, OwnersAreCharged, OneEsimEach
<1> QED BY <1>1, <1>2

LEMMA StockStep == StockInv /\ [Promise!Next]_(Promise!stockVars) => StockInv'
<1> SUFFICES ASSUME StockInv, [Promise!Next]_(Promise!stockVars) PROVE StockInv'
  OBVIOUS
<1>1. CASE UNCHANGED <<ord, inv, owner>>
  BY <1>1 DEF StockInv, StockTypes, OwnersAreCharged, OneEsimEach
<1>2. CASE \/ \E e \in Esims : Promise!Import(e) \/ Promise!Activate(e) \/ Promise!Suspend(e)
           \/ \E o \in Orders : Promise!Place(o) \/ Promise!Refund(o) \/ Promise!Close(o)
  <2>1. UNCHANGED owner
    BY <1>2 DEF Promise!Import, Promise!Activate, Promise!Suspend, Promise!Place,
       Promise!Refund, Promise!Close
  <2> QED BY <1>2, <2>1, OthersKeepStock
<1>3. CASE \E o \in Orders, S \in SUBSET Esims : Promise!Sell(o, S)
  BY <1>3, SellKeepsStock
<1>4. CASE \E e \in Esims, it \in Items : Promise!Supply(e, it)
  BY <1>4, SupplyKeepsStock
<1> QED BY <1>1, <1>2, <1>3, <1>4 DEF Promise!Next, Promise!stockVars

LEMMA StockAlways == Delivers => []StockInv
<1>1. Promise!Init => StockInv
  BY NullsAreNoRows, ItemsBelongToOneOrder
     DEF Promise!Init, StockInv, StockTypes, OwnersAreCharged, OneEsimEach, SoldOnce, Statuses
<1> QED BY <1>1, StockStep, PTL DEF Delivers, Promise!Spec

\* Whatever delivers like Stock gives an item one eSIM at most, and all items of an
\* order that was charged from stock one.
THEOREM StockServes == Delivers => []OneEsimEach
<1>1. StockInv => OneEsimEach
  BY DEF StockInv
<1> QED BY <1>1, StockAlways, PTL

\* And an eSIM that was handed out stays with its item for good.
THEOREM StockNeverMoves ==
  Delivers =>
    [][\A e \in Esims :
         /\ owner[e] # NoItem => owner'[e] = owner[e]
         /\ inv[e] = "activated" => inv'[e] = "activated"]_<<ord, inv, owner>>
<1>1. StockInv /\ [Promise!Next]_(Promise!stockVars) =>
        [\A e \in Esims :
           /\ owner[e] # NoItem => owner'[e] = owner[e]
           /\ inv[e] = "activated" => inv'[e] = "activated"]_<<ord, inv, owner>>
  BY DEF Promise!stockVars, Promise!Next, Promise!Import, Promise!Activate, Promise!Suspend,
     Promise!Place, Promise!Refund, Promise!Close, Promise!Sell, Promise!Supply,
     Promise!Profile, Promise!Order, StockInv, StockTypes, OwnersAreCharged, SoldOnce
<1> QED BY <1>1, StockAlways, PTL DEF Delivers, Promise!Spec
=============================================================================
