----------------------------- MODULE Fulfilment -----------------------------
(***************************************************************************)
(* What becomes of an order: the inventory rows it takes, the eSIMs bought *)
(* on demand after it is paid, the activation of both, the retries and the *)
(* provider's callbacks.                                                   *)
(*                                                                         *)
(* The order is charged and its rows are sold in one transaction.  Calls   *)
(* to the provider come after that commit, outside any transaction, except *)
(* retry_activation's, which is made with the inventory row locked.  The   *)
(* record an activation updates is read without a lock, and the UPDATE     *)
(* carries the attributes that differ from what was read.                  *)
(***************************************************************************)
EXTENDS Integers, FiniteSets

CONSTANTS
  Orders, Items,    \* ids of rows of orders and order_items
  ItemsOf,          \* the items of an order, as many as its quantity
  Mode,             \* purchase mode in force when the order is charged
  Esims,            \* ICCIDs the provider can issue
  Workers,          \* request handlers running at the same time
  MaxRetries,       \* MAX_RETRIES
  LocksJoinedRows,  \* does the database take FOR UPDATE on a query with an outer join?
  NoOrder, NoItem, NoEsim

Modes == {"hybrid", "inventory_only", "on_demand_only"}

ASSUME ItemsBelongToOneOrder ==
  /\ ItemsOf \in [Orders -> SUBSET Items]
  /\ \A it \in Items : \E o \in Orders : it \in ItemsOf[o]
  /\ \A o, p \in Orders : o # p => ItemsOf[o] \cap ItemsOf[p] = {}
ASSUME ModeIsMode == Mode \in [Orders -> Modes]
ASSUME MaxRetriesIsPositive == MaxRetries \in Nat \ {0}
ASSUME NullsAreNoRows == NoOrder \notin Orders /\ NoItem \notin Items /\ NoEsim \notin Esims
ASSUME LocksJoinedRowsIsBoolean == LocksJoinedRows \in BOOLEAN

VARIABLES
  ord,            \* orders.status
  iccid,          \* order_items.esim_iccid
  inv,            \* esim_inventory.status, "absent" while there is no row
  retries,        \* esim_inventory.activation_retries
  owner,          \* esim_inventory.order_item_id
  bundle,         \* at the provider: was apply_bundle asked for, was it applied?
  boughtFor,      \* at the provider: the item an eSIM was bought for on demand
  pc,             \* what each worker does next
  order,          \* the order it has locked or is about to close
  rows,           \* inventory rows it has locked for sale, then has to activate
  want,           \* items it has to buy eSIMs for
  cur,            \* the eSIM it is working on
  copy            \* the inventory record in its session

stock == <<inv, retries, owner>>
provider == <<bundle, boughtFor>>
session == <<pc, order, rows, want, cur, copy>>
vars == <<ord, iccid, stock, provider, session>>

Statuses == {"absent", "available", "sold", "activated", "suspended"}
Copies == [status : Statuses, retries : Nat]
NoCopy == [status |-> "absent", retries |-> 0]
Busy == {"holding", "serving", "bought", "applying", "applied", "copied",
         "retrying", "attaching", "closing"}

TypeOK ==
  /\ ord \in [Orders -> {"absent", "pending_approval", "paid", "refunded", "cancelled"}]
  /\ iccid \in [Items -> Esims \cup {NoEsim}]
  /\ inv \in [Esims -> Statuses]
  /\ retries \in [Esims -> 0..MaxRetries]
  /\ owner \in [Esims -> Items \cup {NoItem}]
  /\ bundle \in [Esims -> {"none", "asked", "applied"}]
  /\ boughtFor \in [Esims -> Items \cup {NoItem}]
  /\ pc \in [Workers -> Busy \cup {"idle"}]
  /\ order \in [Workers -> Orders \cup {NoOrder}]
  /\ rows \in [Workers -> SUBSET Esims]
  /\ want \in [Workers -> SUBSET Items]
  /\ cur \in [Workers -> Esims \cup {NoEsim}]
  /\ copy \in [Workers -> Copies]

Init ==
  /\ ord = [o \in Orders |-> "absent"]
  /\ iccid = [it \in Items |-> NoEsim]
  /\ inv = [e \in Esims |-> "absent"]
  /\ retries = [e \in Esims |-> 0]
  /\ owner = [e \in Esims |-> NoItem]
  /\ bundle = [e \in Esims |-> "none"]
  /\ boughtFor = [e \in Esims |-> NoItem]
  /\ pc = [w \in Workers |-> "idle"]
  /\ order = [w \in Workers |-> NoOrder]
  /\ rows = [w \in Workers |-> {}]
  /\ want = [w \in Workers |-> {}]
  /\ cur = [w \in Workers |-> NoEsim]
  /\ copy = [w \in Workers |-> NoCopy]

-----------------------------------------------------------------------------
(* Locks and sessions                                                      *)

\* Variant: the order is read without a row lock.
OrderNeverLocked(o) == o \in Orders

OrderFree(o) == \A v \in Workers : pc[v] = "holding" => order[v] # o

\* Variant: retry_activation reads the row without a lock.
RowFreeOfSales(e) == \A v \in Workers : pc[v] = "holding" => e \notin rows[v]

\* Rows taken for sale stay locked until the commit, and retry_activation keeps
\* its row locked while it talks to the provider.
RowFree(e) ==
  \A v \in Workers :
    /\ pc[v] = "holding" => e \notin rows[v]
    /\ pc[v] = "retrying" => cur[v] # e

\* Variant: a plain SELECT ... LIMIT quantity.
AvailableRows == {e \in Esims : inv[e] = "available"}

\* What SELECT ... FOR UPDATE SKIP LOCKED can return.
FreeRows == {e \in Esims : inv[e] = "available" /\ RowFree(e)}

\* LIMIT quantity: as many rows as there are, up to one for each item.
Taken(o) ==
  IF Mode[o] = "on_demand_only" THEN {{}}
  ELSE LET quantity == Cardinality(ItemsOf[o]) IN
       IF Cardinality(FreeRows) <= quantity THEN {FreeRows}
       ELSE {S \in SUBSET FreeRows : Cardinality(S) = quantity}

\* The worker goes on to state s with order o, rows R, items I and eSIM e.
Goto(w, s, o, R, I, e) ==
  /\ pc' = [pc EXCEPT ![w] = s]
  /\ order' = [order EXCEPT ![w] = o]
  /\ rows' = [rows EXCEPT ![w] = R]
  /\ want' = [want EXCEPT ![w] = I]
  /\ cur' = [cur EXCEPT ![w] = e]

Read(w, record) == copy' = [copy EXCEPT ![w] = record]

End(w) == Goto(w, "idle", NoOrder, {}, {}, NoEsim) /\ Read(w, NoCopy)

\* It goes on with the request it serves; e is the eSIM it is working on now.
Continue(w, s, e) == Goto(w, s, NoOrder, rows[w], want[w], e) /\ Read(w, NoCopy)

Start(w, s, o, R, e) ==
  /\ pc[w] = "idle"
  /\ Goto(w, s, o, R, {}, e)
  /\ UNCHANGED <<ord, iccid, stock, copy>>

-----------------------------------------------------------------------------
(* Orders                                                                  *)

\* An administrator uploads a CSV file or buys in bulk.
Import(e) ==
  /\ inv[e] = "absent" /\ boughtFor[e] = NoItem
  /\ inv' = [inv EXCEPT ![e] = "available"]
  /\ UNCHANGED <<ord, iccid, retries, owner, provider, session>>

CreateOrder(w, o) ==
  /\ ord[o] = "absent" /\ OrderFree(o)
  /\ \E S \in Taken(o) : Start(w, "holding", o, S, NoEsim)
  /\ UNCHANGED provider

ApproveOrder(w, o) ==
  /\ LocksJoinedRows
  /\ ord[o] = "pending_approval" /\ OrderFree(o)
  /\ \E S \in Taken(o) : Start(w, "holding", o, S, NoEsim)
  /\ UNCHANGED provider

\* create_order under order_approval_mode = "manual": the items are inserted,
\* the rows taken are given back.
PlaceOrder(w) ==
  /\ pc[w] = "holding" /\ ord[order[w]] = "absent"
  /\ ord' = [ord EXCEPT ![order[w]] = "pending_approval"]
  /\ End(w)
  /\ UNCHANGED <<iccid, stock, provider>>

\* COMMIT of a charged order: row e goes to item to[e].  UNIQUE constraints on
\* order_items.esim_iccid and esim_inventory.order_item_id refuse a second owner.
Sell(w, o, to) ==
  LET R == rows[w]
      sold == {to[e] : e \in R}
  IN
  /\ pc[w] = "holding" /\ order[w] = o
  /\ \A e, d \in R : to[e] = to[d] => e = d
  /\ \A e \in R : \A it \in Items \ {to[e]} : iccid[it] # e
  /\ \A e \in R : \A d \in Esims \ {e} : owner[d] # to[e]
  /\ ord' = [ord EXCEPT ![o] = "paid"]
  /\ inv' = [e \in Esims |-> IF e \in R THEN "sold" ELSE inv[e]]
  /\ owner' = [e \in Esims |-> IF e \in R THEN to[e] ELSE owner[e]]
  /\ iccid' = [it \in Items |->
                 IF it \in sold THEN CHOOSE e \in R : to[e] = it ELSE iccid[it]]
  /\ Goto(w, "serving", NoOrder, R, ItemsOf[o] \ sold, NoEsim)
  /\ UNCHANGED <<retries, provider, copy>>

\* Variant: a shortage of stock is not an error.
CommitShortSale(w) ==
  \E o \in Orders : \E to \in [rows[w] -> ItemsOf[o]] : Sell(w, o, to)

\* With purchase mode inventory_only a shortage rolls everything back.
CommitSale(w) ==
  \E o \in Orders : \E to \in [rows[w] -> ItemsOf[o]] :
    /\ Sell(w, o, to)
    /\ Mode[o] = "inventory_only" => want'[w] = {}

\* create_refund, also for cancel_order of a paid order.
RefundOrder(o) ==
  /\ LocksJoinedRows
  /\ ord[o] = "paid" /\ OrderFree(o)
  /\ ord' = [ord EXCEPT ![o] = "refunded"]
  /\ UNCHANGED <<iccid, stock, provider, session>>

\* cancel_order looks at the status in one transaction and closes in another.
CancelOrder(w, o) ==
  /\ LocksJoinedRows
  /\ ord[o] = "pending_approval" /\ OrderFree(o)
  /\ Start(w, "closing", o, {}, NoEsim)
  /\ UNCHANGED provider

CloseOrder(w) ==
  /\ pc[w] = "closing" /\ OrderFree(order[w])
  /\ ord' = [ord EXCEPT ![order[w]] = "cancelled"]
  /\ End(w)
  /\ UNCHANGED <<iccid, stock, provider>>

-----------------------------------------------------------------------------
(* On-demand purchase, after the commit                                    *)

Buying(w, it) == pc[w] = "serving" /\ it \in want[w]
Fresh(e) == inv[e] = "absent" /\ boughtFor[e] = NoItem

\* The provider issues an eSIM with the bundle on it.
Buy(w, it, e) ==
  /\ Buying(w, it) /\ Fresh(e)
  /\ boughtFor' = [boughtFor EXCEPT ![e] = it]
  /\ bundle' = [bundle EXCEPT ![e] = "applied"]
  /\ UNCHANGED <<ord, iccid, stock, order, rows, copy>>
  /\ want' = [want EXCEPT ![w] = @ \ {it}]
  /\ \/ pc' = [pc EXCEPT ![w] = "bought"] /\ cur' = [cur EXCEPT ![w] = e]
     \/ UNCHANGED <<pc, cur>>  \* the reply is lost: an AppError, the item is skipped

\* The provider refuses, or its reply names no eSIM: the item is skipped.
BuyFailed(w, it) ==
  /\ Buying(w, it)
  /\ want' = [want EXCEPT ![w] = @ \ {it}]
  /\ UNCHANGED <<ord, iccid, stock, provider, pc, order, rows, cur, copy>>

\* Variant: the item is looked up by the wrong id and not found.
RecordWithoutItem(w) ==
  LET e == cur[w] IN
  /\ pc[w] = "bought"
  /\ inv' = [inv EXCEPT ![e] = "activated"]
  /\ owner' = [owner EXCEPT ![e] = boughtFor[e]]
  /\ Continue(w, "serving", NoEsim)
  /\ UNCHANGED <<ord, iccid, retries, provider>>

\* A transaction of its own; UNIQUE constraints on both columns.
Record(w) ==
  LET e == cur[w]
      it == boughtFor[e]
  IN
  /\ pc[w] = "bought"
  /\ inv[e] = "absent"
  /\ \A d \in Esims : owner[d] # it
  /\ inv' = [inv EXCEPT ![e] = "activated"]
  /\ owner' = [owner EXCEPT ![e] = it]
  /\ iccid' = [iccid EXCEPT ![it] = e]
  /\ Continue(w, "serving", NoEsim)
  /\ UNCHANGED <<ord, retries, provider>>

-----------------------------------------------------------------------------
(* Activation                                                              *)

\* apply_bundle may take effect at any time after it was asked for.
Ask(e) == bundle' = [bundle EXCEPT ![e] = IF @ = "none" THEN "asked" ELSE @]

Apply(w, e) ==
  /\ pc[w] = "serving" /\ want[w] = {} /\ e \in rows[w]
  /\ Goto(w, "applying", NoOrder, rows[w] \ {e}, {}, e)
  /\ Ask(e)
  /\ UNCHANGED <<ord, iccid, stock, boughtFor, copy>>

ProviderApplies(e) ==
  /\ bundle[e] = "asked"
  /\ bundle' = [bundle EXCEPT ![e] = "applied"]
  /\ UNCHANGED <<ord, iccid, stock, boughtFor, session>>

\* Variant: a reply that says "processing" counts as an activation.
ApplyAccepted(w) ==
  /\ pc[w] = "applying"
  /\ Continue(w, "applied", cur[w])
  /\ UNCHANGED <<ord, iccid, stock, provider>>

ApplySucceeded(w) ==
  /\ pc[w] = "applying" /\ bundle[cur[w]] = "applied"
  /\ Continue(w, "applied", cur[w])
  /\ UNCHANGED <<ord, iccid, stock, provider>>

\* An error, a timeout, or a status that is not "activated".
ApplyFailed(w) ==
  /\ pc[w] = "applying"
  /\ Continue(w, "serving", NoEsim)
  /\ UNCHANGED <<ord, iccid, stock, provider>>

\* activate reads the record, unlocked, and fetches the install details.
ReadRecord(w) ==
  /\ pc[w] = "applied"
  /\ Goto(w, "copied", NoOrder, rows[w], want[w], cur[w])
  /\ Read(w, [status |-> inv[cur[w]], retries |-> retries[cur[w]]])
  /\ UNCHANGED <<ord, iccid, stock, provider>>

\* Only attributes that differ from the copy are written.
CommitActivated(w) ==
  LET e == cur[w] IN
  /\ pc[w] = "copied" /\ RowFree(e)
  /\ inv' = IF copy[w].status = "activated" THEN inv ELSE [inv EXCEPT ![e] = "activated"]
  /\ retries' = IF copy[w].retries = 0 THEN retries ELSE [retries EXCEPT ![e] = 0]
  /\ Continue(w, "serving", NoEsim)
  /\ UNCHANGED <<ord, iccid, owner, provider>>

\* reprocess_order applies the bundle again to the items that have an eSIM, and
\* skips the others.
Reprocess(w, o) ==
  LET R == {iccid[it] : it \in ItemsOf[o]} \ {NoEsim} IN
  /\ ord[o] = "paid" /\ R # {}
  /\ Start(w, "serving", NoOrder, R, NoEsim)
  /\ UNCHANGED provider

RetryActivation(w, e) ==
  /\ inv[e] = "sold" /\ RowFree(e)
  /\ retries[e] < MaxRetries
  /\ Start(w, "retrying", NoOrder, {}, e)
  /\ Ask(e)
  /\ UNCHANGED boughtFor

RetrySucceeded(w) ==
  /\ pc[w] = "retrying" /\ bundle[cur[w]] = "applied"
  /\ inv' = [inv EXCEPT ![cur[w]] = "activated"]
  /\ retries' = [retries EXCEPT ![cur[w]] = 0]
  /\ End(w)
  /\ UNCHANGED <<ord, iccid, owner, provider>>

\* Variant: suspended one failure too early.
RetryFailedEarly(w) ==
  LET e == cur[w] IN
  /\ pc[w] = "retrying"
  /\ retries' = [retries EXCEPT ![e] = @ + 1]
  /\ inv' = [inv EXCEPT ![e] = IF retries'[e] >= MaxRetries - 1 THEN "suspended" ELSE @]
  /\ End(w)
  /\ UNCHANGED <<ord, iccid, owner, provider>>

RetryFailed(w) ==
  LET e == cur[w] IN
  /\ pc[w] = "retrying"
  /\ retries' = [retries EXCEPT ![e] = @ + 1]
  /\ inv' = [inv EXCEPT ![e] = IF retries'[e] >= MaxRetries THEN "suspended" ELSE @]
  /\ End(w)
  /\ UNCHANGED <<ord, iccid, owner, provider>>

\* The first-attachment callback reads the record without a lock.
FirstAttachment(w, e) ==
  /\ bundle[e] = "applied"
  /\ inv[e] \notin {"absent", "activated", "suspended"}
  /\ Start(w, "attaching", NoOrder, {}, e)
  /\ UNCHANGED provider

CommitAttachment(w) ==
  /\ pc[w] = "attaching" /\ RowFree(cur[w])
  /\ inv' = [inv EXCEPT ![cur[w]] = "activated"]
  /\ End(w)
  /\ UNCHANGED <<ord, iccid, retries, owner, provider>>

\* The request is answered, refused, or ends with an exception or a crash: what
\* was not committed is lost.
Return(w) ==
  /\ pc[w] # "idle"
  /\ End(w)
  /\ UNCHANGED <<ord, iccid, stock, provider>>

-----------------------------------------------------------------------------
Request(w) ==
  \/ \E o \in Orders : CreateOrder(w, o) \/ ApproveOrder(w, o) \/ CancelOrder(w, o)
                         \/ Reprocess(w, o)
  \/ \E e \in Esims : RetryActivation(w, e) \/ FirstAttachment(w, e)

Step(w) ==
  \/ PlaceOrder(w) \/ CommitSale(w) \/ CloseOrder(w) \/ Record(w)
  \/ \E it \in Items : BuyFailed(w, it) \/ \E e \in Esims : Buy(w, it, e)
  \/ \E e \in Esims : Apply(w, e)
  \/ ApplySucceeded(w) \/ ApplyFailed(w) \/ ReadRecord(w) \/ CommitActivated(w)
  \/ RetrySucceeded(w) \/ RetryFailed(w) \/ CommitAttachment(w)
  \/ Return(w)

Next ==
  \/ \E w \in Workers : Request(w) \/ Step(w)
  \/ \E e \in Esims : Import(e) \/ ProviderApplies(e)
  \/ \E o \in Orders : RefundOrder(o)

Spec == Init /\ [][Next]_vars

\* Requests get on with their work; an administrator reprocesses a paid order
\* for as long as that does something.
Fairness ==
  /\ \A w \in Workers : WF_vars(Step(w))
  /\ \A w \in Workers, o \in Orders : SF_vars(Reprocess(w, o))
FairSpec == Spec /\ Fairness

-----------------------------------------------------------------------------
(* Properties                                                              *)

\* The rows a handler has taken for an order stay in stock and its own until it
\* commits, whatever other orders run: no two of them sell one eSIM, so the
\* UNIQUE constraints behind the sale are never what stops it.
TakenRowsAreExclusive ==
  \A w \in Workers : pc[w] = "holding" =>
    /\ \A e \in rows[w] : inv[e] = "available" /\ owner[e] = NoItem
    /\ \A v \in Workers \ {w} : pc[v] = "holding" =>
         rows[v] \cap rows[w] = {} /\ order[v] # order[w]

\* esim_inventory.order_item_id and order_items.esim_iccid, written in different
\* transactions for stock and for purchases, are inverse to each other, and only
\* items of charged orders have an eSIM.
OneOwner ==
  /\ \A e \in Esims, it \in Items : owner[e] = it <=> iccid[it] = e
  /\ \A o \in Orders : ord[o] \in {"absent", "pending_approval"} =>
       \A it \in ItemsOf[o] : iccid[it] = NoEsim

\* An order charged under inventory_only has an eSIM for every item.
InventoryOnlyComplete ==
  \A o \in Orders : Mode[o] = "inventory_only" /\ ord[o] \in {"paid", "refunded"} =>
    \A it \in ItemsOf[o] : iccid[it] # NoEsim

\* However requests are repeated, interrupted or raced, the provider is asked for
\* at most one eSIM for an item, and for none if the item was served from stock.
BoughtOnce ==
  \A e \in Esims : boughtFor[e] # NoItem =>
    /\ iccid[boughtFor[e]] \in {NoEsim, e}
    /\ \A d \in Esims : boughtFor[d] = boughtFor[e] => d = e

\* An eSIM is suspended by its last retry and by nothing before, and one that may
\* be retried has retries left: ACTIVATION_MAX_RETRIES never answers a retry,
\* although activate and the callback change the row between them.
SuspendedAtLimit ==
  \A e \in Esims :
    /\ inv[e] = "suspended" => retries[e] = MaxRetries
    /\ inv[e] = "sold" => retries[e] < MaxRetries

\* The server calls an eSIM activated only when the provider has put the bundle
\* on it, however late and through whichever of the four paths it learns of it.
ActivatedHasBundle == \A e \in Esims : inv[e] = "activated" => bundle[e] = "applied"

\* Reprocessing a paid order whose purchase failed ends with an eSIM for each of
\* its items, unless the order is refunded or cancelled.
ReprocessedIsFulfilled ==
  \A o \in Orders : \A it \in ItemsOf[o] :
    ord[o] = "paid" /\ iccid[it] = NoEsim ~> iccid[it] # NoEsim \/ ord[o] # "paid"

\* Every commit is one step of the abstract stock.
Promise == INSTANCE Stock WITH ord <- ord, inv <- inv, owner <- owner
Delivers == Promise!Spec
=============================================================================
