------------------------------- MODULE Ledger -------------------------------
(***************************************************************************)
(* The handlers that move money between payments, orders, freezes and the  *)
(* wallets, statement by statement as the database sees them.              *)
(*                                                                         *)
(* A handler is one database transaction.  The ones that start from a      *)
(* User, Payment, Order or WalletFreeze row lock that row (a User is only  *)
(* read) and, because every relationship is declared lazy="selectin", load *)
(* its Wallet row into the session at the same time, unlocked.  A later    *)
(* SELECT ... FOR UPDATE on that wallet waits for the row lock but does    *)
(* not refresh the object already in the session: the handler computes     *)
(* from the copy of the first read and writes an absolute value back.      *)
(* The handlers whose first statement is the locking SELECT on the wallet  *)
(* compute from the row they locked.                                       *)
(***************************************************************************)
EXTENDS Integers, FiniteSets, Functions

CONSTANTS
  Users,            \* users, one wallet each
  Payments,         \* ids of rows of payments
  Orders,           \* ids of rows of orders
  Freezes,          \* ids of rows of wallet_freezes
  Owner,            \* the user a row belongs to
  Amount,           \* payments.amount, orders.total_price_iqd, wallet_freezes.amount
  Adjustments,      \* amounts an administrator may add to a wallet
  Workers,          \* request handlers running at the same time
  LocksJoinedRows,  \* does the database take FOR UPDATE on a query with an outer join?
  NoRow, NoJob,     \* "no row", "no request"
  MaxPosted         \* bound: no adjustment may take a wallet's journal above it

Rows == Payments \cup Orders \cup Freezes

ASSUME RowsAreDistinct ==
  /\ Payments \cap Orders = {} /\ Payments \cap Freezes = {} /\ Orders \cap Freezes = {}
  /\ NoRow \notin Rows
ASSUME OwnerIsUser == Owner \in [Rows -> Users]
\* CHECK constraints on payments and orders; freeze_balance refuses amount <= 0.
ASSUME AmountIsPositive == Amount \in [Rows -> Nat \ {0}]
\* manual_adjust_wallet and deposit refuse amounts that are not positive.
ASSUME AdjustmentIsPositive == Adjustments \subseteq Nat \ {0}
ASSUME RowsAreFinite == IsFiniteSet(Rows)
ASSUME LocksJoinedRows \in BOOLEAN

VARIABLES
  balance, frozen,  \* wallets.balance, wallets.frozen_balance
  posted,           \* per wallet, SUM(wallet_transactions.amount)
  net,              \* per payment or order, the sum of the entries written for it
  pay,              \* payments.status
  ord, refunded,    \* orders.status, orders.refunded_amount
  frz,              \* wallet_freezes.status
  pc,               \* how far each worker's transaction has come
  job,              \* the request it serves
  copy,             \* the wallet object in its session
  raced             \* history: wallets some transaction changed behind another's copy

wallets == <<balance, frozen>>
rows == <<pay, ord, refunded, frz>>
journal == <<posted, net>>
session == <<pc, job, copy>>
vars == <<wallets, journal, rows, session, raced>>

Kinds == {"create_order", "approve_order", "confirm_deposit", "create_refund",
          "manual_refund_payment", "release_freeze", "freeze_balance",
          "manual_adjust_wallet", "cancel_order"}
Jobs == [kind : Kinds, user : Users, row : Rows \cup {NoRow}, amount : Nat]
Copies == [balance : Int, frozen : Int]
NoCopy == [balance |-> 0, frozen |-> 0]

TypeOK ==
  /\ balance \in [Users -> Nat]
  /\ frozen \in [Users -> Int]
  /\ posted \in [Users -> Int]
  /\ net \in [Payments \cup Orders -> Int]
  /\ pay \in [Payments -> {"absent", "pending", "completed", "cancelled", "refunded"}]
  /\ ord \in [Orders -> {"absent", "pending_approval", "paid", "refunded", "cancelled"}]
  /\ refunded \in [Orders -> Nat]
  /\ frz \in [Freezes -> {"absent", "active", "released"}]
  /\ pc \in [Workers -> {"idle", "loaded", "locked", "checked"}]
  /\ job \in [Workers -> Jobs \cup {NoJob}]
  /\ \A w \in Workers : pc[w] # "idle" => job[w] \in Jobs
  /\ copy \in [Workers -> Copies]
  /\ raced \in SUBSET Users

Init ==
  /\ balance = [u \in Users |-> 0]
  /\ frozen = [u \in Users |-> 0]
  /\ posted = [u \in Users |-> 0]
  /\ net = [x \in Payments \cup Orders |-> 0]
  /\ pay = [p \in Payments |-> "absent"]
  /\ ord = [o \in Orders |-> "absent"]
  /\ refunded = [o \in Orders |-> 0]
  /\ frz = [f \in Freezes |-> "absent"]
  /\ pc = [w \in Workers |-> "idle"]
  /\ job = [w \in Workers |-> NoJob]
  /\ copy = [w \in Workers |-> NoCopy]
  /\ raced = {}

-----------------------------------------------------------------------------
(* Row locks.  A transaction holds the row it started from until it ends,  *)
(* and the wallet row once its locking SELECT has returned.                *)

RowFree(x) == \A v \in Workers : pc[v] \in {"loaded", "locked"} => job[v].row # x

\* Variant: with_for_update() forgotten on the wallet.
WalletNeverLocked(u) == u \in Users

WalletFree(u) == \A v \in Workers : pc[v] = "locked" => job[v].user # u

Begin(w, state, kind, x, u, a) ==
  /\ pc[w] = "idle"
  /\ pc' = [pc EXCEPT ![w] = state]
  /\ job' = [job EXCEPT ![w] = [kind |-> kind, user |-> u, row |-> x, amount |-> a]]
  /\ copy' = [copy EXCEPT ![w] = [balance |-> balance[u], frozen |-> frozen[u]]]
  /\ UNCHANGED <<wallets, journal, rows, raced>>

\* The row x is locked and read; its owner's wallet is read with it, unlocked.
EagerLoad(w, kind, x, a) == RowFree(x) /\ Begin(w, "loaded", kind, x, Owner[x], a)

\* The wallet is locked by the statement that first reads it.
LockFirst(w, kind, x, u, a) == WalletFree(u) /\ Begin(w, "locked", kind, x, u, a)

\* The locking SELECT of a handler that already has the wallet in its session.
LockWallet(w) ==
  /\ pc[w] = "loaded"
  /\ WalletFree(job[w].user)
  /\ pc' = [pc EXCEPT ![w] = "locked"]
  /\ UNCHANGED <<wallets, journal, rows, job, copy, raced>>

End(w) ==
  /\ pc' = [pc EXCEPT ![w] = "idle"]
  /\ job' = [job EXCEPT ![w] = NoJob]
  /\ copy' = [copy EXCEPT ![w] = NoCopy]

\* Some other transaction has u's wallet in its session and has not locked it.
Overtaken(w, u) == \E v \in Workers \ {w} : pc[v] = "loaded" /\ job[v].user = u

Race(w) ==
  raced' = IF Overtaken(w, job[w].user) THEN raced \cup {job[w].user} ELSE raced

\* Variant: without ck_wallets_balance_positive and the check before it.
WriteBalanceUnchecked(w, a) ==
  /\ balance' = [balance EXCEPT ![job[w].user] = copy[w].balance + a]
  /\ posted' = [posted EXCEPT ![job[w].user] = @ + a]
  /\ Race(w) /\ End(w)
  /\ UNCHANGED frozen

\* COMMIT of a new balance, computed from the copy, and of its journal entry.
\* ck_wallets_balance_positive refuses a negative balance.
WriteBalance(w, a) ==
  /\ copy[w].balance + a >= 0
  /\ balance' = [balance EXCEPT ![job[w].user] = copy[w].balance + a]
  /\ posted' = [posted EXCEPT ![job[w].user] = @ + a]
  /\ Race(w) /\ End(w)
  /\ UNCHANGED frozen

\* COMMIT of a new frozen balance; freezes write no journal entry.
WriteFrozen(w, a) ==
  /\ frozen' = [frozen EXCEPT ![job[w].user] = copy[w].frozen + a]
  /\ Race(w) /\ End(w)
  /\ UNCHANGED <<balance, journal>>

\* Variant: the check that forgets the frozen part.
AvailableWithFrozen(w) == copy[w].balance

Available(w) == copy[w].balance - copy[w].frozen

Enter(x, a) == net' = [net EXCEPT ![x] = @ + a]

Serving(w, kinds) == pc[w] = "locked" /\ job[w].kind \in kinds

\* Variant: get_session without its except clause keeps the locks of a failed handler.
RollbackBeforeLock(w) ==
  /\ pc[w] = "loaded"
  /\ End(w)
  /\ UNCHANGED <<wallets, journal, rows, raced>>

\* An exception, a refused check, a lost connection or a killed worker.
Rollback(w) ==
  /\ pc[w] # "idle"
  /\ End(w)
  /\ UNCHANGED <<wallets, journal, rows, raced>>

-----------------------------------------------------------------------------
(* Payments                                                                *)

\* The row that initiate_deposit, initiate_zaincash and initiate_qicard insert.
InitiateDeposit(p) ==
  /\ pay[p] = "absent"
  /\ pay' = [pay EXCEPT ![p] = "pending"]
  /\ UNCHANGED <<wallets, journal, ord, refunded, frz, session, raced>>

\* Variant: the status is read without the row lock.
ConfirmDepositUnlocked(w, p) ==
  pay[p] = "pending" /\ Begin(w, "loaded", "confirm_deposit", p, Owner[p], Amount[p])

ConfirmDeposit(w, p) ==
  pay[p] = "pending" /\ EagerLoad(w, "confirm_deposit", p, Amount[p])

CommitDeposit(w) ==
  /\ Serving(w, {"confirm_deposit"})
  /\ pay' = [pay EXCEPT ![job[w].row] = "completed"]
  /\ Enter(job[w].row, job[w].amount)
  /\ WriteBalance(w, job[w].amount)
  /\ UNCHANGED <<ord, refunded, frz>>

ManualRefundPayment(w, p) ==
  pay[p] = "completed" /\ EagerLoad(w, "manual_refund_payment", p, Amount[p])

CommitManualRefund(w) ==
  /\ Serving(w, {"manual_refund_payment"})
  /\ pay' = [pay EXCEPT ![job[w].row] = "refunded"]
  /\ Enter(job[w].row, -job[w].amount)
  /\ WriteBalance(w, -job[w].amount)
  /\ UNCHANGED <<ord, refunded, frz>>

\* Variant: cancels a payment that is already completed.
CancelQicardAnyStatus(p) ==
  /\ pay[p] # "absent" /\ RowFree(p)
  /\ pay' = [pay EXCEPT ![p] = "cancelled"]
  /\ UNCHANGED <<wallets, journal, ord, refunded, frz, session, raced>>

\* cancel_qicard_payment and refund_qicard_payment change the status under the
\* row lock and leave the wallet alone.
CancelQicard(p) ==
  /\ pay[p] = "pending" /\ RowFree(p)
  /\ pay' = [pay EXCEPT ![p] = "cancelled"]
  /\ UNCHANGED <<wallets, journal, ord, refunded, frz, session, raced>>

RefundQicard(p) ==
  /\ pay[p] = "completed" /\ RowFree(p)
  /\ pay' = [pay EXCEPT ![p] = "refunded"]
  /\ UNCHANGED <<wallets, journal, ord, refunded, frz, session, raced>>

-----------------------------------------------------------------------------
(* Orders                                                                  *)

\* create_order under order_approval_mode = "manual": nothing is charged yet.
PlaceOrder(o) ==
  /\ ord[o] = "absent" /\ RowFree(o)
  /\ ord' = [ord EXCEPT ![o] = "pending_approval"]
  /\ UNCHANGED <<wallets, journal, pay, refunded, frz, session, raced>>

CreateOrder(w, o) ==
  ord[o] = "absent" /\ EagerLoad(w, "create_order", o, Amount[o])

ApproveOrder(w, o) ==
  /\ LocksJoinedRows
  /\ ord[o] = "pending_approval" /\ EagerLoad(w, "approve_order", o, Amount[o])

CommitOrder(w) ==
  /\ Serving(w, {"create_order", "approve_order"})
  /\ Available(w) >= job[w].amount
  /\ ord' = [ord EXCEPT ![job[w].row] = "paid"]
  /\ Enter(job[w].row, -job[w].amount)
  /\ WriteBalance(w, -job[w].amount)
  /\ UNCHANGED <<pay, refunded, frz>>

\* Variant: the amount already refunded is read without the row lock.
CreateRefundUnlocked(w, o, a) ==
  /\ LocksJoinedRows
  /\ ord[o] = "paid" /\ a <= Amount[o] - refunded[o]
  /\ Begin(w, "loaded", "create_refund", o, Owner[o], a)

CreateRefund(w, o, a) ==
  /\ LocksJoinedRows
  /\ ord[o] = "paid" /\ a <= Amount[o] - refunded[o]
  /\ EagerLoad(w, "create_refund", o, a)

CommitRefund(w) ==
  LET o == job[w].row IN
  /\ Serving(w, {"create_refund"})
  /\ refunded' = [refunded EXCEPT ![o] = @ + job[w].amount]
  /\ ord' = [ord EXCEPT ![o] = IF refunded'[o] >= Amount[o] THEN "refunded" ELSE "paid"]
  /\ Enter(o, job[w].amount)
  /\ WriteBalance(w, job[w].amount)
  /\ UNCHANGED <<pay, frz>>

\* cancel_order on an order that is not paid: the status is read under a lock
\* that ends with its transaction, and set in another one.  On a paid order it
\* is create_refund for the whole total.
CancelOrder(w, o) ==
  /\ LocksJoinedRows
  /\ ord[o] = "pending_approval" /\ RowFree(o)
  /\ Begin(w, "checked", "cancel_order", o, Owner[o], Amount[o])

CloseOrder(w) ==
  /\ pc[w] = "checked" /\ RowFree(job[w].row)
  /\ ord' = [ord EXCEPT ![job[w].row] = "cancelled"]
  /\ End(w)
  /\ UNCHANGED <<wallets, journal, pay, refunded, frz, raced>>

-----------------------------------------------------------------------------
(* Freezes and adjustments                                                 *)

FreezeBalance(w, f) ==
  /\ frz[f] = "absent" /\ RowFree(f)
  /\ LockFirst(w, "freeze_balance", f, Owner[f], Amount[f])

CommitFreeze(w) ==
  /\ Serving(w, {"freeze_balance"})
  /\ job[w].amount <= Available(w)
  /\ frz' = [frz EXCEPT ![job[w].row] = "active"]
  /\ WriteFrozen(w, job[w].amount)
  /\ UNCHANGED <<pay, ord, refunded>>

\* Variant: an inactive freeze is released again.
ReleaseFreezeTwice(w, f) ==
  frz[f] # "absent" /\ EagerLoad(w, "release_freeze", f, Amount[f])

ReleaseFreeze(w, f) ==
  frz[f] = "active" /\ EagerLoad(w, "release_freeze", f, Amount[f])

CommitRelease(w) ==
  /\ Serving(w, {"release_freeze"})
  /\ frz' = [frz EXCEPT ![job[w].row] = "released"]
  /\ WriteFrozen(w, -job[w].amount)
  /\ UNCHANGED <<pay, ord, refunded>>

\* manual_adjust_wallet; WalletService.deposit is the same transaction.
AdjustWallet(w, u, a) ==
  /\ posted[u] + a <= MaxPosted
  /\ LockFirst(w, "manual_adjust_wallet", NoRow, u, a)

CommitAdjust(w) ==
  /\ Serving(w, {"manual_adjust_wallet"})
  /\ WriteBalance(w, job[w].amount)
  /\ UNCHANGED <<net, rows>>

-----------------------------------------------------------------------------
Request(w) ==
  \/ \E p \in Payments : ConfirmDeposit(w, p) \/ ManualRefundPayment(w, p)
  \/ \E o \in Orders : CreateOrder(w, o) \/ ApproveOrder(w, o) \/ CancelOrder(w, o)
  \/ \E o \in Orders : \E a \in 1..Amount[o] : CreateRefund(w, o, a)
  \/ \E f \in Freezes : FreezeBalance(w, f) \/ ReleaseFreeze(w, f)
  \/ \E u \in Users, a \in Adjustments : AdjustWallet(w, u, a)

Commit(w) ==
  \/ CommitDeposit(w) \/ CommitManualRefund(w)
  \/ CommitOrder(w) \/ CommitRefund(w) \/ CloseOrder(w)
  \/ CommitFreeze(w) \/ CommitRelease(w) \/ CommitAdjust(w)

Next ==
  \/ \E w \in Workers : Request(w) \/ LockWallet(w) \/ Commit(w) \/ Rollback(w)
  \/ \E p \in Payments : InitiateDeposit(p) \/ CancelQicard(p) \/ RefundQicard(p)
  \/ \E o \in Orders : PlaceOrder(o)

\* The database queues waiters for a row lock and grants it in turn; a handler
\* that has what it needs commits or rolls back.
Fairness ==
  \A w \in Workers :
    /\ SF_vars(LockWallet(w))
    /\ WF_vars(pc[w] = "locked" /\ (Commit(w) \/ Rollback(w)))

Spec == Init /\ [][Next]_vars
FairSpec == Spec /\ Fairness

-----------------------------------------------------------------------------
(* Properties                                                              *)

\* Whatever callbacks, confirmations and refunds run against each other, the
\* journal holds one credit for a completed payment, and nothing or a credit
\* and its reversal for any other.  A refund through the card gateway leaves
\* the credit in place.
PaymentSettledOnce ==
  \A p \in Payments :
    /\ pay[p] \in {"absent", "pending", "cancelled"} => net[p] = 0
    /\ pay[p] = "completed" => net[p] = Amount[p]
    /\ pay[p] = "refunded" => net[p] \in {0, Amount[p]}

\* An order is charged at most once, and concurrent partial refunds never give
\* back more than was charged: the journal, orders.refunded_amount and the
\* status agree.
RefundWithinCharge ==
  \A o \in Orders :
    /\ refunded[o] <= Amount[o]
    /\ ord[o] \in {"absent", "pending_approval"} => net[o] = 0
    /\ ord[o] \in {"paid", "refunded"} => net[o] = refunded[o] - Amount[o]
    /\ ord[o] = "refunded" => refunded[o] = Amount[o]
    /\ net[o] <= 0

\* The balance is the sum of the wallet's journal as long as no transaction has
\* committed between another's unlocked read of the wallet and its lock.
ConservedUnlessRaced == \A u \in Users : u \notin raced => balance[u] = posted[u]

\* The balance and the journal written beside it agree, races or not.
Conserved == \A u \in Users : balance[u] = posted[u]

ActiveFreezes(u) == {f \in Freezes : Owner[f] = u /\ frz[f] = "active"}

\* wallets.frozen_balance is the sum of the wallet's active freezes, however
\* freezes and releases overlap, as long as nothing has raced.
FreezesCovered ==
  \A u \in Users \ raced : frozen[u] = SumFunctionOnSet(Amount, ActiveFreezes(u))

Charged(o) == ord[o] # "paid" /\ ord'[o] = "paid"

\* The step that charges an order leaves the frozen part of the wallet covered,
\* as long as nothing has raced.
SpendRespectsFreeze ==
  [][\A o \in Orders :
       Charged(o) /\ Owner[o] \notin raced => balance'[Owner[o]] >= frozen'[Owner[o]]]_vars

\* The same for every order, races or not: a charge is paid from the available
\* balance, the balance minus the frozen part.
SpendsAvailableOnly ==
  [][\A o \in Orders : Charged(o) => balance'[Owner[o]] >= frozen'[Owner[o]]]_vars

\* No request waits for a wallet for ever.
RequestsFinish == \A w \in Workers : pc[w] = "loaded" ~> pc[w] = "idle"

\* Every commit is one settlement step, everything else changes no business row.
Settle == INSTANCE Settlement
  WITH pay <- pay, ord <- ord, refunded <- refunded, net <- net, posted <- posted
Settles == Settle!Spec
=============================================================================
