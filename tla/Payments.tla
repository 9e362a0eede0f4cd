------------------------------ MODULE Payments ------------------------------
(***************************************************************************)
(* A deposit's life between the server, its workers and the payment        *)
(* gateways: initiation in three transactions, the callback of ZainCash    *)
(* and the webhook of QiCard, which read the payment in one transaction    *)
(* and confirm it in another, and the cancellation and refund that call    *)
(* the gateway while they hold the row lock.  Notices from a gateway are   *)
(* never consumed: they may arrive late, again, or in any order.  What     *)
(* confirming does to the wallet is in Ledger; here it is one credit.      *)
(***************************************************************************)
EXTENDS Integers

CONSTANTS
  Payments,    \* ids of rows of payments
  QiCard,      \* those whose method is "qicard"; the others are "zaincash"
  Keys, Key,   \* idempotency keys, and the key of each payment
  NoKey,       \* an empty idempotency_key
  Workers, NoPayment

ASSUME QiCardArePayments == QiCard \subseteq Payments /\ NoPayment \notin Payments
ASSUME KeyOfPayment == NoKey \notin Keys /\ Key \in [Payments -> Keys \cup {NoKey}]

VARIABLES
  pay,       \* payments.status
  credit,    \* deposit entries minus refund entries in the wallet's journal
  recorded,  \* payments with a row in payment_provider_transactions
  pc,        \* how far each worker's request has come
  at,        \* the payment it is about
  gw,        \* the gateway's session for the payment
  notices,   \* success notices the gateway has sent, as payments
  paid,      \* history: payments whose money the gateway has taken
  verified   \* history: payments credited by a callback or webhook

server == <<pay, credit, recorded, verified>>
gateway == <<gw, notices, paid>>
request == <<pc, at>>
vars == <<server, gateway, request>>

Steps == {"keyed", "inserted", "initiated", "read", "confirming",
          "cancelling", "cancelled", "refunding", "refunded"}

TypeOK ==
  /\ pay \in [Payments -> {"absent", "pending", "completed", "cancelled", "refunded"}]
  /\ credit \in [Payments -> Int]
  /\ recorded \subseteq Payments /\ verified \subseteq Payments
  /\ pc \in [Workers -> Steps \cup {"idle"}]
  /\ at \in [Workers -> Payments \cup {NoPayment}]
  /\ \A w \in Workers : pc[w] = "idle" <=> at[w] = NoPayment
  /\ gw \in [Payments -> {"none", "created", "captured", "declined", "cancelled", "returned"}]
  /\ notices \subseteq Payments /\ paid \subseteq Payments

Init ==
  /\ pay = [p \in Payments |-> "absent"]
  /\ credit = [p \in Payments |-> 0]
  /\ recorded = {} /\ verified = {}
  /\ pc = [w \in Workers |-> "idle"]
  /\ at = [w \in Workers |-> NoPayment]
  /\ gw = [p \in Payments |-> "none"]
  /\ notices = {} /\ paid = {}

-----------------------------------------------------------------------------
\* Only cancellation and refund keep the row lock over several steps.
RowFree(p) ==
  \A v \in Workers : pc[v] \in {"cancelling", "cancelled", "refunding", "refunded"} => at[v] # p

Begin(w, step, p) ==
  /\ pc[w] = "idle"
  /\ pc' = [pc EXCEPT ![w] = step]
  /\ at' = [at EXCEPT ![w] = p]

Advance(w, from, to) == pc[w] = from /\ pc' = [pc EXCEPT ![w] = to] /\ UNCHANGED at

\* Variant: the session keeps its payment after the request.
FinishKeepingPayment(w) == pc' = [pc EXCEPT ![w] = "idle"] /\ UNCHANGED at

Finish(w) == pc' = [pc EXCEPT ![w] = "idle"] /\ at' = [at EXCEPT ![w] = NoPayment]

\* The reply of a gateway moves the request on, or is lost and ends it.
Reply(w, from, to) ==
  /\ pc[w] = from
  /\ \/ pc' = [pc EXCEPT ![w] = to] /\ UNCHANGED at
     \/ Finish(w)

\* The row is locked, its status compared and replaced in one transaction.
Set(p, from, to) == pay[p] = from /\ pay' = [pay EXCEPT ![p] = to]

\* An exception, an error reply, a timeout or a killed worker: the open
\* transaction is rolled back, what was committed before it stays.
Fail(w) == pc[w] # "idle" /\ Finish(w) /\ UNCHANGED <<server, gateway>>

-----------------------------------------------------------------------------
(* Initiation: initiate_deposit, initiate_zaincash, initiate_qicard        *)

KeyUnused(p) == \A q \in Payments : Key[q] = Key[p] /\ Key[p] # NoKey => pay[q] = "absent"

\* The lookup of the key; the id of the new row is nobody else's.
LookupKey(w, p) ==
  /\ pay[p] = "absent" /\ KeyUnused(p)
  /\ \A v \in Workers : at[v] # p
  /\ Begin(w, "keyed", p)
  /\ UNCHANGED <<server, gateway>>

\* Variant: idempotency_key without its UNIQUE constraint.
InsertPaymentAfterLookup(w) ==
  /\ Advance(w, "keyed", "inserted")
  /\ Set(at[w], "absent", "pending")
  /\ UNCHANGED <<credit, recorded, verified, gateway>>

\* The UNIQUE constraint on idempotency_key decides between two that looked it up.
InsertPayment(w) ==
  /\ Advance(w, "keyed", "inserted")
  /\ KeyUnused(at[w])
  /\ Set(at[w], "absent", "pending")
  /\ UNCHANGED <<credit, recorded, verified, gateway>>

\* The gateway opens a session; its reply may be lost.
InitiatePayment(w) ==
  /\ Reply(w, "inserted", "initiated")
  /\ gw[at[w]] = "none"
  /\ gw' = [gw EXCEPT ![at[w]] = "created"]
  /\ UNCHANGED <<server, notices, paid>>

RecordTransaction(w) ==
  /\ pc[w] = "initiated" /\ Finish(w)
  /\ recorded' = recorded \cup {at[w]}
  /\ UNCHANGED <<pay, credit, verified, gateway>>

-----------------------------------------------------------------------------
(* The gateways                                                            *)

Capture(p) ==
  /\ gw[p] = "created"
  /\ gw' = [gw EXCEPT ![p] = "captured"]
  /\ paid' = paid \cup {p}
  /\ UNCHANGED <<server, notices, request>>

Decline(p) ==
  /\ gw[p] = "created"
  /\ gw' = [gw EXCEPT ![p] = "declined"]
  /\ UNCHANGED <<server, notices, paid, request>>

\* ZainCash signs a success only for money it has taken.  handle_webhook reads
\* success from status SUCCESS or from resultCode 0 of any other status.
Notify(p) ==
  /\ gw[p] # "none" /\ p \notin notices
  /\ p \in QiCard \/ p \in paid
  /\ notices' = notices \cup {p}
  /\ UNCHANGED <<server, gw, paid, request>>

-----------------------------------------------------------------------------
(* Confirmation                                                            *)

\* The transaction of handle_zaincash_callback that reads the payment.
HandleZaincashCallback(w, p) ==
  /\ p \in notices \ QiCard
  /\ RowFree(p) /\ pay[p] = "pending"
  /\ Begin(w, "confirming", p)
  /\ UNCHANGED <<server, gateway>>

\* Variant: the webhook is acknowledged before it has been handled.
AcknowledgeQicardWebhook(w, p) ==
  /\ p \in notices \cap QiCard
  /\ RowFree(p) /\ pay[p] = "pending"
  /\ Begin(w, "read", p)
  /\ notices' = notices \ {p}
  /\ UNCHANGED <<server, gw, paid>>

\* The transaction of handle_qicard_webhook that reads the payment.
HandleQicardWebhook(w, p) ==
  /\ p \in notices \cap QiCard
  /\ RowFree(p) /\ pay[p] = "pending"
  /\ Begin(w, "read", p)
  /\ UNCHANGED <<server, gateway>>

\* Variant: the webhook's word is taken.
TrustNotice(w) == Advance(w, "read", "confirming") /\ UNCHANGED <<server, gateway>>

\* verify_payment asks the gateway, with no transaction open.
VerifyPayment(w) ==
  /\ Advance(w, "read", "confirming")
  /\ gw[at[w]] = "captured"
  /\ UNCHANGED <<server, gateway>>

\* Variant: relies on the status the callback has read before.
ConfirmDepositUnchecked(w) ==
  /\ pc[w] = "confirming" /\ Finish(w)
  /\ RowFree(at[w])
  /\ pay' = [pay EXCEPT ![at[w]] = "completed"]
  /\ credit' = [credit EXCEPT ![at[w]] = @ + 1]
  /\ verified' = verified \cup {at[w]}
  /\ UNCHANGED <<recorded, gateway>>

\* confirm_deposit, called by the callback and the webhook.
ConfirmDeposit(w) ==
  /\ pc[w] = "confirming" /\ Finish(w)
  /\ RowFree(at[w])
  /\ Set(at[w], "pending", "completed")
  /\ credit' = [credit EXCEPT ![at[w]] = @ + 1]
  /\ verified' = verified \cup {at[w]}
  /\ UNCHANGED <<recorded, gateway>>

\* confirm_deposit, called by POST /payments/deposit/confirm.
ConfirmManually(p) ==
  /\ RowFree(p) /\ Set(p, "pending", "completed")
  /\ credit' = [credit EXCEPT ![p] = @ + 1]
  /\ UNCHANGED <<recorded, verified, gateway, request>>

-----------------------------------------------------------------------------
(* Cancellation and refund                                                 *)

CancelQicard(w, p) ==
  /\ p \in QiCard /\ RowFree(p) /\ pay[p] = "pending"
  /\ Begin(w, "cancelling", p)
  /\ UNCHANGED <<server, gateway>>

RefundQicard(w, p) ==
  /\ p \in QiCard /\ RowFree(p) /\ pay[p] = "completed"
  /\ Begin(w, "refunding", p)
  /\ UNCHANGED <<server, gateway>>

\* A cancel request may end a session or give back money, or be answered with
\* canceled = false; a refund may give back money or be answered "failed".
Answers(step, g) ==
  CASE step = "cancelling" /\ g = "created" -> {"created", "cancelled"}
    [] g = "captured" -> {"captured", "returned"}
    [] OTHER -> {g}

\* _cancel_or_refund: the call made under the row lock; its reply may be lost.
CallGateway(w, step, next) ==
  /\ Reply(w, step, next)
  /\ \E g \in Answers(step, gw[at[w]]) : gw' = [gw EXCEPT ![at[w]] = g]
  /\ UNCHANGED <<server, notices, paid>>

\* The status is set whatever "canceled" or "status" the reply carried.
CommitCancel(w) ==
  /\ pc[w] = "cancelled" /\ Finish(w)
  /\ Set(at[w], "pending", "cancelled")
  /\ UNCHANGED <<credit, recorded, verified, gateway>>

CommitRefund(w) ==
  /\ pc[w] = "refunded" /\ Finish(w)
  /\ Set(at[w], "completed", "refunded")
  /\ UNCHANGED <<credit, recorded, verified, gateway>>

ManualRefundPayment(p) ==
  /\ RowFree(p) /\ Set(p, "completed", "refunded")
  /\ credit' = [credit EXCEPT ![p] = @ - 1]
  /\ UNCHANGED <<recorded, verified, gateway, request>>

-----------------------------------------------------------------------------
Proceed(w) ==
  \/ InsertPayment(w) \/ InitiatePayment(w) \/ RecordTransaction(w)
  \/ VerifyPayment(w) \/ ConfirmDeposit(w)
  \/ CallGateway(w, "cancelling", "cancelled") \/ CommitCancel(w)
  \/ CallGateway(w, "refunding", "refunded") \/ CommitRefund(w)

Receive(w, p) == HandleZaincashCallback(w, p) \/ HandleQicardWebhook(w, p)

Next ==
  \/ \E w \in Workers : Proceed(w) \/ Fail(w)
  \/ \E w \in Workers, p \in Payments :
       LookupKey(w, p) \/ Receive(w, p) \/ CancelQicard(w, p) \/ RefundQicard(w, p)
  \/ \E p \in Payments :
       Capture(p) \/ Decline(p) \/ Notify(p) \/ ConfirmManually(p) \/ ManualRefundPayment(p)

Spec == Init /\ [][Next]_vars

\* A worker never keeps a request for ever.  A gateway repeats a notice until it
\* is answered with success, and not every attempt to handle it fails.
Fairness ==
  /\ \A w \in Workers : WF_vars(Proceed(w) \/ Fail(w))
  /\ \A p \in Payments :
       /\ SF_vars(\E w \in Workers : Receive(w, p))
       /\ SF_vars(\E w \in Workers : at[w] = p /\ VerifyPayment(w))
       /\ SF_vars(\E w \in Workers : at[w] = p /\ ConfirmDeposit(w))

FairSpec == Spec /\ Fairness

-----------------------------------------------------------------------------
(* Properties                                                              *)

\* However notices are repeated and overtaken by cancellations and refunds, a
\* payment is credited once if it completed and never otherwise; a refund through
\* the card gateway leaves the credit in place.
CreditedOnce ==
  \A p \in Payments :
    /\ pay[p] \in {"absent", "pending", "cancelled"} => credit[p] = 0
    /\ pay[p] = "completed" => credit[p] = 1
    /\ pay[p] = "refunded" => credit[p] \in {0, 1}

\* A credit made by a callback or a webhook is for money the gateway has taken,
\* also when the notice came too early.
VerifiedWasPaid == verified \subseteq paid

\* An idempotency key opens at most one session at the gateway.
OneSessionPerKey ==
  \A p, q \in Payments :
    p # q /\ Key[p] = Key[q] /\ Key[p] # NoKey => gw[p] = "none" \/ gw[q] = "none"

\* A worker that read the payment as pending cannot credit it once it has been
\* cancelled or refunded.
ClosedStaysClosed ==
  [][\A p \in Payments :
       pay[p] \in {"cancelled", "refunded"} => UNCHANGED <<pay[p], credit[p]>>]_vars

\* A payment the gateway has taken the money for and keeps notifying is settled,
\* unless requests to cancel it keep taking its row lock for ever.
PaidIsSettled ==
  \A p \in Payments :
    <>[]RowFree(p) =>
      ((p \in notices /\ gw[p] = "captured") ~> (pay[p] # "pending" \/ gw[p] # "captured"))

\* A payment recorded as cancelled has been cancelled at the gateway.
CancelledAtGateway == \A p \in Payments : pay[p] = "cancelled" => gw[p] # "captured"

\* A refunded deposit has been taken out of the wallet again.
RefundTakesCreditBack == \A p \in Payments : pay[p] = "refunded" => credit[p] = 0

\* Every step is a step of the abstract settlement, in which a payment is credited
\* and withdrawn at once with its status: the promise that Ledger keeps with wallets
\* is kept here against the gateways.
Settle == INSTANCE Settlement WITH
  Users <- Payments, Owner <- [p \in Payments |-> p], Amount <- [p \in Payments |-> 1],
  Orders <- {}, Adjustments <- {}, ord <- <<>>, refunded <- <<>>,
  net <- credit, posted <- credit
Settles == Settle!Spec
=============================================================================
