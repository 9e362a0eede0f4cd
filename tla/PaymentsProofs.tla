--------------------------- MODULE PaymentsProofs ---------------------------
(***************************************************************************)
(* Proofs about Payments, for any number of payments, keys and workers.    *)
(***************************************************************************)
EXTENDS Payments, TLAPS

\* What a request has behind it when it has come to a given step.
StepsFollow ==
  \A w \in Workers :
    /\ pc[w] \notin {"idle", "keyed"} => pay[at[w]] # "absent"
    /\ pc[w] = "confirming" => at[w] \in paid

\* A gateway session belongs to an inserted row, and a key to one inserted row.
SessionsHaveRows == \A p \in Payments : gw[p] # "none" => pay[p] # "absent"

KeysUnique ==
  \A p, q \in Payments :
    p # q /\ Key[p] = Key[q] /\ Key[p] # NoKey => pay[p] = "absent" \/ pay[q] = "absent"

CapturedIsPaid == \A p \in Payments : gw[p] = "captured" => p \in paid

\* A gateway without webhook verification only announces money it has.
SignedIsPaid == notices \ QiCard \subseteq paid

IInv ==
  /\ TypeOK /\ StepsFollow /\ SessionsHaveRows /\ KeysUnique /\ CapturedIsPaid
  /\ SignedIsPaid /\ CreditedOnce /\ VerifiedWasPaid

LEMMA InitInv == Init => IInv
BY DEF Init, IInv, TypeOK, Steps, StepsFollow, SessionsHaveRows, KeysUnique, CapturedIsPaid,
       SignedIsPaid, CreditedOnce, VerifiedWasPaid

LEMMA InvStep ==
  ASSUME IInv, [Next]_vars
  PROVE  IInv'
<1> USE QiCardArePayments, KeyOfPayment
    DEF IInv, TypeOK, Steps, StepsFollow, SessionsHaveRows, KeysUnique, CapturedIsPaid,
        SignedIsPaid, CreditedOnce, VerifiedWasPaid, server, gateway, request, Finish
<1>1. ASSUME NEW w \in Workers, InsertPayment(w) PROVE IInv'
  BY <1>1 DEF InsertPayment, Advance, KeyUnused, Set
<1>2. ASSUME NEW w \in Workers, InitiatePayment(w) PROVE IInv'
  BY <1>2 DEF InitiatePayment, Reply
<1>3. ASSUME NEW w \in Workers, RecordTransaction(w) PROVE IInv'
  BY <1>3 DEF RecordTransaction
<1>4. ASSUME NEW w \in Workers, VerifyPayment(w) PROVE IInv'
  BY <1>4 DEF VerifyPayment, Advance
<1>5. ASSUME NEW w \in Workers, ConfirmDeposit(w) PROVE IInv'
  BY <1>5 DEF ConfirmDeposit, Set
<1>6. ASSUME NEW w \in Workers, NEW from \in {"cancelling", "refunding"},
             NEW to \in {"cancelled", "refunded"}, CallGateway(w, from, to)
      PROVE  IInv'
  BY <1>6 DEF CallGateway, Reply, Answers
<1>7. ASSUME NEW w \in Workers, CommitCancel(w) \/ CommitRefund(w) PROVE IInv'
  BY <1>7 DEF CommitCancel, CommitRefund, Set
<1>8. ASSUME NEW w \in Workers, Fail(w) PROVE IInv'
  BY <1>8 DEF Fail
<1>9. ASSUME NEW w \in Workers, NEW p \in Payments,
             LookupKey(w, p) \/ CancelQicard(w, p) \/ RefundQicard(w, p)
      PROVE  IInv'
  BY <1>9 DEF LookupKey, CancelQicard, RefundQicard, Begin
<1>10. ASSUME NEW w \in Workers, NEW p \in Payments, Receive(w, p) PROVE IInv'
  BY <1>10 DEF Receive, HandleZaincashCallback, HandleQicardWebhook, Begin
<1>11. ASSUME NEW p \in Payments, Capture(p) \/ Decline(p) PROVE IInv'
  BY <1>11 DEF Capture, Decline
<1>12. ASSUME NEW p \in Payments, Notify(p) PROVE IInv'
  BY <1>12 DEF Notify
<1>13. ASSUME NEW p \in Payments, ConfirmManually(p) \/ ManualRefundPayment(p) PROVE IInv'
  BY <1>13 DEF ConfirmManually, ManualRefundPayment, Set
<1>14. CASE UNCHANGED vars
  BY <1>14 DEF vars
<1> QED
  BY <1>1, <1>2, <1>3, <1>4, <1>5, <1>6, <1>7, <1>8, <1>9, <1>10, <1>11, <1>12, <1>13, <1>14
     DEF Next, Proceed

\* Every variable of the payment flow stays in its set.
THEOREM PaymentsType == Spec => []TypeOK
<1>1. IInv => TypeOK
  BY DEF IInv
<1> QED BY <1>1, InitInv, InvStep, PTL DEF Spec

\* Repeated, early and overtaken notices credit a payment once at most.
THEOREM PaymentsCreditedOnce == Spec => []CreditedOnce
<1>1. IInv => CreditedOnce
  BY DEF IInv
<1> QED BY <1>1, InitInv, InvStep, PTL DEF Spec

\* No callback and no webhook credits money the gateway never took.
THEOREM PaymentsVerified == Spec => []VerifiedWasPaid
<1>1. IInv => VerifiedWasPaid
  BY DEF IInv
<1> QED BY <1>1, InitInv, InvStep, PTL DEF Spec

\* A key opens one gateway session, whoever looks it up at the same time.
THEOREM PaymentsOneSession == Spec => []OneSessionPerKey
<1>1. IInv => OneSessionPerKey
  BY DEF IInv, SessionsHaveRows, KeysUnique, OneSessionPerKey
<1> QED BY <1>1, InitInv, InvStep, PTL DEF Spec

ClosedStep ==
  \A p \in Payments :
    pay[p] \in {"cancelled", "refunded"} => UNCHANGED <<pay[p], credit[p]>>

LEMMA ClosedKept ==
  ASSUME IInv, [Next]_vars
  PROVE  ClosedStep
<1> USE DEF IInv, TypeOK, ClosedStep, server, Set
<1>1. ASSUME NEW w \in Workers,
             InsertPayment(w) \/ ConfirmDeposit(w) \/ CommitCancel(w) \/ CommitRefund(w)
      PROVE  ClosedStep
  BY <1>1 DEF InsertPayment, ConfirmDeposit, CommitCancel, CommitRefund
<1>2. ASSUME NEW p \in Payments, ConfirmManually(p) \/ ManualRefundPayment(p) PROVE ClosedStep
  BY <1>2 DEF ConfirmManually, ManualRefundPayment
<1>3. ASSUME UNCHANGED <<pay, credit>> PROVE ClosedStep
  BY <1>3
<1>4. ASSUME NEW w \in Workers,
             \/ InitiatePayment(w) \/ RecordTransaction(w) \/ VerifyPayment(w) \/ Fail(w)
             \/ CallGateway(w, "cancelling", "cancelled") \/ CallGateway(w, "refunding", "refunded")
      PROVE  UNCHANGED <<pay, credit>>
  BY <1>4 DEF InitiatePayment, RecordTransaction, VerifyPayment, Fail, CallGateway
<1>5. ASSUME NEW w \in Workers, NEW p \in Payments,
             LookupKey(w, p) \/ Receive(w, p) \/ CancelQicard(w, p) \/ RefundQicard(w, p)
      PROVE  UNCHANGED <<pay, credit>>
  BY <1>5 DEF LookupKey, Receive, HandleZaincashCallback, HandleQicardWebhook, CancelQicard,
              RefundQicard
<1>6. ASSUME NEW p \in Payments, Capture(p) \/ Decline(p) \/ Notify(p)
      PROVE  UNCHANGED <<pay, credit>>
  BY <1>6 DEF Capture, Decline, Notify
<1>7. CASE UNCHANGED vars
  BY <1>3, <1>7 DEF vars
<1> QED BY <1>1, <1>2, <1>3, <1>4, <1>5, <1>6, <1>7 DEF Next, Proceed

\* A cancelled or refunded payment is never credited, completed or reopened.
THEOREM PaymentsClosed == Spec => ClosedStaysClosed
<1>1. IInv /\ [Next]_vars => [ClosedStep]_vars
  BY ClosedKept
<1>2. [ClosedStep]_vars <=>
        [\A p \in Payments :
           pay[p] \in {"cancelled", "refunded"} => UNCHANGED <<pay[p], credit[p]>>]_vars
  BY DEF ClosedStep
<1> QED BY <1>1, <1>2, InitInv, InvStep, PTL DEF Spec, ClosedStaysClosed

-----------------------------------------------------------------------------
(* Payments implements Settlement                                          *)

\* A step of the server's payments, or none.
LEMMA SettleStep ==
  ASSUME TypeOK, [Next]_vars
  PROVE  [Settle!Next]_(Settle!settlementVars)
<1> DEFINE Same == UNCHANGED <<pay, credit>>
<1>1. Same => [Settle!Next]_(Settle!settlementVars)
  BY DEF Settle!settlementVars
<1>2. ASSUME NEW p \in Payments,
             \/ Settle!Open(p) \/ Settle!Void(p) \/ Settle!Return(p)
             \/ Settle!Credit(p) \/ Settle!Withdraw(p)
      PROVE  Settle!Next
  BY <1>2 DEF Settle!Next
<1> USE DEF TypeOK, Steps, Set, Settle!Payment, Settle!Enter
<1>3. ASSUME NEW w \in Workers, InsertPayment(w) PROVE at[w] \in Payments /\ Settle!Open(at[w])
  BY <1>3 DEF InsertPayment, Advance, Settle!Open
<1>4. ASSUME NEW w \in Workers, ConfirmDeposit(w) PROVE at[w] \in Payments /\ Settle!Credit(at[w])
  BY <1>4 DEF ConfirmDeposit, Settle!Credit
<1>5. ASSUME NEW w \in Workers, CommitCancel(w) PROVE at[w] \in Payments /\ Settle!Void(at[w])
  BY <1>5 DEF CommitCancel, Settle!Void
<1>6. ASSUME NEW w \in Workers, CommitRefund(w) PROVE at[w] \in Payments /\ Settle!Return(at[w])
  BY <1>6 DEF CommitRefund, Settle!Return
<1>7. ASSUME NEW p \in Payments, ConfirmManually(p) PROVE Settle!Credit(p)
  BY <1>7 DEF ConfirmManually, Settle!Credit
<1>8. ASSUME NEW p \in Payments, ManualRefundPayment(p) PROVE Settle!Withdraw(p)
  BY <1>8 DEF ManualRefundPayment, Settle!Withdraw
<1>9. ASSUME NEW w \in Workers,
             \/ InitiatePayment(w) \/ RecordTransaction(w) \/ VerifyPayment(w) \/ Fail(w)
             \/ CallGateway(w, "cancelling", "cancelled") \/ CallGateway(w, "refunding", "refunded")
      PROVE  Same
  BY <1>9 DEF InitiatePayment, RecordTransaction, VerifyPayment, Fail, CallGateway, server
<1>10. ASSUME NEW w \in Workers, NEW p \in Payments,
              LookupKey(w, p) \/ Receive(w, p) \/ CancelQicard(w, p) \/ RefundQicard(w, p)
       PROVE  Same
  BY <1>10 DEF LookupKey, Receive, HandleZaincashCallback, HandleQicardWebhook, CancelQicard,
               RefundQicard, server
<1>11. ASSUME NEW p \in Payments, Capture(p) \/ Decline(p) \/ Notify(p) PROVE Same
  BY <1>11 DEF Capture, Decline, Notify, server
<1>12. CASE UNCHANGED vars
  BY <1>1, <1>12 DEF vars, server
<1> HIDE DEF Same
<1> QED BY <1>1, <1>2, <1>3, <1>4, <1>5, <1>6, <1>7, <1>8, <1>9, <1>10, <1>11, <1>12
        DEF Next, Proceed

\* Initiation, notices, verification, cancellation and refund in their separate
\* transactions, with calls to a gateway between them, implement atomic settlement.
THEOREM PaymentsSettle == Spec => Settles
<1>1. Init => IInv /\ Settle!Init
  BY InitInv DEF Init, Settle!Init
<1>2. IInv /\ [Next]_vars => IInv'
  BY InvStep
<1>3. IInv /\ [Next]_vars => [Settle!Next]_(Settle!settlementVars)
  BY SettleStep DEF IInv
<1> QED BY <1>1, <1>2, <1>3, PTL DEF Spec, Settles, Settle!Spec
=============================================================================
