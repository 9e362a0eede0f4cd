---------------------------- MODULE LedgerProofs ----------------------------
(***************************************************************************)
(* Proofs about Ledger, for any number of users, rows and workers.  The    *)
(* inductive invariant says what a transaction may rely on between its     *)
(* steps: that the row it locked keeps the status it was read with, that   *)
(* nobody else holds the same row or wallet, and that its copy of the      *)
(* wallet is the wallet unless a race has been recorded.                   *)
(***************************************************************************)
EXTENDS Ledger, FiniteSetTheorems, WellFoundedInduction, TLAPS

Busy(w) == pc[w] \in {"loaded", "locked"}

\* What the handler checked when it locked its row still holds.
PaymentJob(w) ==
  /\ job[w].row \in Payments /\ job[w].amount = Amount[job[w].row]
  /\ job[w].kind = "confirm_deposit" => pay[job[w].row] = "pending"
  /\ job[w].kind = "manual_refund_payment" => pay[job[w].row] = "completed"

OrderJob(w) ==
  /\ job[w].row \in Orders /\ job[w].amount = Amount[job[w].row]
  /\ ord[job[w].row] \in {"absent", "pending_approval"}

RefundJob(w) ==
  /\ job[w].row \in Orders /\ ord[job[w].row] = "paid"
  /\ job[w].amount > 0 /\ job[w].amount <= Amount[job[w].row] - refunded[job[w].row]

FreezeJob(w) ==
  /\ job[w].row \in Freezes /\ job[w].amount = Amount[job[w].row]
  /\ job[w].kind = "freeze_balance" => frz[job[w].row] = "absent"
  /\ job[w].kind = "release_freeze" => frz[job[w].row] = "active"

JobOK(w) ==
  /\ job[w].row \in Rows => job[w].user = Owner[job[w].row]
  /\ Busy(w) =>
       /\ job[w].kind # "cancel_order"
       /\ job[w].kind \in {"confirm_deposit", "manual_refund_payment"} => PaymentJob(w)
       /\ job[w].kind \in {"create_order", "approve_order"} => OrderJob(w)
       /\ job[w].kind = "create_refund" => RefundJob(w)
       /\ job[w].kind \in {"freeze_balance", "release_freeze"} => FreezeJob(w)
       /\ job[w].kind = "manual_adjust_wallet" => job[w].amount \in Adjustments
  /\ pc[w] = "checked" => job[w].row \in Orders /\ ord[job[w].row] # "absent"

JobsOK == \A w \in Workers : pc[w] # "idle" => JobOK(w)

RowMutex ==
  \A v, w \in Workers :
    v # w /\ Busy(v) /\ Busy(w) => job[v].row # job[w].row \/ job[v].row = NoRow

WalletMutex ==
  \A v, w \in Workers :
    v # w /\ pc[v] = "locked" /\ pc[w] = "locked" => job[v].user # job[w].user

CopiesFresh ==
  \A w \in Workers :
    Busy(w) /\ job[w].user \notin raced =>
      /\ copy[w].balance = balance[job[w].user]
      /\ copy[w].frozen = frozen[job[w].user]

Unrefunded ==
  \A o \in Orders : ord[o] \in {"absent", "pending_approval"} => refunded[o] = 0

LockInv == TypeOK /\ JobsOK /\ RowMutex

IInv ==
  /\ LockInv /\ WalletMutex /\ CopiesFresh /\ ConservedUnlessRaced
  /\ PaymentSettledOnce /\ RefundWithinCharge /\ Unrefunded

-----------------------------------------------------------------------------
(* Types                                                                   *)

\* A worker that begins a request leaves every variable in its set.
LEMMA BeginType ==
  ASSUME TypeOK, NEW w \in Workers, NEW s \in {"loaded", "locked", "checked"},
         NEW k \in Kinds, NEW x \in Rows \cup {NoRow}, NEW u \in Users, NEW a \in Nat,
         Begin(w, s, k, x, u, a)
  PROVE  TypeOK'
BY DEF TypeOK, Begin, wallets, journal, rows, Jobs, Copies

\* The request a Request action starts.
LEMMA RequestBegins ==
  ASSUME NEW w \in Workers, Request(w)
  PROVE  \E s \in {"loaded", "locked", "checked"}, k \in Kinds, x \in Rows \cup {NoRow},
            u \in Users, a \in Nat : Begin(w, s, k, x, u, a)
<1> USE OwnerIsUser, AmountIsPositive, AdjustmentIsPositive
    DEF Rows, Kinds, EagerLoad, LockFirst
<1>1. ASSUME NEW p \in Payments, ConfirmDeposit(w, p) \/ ManualRefundPayment(w, p)
      PROVE  \E k \in Kinds : Begin(w, "loaded", k, p, Owner[p], Amount[p])
  BY <1>1 DEF ConfirmDeposit, ManualRefundPayment
<1>2. ASSUME NEW o \in Orders, CreateOrder(w, o) \/ ApproveOrder(w, o) \/ CancelOrder(w, o)
      PROVE  \E k \in Kinds, s \in {"loaded", "checked"} :
                Begin(w, s, k, o, Owner[o], Amount[o])
  BY <1>2 DEF CreateOrder, ApproveOrder, CancelOrder
<1>3. ASSUME NEW o \in Orders, NEW a \in 1..Amount[o], CreateRefund(w, o, a)
      PROVE  Begin(w, "loaded", "create_refund", o, Owner[o], a)
  BY <1>3 DEF CreateRefund
<1>4. ASSUME NEW f \in Freezes, FreezeBalance(w, f) \/ ReleaseFreeze(w, f)
      PROVE  \E k \in Kinds, s \in {"loaded", "locked"} :
                Begin(w, s, k, f, Owner[f], Amount[f])
  BY <1>4 DEF FreezeBalance, ReleaseFreeze
<1>5. ASSUME NEW u \in Users, NEW a \in Adjustments, AdjustWallet(w, u, a)
      PROVE  Begin(w, "locked", "manual_adjust_wallet", NoRow, u, a)
  BY <1>5 DEF AdjustWallet
<1>6. \A x \in Rows : Owner[x] \in Users /\ Amount[x] \in Nat
  OBVIOUS
<1>7. \A o \in Orders : \A a \in 1..Amount[o] : a \in Nat
  OBVIOUS
<1>8. Adjustments \subseteq Nat
  OBVIOUS
<1>9. CASE \E p \in Payments : ConfirmDeposit(w, p) \/ ManualRefundPayment(w, p)
  BY <1>1, <1>6, <1>9
<1>10. CASE \E o \in Orders : CreateOrder(w, o) \/ ApproveOrder(w, o) \/ CancelOrder(w, o)
  BY <1>2, <1>6, <1>10
<1>11. CASE \E o \in Orders : \E a \in 1..Amount[o] : CreateRefund(w, o, a)
  BY <1>3, <1>6, <1>7, <1>11
<1>12. CASE \E f \in Freezes : FreezeBalance(w, f) \/ ReleaseFreeze(w, f)
  BY <1>4, <1>6, <1>12
<1>13. CASE \E u \in Users, a \in Adjustments : AdjustWallet(w, u, a)
  BY <1>5, <1>8, <1>13
<1> QED BY <1>9, <1>10, <1>11, <1>12, <1>13 DEF Request

\* Every commit leaves every variable in its set.
LEMMA CommitType ==
  ASSUME LockInv, NEW w \in Workers, Commit(w)
  PROVE  TypeOK'
<1> USE OwnerIsUser, AmountIsPositive, AdjustmentIsPositive
    DEF Rows, Jobs, Copies, NoCopy, LockInv, TypeOK, Serving, End, Race
<1>1. pc[w] # "idle" /\ job[w] \in Jobs /\ JobOK(w)
  BY DEF Commit, JobsOK, CommitDeposit, CommitManualRefund, CommitOrder, CommitRefund,
         CloseOrder, CommitFreeze, CommitRelease, CommitAdjust
<1>2. CASE CommitDeposit(w)
  BY <1>1, <1>2 DEF CommitDeposit, JobOK, Busy, PaymentJob, Enter, WriteBalance
<1>3. CASE CommitManualRefund(w)
  BY <1>1, <1>3 DEF CommitManualRefund, JobOK, Busy, PaymentJob, Enter, WriteBalance
<1>4. CASE CommitOrder(w)
  BY <1>1, <1>4 DEF CommitOrder, JobOK, Busy, OrderJob, Enter, WriteBalance
<1>5. CASE CommitRefund(w)
  BY <1>1, <1>5 DEF CommitRefund, JobOK, Busy, RefundJob, Enter, WriteBalance
<1>6. CASE CloseOrder(w)
  BY <1>1, <1>6 DEF CloseOrder, JobOK, wallets, journal
<1>7. CASE CommitFreeze(w)
  BY <1>1, <1>7 DEF CommitFreeze, JobOK, Busy, FreezeJob, WriteFrozen, journal
<1>8. CASE CommitRelease(w)
  BY <1>1, <1>8 DEF CommitRelease, JobOK, Busy, FreezeJob, WriteFrozen, journal
<1>9. CASE CommitAdjust(w)
  BY <1>1, <1>9 DEF CommitAdjust, WriteBalance, rows
<1> QED BY <1>2, <1>3, <1>4, <1>5, <1>6, <1>7, <1>8, <1>9 DEF Commit

LEMMA TypeStep ==
  ASSUME LockInv, [Next]_vars
  PROVE  TypeOK'
<1> USE DEF LockInv
<1>1. ASSUME NEW w \in Workers, Request(w) PROVE TypeOK'
  BY <1>1, RequestBegins, BeginType
<1>2. ASSUME NEW w \in Workers, LockWallet(w) PROVE TypeOK'
  BY <1>2 DEF TypeOK, LockWallet, wallets, journal, rows
<1>3. ASSUME NEW w \in Workers, Commit(w) PROVE TypeOK'
  BY <1>3, CommitType
<1>4. ASSUME NEW w \in Workers, Rollback(w) PROVE TypeOK'
  BY <1>4 DEF TypeOK, Rollback, End, NoCopy, Copies, wallets, journal, rows
<1>5. ASSUME NEW p \in Payments, InitiateDeposit(p) \/ CancelQicard(p) \/ RefundQicard(p)
      PROVE  TypeOK'
  BY <1>5 DEF TypeOK, InitiateDeposit, CancelQicard, RefundQicard, wallets, journal, session
<1>6. ASSUME NEW o \in Orders, PlaceOrder(o) PROVE TypeOK'
  BY <1>6 DEF TypeOK, PlaceOrder, wallets, journal, session
<1>7. CASE UNCHANGED vars
  BY <1>7 DEF TypeOK, vars, wallets, journal, rows, session
<1> QED BY <1>1, <1>2, <1>3, <1>4, <1>5, <1>6, <1>7 DEF Next

-----------------------------------------------------------------------------
(* Row locks                                                               *)

\* A job stays valid when its row does.
LEMMA JobKept ==
  ASSUME NEW v \in Workers, JobOK(v), pc'[v] = pc[v], job'[v] = job[v],
         job[v].row \in Payments => pay'[job[v].row] = pay[job[v].row],
         job[v].row \in Orders /\ Busy(v) =>
           ord'[job[v].row] = ord[job[v].row] /\ refunded'[job[v].row] = refunded[job[v].row],
         job[v].row \in Orders /\ pc[v] = "checked" => ord'[job[v].row] # "absent",
         job[v].row \in Freezes /\ Busy(v) => frz'[job[v].row] = frz[job[v].row]
  PROVE  JobOK(v)'
BY DEF JobOK, Busy, PaymentJob, OrderJob, RefundJob, FreezeJob

\* What a request brings about: a valid job on a row that was free, and nothing else.
Begun(w) ==
  /\ JobOK(w)' /\ pc'[w] # "idle"
  /\ Busy(w)' => job'[w].row = NoRow \/ RowFree(job'[w].row)
  /\ pc[w] = "idle" /\ UNCHANGED <<wallets, journal, rows, raced>>
  /\ \A v \in Workers \ {w} : pc'[v] = pc[v] /\ job'[v] = job[v] /\ copy'[v] = copy[v]
  /\ copy'[w] = [balance |-> balance[job'[w].user], frozen |-> frozen[job'[w].user]]
  /\ pc'[w] = "locked" => WalletFree(job'[w].user)

LEMMA RequestJob ==
  ASSUME LockInv, NEW w \in Workers, Request(w)
  PROVE  Begun(w)
<1> USE RowsAreDistinct, OwnerIsUser, AmountIsPositive
    DEF Begun, LockInv, TypeOK, Begin, EagerLoad, LockFirst, JobOK, Busy, PaymentJob, OrderJob,
        RefundJob, FreezeJob, Rows, rows
<1>1. ASSUME NEW p \in Payments, ConfirmDeposit(w, p) PROVE Begun(w)
  BY <1>1 DEF ConfirmDeposit
<1>2. ASSUME NEW p \in Payments, ManualRefundPayment(w, p) PROVE Begun(w)
  BY <1>2 DEF ManualRefundPayment
<1>3. ASSUME NEW o \in Orders, CreateOrder(w, o) PROVE Begun(w)
  BY <1>3 DEF CreateOrder
<1>4. ASSUME NEW o \in Orders, ApproveOrder(w, o) PROVE Begun(w)
  BY <1>4 DEF ApproveOrder
<1>5. ASSUME NEW o \in Orders, CancelOrder(w, o) PROVE Begun(w)
  BY <1>5 DEF CancelOrder
<1>6. ASSUME NEW o \in Orders, NEW a \in 1..Amount[o], CreateRefund(w, o, a) PROVE Begun(w)
  BY <1>6 DEF CreateRefund
<1>7. ASSUME NEW f \in Freezes, FreezeBalance(w, f) PROVE Begun(w)
  BY <1>7 DEF FreezeBalance
<1>8. ASSUME NEW f \in Freezes, ReleaseFreeze(w, f) PROVE Begun(w)
  BY <1>8 DEF ReleaseFreeze
<1>9. ASSUME NEW u \in Users, NEW a \in Adjustments, AdjustWallet(w, u, a) PROVE Begun(w)
  BY <1>9 DEF AdjustWallet
<1> QED BY <1>1, <1>2, <1>3, <1>4, <1>5, <1>6, <1>7, <1>8, <1>9 DEF Request

\* What a commit leaves alone: the other sessions, and every row but its own.
Others(w) ==
  /\ pc[w] # "idle" /\ pc'[w] = "idle"
  /\ \A v \in Workers \ {w} : pc'[v] = pc[v] /\ job'[v] = job[v] /\ copy'[v] = copy[v]
  /\ \A p \in Payments : p # job[w].row => pay'[p] = pay[p]
  /\ \A o \in Orders : o # job[w].row => ord'[o] = ord[o] /\ refunded'[o] = refunded[o]
  /\ \A o \in Orders : ord[o] # "absent" => ord'[o] # "absent"
  /\ \A f \in Freezes : f # job[w].row \/ ~Busy(w) => frz'[f] = frz[f]
  /\ job[w].row \in Orders => Busy(w) \/ RowFree(job[w].row)

LEMMA CommitOthers ==
  ASSUME LockInv, NEW w \in Workers, Commit(w)
  PROVE  Others(w)
<1> USE DEF Others, LockInv, TypeOK, End, Serving, Busy
<1>1. CASE CommitDeposit(w)
  BY <1>1 DEF CommitDeposit, WriteBalance
<1>2. CASE CommitManualRefund(w)
  BY <1>2 DEF CommitManualRefund, WriteBalance
<1>3. CASE CommitOrder(w)
  BY <1>3 DEF CommitOrder, WriteBalance
<1>4. CASE CommitRefund(w)
  BY <1>4 DEF CommitRefund, WriteBalance
<1>5. CASE CloseOrder(w)
  BY <1>5 DEF CloseOrder
<1>6. CASE CommitFreeze(w)
  BY <1>6 DEF CommitFreeze, WriteFrozen
<1>7. CASE CommitRelease(w)
  BY <1>7 DEF CommitRelease, WriteFrozen
<1>8. CASE CommitAdjust(w)
  BY <1>8 DEF CommitAdjust, WriteBalance, rows
<1> QED BY <1>1, <1>2, <1>3, <1>4, <1>5, <1>6, <1>7, <1>8 DEF Commit

LEMMA CommitLocks ==
  ASSUME LockInv, NEW w \in Workers, Others(w)
  PROVE  JobsOK' /\ RowMutex'
<1>1. ASSUME NEW v \in Workers, pc'[v] # "idle" PROVE JobOK(v)'
  <2>1. v # w /\ pc[v] # "idle" /\ pc'[v] = pc[v] /\ job'[v] = job[v] /\ JobOK(v)
    BY <1>1 DEF Others, LockInv, JobsOK
  <2>2. job[v].row \in Payments => pay'[job[v].row] = pay[job[v].row]
    <3>1. CASE Busy(v) /\ Busy(w)
      BY <2>1, <3>1, RowsAreDistinct DEF Others, LockInv, RowMutex, Rows
    <3>2. CASE ~Busy(v)
      BY <2>1, <3>2, RowsAreDistinct DEF LockInv, TypeOK, Busy, JobOK, Rows
    <3>3. CASE ~Busy(w)
      BY <3>3, RowsAreDistinct DEF Others, LockInv, TypeOK, JobsOK, Busy, JobOK, Rows
    <3> QED BY <3>1, <3>2, <3>3
  <2>3. job[v].row \in Orders /\ Busy(v) =>
          ord'[job[v].row] = ord[job[v].row] /\ refunded'[job[v].row] = refunded[job[v].row]
    <3>1. SUFFICES ASSUME job[v].row \in Orders, Busy(v) PROVE job[v].row # job[w].row
      BY DEF Others
    <3>2. CASE Busy(w)
      BY <2>1, <3>1, <3>2, RowsAreDistinct DEF LockInv, RowMutex, Rows
    <3>3. CASE ~Busy(w)
      BY <2>1, <3>1, <3>3 DEF Others, RowFree, Busy
    <3> QED BY <3>2, <3>3
  <2>4. job[v].row \in Orders /\ pc[v] = "checked" => ord'[job[v].row] # "absent"
    BY <2>1 DEF JobOK, Others
  <2>5. job[v].row \in Freezes /\ Busy(v) => frz'[job[v].row] = frz[job[v].row]
    BY <2>1, RowsAreDistinct DEF Others, LockInv, RowMutex, Rows
  <2> QED BY <2>1, <2>2, <2>3, <2>4, <2>5, JobKept
<1>2. RowMutex'
  BY DEF Others, LockInv, RowMutex, Busy
<1> QED BY <1>1, <1>2 DEF JobsOK

LEMMA LockStep ==
  ASSUME LockInv, [Next]_vars
  PROVE  LockInv'
<1> USE DEF LockInv
<1>1. TypeOK'
  BY TypeStep
<1>2. ASSUME NEW w \in Workers, Request(w) PROVE JobsOK' /\ RowMutex'
  <2>1. Begun(w)
    BY <1>2, RequestJob
  <2>2. ASSUME NEW v \in Workers, pc'[v] # "idle" PROVE JobOK(v)'
    <3>1. CASE v = w
      BY <2>1, <3>1 DEF Begun
    <3>2. CASE v # w
      BY <2>1, <2>2, <3>2, JobKept DEF Begun, JobsOK, JobOK, rows
    <3> QED BY <3>1, <3>2
  <2>3. RowMutex'
    BY <2>1 DEF Begun, RowMutex, RowFree, Busy
  <2> QED BY <2>2, <2>3 DEF JobsOK
<1>3. ASSUME NEW w \in Workers, LockWallet(w) PROVE JobsOK' /\ RowMutex'
  BY <1>3 DEF LockWallet, JobsOK, JobOK, RowMutex, Busy, PaymentJob, OrderJob, RefundJob,
              FreezeJob, TypeOK, rows
<1>4. ASSUME NEW w \in Workers, Commit(w) PROVE JobsOK' /\ RowMutex'
  BY <1>4, CommitOthers, CommitLocks
<1>5. ASSUME NEW w \in Workers, Rollback(w) PROVE JobsOK' /\ RowMutex'
  BY <1>5 DEF Rollback, End, JobsOK, JobOK, RowMutex, Busy, PaymentJob, OrderJob, RefundJob,
              FreezeJob, TypeOK, rows
<1>6. ASSUME NEW p \in Payments, InitiateDeposit(p) PROVE JobsOK' /\ RowMutex'
  BY <1>6, RowsAreDistinct
     DEF InitiateDeposit, JobsOK, JobOK, RowMutex, Busy, PaymentJob, OrderJob, RefundJob,
         FreezeJob, TypeOK, session, Kinds, Jobs
<1>7. ASSUME NEW p \in Payments, CancelQicard(p) \/ RefundQicard(p)
      PROVE  JobsOK' /\ RowMutex'
  <2>1. /\ RowFree(p) /\ UNCHANGED <<ord, refunded, frz, pc, job>>
        /\ \A q \in Payments : q # p => pay'[q] = pay[q]
    BY <1>7 DEF CancelQicard, RefundQicard, TypeOK, session
  <2>2. ASSUME NEW v \in Workers, pc'[v] # "idle" PROVE JobOK(v)'
    BY <2>1, <2>2 DEF RowFree, JobsOK, JobOK, Busy, PaymentJob, OrderJob, RefundJob,
                             FreezeJob
  <2> QED BY <2>1, <2>2 DEF JobsOK, RowMutex, Busy
<1>8. ASSUME NEW o \in Orders, PlaceOrder(o) PROVE JobsOK' /\ RowMutex'
  <2>1. /\ RowFree(o) /\ UNCHANGED <<pay, refunded, frz, pc, job>>
        /\ \A q \in Orders : q # o => ord'[q] = ord[q]
        /\ \A q \in Orders : ord[q] # "absent" => ord'[q] # "absent"
    BY <1>8 DEF PlaceOrder, TypeOK, session
  <2>2. ASSUME NEW v \in Workers, pc'[v] # "idle" PROVE JobOK(v)'
    BY <2>1, <2>2 DEF RowFree, JobsOK, JobOK, Busy, PaymentJob, OrderJob, RefundJob,
                             FreezeJob
  <2> QED BY <2>1, <2>2 DEF JobsOK, RowMutex, Busy
<1>9. CASE UNCHANGED vars
  <2>1. UNCHANGED <<pay, ord, refunded, frz, pc, job>>
    BY <1>9 DEF vars, rows, session
  <2>2. ASSUME NEW v \in Workers, pc'[v] # "idle" PROVE JobOK(v)'
    BY <2>1, <2>2, JobKept DEF JobsOK, JobOK
  <2>3. RowMutex'
    BY <2>1 DEF RowMutex, Busy
  <2> QED BY <1>1, <2>2, <2>3 DEF JobsOK
<1> QED BY <1>1, <1>2, <1>3, <1>4, <1>5, <1>6, <1>7, <1>8, <1>9 DEF Next

\* Every row and every wallet variable stays in its set in every reachable state.
THEOREM LedgerType == Spec => []TypeOK
<1>1. Init => LockInv
  BY DEF Init, LockInv, TypeOK, JobsOK, RowMutex, Busy, NoCopy, Copies
<1>2. LockInv /\ [Next]_vars => LockInv'
  BY LockStep
<1>3. LockInv => TypeOK
  BY DEF LockInv
<1> QED BY <1>1, <1>2, <1>3, PTL DEF Spec

-----------------------------------------------------------------------------
(* Wallet copies                                                           *)

WalletInv == WalletMutex /\ CopiesFresh /\ ConservedUnlessRaced

\* A commit changes one wallet, which it holds, from the copy it took; an
\* unlocked copy of the same wallet in another session makes it raced.
Writes(w) ==
  LET u == job[w].user IN
  /\ pc[w] = "locked" /\ u \in Users
  /\ \A v \in Users \ {u} : balance'[v] = balance[v] /\ frozen'[v] = frozen[v] /\ posted'[v] = posted[v]
  /\ raced \subseteq raced' /\ raced' \subseteq raced \cup {u}
  /\ (\E v \in Workers \ {w} : pc[v] = "loaded" /\ job[v].user = u) => u \in raced'
  /\ \/ balance'[u] - copy[w].balance = posted'[u] - posted[u]
     \/ balance'[u] = balance[u] /\ posted'[u] = posted[u]

LEMMA CommitWrites ==
  ASSUME LockInv, NEW w \in Workers, Commit(w)
  PROVE  Writes(w) \/ UNCHANGED <<balance, frozen, posted, raced>>
<1> USE DEF Writes, LockInv, TypeOK, Serving, Race, Overtaken, Jobs, Copies
<1>1. CASE CommitDeposit(w)
  BY <1>1 DEF CommitDeposit, WriteBalance
<1>2. CASE CommitManualRefund(w)
  BY <1>2 DEF CommitManualRefund, WriteBalance
<1>3. CASE CommitOrder(w)
  BY <1>3 DEF CommitOrder, WriteBalance
<1>4. CASE CommitRefund(w)
  BY <1>4 DEF CommitRefund, WriteBalance
<1>5. CASE CloseOrder(w)
  BY <1>5 DEF CloseOrder, wallets, journal
<1>6. CASE CommitFreeze(w)
  BY <1>6 DEF CommitFreeze, WriteFrozen, journal
<1>7. CASE CommitRelease(w)
  BY <1>7 DEF CommitRelease, WriteFrozen, journal
<1>8. CASE CommitAdjust(w)
  BY <1>8 DEF CommitAdjust, WriteBalance
<1> QED BY <1>1, <1>2, <1>3, <1>4, <1>5, <1>6, <1>7, <1>8 DEF Commit

LEMMA WalletStep ==
  ASSUME LockInv, LockInv', WalletInv, [Next]_vars
  PROVE  WalletInv'
<1> USE DEF WalletInv
<1>1. ASSUME NEW w \in Workers, Request(w) PROVE WalletInv'
  <2>1. Begun(w)
    BY <1>1, RequestJob
  <2>2. UNCHANGED <<balance, frozen, posted, raced>>
    BY <2>1 DEF Begun, wallets, journal
  <2>3. WalletMutex'
    BY <2>1 DEF Begun, WalletMutex, WalletFree
  <2>4. CopiesFresh'
    BY <2>1, <2>2 DEF Begun, CopiesFresh, Busy
  <2> QED BY <2>2, <2>3, <2>4 DEF ConservedUnlessRaced
<1>2. ASSUME NEW w \in Workers, LockWallet(w) PROVE WalletInv'
  <2>1. UNCHANGED <<balance, frozen, posted, raced, job, copy>>
    BY <1>2 DEF LockWallet, wallets, journal
  <2>2. WalletMutex'
    BY <1>2, <2>1 DEF LockWallet, WalletMutex, WalletFree, LockInv, TypeOK
  <2>3. CopiesFresh'
    BY <1>2, <2>1 DEF LockWallet, CopiesFresh, Busy, LockInv, TypeOK
  <2> QED BY <2>1, <2>2, <2>3 DEF ConservedUnlessRaced
<1>3. ASSUME NEW w \in Workers, Commit(w) PROVE WalletInv'
  <2>1. Others(w)
    BY <1>3, CommitOthers
  <2>2. WalletMutex'
    BY <2>1 DEF Others, WalletMutex
  <2>3. CASE Writes(w)
    <3> DEFINE u == job[w].user
    <3>1. u \notin raced => copy[w].balance = balance[u]
      BY <2>3 DEF Writes, CopiesFresh, Busy
    <3>2. CopiesFresh'
      <4> SUFFICES ASSUME NEW v \in Workers, Busy(v)', job'[v].user \notin raced'
                   PROVE  /\ copy'[v].balance = balance'[job'[v].user]
                          /\ copy'[v].frozen = frozen'[job'[v].user]
        BY DEF CopiesFresh
      <4>1. v # w /\ Busy(v) /\ job'[v] = job[v] /\ copy'[v] = copy[v] /\ job[v].user \notin raced
        BY <2>1, <2>3 DEF Others, Writes, Busy
      <4>2. job[v].user # u
        BY <2>1, <2>3, <4>1 DEF Others, Writes, Busy, WalletMutex
      <4>3. job[v].user \in Users
        BY <4>1 DEF LockInv, TypeOK, Busy, Jobs
      <4> QED BY <2>3, <4>1, <4>2, <4>3 DEF Writes, CopiesFresh
    <3>3. ConservedUnlessRaced'
      <4> SUFFICES ASSUME NEW v \in Users, v \notin raced' PROVE balance'[v] = posted'[v]
        BY DEF ConservedUnlessRaced
      <4>1. v \notin raced /\ balance[v] = posted[v]
        BY <2>3 DEF Writes, ConservedUnlessRaced
      <4>2. CASE v = u
        <5>1. /\ copy[w].balance = balance[v]
              /\ \/ balance'[v] - copy[w].balance = posted'[v] - posted[v]
                 \/ balance'[v] = balance[v] /\ posted'[v] = posted[v]
          BY <2>3, <3>1, <4>1, <4>2 DEF Writes
        <5>2. balance[v] \in Int /\ posted[v] \in Int /\ balance'[v] \in Int /\ posted'[v] \in Int
          BY DEF LockInv, TypeOK
        <5> QED BY <4>1, <5>1, <5>2
      <4>3. CASE v # u
        BY <2>3, <4>1, <4>3 DEF Writes
      <4> QED BY <4>2, <4>3
    <3> QED BY <2>2, <3>2, <3>3
  <2>4. CASE UNCHANGED <<balance, frozen, posted, raced>>
    BY <2>1, <2>2, <2>4 DEF Others, CopiesFresh, ConservedUnlessRaced, Busy
  <2> QED BY <1>3, <2>3, <2>4, CommitWrites
<1>4. ASSUME NEW w \in Workers, Rollback(w) PROVE WalletInv'
  BY <1>4 DEF Rollback, End, wallets, journal, LockInv, TypeOK, WalletMutex, CopiesFresh, Busy,
              ConservedUnlessRaced
<1>5. ASSUME UNCHANGED <<balance, frozen, posted, pc, job, copy, raced>> PROVE WalletInv'
  <2>1. WalletMutex'
    BY <1>5 DEF WalletMutex
  <2>2. CopiesFresh'
    BY <1>5 DEF CopiesFresh, Busy
  <2>3. ConservedUnlessRaced'
    BY <1>5 DEF ConservedUnlessRaced
  <2> QED BY <2>1, <2>2, <2>3
<1>6. ASSUME NEW p \in Payments, InitiateDeposit(p) \/ CancelQicard(p) \/ RefundQicard(p)
      PROVE  WalletInv'
  BY <1>5, <1>6 DEF InitiateDeposit, CancelQicard, RefundQicard, wallets, journal, session
<1>7. ASSUME NEW o \in Orders, PlaceOrder(o) PROVE WalletInv'
  BY <1>5, <1>7 DEF PlaceOrder, wallets, journal, session
<1>8. CASE UNCHANGED vars
  BY <1>5, <1>8 DEF vars, wallets, journal, session
<1> QED BY <1>1, <1>2, <1>3, <1>4, <1>6, <1>7, <1>8 DEF Next

LEMMA InitInv == Init => LockInv /\ WalletInv
BY DEF Init, LockInv, TypeOK, JobsOK, RowMutex, Busy, NoCopy, Copies, WalletInv, WalletMutex,
       CopiesFresh, ConservedUnlessRaced

\* The balance of every wallet no transaction has raced on is the sum of its
\* journal: the lost update of the stale copy is the only way to break it.
THEOREM LedgerConserved == Spec => []ConservedUnlessRaced
<1>1. Init => LockInv /\ WalletInv
  BY InitInv
<1>2. LockInv /\ WalletInv /\ [Next]_vars => (LockInv /\ WalletInv)'
  BY LockStep, WalletStep
<1>3. WalletInv => ConservedUnlessRaced
  BY DEF WalletInv
<1> QED BY <1>1, <1>2, <1>3, PTL DEF Spec

SpendStep ==
  \A o \in Orders : Charged(o) /\ Owner[o] \notin raced => balance'[Owner[o]] >= frozen'[Owner[o]]

\* Only CommitOrder charges an order, and unless its wallet has been raced on it
\* compared the total with the row itself.
LEMMA ChargeStep ==
  ASSUME LockInv, WalletInv, [Next]_vars
  PROVE  SpendStep
<1> SUFFICES ASSUME NEW o \in Orders, Charged(o), Owner[o] \notin raced
             PROVE  balance'[Owner[o]] >= frozen'[Owner[o]]
  BY DEF SpendStep
<1>1. ord'[o] = "paid" /\ ord[o] # "paid"
  BY DEF Charged
<1>2. ASSUME NEW w \in Workers, CommitOrder(w) PROVE balance'[Owner[o]] >= frozen'[Owner[o]]
  <2> DEFINE u == Owner[o]
  <2>1. pc[w] = "locked" /\ job[w] \in Jobs /\ JobOK(w) /\ Busy(w)
    BY <1>2 DEF CommitOrder, Serving, LockInv, TypeOK, JobsOK, Busy
  <2>2. o = job[w].row
    BY <1>1, <1>2, <2>1 DEF CommitOrder, LockInv, TypeOK
  <2>3. job[w].user = u /\ u \in Users
    BY <2>1, <2>2, OwnerIsUser DEF JobOK, Rows
  <2>4. copy[w].balance = balance[u] /\ copy[w].frozen = frozen[u]
    BY <2>1, <2>3 DEF WalletInv, CopiesFresh
  <2>5. /\ balance'[u] = copy[w].balance - job[w].amount
        /\ frozen'[u] = frozen[u]
        /\ copy[w].balance - copy[w].frozen >= job[w].amount
    <3>1. balance' = [balance EXCEPT ![u] = copy[w].balance + -job[w].amount]
      BY <1>2, <2>3 DEF CommitOrder, WriteBalance
    <3> QED BY <1>2, <2>1, <2>3, <2>4, <3>1
            DEF CommitOrder, WriteBalance, Available, LockInv, TypeOK, Jobs
  <2>6. balance[u] \in Int /\ frozen[u] \in Int /\ job[w].amount \in Int
    BY <2>1, <2>3 DEF LockInv, TypeOK, Jobs
  <2> QED BY <2>4, <2>5, <2>6
<1>3. ASSUME NEW w \in Workers, CommitRefund(w) PROVE FALSE
  BY <1>1, <1>3 DEF CommitRefund, Serving, LockInv, TypeOK, JobsOK, JobOK, Busy, RefundJob
<1>4. ASSUME NEW w \in Workers, CloseOrder(w) PROVE FALSE
  BY <1>1, <1>4 DEF CloseOrder, LockInv, TypeOK
<1>5. ASSUME NEW q \in Orders, PlaceOrder(q) PROVE FALSE
  BY <1>1, <1>5 DEF PlaceOrder, LockInv, TypeOK
<1>6. ord' = ord => FALSE
  BY <1>1
<1>7. ASSUME NEW w \in Workers, Request(w) PROVE FALSE
  <2>1. Begun(w)
    BY <1>7, RequestJob
  <2> QED BY <1>6, <2>1 DEF Begun, rows
<1>8. ASSUME NEW w \in Workers, LockWallet(w) \/ Rollback(w) PROVE FALSE
  BY <1>6, <1>8 DEF LockWallet, Rollback, rows
<1>9. ASSUME NEW w \in Workers,
             \/ CommitDeposit(w) \/ CommitManualRefund(w)
             \/ CommitFreeze(w) \/ CommitRelease(w) \/ CommitAdjust(w)
      PROVE  FALSE
  BY <1>6, <1>9 DEF CommitDeposit, CommitManualRefund, CommitFreeze, CommitRelease,
                    CommitAdjust, rows
<1>10. ASSUME NEW p \in Payments, InitiateDeposit(p) \/ CancelQicard(p) \/ RefundQicard(p)
       PROVE  FALSE
  BY <1>6, <1>10 DEF InitiateDeposit, CancelQicard, RefundQicard
<1>11. CASE UNCHANGED vars
  BY <1>6, <1>11 DEF vars, rows
<1> QED BY <1>2, <1>3, <1>4, <1>5, <1>7, <1>8, <1>9, <1>10, <1>11 DEF Next, Commit

\* Until a race is recorded no order is charged into the frozen part of a wallet.
THEOREM LedgerSpends == Spec => SpendRespectsFreeze
<1>1. Init => LockInv /\ WalletInv
  BY InitInv
<1>2. LockInv /\ WalletInv /\ [Next]_vars => (LockInv /\ WalletInv)'
  BY LockStep, WalletStep
<1>3. LockInv /\ WalletInv /\ [Next]_vars => [SpendStep]_vars
  BY ChargeStep
<1>4. [SpendStep]_vars <=>
        [\A o \in Orders :
           Charged(o) /\ Owner[o] \notin raced => balance'[Owner[o]] >= frozen'[Owner[o]]]_vars
  BY DEF SpendStep
<1> QED BY <1>1, <1>2, <1>3, <1>4, PTL DEF Spec, SpendRespectsFreeze

-----------------------------------------------------------------------------
(* Ledger implements Settlement                                            *)

\* Every step of Ledger is one business event or changes no business row.
LEMMA SettleStep ==
  ASSUME LockInv, [Next]_vars
  PROVE  [Settle!Next]_(Settle!settlementVars)
<1> DEFINE Same == UNCHANGED <<pay, ord, refunded, net, posted>>
<1>1. Same => [Settle!Next]_(Settle!settlementVars)
  BY DEF Settle!settlementVars
<1>2. ASSUME NEW w \in Workers, Request(w) PROVE Same
  <2>1. Begun(w)
    BY <1>2, RequestJob
  <2> QED BY <2>1 DEF Begun, rows, journal
<1>3. ASSUME NEW w \in Workers, LockWallet(w) \/ Rollback(w) PROVE Same
  BY <1>3 DEF LockWallet, Rollback, rows, journal
<1>4. ASSUME NEW w \in Workers, CommitFreeze(w) \/ CommitRelease(w) PROVE Same
  BY <1>4 DEF CommitFreeze, CommitRelease, WriteFrozen, journal
<1>5. ASSUME NEW w \in Workers, pc[w] # "idle" PROVE job[w] \in Jobs /\ JobOK(w)
  BY <1>5 DEF LockInv, TypeOK, JobsOK
<1> USE DEF Serving, Busy, JobOK, PaymentJob, OrderJob, RefundJob, WriteBalance, Enter,
            Settle!Enter, Rows
<1>6. ASSUME NEW w \in Workers, CommitDeposit(w) PROVE Settle!Credit(job[w].row) /\ job[w].row \in Payments
  BY <1>5, <1>6 DEF CommitDeposit, Settle!Credit, Settle!Payment
<1>7. ASSUME NEW w \in Workers, CommitManualRefund(w)
      PROVE  Settle!Withdraw(job[w].row) /\ job[w].row \in Payments
  BY <1>5, <1>7 DEF CommitManualRefund, Settle!Withdraw, Settle!Payment
<1>8. ASSUME NEW w \in Workers, CommitOrder(w) PROVE Settle!Charge(job[w].row) /\ job[w].row \in Orders
  BY <1>5, <1>8 DEF CommitOrder, Settle!Charge
<1>9. ASSUME NEW w \in Workers, CommitRefund(w)
      PROVE  /\ job[w].row \in Orders /\ job[w].amount \in 1..Amount[job[w].row]
             /\ Settle!GiveBack(job[w].row, job[w].amount)
  <2> DEFINE o == job[w].row
             a == job[w].amount
  <2>1. o \in Orders /\ a > 0 /\ a <= Amount[o] - refunded[o] /\ ord[o] = "paid" /\ a \in Nat
    BY <1>5, <1>9 DEF CommitRefund, Jobs
  <2>2. refunded[o] \in Nat /\ Amount[o] \in Nat
    BY <2>1, AmountIsPositive DEF LockInv, TypeOK
  <2>3. refunded'[o] = refunded[o] + a /\ refunded'[o] <= Amount[o]
    BY <1>9, <2>1, <2>2 DEF CommitRefund, LockInv, TypeOK
  <2>4. refunded'[o] >= Amount[o] <=> refunded'[o] = Amount[o]
    BY <2>1, <2>2, <2>3
  <2>5. Settle!GiveBack(o, a)
    BY <1>5, <1>9, <2>1, <2>2, <2>3, <2>4 DEF CommitRefund, Settle!GiveBack
  <2> QED BY <2>1, <2>2, <2>5
<1>10. ASSUME NEW w \in Workers, CloseOrder(w) PROVE Settle!Close(job[w].row) /\ job[w].row \in Orders
  BY <1>5, <1>10 DEF CloseOrder, Settle!Close, journal
<1>11. ASSUME NEW w \in Workers, CommitAdjust(w)
       PROVE  /\ job[w].user \in Users /\ job[w].amount \in Adjustments
              /\ Settle!Adjust(job[w].user, job[w].amount)
  BY <1>5, <1>11 DEF CommitAdjust, Settle!Adjust, Jobs, rows
<1>12. ASSUME NEW p \in Payments, InitiateDeposit(p) PROVE Settle!Open(p)
  BY <1>12 DEF InitiateDeposit, Settle!Open, Settle!Payment, journal
<1>13. ASSUME NEW p \in Payments, CancelQicard(p) PROVE Settle!Void(p)
  BY <1>13 DEF CancelQicard, Settle!Void, Settle!Payment, journal
<1>14. ASSUME NEW p \in Payments, RefundQicard(p) PROVE Settle!Return(p)
  BY <1>14 DEF RefundQicard, Settle!Return, Settle!Payment, journal
<1>15. ASSUME NEW o \in Orders, PlaceOrder(o) PROVE Settle!Place(o)
  BY <1>15 DEF PlaceOrder, Settle!Place, journal
<1>16. CASE UNCHANGED vars
  BY <1>1, <1>16 DEF vars, rows, journal
<1> HIDE DEF Same
<1>17. ASSUME NEW w \in Workers, Commit(w) PROVE [Settle!Next]_(Settle!settlementVars)
  BY <1>1, <1>4, <1>6, <1>7, <1>8, <1>9, <1>10, <1>11, <1>17 DEF Commit, Settle!Next
<1> QED BY <1>1, <1>2, <1>3, <1>12, <1>13, <1>14, <1>15, <1>16, <1>17 DEF Next, Settle!Next

\* The handlers with their locks and copies implement the atomic business events.
THEOREM LedgerSettles == Spec => Settles
<1>1. Init => LockInv /\ Settle!Init
  BY InitInv DEF Init, Settle!Init
<1>2. LockInv /\ [Next]_vars => LockInv'
  BY LockStep
<1>3. LockInv /\ [Next]_vars => [Settle!Next]_(Settle!settlementVars)
  BY SettleStep
<1> QED BY <1>1, <1>2, <1>3, PTL DEF Spec, Settles, Settle!Spec

-----------------------------------------------------------------------------
(* Payments and refunds: what every settlement step preserves              *)

SettledInv ==
  /\ PaymentSettledOnce /\ RefundWithinCharge
  /\ \A o \in Orders : ord[o] \in {"absent", "pending_approval"} => refunded[o] = 0

RowTypes ==
  /\ pay \in [Payments -> {"absent", "pending", "completed", "cancelled", "refunded"}]
  /\ ord \in [Orders -> {"absent", "pending_approval", "paid", "refunded", "cancelled"}]
  /\ refunded \in [Orders -> Nat]
  /\ net \in [Payments \cup Orders -> Int]

LEMMA SettledStep ==
  ASSUME RowTypes, SettledInv, [Settle!Next]_(Settle!settlementVars)
  PROVE  SettledInv'
<1> USE RowsAreDistinct, AmountIsPositive
    DEF RowTypes, SettledInv, PaymentSettledOnce, RefundWithinCharge, Rows, Settle!Payment,
        Settle!Enter
<1>1. ASSUME NEW p \in Payments, Settle!Open(p) PROVE SettledInv'
  BY <1>1 DEF Settle!Open
<1>2. ASSUME NEW p \in Payments, Settle!Void(p) PROVE SettledInv'
  BY <1>2 DEF Settle!Void
<1>3. ASSUME NEW p \in Payments, Settle!Return(p) PROVE SettledInv'
  BY <1>3 DEF Settle!Return
<1>4. ASSUME NEW p \in Payments, Settle!Credit(p) PROVE SettledInv'
  BY <1>4 DEF Settle!Credit
<1>5. ASSUME NEW p \in Payments, Settle!Withdraw(p) PROVE SettledInv'
  BY <1>5 DEF Settle!Withdraw
<1>6. ASSUME NEW o \in Orders, Settle!Place(o) PROVE SettledInv'
  BY <1>6 DEF Settle!Place
<1>7. ASSUME NEW o \in Orders, Settle!Close(o) PROVE SettledInv'
  BY <1>7 DEF Settle!Close
<1>8. ASSUME NEW o \in Orders, Settle!Charge(o) PROVE SettledInv'
  BY <1>8 DEF Settle!Charge
<1>9. ASSUME NEW o \in Orders, NEW a \in 1..Amount[o], Settle!GiveBack(o, a) PROVE SettledInv'
  BY <1>9 DEF Settle!GiveBack
<1>10. ASSUME NEW u \in Users, NEW a \in Adjustments, Settle!Adjust(u, a) PROVE SettledInv'
  BY <1>10 DEF Settle!Adjust
<1>11. CASE UNCHANGED Settle!settlementVars
  BY <1>11 DEF Settle!settlementVars
<1> QED BY <1>1, <1>2, <1>3, <1>4, <1>5, <1>6, <1>7, <1>8, <1>9, <1>10, <1>11 DEF Settle!Next

LEMMA RowTypesStep ==
  ASSUME RowTypes, [Settle!Next]_(Settle!settlementVars)
  PROVE  RowTypes'
<1> USE AmountIsPositive DEF RowTypes, Rows, Settle!Payment, Settle!Enter
<1>1. ASSUME NEW p \in Payments,
             \/ Settle!Open(p) \/ Settle!Void(p) \/ Settle!Return(p)
             \/ Settle!Credit(p) \/ Settle!Withdraw(p)
      PROVE  RowTypes'
  BY <1>1 DEF Settle!Open, Settle!Void, Settle!Return, Settle!Credit, Settle!Withdraw
<1>2. ASSUME NEW o \in Orders, Settle!Place(o) \/ Settle!Close(o) \/ Settle!Charge(o)
      PROVE  RowTypes'
  BY <1>2 DEF Settle!Place, Settle!Close, Settle!Charge
<1>3. ASSUME NEW o \in Orders, NEW a \in 1..Amount[o], Settle!GiveBack(o, a) PROVE RowTypes'
  BY <1>3 DEF Settle!GiveBack
<1>4. ASSUME NEW u \in Users, NEW a \in Adjustments, Settle!Adjust(u, a) PROVE RowTypes'
  BY <1>4 DEF Settle!Adjust
<1>5. CASE UNCHANGED Settle!settlementVars
  BY <1>5 DEF Settle!settlementVars
<1> QED BY <1>1, <1>2, <1>3, <1>4, <1>5 DEF Settle!Next

\* The promise is worth keeping: whatever implements Settlement settles payments
\* once and gives back no more than it charged, Ledger and any other design.
THEOREM SettlementKeepsBooks == Settles => [](PaymentSettledOnce /\ RefundWithinCharge)
<1>1. Settle!Init => RowTypes /\ SettledInv
  BY AmountIsPositive, RowsAreDistinct
     DEF Settle!Init, RowTypes, SettledInv, PaymentSettledOnce, RefundWithinCharge, Rows
<1>2. /\ RowTypes /\ SettledInv /\ [Settle!Next]_(Settle!settlementVars)
      => (RowTypes /\ SettledInv)'
  BY RowTypesStep, SettledStep
<1>3. SettledInv => PaymentSettledOnce /\ RefundWithinCharge
  BY DEF SettledInv
<1> QED BY <1>1, <1>2, <1>3, PTL DEF Settles, Settle!Spec

\* A payment is credited at most once, and withdrawn at most once after that,
\* whatever confirmations, cancellations and refunds run against each other.
THEOREM LedgerPaymentsSettle == Spec => []PaymentSettledOnce
BY LedgerSettles, SettlementKeepsBooks, PTL

\* Nobody gets back more than the order took, however refunds are split and raced.
THEOREM LedgerRefundsBounded == Spec => []RefundWithinCharge
BY LedgerSettles, SettlementKeepsBooks, PTL

-----------------------------------------------------------------------------
(* Sums over finite sets                                                   *)

\* Every non-empty set of numbers has a least one: induction without a predicate.
LEMMA LeastNumber ==
  ASSUME NEW T \in SUBSET Nat, T # {}
  PROVE  \E m \in T : \A n \in T : m <= n
<1>1. PICK m \in T : \A n \in T : ~ <<n, m>> \in OpToRel(<, Nat)
  <2> DEFINE R == OpToRel(<, Nat)
  <2>1. IsWellFoundedOn(R, Nat)
    BY NatLessThanWellFounded
  <2> HIDE DEF R
  <2>2. \E m \in T : \A n \in T : ~ <<n, m>> \in R
    BY <2>1, WFMin, Zenon
  <2> QED BY <2>2 DEF R
<1>2. \A n \in T : ~ (n < m)
  BY <1>1 DEF OpToRel
<1> QED BY <1>2

Pick(s) == CHOOSE x \in s : TRUE

\* g satisfies on D the equations of a sum that takes out the picked element first.
Unfolds(g, A, D) ==
  \A s \in D : g[s] = IF s = {} THEN 0 ELSE A[Pick(s)] + g[s \ {Pick(s)}]

\* SumFunctionOnSet is the function that unfolds, if there is only one.
LEMMA SumIsRecursive ==
  ASSUME NEW A, NEW S, NEW g, g = [s \in SUBSET S |-> g[s]], Unfolds(g, A, SUBSET S),
     \A h : h = [s \in SUBSET S |-> h[s]] /\ Unfolds(h, A, SUBSET S) => h[S] = g[S]
  PROVE  SumFunctionOnSet(A, S) = g[S]
<1> DEFINE IsIter(h) == h = [s \in SUBSET S |-> IF s = {} THEN 0 ELSE A[Pick(s)] + h[s \ {Pick(s)}]]
           iter == CHOOSE h : IsIter(h)
<1>1. SumFunctionOnSet(A, S) = iter[S]
  BY DEF SumFunctionOnSet, FoldFunctionOnSet, MapThenFoldSet, Pick
<1>2. IsIter(g)
  BY DEF Unfolds
<1>3. IsIter(iter)
  BY <1>2
<1>4. iter = [s \in SUBSET S |-> iter[s]] /\ Unfolds(iter, A, SUBSET S)
  BY <1>3 DEF Unfolds
<1> QED BY <1>1, <1>4

Small(S, n) == {s \in SUBSET S : Cardinality(s) <= n}

Solvable(A, S, n) == \E g \in [SUBSET S -> Int] : Unfolds(g, A, Small(S, n))

\* What taking an element out does to a subset of a finite set.
LEMMA SubsetShrinks ==
  ASSUME NEW S, IsFiniteSet(S), NEW s \in SUBSET S
  PROVE  /\ IsFiniteSet(s) /\ Cardinality(s) \in Nat /\ Cardinality(s) <= Cardinality(S)
         /\ s # {} => Pick(s) \in s
         /\ \A x \in s : Cardinality(s \ {x}) = Cardinality(s) - 1
         /\ Cardinality(s) = 0 => s = {}
<1>1. IsFiniteSet(s) /\ Cardinality(s) \in Nat /\ Cardinality(s) <= Cardinality(S)
  BY FS_Subset, FS_CardinalityType
<1>2. s # {} => Pick(s) \in s
  BY DEF Pick
<1>3. \A x \in s : Cardinality(s \ {x}) = Cardinality(s) - 1
  BY <1>1, FS_RemoveElement
<1>4. Cardinality(s) = 0 => s = {}
  BY <1>1, FS_EmptySet
<1> QED BY <1>1, <1>2, <1>3, <1>4

\* From the subsets of size n to those of size n + 1.
LEMMA SolvableNext ==
  ASSUME NEW S, IsFiniteSet(S), NEW A, \A x \in S : A[x] \in Int,
         NEW n \in Nat, Solvable(A, S, n)
  PROVE  Solvable(A, S, n + 1)
<1>1. PICK g \in [SUBSET S -> Int] : Unfolds(g, A, Small(S, n))
  BY DEF Solvable
<1> DEFINE Value(s) == IF s = {} THEN 0 ELSE A[Pick(s)] + g[s \ {Pick(s)}]
           h == [s \in SUBSET S |-> IF s \in Small(S, n + 1) THEN Value(s) ELSE g[s]]
<1>2. ASSUME NEW s \in SUBSET S PROVE Value(s) \in Int
  <2>1. s # {} => Pick(s) \in S /\ s \ {Pick(s)} \in SUBSET S
    BY SubsetShrinks
  <2> QED BY <1>1, <2>1
<1>3. h \in [SUBSET S -> Int]
  BY <1>1, <1>2
<1>4. ASSUME NEW s \in Small(S, n) PROVE h[s] = g[s]
  <2>1. s \in SUBSET S /\ s \in Small(S, n + 1)
    BY SubsetShrinks DEF Small
  <2>2. g[s] = Value(s)
    BY <1>1 DEF Unfolds
  <2> QED BY <2>1, <2>2
<1>5. ASSUME NEW s \in Small(S, n + 1), s # {}
      PROVE  h[s \ {Pick(s)}] = g[s \ {Pick(s)}]
  <2>1. s \ {Pick(s)} \in Small(S, n)
    BY <1>5, SubsetShrinks DEF Small
  <2> QED BY <1>4, <2>1
<1>6. Unfolds(h, A, Small(S, n + 1))
  BY <1>5 DEF Unfolds, Small
<1> QED BY <1>3, <1>6 DEF Solvable

\* There is no least size without a function that unfolds.
LEMMA AlwaysSolvable ==
  ASSUME NEW S, IsFiniteSet(S), NEW A, \A x \in S : A[x] \in Int, NEW n \in Nat
  PROVE  Solvable(A, S, n)
<1> DEFINE Bad == {k \in Nat : ~ Solvable(A, S, k)}
<1>1. Solvable(A, S, 0)
  <2> DEFINE g == [s \in SUBSET S |-> 0]
  <2>1. ASSUME NEW s \in Small(S, 0) PROVE s = {} /\ g[s] = 0
    BY SubsetShrinks DEF Small
  <2>2. g \in [SUBSET S -> Int] /\ Unfolds(g, A, Small(S, 0))
    BY <2>1 DEF Unfolds
  <2> QED BY <2>2 DEF Solvable
<1>2. Bad = {}
  <2> SUFFICES ASSUME Bad # {} PROVE FALSE
    OBVIOUS
  <2>1. PICK m \in Bad : \A k \in Bad : m <= k
    BY LeastNumber
  <2>2. m \in Nat \ {0} /\ ~ Solvable(A, S, m)
    BY <1>1
  <2>3. m - 1 \in Nat /\ m - 1 \notin Bad
    BY <2>1, <2>2
  <2>4. Solvable(A, S, (m - 1) + 1)
    BY <2>3, SolvableNext
  <2> QED BY <2>2, <2>4
<1> QED BY <1>2

\* Two functions that unfold on the subsets of S agree there.
LEMMA UnfoldingIsUnique ==
  ASSUME NEW S, IsFiniteSet(S), NEW A, NEW g, NEW h,
         Unfolds(g, A, SUBSET S), Unfolds(h, A, SUBSET S)
  PROVE  g[S] = h[S]
<1> DEFINE Bad == {n \in Nat : \E s \in SUBSET S : Cardinality(s) = n /\ g[s] # h[s]}
<1>0. Bad \in SUBSET Nat
  OBVIOUS
<1> HIDE DEF Bad
<1>1. Bad = {}
  <2> SUFFICES ASSUME Bad # {} PROVE FALSE
    OBVIOUS
  <2>1. PICK m \in Bad : \A k \in Bad : m <= k
    BY <1>0, LeastNumber
  <2>2. PICK s \in SUBSET S : Cardinality(s) = m /\ g[s] # h[s]
    BY DEF Bad
  <2>3. s # {}
    BY <2>2 DEF Unfolds
  <2> DEFINE t == s \ {Pick(s)}
  <2>4. t \in SUBSET S /\ Cardinality(t) \in Nat /\ Cardinality(t) < m /\ m \in Nat
    BY <2>2, <2>3, SubsetShrinks
  <2>5. Cardinality(t) \notin Bad
    BY <2>1, <2>4
  <2>6. g[t] = h[t]
    BY <2>4, <2>5 DEF Bad
  <2> QED BY <2>2, <2>3, <2>6 DEF Unfolds
<1>2. Cardinality(S) \in Nat
  BY FS_CardinalityType
<1> QED BY <1>1, <1>2 DEF Bad

SumsUp(A, S) ==
  \E g \in [SUBSET S -> Int] :
    /\ Unfolds(g, A, SUBSET S)
    /\ \A s \in SUBSET S : SumFunctionOnSet(A, s) = g[s]

\* SumFunctionOnSet unfolds on the subsets of a finite set.
LEMMA SumsUnfold ==
  ASSUME NEW S, IsFiniteSet(S), NEW A, \A x \in S : A[x] \in Int
  PROVE  SumsUp(A, S)
<1>1. PICK g \in [SUBSET S -> Int] : Unfolds(g, A, SUBSET S)
  <2>1. Cardinality(S) \in Nat /\ Small(S, Cardinality(S)) = SUBSET S
    BY SubsetShrinks, FS_CardinalityType DEF Small
  <2>2. Solvable(A, S, Cardinality(S))
    BY <2>1, AlwaysSolvable
  <2> QED BY <2>1, <2>2 DEF Solvable
<1>2. ASSUME NEW s \in SUBSET S PROVE SumFunctionOnSet(A, s) = g[s]
  <2> DEFINE gs == [t \in SUBSET s |-> g[t]]
  <2>1. IsFiniteSet(s) /\ SUBSET s \subseteq SUBSET S
    BY FS_Subset
  <2>2. Unfolds(gs, A, SUBSET s)
    BY <1>1, <2>1, SubsetShrinks DEF Unfolds
  <2>3. gs = [t \in SUBSET s |-> gs[t]] /\ gs[s] = g[s]
    OBVIOUS
  <2> HIDE DEF gs
  <2>4. ASSUME NEW h, Unfolds(h, A, SUBSET s) PROVE h[s] = gs[s]
    BY <2>1, <2>2, <2>4, UnfoldingIsUnique
  <2>5. SumFunctionOnSet(A, s) = gs[s]
    BY <2>2, <2>3, <2>4, SumIsRecursive, Zenon
  <2> QED BY <2>3, <2>5
<1> QED BY <1>1, <1>2 DEF SumsUp

\* The sum over a finite set, with any element of it taken out.
LEMMA SumTakesOut ==
  ASSUME NEW S, IsFiniteSet(S), NEW A, \A x \in S : A[x] \in Int
  PROVE  /\ SumFunctionOnSet(A, {}) = 0
         /\ SumFunctionOnSet(A, S) \in Int
         /\ \A x \in S : SumFunctionOnSet(A, S) = A[x] + SumFunctionOnSet(A, S \ {x})
<1>1. PICK g \in [SUBSET S -> Int] :
         /\ Unfolds(g, A, SUBSET S)
         /\ \A s \in SUBSET S : SumFunctionOnSet(A, s) = g[s]
  <2>1. SumsUp(A, S)
    BY SumsUnfold
  <2> QED BY <2>1 DEF SumsUp
<1> DEFINE Bad == {n \in Nat : \E s \in SUBSET S : \E x \in s :
                      Cardinality(s) = n /\ g[s] # A[x] + g[s \ {x}]}
<1>0. Bad \in SUBSET Nat
  OBVIOUS
<1> HIDE DEF Bad
<1>2. Bad = {}
  <2> SUFFICES ASSUME Bad # {} PROVE FALSE
    OBVIOUS
  <2>1. PICK m \in Bad : \A k \in Bad : m <= k
    BY <1>0, LeastNumber
  <2>2. PICK s \in SUBSET S, x \in S :
         x \in s /\ Cardinality(s) = m /\ g[s] # A[x] + g[s \ {x}]
    BY DEF Bad
  <2> DEFINE c == Pick(s)
             t == s \ {c, x}
  <2>3. g[s] = A[c] + g[s \ {c}] /\ c \in s /\ c # x
    BY <1>1, <2>2, SubsetShrinks DEF Unfolds
  <2>4. /\ Cardinality(s \ {c}) \in Nat /\ Cardinality(s \ {c}) < m
        /\ Cardinality(s \ {x}) \in Nat /\ Cardinality(s \ {x}) < m
        /\ m \in Nat
    BY <2>2, <2>3, SubsetShrinks
  <2>5. Cardinality(s \ {c}) \notin Bad /\ Cardinality(s \ {x}) \notin Bad
    BY <2>1, <2>4
  <2>0. x \in s \ {c} /\ c \in s \ {x} /\ s \ {c} \in SUBSET S /\ s \ {x} \in SUBSET S
    BY <2>2, <2>3
  <2>6. g[s \ {c}] = A[x] + g[(s \ {c}) \ {x}]
    BY <2>0, <2>4, <2>5 DEF Bad
  <2>7. g[s \ {x}] = A[c] + g[(s \ {x}) \ {c}]
    BY <2>0, <2>4, <2>5 DEF Bad
  <2>8. (s \ {c}) \ {x} = t /\ (s \ {x}) \ {c} = t /\ t \in SUBSET S
    OBVIOUS
  <2>9. g[t] \in Int /\ A[x] \in Int /\ A[c] \in Int
    BY <1>1, <2>3, <2>8
  <2> HIDE DEF c, t
  <2>10. g[s] = A[c] + (A[x] + g[t]) /\ g[s \ {x}] = A[c] + g[t]
    BY <2>3, <2>6, <2>7, <2>8
  <2> QED BY <2>2, <2>9, <2>10
<1>3. ASSUME NEW x \in S PROVE g[S] = A[x] + g[S \ {x}]
  <2>1. Cardinality(S) \in Nat /\ Cardinality(S) \notin Bad
    BY <1>2, FS_CardinalityType
  <2> QED BY <2>1 DEF Bad
<1>4. g[{}] = 0
  BY <1>1 DEF Unfolds
<1> QED BY <1>1, <1>3, <1>4

\* Functions that agree on a set have the same sum over it.
LEMMA SumAgrees ==
  ASSUME NEW S, IsFiniteSet(S), NEW A, NEW B, \A x \in S : A[x] \in Int /\ B[x] = A[x]
  PROVE  SumFunctionOnSet(B, S) = SumFunctionOnSet(A, S)
<1>1. SumsUp(A, S) /\ SumsUp(B, S)
  BY SumsUnfold
<1>2. PICK g : Unfolds(g, A, SUBSET S) /\ SumFunctionOnSet(A, S) = g[S]
  BY <1>1 DEF SumsUp
<1>3. PICK h : Unfolds(h, B, SUBSET S) /\ SumFunctionOnSet(B, S) = h[S]
  BY <1>1 DEF SumsUp
<1>4. Unfolds(h, A, SUBSET S)
  BY <1>3, SubsetShrinks DEF Unfolds
<1> QED BY <1>2, <1>3, <1>4, UnfoldingIsUnique

\* Changing one term changes the sum by as much.
LEMMA SumMoves ==
  ASSUME NEW S, IsFiniteSet(S), NEW x \in S, NEW a \in Int, NEW A, NEW B,
         \A y \in S : A[y] \in Int, B[x] = A[x] + a, \A y \in S \ {x} : B[y] = A[y]
  PROVE  SumFunctionOnSet(B, S) = SumFunctionOnSet(A, S) + a
<1> DEFINE R == S \ {x}
<1>1. IsFiniteSet(R)
  BY FS_Subset
<1>2. SumFunctionOnSet(B, R) = SumFunctionOnSet(A, R)
  BY <1>1, SumAgrees
<1>3. SumFunctionOnSet(A, R) \in Int
  BY <1>1, SumTakesOut
<1>4. SumFunctionOnSet(A, S) = A[x] + SumFunctionOnSet(A, R)
  BY SumTakesOut
<1>5. \A y \in S : B[y] \in Int
  OBVIOUS
<1>6. SumFunctionOnSet(B, S) = B[x] + SumFunctionOnSet(B, R)
  BY <1>5, SumTakesOut
<1> HIDE DEF R
<1> QED BY <1>2, <1>3, <1>4, <1>6

LEMMA SumOfZeros ==
  ASSUME NEW S, IsFiniteSet(S), NEW A, \A x \in S : A[x] = 0
  PROVE  SumFunctionOnSet(A, S) = 0
<1> DEFINE g == [s \in SUBSET S |-> 0]
<1>1. SumsUp(A, S)
  BY SumsUnfold
<1>2. PICK h : Unfolds(h, A, SUBSET S) /\ SumFunctionOnSet(A, S) = h[S]
  BY <1>1 DEF SumsUp
<1>3. Unfolds(g, A, SUBSET S)
  BY SubsetShrinks DEF Unfolds
<1>4. g[S] = 0
  OBVIOUS
<1> HIDE DEF g
<1>5. g[S] = h[S]
  BY <1>2, <1>3, UnfoldingIsUnique
<1> QED BY <1>2, <1>4, <1>5

-----------------------------------------------------------------------------
(* Freezes                                                                 *)

LEMMA SumOfFreezes ==
  ASSUME NEW S \in SUBSET Freezes
  PROVE  /\ SumFunctionOnSet(Amount, {}) = 0
         /\ SumFunctionOnSet(Amount, S) \in Int
         /\ \A f \in Freezes \ S :
              SumFunctionOnSet(Amount, S \cup {f}) = Amount[f] + SumFunctionOnSet(Amount, S)
<1>1. \A f \in Freezes : Amount[f] \in Int
  BY AmountIsPositive DEF Rows
<1>2. ASSUME NEW T \in SUBSET Freezes PROVE IsFiniteSet(T) /\ \A f \in T : Amount[f] \in Int
  <2>1. T \subseteq Rows
    BY DEF Rows
  <2> QED BY <1>1, <2>1, RowsAreFinite, FS_Subset
<1>3. SumFunctionOnSet(Amount, {}) = 0 /\ SumFunctionOnSet(Amount, S) \in Int
  BY <1>2, SumTakesOut
<1>4. ASSUME NEW f \in Freezes \ S
      PROVE  SumFunctionOnSet(Amount, S \cup {f}) = Amount[f] + SumFunctionOnSet(Amount, S)
  <2>1. S \cup {f} \in SUBSET Freezes /\ f \in S \cup {f} /\ (S \cup {f}) \ {f} = S
    OBVIOUS
  <2> QED BY <1>2, <2>1, SumTakesOut
<1> QED BY <1>3, <1>4

\* Without a race, a commit that adds to the frozen balance computes from the row.
LEMMA CoveredStep ==
  ASSUME LockInv, WalletInv, FreezesCovered, [Next]_vars
  PROVE  FreezesCovered'
<1>1. ASSUME UNCHANGED <<frozen, frz>>, raced \subseteq raced' PROVE FreezesCovered'
  BY <1>1 DEF FreezesCovered, ActiveFreezes
<1>2. ASSUME NEW w \in Workers, Request(w) PROVE FreezesCovered'
  <2>1. Begun(w)
    BY <1>2, RequestJob
  <2> QED BY <1>1, <2>1 DEF Begun, wallets, rows
<1>3. ASSUME NEW w \in Workers, LockWallet(w) \/ Rollback(w) PROVE FreezesCovered'
  BY <1>1, <1>3 DEF LockWallet, Rollback, wallets, rows
<1>4. ASSUME NEW w \in Workers, CommitFreeze(w) \/ CommitRelease(w) PROVE FreezesCovered'
  <2> DEFINE f == job[w].row
             u == job[w].user
  <2>1. /\ pc[w] = "locked" /\ Busy(w) /\ job[w] \in Jobs /\ JobOK(w)
        /\ u \in Users /\ f \in Freezes /\ u = Owner[f] /\ job[w].amount = Amount[f]
        /\ Amount[f] \in Int
    BY <1>4, AmountIsPositive
       DEF CommitFreeze, CommitRelease, Serving, Busy, LockInv, TypeOK, JobsOK, JobOK,
           FreezeJob, Jobs, Rows
  <2>2. raced \subseteq raced' /\ \A v \in Users \ {u} : frozen'[v] = frozen[v]
    BY <1>4, <2>1 DEF CommitFreeze, CommitRelease, WriteFrozen, Race, LockInv, TypeOK
  <2>3. \A g \in Freezes : g # f => frz'[g] = frz[g]
    BY <1>4 DEF CommitFreeze, CommitRelease, LockInv, TypeOK
  <2>4. \/ frz[f] = "absent" /\ frz'[f] = "active" /\ frozen'[u] = copy[w].frozen + Amount[f]
        \/ frz[f] = "active" /\ frz'[f] = "released" /\ frozen'[u] = copy[w].frozen - Amount[f]
    BY <1>4, <2>1
       DEF CommitFreeze, CommitRelease, Serving, WriteFrozen, JobOK, FreezeJob, LockInv, TypeOK,
           Copies
  <2>5. u \notin raced => copy[w].frozen = frozen[u]
    BY <2>1 DEF WalletInv, CopiesFresh
  <2> SUFFICES ASSUME NEW v \in Users, v \notin raced'
               PROVE  frozen'[v] = SumFunctionOnSet(Amount, ActiveFreezes(v)')
    BY DEF FreezesCovered
  <2>6. v \notin raced /\ frozen[v] = SumFunctionOnSet(Amount, ActiveFreezes(v))
    BY <2>2 DEF FreezesCovered
  <2>7. CASE v # u
    <3>1. ActiveFreezes(v)' = ActiveFreezes(v)
      BY <2>1, <2>3, <2>7 DEF ActiveFreezes
    <3> QED BY <2>2, <2>6, <2>7, <3>1
  <2>8. CASE v = u
    <3> DEFINE S == ActiveFreezes(v) \ {f}
    <3>1. S \in SUBSET Freezes /\ f \in Freezes \ S /\ frozen[v] \in Int /\ copy[w].frozen = frozen[v]
      BY <2>1, <2>5, <2>6, <2>8 DEF ActiveFreezes, LockInv, TypeOK
    <3>2. SumFunctionOnSet(Amount, S \cup {f}) = Amount[f] + SumFunctionOnSet(Amount, S)
          /\ SumFunctionOnSet(Amount, S) \in Int
      BY <3>1, SumOfFreezes
    <3> HIDE DEF S
    <3>3. CASE frz[f] = "absent"
      <4>1. ActiveFreezes(v) = S /\ ActiveFreezes(v)' = S \cup {f}
        BY <2>1, <2>3, <2>4, <2>8, <3>3 DEF ActiveFreezes, S
      <4>2. frozen'[v] = frozen[v] + Amount[f]
        BY <2>4, <2>8, <3>1, <3>3
      <4>3. frozen[v] \in Int /\ Amount[f] \in Int /\ frozen[v] = SumFunctionOnSet(Amount, ActiveFreezes(v))
        BY <2>1, <2>6, <3>1
      <4> QED BY <3>2, <4>1, <4>2, <4>3
    <3>4. CASE frz[f] = "active"
      <4>1. ActiveFreezes(v) = S \cup {f} /\ ActiveFreezes(v)' = S
        BY <2>1, <2>3, <2>4, <2>8, <3>4 DEF ActiveFreezes, S
      <4>2. frozen'[v] = frozen[v] - Amount[f]
        BY <2>4, <2>8, <3>1, <3>4
      <4>3. frozen[v] \in Int /\ Amount[f] \in Int /\ frozen[v] = SumFunctionOnSet(Amount, ActiveFreezes(v))
        BY <2>1, <2>6, <3>1
      <4> QED BY <3>2, <4>1, <4>2, <4>3
    <3> QED BY <2>4, <3>3, <3>4
  <2> QED BY <2>7, <2>8
<1>5. ASSUME NEW w \in Workers,
             \/ CommitDeposit(w) \/ CommitManualRefund(w) \/ CommitOrder(w) \/ CommitRefund(w)
             \/ CloseOrder(w) \/ CommitAdjust(w)
      PROVE  FreezesCovered'
  <2>1. UNCHANGED <<frozen, frz>>
    BY <1>5 DEF CommitDeposit, CommitManualRefund, CommitOrder, CommitRefund, CloseOrder,
                CommitAdjust, WriteBalance, wallets, rows
  <2>2. raced \subseteq raced'
    BY <1>5 DEF CommitDeposit, CommitManualRefund, CommitOrder, CommitRefund, CloseOrder,
                CommitAdjust, WriteBalance, Race
  <2> QED BY <1>1, <2>1, <2>2
<1>6. ASSUME NEW p \in Payments, InitiateDeposit(p) \/ CancelQicard(p) \/ RefundQicard(p)
      PROVE  FreezesCovered'
  BY <1>1, <1>6 DEF InitiateDeposit, CancelQicard, RefundQicard, wallets
<1>7. ASSUME NEW o \in Orders, PlaceOrder(o) PROVE FreezesCovered'
  BY <1>1, <1>7 DEF PlaceOrder, wallets
<1>8. CASE UNCHANGED vars
  BY <1>1, <1>8 DEF vars, wallets, rows
<1> QED BY <1>2, <1>3, <1>4, <1>5, <1>6, <1>7, <1>8 DEF Next, Commit

\* Freezes and releases that overlap without racing keep the frozen balance equal to
\* the amounts of the wallet's active freezes.
THEOREM LedgerFreezesCovered == Spec => []FreezesCovered
<1>1. Init => LockInv /\ WalletInv /\ FreezesCovered
  <2> SUFFICES ASSUME Init PROVE FreezesCovered
    BY InitInv
  <2>1. \A u \in Users : frozen[u] = 0 /\ ActiveFreezes(u) = {}
    BY DEF Init, ActiveFreezes
  <2>2. SumFunctionOnSet(Amount, {}) = 0
    BY SumOfFreezes
  <2> QED BY <2>1, <2>2 DEF FreezesCovered
<1>2. LockInv /\ WalletInv /\ FreezesCovered /\ [Next]_vars => (LockInv /\ WalletInv /\ FreezesCovered)'
  BY LockStep, WalletStep, CoveredStep
<1> QED BY <1>1, <1>2, PTL DEF Spec

-----------------------------------------------------------------------------
(* What the journal of a wallet consists of                                *)

MoneyRows(u) == {x \in Payments \cup Orders : Owner[x] = u}

\* The journal of a wallet is made of the entries for its owner's payments and orders,
\* and of what administrators have added to it.
JournalAddsUp ==
  \A u \in Users :
    /\ posted[u] - SumFunctionOnSet(net, MoneyRows(u)) \in Nat
    /\ Adjustments = {} => posted[u] = SumFunctionOnSet(net, MoneyRows(u))

JournalInv == RowTypes /\ posted \in [Users -> Int] /\ JournalAddsUp

LEMMA MoneyRowsAreFinite ==
  ASSUME NEW u
  PROVE  IsFiniteSet(MoneyRows(u))
<1>1. MoneyRows(u) \subseteq Rows
  BY DEF MoneyRows, Rows
<1> QED BY <1>1, RowsAreFinite, FS_Subset

\* An entry is added to the wallet of its row's owner.
LEMMA EntryAddsUp ==
  ASSUME JournalInv, NEW x \in Payments \cup Orders, NEW a \in Int, Settle!Enter(x, a)
  PROVE  posted' \in [Users -> Int] /\ JournalAddsUp'
<1>1. /\ Owner[x] \in Users
      /\ posted' = [posted EXCEPT ![Owner[x]] = posted[Owner[x]] + a]
      /\ net' = [net EXCEPT ![x] = net[x] + a]
  BY OwnerIsUser DEF Settle!Enter, Rows
<1>2. posted \in [Users -> Int] /\ net \in [Payments \cup Orders -> Int]
  BY DEF JournalInv, RowTypes
<1>3. ASSUME NEW u \in Users
      PROVE  /\ SumFunctionOnSet(net', MoneyRows(u)) - SumFunctionOnSet(net, MoneyRows(u))
                  = posted'[u] - posted[u]
             /\ SumFunctionOnSet(net, MoneyRows(u)) \in Int
             /\ SumFunctionOnSet(net', MoneyRows(u)) \in Int
  <2> DEFINE S == MoneyRows(u)
  <2>0. IsFiniteSet(S) /\ \A y \in S : net[y] \in Int /\ net'[y] \in Int
    <3>1. IsFiniteSet(S)
      BY MoneyRowsAreFinite
    <3>2. \A y \in S : y \in Payments \cup Orders
      BY DEF MoneyRows
    <3> HIDE DEF S
    <3> QED BY <1>1, <1>2, <3>1, <3>2
  <2>1. CASE u = Owner[x]
    <3>1. x \in S /\ net'[x] = net[x] + a /\ \A y \in S \ {x} : net'[y] = net[y]
      BY <1>1, <1>2, <2>1 DEF MoneyRows
    <3> HIDE DEF S
    <3>2. SumFunctionOnSet(net', S) = SumFunctionOnSet(net, S) + a
      BY <2>0, <3>1, SumMoves
    <3>3. SumFunctionOnSet(net, S) \in Int
      BY <2>0, SumTakesOut
    <3> QED BY <1>1, <1>2, <2>1, <3>2, <3>3 DEF S
  <2>2. CASE u # Owner[x]
    <3>1. \A y \in S : net'[y] = net[y]
      BY <1>1, <1>2, <2>2 DEF MoneyRows
    <3> HIDE DEF S
    <3>2. SumFunctionOnSet(net', S) = SumFunctionOnSet(net, S)
      BY <2>0, <3>1, SumAgrees
    <3>3. SumFunctionOnSet(net, S) \in Int
      BY <2>0, SumTakesOut
    <3> QED BY <1>1, <1>2, <2>2, <3>2, <3>3 DEF S
  <2> QED BY <2>1, <2>2
<1>4. posted' \in [Users -> Int]
  BY <1>1, <1>2
<1>5. ASSUME NEW u \in Users
      PROVE  /\ posted'[u] - SumFunctionOnSet(net', MoneyRows(u)) \in Nat
             /\ Adjustments = {} => posted'[u] = SumFunctionOnSet(net', MoneyRows(u))
  <2>1. /\ posted[u] - SumFunctionOnSet(net, MoneyRows(u)) \in Nat
        /\ Adjustments = {} => posted[u] = SumFunctionOnSet(net, MoneyRows(u))
    BY DEF JournalInv, JournalAddsUp
  <2>2. PICK b, c, m, n :
          /\ b = posted[u] /\ c = posted'[u]
          /\ m = SumFunctionOnSet(net, MoneyRows(u)) /\ n = SumFunctionOnSet(net', MoneyRows(u))
    OBVIOUS
  <2>3. b \in Int /\ c \in Int /\ m \in Int /\ n \in Int /\ n - m = c - b
    BY <1>2, <1>3, <1>4, <2>2
  <2>4. c - n = b - m
    BY <2>3
  <2>5. b = m => c = n
    BY <2>3
  <2> QED BY <2>1, <2>2, <2>4, <2>5
<1>6. \A u \in Users : MoneyRows(u)' = MoneyRows(u)
  BY DEF MoneyRows
<1> QED BY <1>4, <1>5, <1>6 DEF JournalAddsUp, MoneyRows

LEMMA JournalStep == JournalInv /\ [Settle!Next]_(Settle!settlementVars) => JournalInv'
<1> SUFFICES ASSUME JournalInv, [Settle!Next]_(Settle!settlementVars)
             PROVE  posted' \in [Users -> Int] /\ JournalAddsUp'
  BY RowTypesStep DEF JournalInv
<1>1. CASE UNCHANGED <<net, posted>>
  BY <1>1 DEF JournalInv, JournalAddsUp, MoneyRows
<1>2. CASE \E x \in Payments \cup Orders, a \in Int : Settle!Enter(x, a)
  BY <1>2, EntryAddsUp
<1>3. CASE \E u \in Users, a \in Adjustments : Settle!Adjust(u, a)
  <2>1. PICK u \in Users, a \in Adjustments : Settle!Adjust(u, a)
    BY <1>3
  <2>2. posted' = [posted EXCEPT ![u] = posted[u] + a] /\ net' = net /\ a \in Nat
    BY <2>1, AdjustmentIsPositive DEF Settle!Adjust
  <2>3. ASSUME NEW v \in Users
        PROVE  posted'[v] - SumFunctionOnSet(net, MoneyRows(v)) \in Nat
    <3>1. \A y \in MoneyRows(v) : net[y] \in Int
      BY DEF MoneyRows, JournalInv, RowTypes
    <3>2. SumFunctionOnSet(net, MoneyRows(v)) \in Int
      BY <3>1, MoneyRowsAreFinite, SumTakesOut
    <3>3. posted[v] - SumFunctionOnSet(net, MoneyRows(v)) \in Nat
      BY DEF JournalInv, JournalAddsUp
    <3> QED BY <2>2, <3>2, <3>3 DEF JournalInv
  <2> QED BY <2>1, <2>2, <2>3 DEF JournalInv, JournalAddsUp, MoneyRows
<1>4. CASE \E p \in Payments : Settle!Credit(p) \/ Settle!Withdraw(p)
  <2>1. PICK p \in Payments : Settle!Enter(p, Amount[p]) \/ Settle!Enter(p, -Amount[p])
    BY <1>4 DEF Settle!Credit, Settle!Withdraw
  <2>2. Amount[p] \in Int /\ -Amount[p] \in Int
    BY AmountIsPositive DEF Rows
  <2> QED BY <1>2, <2>1, <2>2
<1>5. CASE \E o \in Orders : Settle!Charge(o) \/ \E a \in 1..Amount[o] : Settle!GiveBack(o, a)
  <2>1. PICK o \in Orders :
          Settle!Enter(o, -Amount[o]) \/ \E a \in 1..Amount[o] : Settle!Enter(o, a)
    BY <1>5 DEF Settle!Charge, Settle!GiveBack
  <2>2. Amount[o] \in Int /\ -Amount[o] \in Int
    BY AmountIsPositive DEF Rows
  <2> QED BY <1>2, <2>1, <2>2
<1> QED BY <1>1, <1>3, <1>4, <1>5 DEF Settle!Next, Settle!settlementVars, Settle!Open,
     Settle!Void, Settle!Return, Settle!Place, Settle!Close

\* Nothing but payments, orders and adjustments is ever in a wallet's journal: whatever
\* implements Settlement can be audited row by row.
THEOREM SettlementAddsUp == Settles => []JournalAddsUp
<1>1. Settle!Init => JournalInv
  <2> SUFFICES ASSUME Settle!Init PROVE JournalInv
    OBVIOUS
  <2>1. RowTypes /\ posted \in [Users -> Int]
    BY DEF Settle!Init, RowTypes
  <2>2. ASSUME NEW u \in Users PROVE posted[u] = 0 /\ SumFunctionOnSet(net, MoneyRows(u)) = 0
    <3>1. posted[u] = 0 /\ \A x \in MoneyRows(u) : net[x] = 0
      BY DEF Settle!Init, MoneyRows
    <3> QED BY <3>1, MoneyRowsAreFinite, SumOfZeros
  <2> QED BY <2>1, <2>2 DEF JournalInv, JournalAddsUp
<1>2. JournalInv => JournalAddsUp
  BY DEF JournalInv
<1> QED BY <1>1, <1>2, JournalStep, PTL DEF Settles, Settle!Spec

\* So the balance of a wallet that nobody has raced on is what its owner's payments
\* brought in, less what the orders took, plus what administrators added.
THEOREM BalanceIsExplained ==
  Spec =>
    [](\A u \in Users \ raced : balance[u] - SumFunctionOnSet(net, MoneyRows(u)) \in Nat)
<1>1. /\ ConservedUnlessRaced /\ JournalAddsUp
      => \A u \in Users \ raced : balance[u] - SumFunctionOnSet(net, MoneyRows(u)) \in Nat
  BY DEF ConservedUnlessRaced, JournalAddsUp
<1> QED BY <1>1, LedgerConserved, LedgerSettles, SettlementAddsUp, PTL

-----------------------------------------------------------------------------
(* Requests of one user, one at a time                                     *)

\* No request holds an unlocked copy of a wallet that another one is working on.
OneRequestPerWallet ==
  \A v, w \in Workers :
    v # w /\ pc[v] = "loaded" /\ Busy(w) => job[v].user # job[w].user

LEMMA NobodyRaces ==
  ASSUME LockInv, OneRequestPerWallet, [Next]_vars
  PROVE  raced' = raced
<1>1. ASSUME NEW w \in Workers, pc[w] = "locked", Race(w) PROVE raced' = raced
  BY <1>1 DEF Race, Overtaken, OneRequestPerWallet, Busy
<1>2. ASSUME NEW w \in Workers, Commit(w) PROVE raced' = raced
  BY <1>1, <1>2 DEF Commit, CommitDeposit, CommitManualRefund, CommitOrder, CommitRefund, CloseOrder,
     CommitFreeze, CommitRelease, CommitAdjust, WriteBalance, WriteFrozen, Serving
<1>3. ASSUME NEW w \in Workers, Request(w) PROVE raced' = raced
  BY <1>3, RequestJob DEF Begun
<1> QED BY <1>2, <1>3 DEF Next, LockWallet, Rollback, InitiateDeposit, CancelQicard,
     RefundQicard, PlaceOrder, vars

\* The unlocked copy of the wallet is the only way to break the books: where no request
\* works on a wallet while another holds such a copy, the balance is always the sum of
\* the journal, what is frozen is the sum of the active freezes, and no order spends it.
THEOREM LedgerSoundOneAtATime ==
  Spec /\ []OneRequestPerWallet =>
    /\ []Conserved
    /\ [](\A u \in Users : frozen[u] = SumFunctionOnSet(Amount, ActiveFreezes(u)))
    /\ SpendsAvailableOnly
<1> DEFINE Covered == \A u \in Users : frozen[u] = SumFunctionOnSet(Amount, ActiveFreezes(u))
           Unraced == raced = {}
           Available1 == \A o \in Orders : Charged(o) => balance'[Owner[o]] >= frozen'[Owner[o]]
<1>1. Init => Unraced
  BY DEF Init
<1>2. LockInv /\ Unraced /\ OneRequestPerWallet /\ [Next]_vars => Unraced'
  BY NobodyRaces
<1>3. Unraced /\ ConservedUnlessRaced => Conserved
  BY DEF ConservedUnlessRaced, Conserved
<1>4. Unraced /\ FreezesCovered => Covered
  BY DEF FreezesCovered
<1>5. LockInv /\ WalletInv /\ [Next]_vars => (LockInv /\ WalletInv)'
  BY LockStep, WalletStep
<1>6. LockInv /\ WalletInv /\ Unraced /\ [Next]_vars => [Available1]_vars
  BY ChargeStep DEF SpendStep
<1>7. [Available1]_vars <=>
        [\A o \in Orders : Charged(o) => balance'[Owner[o]] >= frozen'[Owner[o]]]_vars
  OBVIOUS
<1> HIDE DEF Covered, Unraced, Available1
<1>8. Spec /\ []OneRequestPerWallet => []Conserved
  BY <1>1, <1>2, <1>3, <1>5, InitInv, LedgerConserved, PTL DEF Spec
<1>9. Spec /\ []OneRequestPerWallet => []Covered
  BY <1>1, <1>2, <1>4, <1>5, InitInv, LedgerFreezesCovered, PTL DEF Spec
<1>10. Spec /\ []OneRequestPerWallet => SpendsAvailableOnly
  BY <1>1, <1>2, <1>5, <1>6, <1>7, InitInv, PTL DEF Spec, SpendsAvailableOnly
<1> QED BY <1>8, <1>9, <1>10 DEF Covered
=============================================================================
