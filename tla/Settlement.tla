----------------------------- MODULE Settlement -----------------------------
(***************************************************************************)
(* What the money side of the server promises, with no workers, locks or   *)
(* copies: every business event is one atomic step that changes the status *)
(* of its row and writes the matching wallet_transactions row with it.     *)
(* The journal is kept as two running totals: net[x], over the entries     *)
(* written for row x, and posted[u], over all entries of u's wallet.       *)
(* Ledger is the detailed specification that implements this one.          *)
(***************************************************************************)
EXTENDS Integers

CONSTANTS Users, Payments, Orders, Owner, Amount, Adjustments

VARIABLES pay, ord, refunded, net, posted

settlementVars == <<pay, ord, refunded, net, posted>>

Init ==
  /\ pay = [p \in Payments |-> "absent"]
  /\ ord = [o \in Orders |-> "absent"]
  /\ refunded = [o \in Orders |-> 0]
  /\ net = [x \in Payments \cup Orders |-> 0]
  /\ posted = [u \in Users |-> 0]

\* One journal entry of amount a for row x, in the wallet of x's owner.
Enter(x, a) ==
  /\ net' = [net EXCEPT ![x] = @ + a]
  /\ posted' = [posted EXCEPT ![Owner[x]] = @ + a]

\* A payment changes status; the journal is not involved.
Payment(p, from, to) ==
  /\ pay[p] = from
  /\ pay' = [pay EXCEPT ![p] = to]
  /\ UNCHANGED <<ord, refunded>>

Open(p)     == Payment(p, "absent", "pending") /\ UNCHANGED <<net, posted>>
Void(p)     == Payment(p, "pending", "cancelled") /\ UNCHANGED <<net, posted>>
Return(p)   == Payment(p, "completed", "refunded") /\ UNCHANGED <<net, posted>>
Credit(p)   == Payment(p, "pending", "completed") /\ Enter(p, Amount[p])
Withdraw(p) == Payment(p, "completed", "refunded") /\ Enter(p, -Amount[p])

\* An order is placed for approval, or closed by an administrator.
Place(o) ==
  /\ ord[o] = "absent"
  /\ ord' = [ord EXCEPT ![o] = "pending_approval"]
  /\ UNCHANGED <<pay, refunded, net, posted>>

Close(o) ==
  /\ ord[o] # "absent"
  /\ ord' = [ord EXCEPT ![o] = "cancelled"]
  /\ UNCHANGED <<pay, refunded, net, posted>>

\* The total is taken from the wallet, at once or on approval.
Charge(o) ==
  /\ ord[o] \in {"absent", "pending_approval"}
  /\ ord' = [ord EXCEPT ![o] = "paid"]
  /\ Enter(o, -Amount[o])
  /\ UNCHANGED <<pay, refunded>>

\* Part a of what was taken and not yet given back returns to the wallet.
GiveBack(o, a) ==
  /\ ord[o] = "paid"
  /\ refunded[o] + a <= Amount[o]
  /\ refunded' = [refunded EXCEPT ![o] = @ + a]
  /\ ord' = [ord EXCEPT ![o] = IF refunded'[o] = Amount[o] THEN "refunded" ELSE "paid"]
  /\ Enter(o, a)
  /\ UNCHANGED pay

Adjust(u, a) ==
  /\ posted' = [posted EXCEPT ![u] = @ + a]
  /\ UNCHANGED <<pay, ord, refunded, net>>

Next ==
  \/ \E p \in Payments : Open(p) \/ Void(p) \/ Return(p) \/ Credit(p) \/ Withdraw(p)
  \/ \E o \in Orders : Place(o) \/ Close(o) \/ Charge(o)
  \/ \E o \in Orders : \E a \in 1..Amount[o] : GiveBack(o, a)
  \/ \E u \in Users, a \in Adjustments : Adjust(u, a)

Spec == Init /\ [][Next]_settlementVars
=============================================================================
