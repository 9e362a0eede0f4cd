----------------------------- MODULE Providers -----------------------------
(***************************************************************************)
(* The HTTP clients of the payment gateways and of the eSIM provider, with *)
(* one payment, or one order of an eSIM, each: what they ask for, what     *)
(* happens at the provider, perhaps after the client has given up waiting, *)
(* and what they make of the reply.                                        *)
(***************************************************************************)
EXTENDS Requests

VARIABLES
  client,     \* the provider asked
  simulated,  \* test mode without credentials: nothing is asked
  begun,      \* the payment, or the order, has been asked for
  there,      \* the gateway's session, or the order
  taken,      \* history: the gateway has taken the customer's money
  calls,      \* the workers' calls
  pending,    \* calls the client has given up, on their way to the provider
  said,       \* history: what the services have been told
  entry       \* status of the latest row in esim_provider_transactions

providerVars == <<client, simulated, begun, there, taken, calls, pending, said, entry>>

Clients == {"zaincash", "qicard", "fib", "esimgo"}
Operations == {"initiate", "status", "cancel", "refund", "order"}
There == {"none", "created", "captured", "declined", "cancelled", "returned", "ordered"}
\* "done"; "kept": answered, not done; "empty": a field is missing that the client needs;
\* "raw": status 200 and no JSON; "error": an error with status 200; "refused": any other
\* status.
Replies == There \cup {"done", "kept", "empty", "raw", "error", "refused"}

Call == [at : {"idle", "token", "sent", "answered"}, op : Operations, reply : Replies]
NoCall == [at |-> "idle", op |-> "status", reply |-> "none"]

ProvidersTypeOK ==
  /\ client \in Clients
  /\ {simulated, begun, taken} \subseteq BOOLEAN
  /\ there \in There
  /\ calls \in [Workers -> Call]
  /\ pending \subseteq Operations
  /\ said \subseteq {"link", "notified", "paid", "canceled", "ordered"}
  /\ entry \in {"none", "success", "refused", "unanswered"}

ProvidersInit ==
  /\ client \in Clients
  /\ simulated \in BOOLEAN /\ (simulated => client \in {"zaincash", "qicard"})
  /\ begun = FALSE /\ there = "none" /\ taken = FALSE
  /\ calls = [w \in Workers |-> NoCall]
  /\ pending = {} /\ said = {} /\ entry = "none"

-----------------------------------------------------------------------------
(* The clients' requests                                                   *)

Ask(w, at, op) ==
  /\ calls[w] = NoCall /\ ~simulated
  /\ calls' = [calls EXCEPT ![w] = [at |-> at, op |-> op, reply |-> "none"]]
  /\ UNCHANGED <<client, simulated, there, taken, pending, said, entry>>

\* The service asks once for each payment, and once for each item.
Once == ~begun /\ begun' = TRUE

InitiateZaincash(w) == client = "zaincash" /\ Once /\ Ask(w, "token", "initiate")
InitiateQicard(w) == client = "qicard" /\ Once /\ Ask(w, "sent", "initiate")
InitiateFib(w) == client = "fib" /\ Once /\ Ask(w, "sent", "initiate")
OrderEsim(w) == client = "esimgo" /\ Once /\ Ask(w, "sent", "order")

GetAccessToken(w) ==
  /\ calls[w].at = "token"
  /\ calls' \in {[calls EXCEPT ![w].at = "sent"], [calls EXCEPT ![w] = NoCall]}
  /\ UNCHANGED <<client, simulated, begun, there, taken, pending, said, entry>>

VerifyPayment(w) == client = "qicard" /\ Ask(w, "sent", "status") /\ UNCHANGED begun

CancelOrRefund(w, op) ==
  /\ client = "qicard" /\ begun
  /\ op \in {"cancel", "refund"} /\ Ask(w, "sent", op)
  /\ UNCHANGED begun

\* What the client answers without asking.
Simulate(claim) ==
  /\ simulated
  /\ said' = said \cup {claim}
  /\ UNCHANGED <<client, simulated, begun, there, taken, calls, pending, entry>>

-----------------------------------------------------------------------------
(* The providers                                                           *)

\* The replies to a call and what it does to the session.
Effects(op) ==
  CASE op = "initiate" /\ there = "none" -> {<<"done", "created">>, <<"empty", "created">>}
    [] op = "order" /\ there = "none" ->
         {<<"done", "ordered">>, <<"empty", "ordered">>, <<"empty", there>>}
    [] op = "status" -> {<<there, there>>}
    [] op = "cancel" /\ there = "created" -> {<<"done", "cancelled">>, <<"kept", there>>}
    [] op \in {"cancel", "refund"} /\ there = "captured" ->
         {<<"done", "returned">>, <<"kept", there>>}
    [] OTHER -> {<<"kept", there>>}

\* An error, or a page of a proxy instead of JSON, may be answered before the provider
\* does anything, or after it.
Serve(w) ==
  /\ calls[w].at = "sent"
  /\ \E e \in Effects(calls[w].op) : \E r \in {e[1], "raw", "error", "refused"} :
       /\ there' \in {e[2]} \cup (IF r = e[1] THEN {} ELSE {there})
       /\ calls' = [calls EXCEPT ![w].at = "answered", ![w].reply = r]
  /\ UNCHANGED <<client, simulated, begun, taken, pending, said, entry>>

ServeLate(op) ==
  /\ op \in pending /\ pending' = pending \ {op}
  /\ \E e \in Effects(op) : there' = e[2]
  /\ UNCHANGED <<client, simulated, begun, taken, calls, said, entry>>

\* The customer pays at the link he was given.
TakeMoney ==
  /\ there = "created" /\ "link" \in said
  /\ \/ there' = "captured" /\ taken' = TRUE
     \/ there' = "declined" /\ UNCHANGED taken
  /\ UNCHANGED <<client, simulated, begun, calls, pending, said, entry>>

-----------------------------------------------------------------------------
(* What the clients make of it                                             *)

\* Every call of the eSIM provider is logged in a transaction of its own; an error of
\* the log is swallowed.
LogTransaction(status) == entry' \in {entry, status}

Hang(w) == calls' = [calls EXCEPT ![w] = NoCall]

\* No connection, or no answer in time.
Unavailable(w) ==
  /\ calls[w].at = "sent"
  /\ Hang(w)
  /\ pending' = pending \cup {calls[w].op}
  /\ IF client = "esimgo" THEN LogTransaction("unanswered") ELSE UNCHANGED entry
  /\ UNCHANGED <<client, simulated, begun, there, taken, said>>

\* The call ends with the claims it makes; an error claims nothing.
Tell(w, claims) ==
  /\ calls[w].at = "answered" /\ Hang(w)
  /\ said' = said \cup claims
  /\ UNCHANGED <<client, simulated, begun, there, taken, pending>>

\* A missing transaction id or link is an error; so is, to a gateway's client, a reply
\* that is not JSON.
ZaincashInitiated(w) ==
  /\ client = "zaincash"
  /\ Tell(w, IF calls[w].reply = "done" THEN {"link"} ELSE {})
  /\ UNCHANGED entry

QicardInitiated(w) ==
  /\ client = "qicard" /\ calls[w].op = "initiate"
  /\ Tell(w, IF calls[w].reply = "done" THEN {"link"} ELSE {})
  /\ UNCHANGED entry

\* The link is in redirect_url, which the service does not read, and a failure is a
\* result as any other.
FibInitiated(w) == client = "fib" /\ Tell(w, {}) /\ UNCHANGED entry

\* Variant: a result code of 0 is a success, too, as it is in a webhook.
StatusByResultCode(reply) == reply \in {"captured", "declined"}

\* SUCCESS is the only status that is a success; an error is UNKNOWN.
IsSuccess(reply) == reply = "captured"

QicardStatus(w) ==
  /\ client = "qicard" /\ calls[w].op = "status"
  /\ Tell(w, IF IsSuccess(calls[w].reply) THEN {"paid"} ELSE {})
  /\ UNCHANGED entry

QicardClosed(w) ==
  /\ client = "qicard" /\ calls[w].op \in {"cancel", "refund"}
  /\ Tell(w, IF calls[w].reply = "done" THEN {"canceled"} ELSE {})
  /\ UNCHANGED entry

\* The eSIM provider's client returns, and logs as a success, every reply below status 400
\* that does not call itself an error, one that is not JSON included.
TakenAsSuccess(reply) == reply \notin {"error", "refused"}

\* Variant: what the client returns is an eSIM.
ResultIsEsim(reply) == TakenAsSuccess(reply)

\* Only a result with an eSIM and its ICCID is one to the service.
HasEsim(reply) == reply = "done"

EsimOrdered(w) ==
  /\ client = "esimgo"
  /\ Tell(w, IF HasEsim(calls[w].reply) THEN {"ordered"} ELSE {})
  /\ LogTransaction(IF TakenAsSuccess(calls[w].reply) THEN "success" ELSE "refused")

Hear(claims) ==
  /\ ~simulated
  /\ said' = said \cup claims
  /\ UNCHANGED <<client, simulated, begun, there, taken, calls, pending, entry>>

\* Only the gateway can sign: SUCCESS only for money it has taken.
Signed(status) == there # "none" /\ (status = "SUCCESS" => taken)

VerifyCallback(status) ==
  /\ client = "zaincash" /\ Signed(status)
  /\ Hear(IF status = "SUCCESS" THEN {"paid"} ELSE {})

HandleWebhook(status, code) ==
  /\ client = "qicard" /\ Signed(status)
  /\ Hear(IF status = "SUCCESS" \/ code = "0" THEN {"notified"} ELSE {})

\* The client is asked about another payment or item.
AskAnew ==
  /\ begun /\ pending = {} /\ \A w \in Workers : calls[w] = NoCall
  /\ begun' = FALSE /\ there' = "none" /\ taken' = FALSE
  /\ said' = {} /\ entry' = "none"
  /\ UNCHANGED <<client, simulated, calls, pending>>

ProvidersNext ==
  \/ \E w \in Workers :
       \/ InitiateZaincash(w) \/ InitiateQicard(w) \/ InitiateFib(w) \/ OrderEsim(w)
       \/ GetAccessToken(w) \/ VerifyPayment(w)
       \/ CancelOrRefund(w, "cancel") \/ CancelOrRefund(w, "refund")
       \/ Serve(w) \/ Unavailable(w)
       \/ ZaincashInitiated(w) \/ QicardInitiated(w) \/ FibInitiated(w)
       \/ QicardStatus(w) \/ QicardClosed(w) \/ EsimOrdered(w)
  \/ \E op \in Operations : ServeLate(op)
  \/ Simulate("link") \/ Simulate("paid")
  \/ TakeMoney \/ AskAnew
  \/ \E s \in {"SUCCESS", "FAILED", "EXPIRED", "REFUNDED"} :
       VerifyCallback(s) \/ \E c \in {"0", "1"} : HandleWebhook(s, c)

ProvidersSpec == ProvidersInit /\ [][ProvidersNext]_providerVars

-----------------------------------------------------------------------------
\* A payment is told to be open, paid, or taken back, and an item is given an eSIM, only
\* if that has happened at the provider, whatever of its calls is late, lost, answered
\* with an error after it was carried out, or answered with something that is not JSON.
ClaimsAreTrue ==
  ~simulated =>
    /\ "paid" \in said => taken
    /\ "link" \in said => there # "none"
    /\ "canceled" \in said => there \in {"cancelled", "returned"}
    /\ "ordered" \in said => there = "ordered"
=============================================================================
