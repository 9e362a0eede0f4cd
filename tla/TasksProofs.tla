---------------------------- MODULE TasksProofs ----------------------------
(***************************************************************************)
(* Text messages, the providers' clients, push notices and backups: what   *)
(* they keep for any number of workers, and the types of all services.     *)
(***************************************************************************)
EXTENDS RequestsProofs, CatalogueProofs

-----------------------------------------------------------------------------
(* Messages: a code that is not a registration's is stored before it is     *)
(* sent, and nothing is logged before the provider has answered.            *)

MessagesInv ==
  /\ MessagesTypeOK /\ MessagesKept
  /\ \A m \in Texts :
       /\ code[m] = "none" <=> origin[m] = "none"
       /\ origin[m] = "none" => sms[m] = "unsent"
       /\ origin[m] = "send_otp" => code[m] = "stored"
       /\ sms[m] \in {"unsent", "calling"} => logged[m] = "none"

LEMMA MessagesInitially == MessagesInit => MessagesInv
BY DEF MessagesInit, MessagesInv, MessagesTypeOK, MessagesKept, ReceivedIsStored, SentAsRecorded

LEMMA MessagesKeptBy == MessagesInv /\ [MessagesNext]_messageVars => MessagesInv'
<1> SUFFICES ASSUME MessagesInv, [MessagesNext]_messageVars
             PROVE  MessagesInv'
  OBVIOUS
<1> USE DEF MessagesInv, MessagesTypeOK, MessagesKept, ReceivedIsStored, SentAsRecorded
<1>a. CASE UNCHANGED messageVars
  BY <1>a DEF messageVars
<1>1. ASSUME NEW m \in Texts, RegisterUser(m) \/ SendOtpCode(m)
      PROVE  MessagesInv'
  BY <1>1 DEF RegisterUser, SendOtpCode
<1>2. ASSUME NEW m \in Texts, CallOtpiq(m) \/ CallBulkSMSIraq(m)
      PROVE  MessagesInv'
  BY <1>2 DEF CallOtpiq, CallBulkSMSIraq, SendText
<1>3. ASSUME NEW m \in Texts, SkipProvider(m)
      PROVE  MessagesInv'
  BY <1>3 DEF SkipProvider, Answer
<1>4. ASSUME NEW m \in Texts, Accepted(m)
      PROVE  MessagesInv'
  BY <1>4 DEF Accepted, Answer, Arrive
<1>5. ASSUME NEW m \in Texts, BulkAccepted(m)
      PROVE  MessagesInv'
  BY <1>5 DEF BulkAccepted, Answer, Arrive
<1>6. ASSUME NEW m \in Texts, Rejected(m)
      PROVE  MessagesInv'
  BY <1>6 DEF Rejected, Answer
<1>7. ASSUME NEW m \in Texts, Unanswered(m) \/ BulkUnanswered(m)
      PROVE  MessagesInv'
  BY <1>7 DEF Unanswered, BulkUnanswered, Answer, Arrive
<1>8. ASSUME NEW m \in Texts, CommitUser(m) \/ RollBackUser(m)
      PROVE  MessagesInv'
  BY <1>8 DEF CommitUser, RollBackUser
<1>9. ASSUME NEW m \in Texts, Expire(m)
      PROVE  MessagesInv'
  BY <1>9 DEF Expire
<1> QED
  BY <1>a, <1>1, <1>2, <1>3, <1>4, <1>5, <1>6, <1>7, <1>8, <1>9 DEF MessagesNext

-----------------------------------------------------------------------------
(* Providers: a reply that is on its way is still true when it is heard,    *)
(* for what has happened at a provider is never undone but by a call.       *)

OperationsOf(c) ==
  CASE c = "qicard" -> Operations \ {"order"}
    [] c = "esimgo" -> {"order"}
    [] OTHER -> {"initiate"}

TrueReply(c) ==
  /\ c.reply = "captured" => taken
  /\ c.reply = "done" =>
       CASE c.op = "initiate" -> there # "none"
         [] c.op = "order" -> there = "ordered"
         [] OTHER -> there \in {"cancelled", "returned"}

ProvidersInv ==
  /\ ProvidersTypeOK /\ ClaimsAreTrue
  /\ ~begun => there = "none" /\ pending \cap {"initiate", "order"} = {}
  /\ there \in {"captured", "returned"} => taken
  /\ "link" \in said => client # "fib"
  /\ simulated => client \in {"zaincash", "qicard"}
  /\ pending \subseteq OperationsOf(client)
  /\ \A w \in Workers :
       /\ TrueReply(calls[w])
       /\ calls[w].at # "idle" =>
            /\ calls[w].op \in OperationsOf(client)
            /\ calls[w].op \in {"initiate", "order"} => begun

LEMMA ProvidersInitially == ProvidersInit => ProvidersInv
<1> SUFFICES ASSUME ProvidersInit
             PROVE  ProvidersInv
  OBVIOUS
<1>1. NoCall \in Call /\ NoCall.reply = "none" /\ NoCall.at = "idle"
  BY DEF NoCall, Call, Operations, Replies, There
<1> QED
  BY <1>1 DEF ProvidersInit, ProvidersInv, ProvidersTypeOK, ClaimsAreTrue, TrueReply,
     There

\* What a call does at the provider: nothing final is undone, and a reply is true.
LEMMA EffectsKeep ==
  ASSUME there \in There, NEW op \in Operations, NEW e \in Effects(op)
  PROVE  /\ e[1] \in Replies /\ e[2] \in There
         /\ there # "none" => e[2] # "none"
         /\ there = "none" /\ op \notin {"initiate", "order"} => e[2] = "none"
         /\ there \in {"cancelled", "returned", "ordered"} => e[2] = there
         /\ e[2] \in {"captured", "returned"} => there \in {"captured", "returned"}
         /\ e[1] = "captured" => there = "captured"
         /\ e[1] = "done" =>
              CASE op = "initiate" -> e[2] # "none"
                [] op = "order" -> e[2] = "ordered"
                [] OTHER -> e[2] \in {"cancelled", "returned"}
<1> USE DEF Operations, There, Replies
<1>1. CASE op = "initiate"
  BY <1>1 DEF Effects
<1>2. CASE op = "order"
  BY <1>2 DEF Effects
<1>3. CASE op = "status"
  BY <1>3 DEF Effects
<1>4. CASE op = "cancel"
  BY <1>4 DEF Effects
<1>5. CASE op = "refund"
  BY <1>5 DEF Effects
<1> QED
  BY <1>1, <1>2, <1>3, <1>4, <1>5

LEMMA ProvidersKeptBy == ProvidersInv /\ [ProvidersNext]_providerVars => ProvidersInv'
<1> SUFFICES ASSUME ProvidersInv, [ProvidersNext]_providerVars
             PROVE  ProvidersInv'
  OBVIOUS
<1> USE DEF ProvidersInv, ProvidersTypeOK, ClaimsAreTrue
<1>n. NoCall \in Call /\ NoCall.reply = "none" /\ NoCall.at = "idle"
  BY DEF NoCall, Call, Operations, Replies, There
<1>a. CASE UNCHANGED providerVars
  BY <1>a DEF providerVars, TrueReply
\* The clients ask.
<1>1. ASSUME NEW w \in Workers, NEW at \in {"token", "sent"}, NEW op \in OperationsOf(client),
             Ask(w, at, op), op \in Operations, begun' \in BOOLEAN,
             begun => begun', op \in {"initiate", "order"} => begun'
      PROVE  ProvidersInv'
  <2> DEFINE c == [at |-> at, op |-> op, reply |-> "none"]
  <2>1. c \in Call /\ c.reply = "none" /\ c.op = op
    BY <1>1 DEF Call, Replies, There
  <2>2. calls' = [calls EXCEPT ![w] = c]
    BY <1>1 DEF Ask
  <2> HIDE DEF c
  <2> QED
    BY <1>1, <2>1, <2>2 DEF Ask, TrueReply
<1>2. ASSUME NEW w \in Workers,
             InitiateZaincash(w) \/ InitiateQicard(w) \/ InitiateFib(w) \/ OrderEsim(w)
      PROVE  ProvidersInv'
  BY <1>1, <1>2
  DEF InitiateZaincash, InitiateQicard, InitiateFib, OrderEsim, Once, Operations, OperationsOf
<1>3. ASSUME NEW w \in Workers,
             VerifyPayment(w) \/ CancelOrRefund(w, "cancel") \/ CancelOrRefund(w, "refund")
      PROVE  ProvidersInv'
  BY <1>1, <1>3 DEF VerifyPayment, CancelOrRefund, Operations, OperationsOf
<1>4. ASSUME NEW w \in Workers, GetAccessToken(w)
      PROVE  ProvidersInv'
  BY <1>4, <1>n DEF GetAccessToken, TrueReply, Call
<1>5. CASE Simulate("link") \/ Simulate("paid")
  BY <1>5 DEF Simulate, TrueReply
\* The provider serves a call.
<1>6. ASSUME NEW op \in Operations, NEW e \in Effects(op), there' \in {there, e[2]},
             op \in {"initiate", "order"} => begun,
             UNCHANGED <<client, simulated, begun, taken, said, entry>>
      PROVE  /\ there' \in There /\ ClaimsAreTrue'
             /\ ~begun' => there' = "none"
             /\ there' \in {"captured", "returned"} => taken'
             /\ \A c \in Call : TrueReply(c) => TrueReply(c)'
  <2>1. /\ e[2] \in There
        /\ there # "none" => e[2] # "none"
        /\ there = "none" /\ op \notin {"initiate", "order"} => e[2] = "none"
        /\ there \in {"cancelled", "returned", "ordered"} => e[2] = there
        /\ e[2] \in {"captured", "returned"} => there \in {"captured", "returned"}
    BY EffectsKeep
  <2> QED
    BY <1>6, <2>1 DEF TrueReply
<1>7. ASSUME NEW w \in Workers, Serve(w)
      PROVE  ProvidersInv'
  <2> DEFINE op == calls[w].op
  <2>1. calls[w].at = "sent" /\ op \in Operations /\ (op \in {"initiate", "order"} => begun)
    BY <1>7 DEF Serve, Call
  <2>0. PICK e \in Effects(op) : \E r \in {e[1], "raw", "error", "refused"} :
          /\ there' \in {e[2]} \cup (IF r = e[1] THEN {} ELSE {there})
          /\ calls' = [calls EXCEPT ![w].at = "answered", ![w].reply = r]
    BY <1>7 DEF Serve
  <2>2. PICK r \in {e[1], "raw", "error", "refused"} :
          /\ there' \in {e[2]} \cup (IF r = e[1] THEN {} ELSE {there})
          /\ calls' = [calls EXCEPT ![w].at = "answered", ![w].reply = r]
    BY <2>0
  <2>3. UNCHANGED <<client, simulated, begun, taken, pending, said, entry>>
    BY <1>7 DEF Serve
  <2>4. r \in Replies
    BY <2>1, <2>2, EffectsKeep DEF Replies
  <2>5. calls'[w] \in Call /\ calls'[w].op = op /\ calls'[w].reply = r /\ calls'[w].at = "answered"
    BY <2>1, <2>2, <2>4 DEF Call
  <2>6. /\ there' \in There /\ ClaimsAreTrue'
        /\ ~begun' => there' = "none"
        /\ there' \in {"captured", "returned"} => taken'
        /\ \A c \in Call : TrueReply(c) => TrueReply(c)'
    BY <1>6, <2>1, <2>2, <2>3
  <2>7. TrueReply(calls[w])'
    <3>1. CASE r = e[1]
      <4>1. there' = e[2] /\ taken' = taken
        BY <2>2, <2>3, <3>1
      <4>2. /\ e[1] = "captured" => there = "captured"
            /\ e[1] = "done" =>
                 CASE op = "initiate" -> e[2] # "none"
                   [] op = "order" -> e[2] = "ordered"
                   [] OTHER -> e[2] \in {"cancelled", "returned"}
        BY <2>1, EffectsKeep
      <4> HIDE DEF op
      <4> QED
        BY <2>5, <3>1, <4>1, <4>2 DEF TrueReply
    <3>2. CASE r # e[1]
      BY <2>2, <2>5, <3>2 DEF TrueReply
    <3> QED
      BY <3>1, <3>2
  <2>8. \A v \in Workers \ {w} : calls'[v] = calls[v]
    BY <2>2
  <2> HIDE DEF op
  <2>9. \A v \in Workers : TrueReply(calls[v])'
    BY <2>6, <2>7, <2>8
  <2>10. calls' \in [Workers -> Call]
    BY <2>2, <2>5, <2>8
  <2> QED
    BY <2>1, <2>3, <2>5, <2>6, <2>8, <2>9, <2>10 DEF op
<1>8. ASSUME NEW op \in Operations, ServeLate(op)
      PROVE  ProvidersInv'
  <2>1. PICK e \in Effects(op) : there' = e[2]
    BY <1>8 DEF ServeLate
  <2>2. op \in {"initiate", "order"} => begun
    BY <1>8 DEF ServeLate
  <2> QED
    BY <1>6, <1>8, <2>1, <2>2 DEF ServeLate
<1>9. CASE TakeMoney
  <2>1. /\ there = "created" /\ "link" \in said
        /\ \/ there' = "captured" /\ taken' = TRUE
           \/ there' = "declined" /\ taken' = taken
        /\ UNCHANGED <<client, simulated, begun, calls, pending, said, entry>>
    BY <1>9 DEF TakeMoney
  <2>0. begun
    BY <2>1
  <2>3. taken \in BOOLEAN
    OBVIOUS
  <2>4. taken' \in BOOLEAN /\ (taken => taken')
    <3>1. CASE taken' = TRUE
      BY <3>1
    <3>2. CASE taken' = taken
      BY <2>3, <3>2
    <3> QED
      BY <2>1, <3>1, <3>2
  <2>2. \A w \in Workers : TrueReply(calls[w])'
    BY <2>1, <2>4 DEF TrueReply
  <2> QED
    BY <2>0, <2>1, <2>2, <2>4 DEF There
\* The clients hear, or give up.
<1>10. ASSUME NEW w \in Workers, Unavailable(w)
       PROVE  ProvidersInv'
  BY <1>10, <1>n DEF Unavailable, Hang, LogTransaction, TrueReply, Call
<1>11. ASSUME NEW w \in Workers, NEW claims \in SUBSET {"link", "paid", "canceled", "ordered"},
              Tell(w, claims), entry' \in {"none", "success", "refused", "unanswered"},
              ~simulated => /\ "paid" \in claims => taken
                            /\ "link" \in claims => there # "none"
                            /\ "canceled" \in claims => there \in {"cancelled", "returned"}
                            /\ "ordered" \in claims => there = "ordered",
              "link" \in claims => client # "fib"
       PROVE  ProvidersInv'
  BY <1>11, <1>n DEF Tell, Hang, TrueReply
<1>12. ASSUME NEW w \in Workers, ZaincashInitiated(w)
       PROVE  ProvidersInv'
  <2>1. CASE calls[w].reply = "done"
    <3>1. Tell(w, {"link"}) /\ entry' = entry
      BY <1>12, <2>1 DEF ZaincashInitiated
    <3> QED
      BY <1>11, <1>12, <2>1, <3>1 DEF ZaincashInitiated, TrueReply, OperationsOf, Tell
  <2>2. CASE calls[w].reply # "done"
    BY <1>11, <1>12, <2>2 DEF ZaincashInitiated
  <2> QED
    BY <2>1, <2>2
<1>13. ASSUME NEW w \in Workers, QicardInitiated(w)
       PROVE  ProvidersInv'
  <2>1. CASE calls[w].reply = "done"
    <3>1. Tell(w, {"link"}) /\ entry' = entry
      BY <1>13, <2>1 DEF QicardInitiated
    <3> QED
      BY <1>11, <1>13, <2>1, <3>1 DEF QicardInitiated, TrueReply, Tell
  <2>2. CASE calls[w].reply # "done"
    BY <1>11, <1>13, <2>2 DEF QicardInitiated
  <2> QED
    BY <2>1, <2>2
<1>14. ASSUME NEW w \in Workers, FibInitiated(w)
       PROVE  ProvidersInv'
  BY <1>11, <1>14 DEF FibInitiated
<1>15. ASSUME NEW w \in Workers, QicardStatus(w)
       PROVE  ProvidersInv'
  BY <1>11, <1>15 DEF QicardStatus, IsSuccess, TrueReply
<1>16. ASSUME NEW w \in Workers, QicardClosed(w)
       PROVE  ProvidersInv'
  <2>1. CASE calls[w].reply = "done"
    <3>1. Tell(w, {"canceled"}) /\ entry' = entry
      BY <1>16, <2>1 DEF QicardClosed
    <3> QED
      BY <1>11, <1>16, <2>1, <3>1 DEF QicardClosed, TrueReply, Tell
  <2>2. CASE calls[w].reply # "done"
    BY <1>11, <1>16, <2>2 DEF QicardClosed
  <2> QED
    BY <2>1, <2>2
<1>17. ASSUME NEW w \in Workers, EsimOrdered(w)
       PROVE  ProvidersInv'
  <2>1. entry' \in {"none", "success", "refused", "unanswered"}
    BY <1>17 DEF EsimOrdered, LogTransaction
  <2>2. CASE HasEsim(calls[w].reply)
    <3>1. Tell(w, {"ordered"})
      BY <1>17, <2>2 DEF EsimOrdered
    <3>2. calls[w].op = "order" /\ calls[w].reply = "done"
      BY <1>17, <2>2, <3>1 DEF EsimOrdered, HasEsim, OperationsOf, Tell
    <3> QED
      BY <1>11, <2>1, <3>1, <3>2 DEF TrueReply
  <2>3. CASE ~HasEsim(calls[w].reply)
    <3>1. Tell(w, {})
      BY <1>17, <2>3 DEF EsimOrdered
    <3> QED
      BY <1>11, <2>1, <3>1
  <2> QED
    BY <2>2, <2>3
<1>18. ASSUME NEW s, VerifyCallback(s)
       PROVE  ProvidersInv'
  BY <1>18 DEF VerifyCallback, Hear, Signed, TrueReply
<1>19. ASSUME NEW s, NEW c, HandleWebhook(s, c)
       PROVE  ProvidersInv'
  BY <1>19 DEF HandleWebhook, Hear, TrueReply
<1>20. CASE AskAnew
  BY <1>20, <1>n DEF AskAnew, TrueReply, There
<1> QED
  BY <1>a, <1>2, <1>3, <1>4, <1>5, <1>7, <1>8, <1>9, <1>10, <1>12, <1>13, <1>14, <1>15,
     <1>16, <1>17, <1>18, <1>19, <1>20 DEF ProvidersNext

-----------------------------------------------------------------------------
(* Pushes: a notice is in the hands of at most one worker, and a device     *)
(* that is still to get it has got it at most once for each interruption.   *)

Has(w, n) == task[w].at # "idle" /\ task[w].notice = n

PushesInv ==
  /\ PushesTypeOK /\ PushedOncePerTry
  /\ \A w \in Workers : task[w].at # "idle" => task[w].notice \in Notices
  /\ \A n \in Notices :
       /\ queue[n] \in {"none", "queued"} => \A t \in Tokens : got[n][t] <= cuts[n]
       /\ \A w \in Workers : Has(w, n) =>
            /\ queue[n] = "taken"
            /\ \A t \in task[w].left : got[n][t] <= cuts[n]
       /\ \A v, w \in Workers : Has(v, n) /\ Has(w, n) => v = w

LEMMA IdleIsTask == Idle \in Task /\ Idle.at = "idle"
BY DEF Idle, Task

Going(r, at, left, token) == [r EXCEPT !.at = at, !.left = left, !.token = token]

LEMMA GoesOn ==
  ASSUME NEW r \in Task, NEW at \in {"sending", "answered"}, NEW left \in SUBSET r.left,
         NEW token \in Tokens \cup {NoToken}
  PROVE  LET next == Going(r, at, left, token)
         IN  next \in Task /\ next.at = at /\ next.notice = r.notice /\ next.left = left
<1>1. left \in SUBSET Tokens
  BY DEF Task
<1> QED
  BY <1>1 DEF Task, Going

\* A device is struck off the list of those that are left.
StruckOff(r, t) == [r EXCEPT !.left = @ \ {t}]

LEMMA StruckOffIsTask ==
  ASSUME NEW r \in Task, NEW t
  PROVE  /\ StruckOff(r, t) \in Task
         /\ StruckOff(r, t).at = r.at /\ StruckOff(r, t).notice = r.notice
         /\ StruckOff(r, t).left = r.left \ {t}
BY DEF Task, StruckOff

LEMMA RetryQueues ==
  ASSUME PushesTypeOK, NEW n \in Notices, Retry(n)
  PROVE  /\ queue' \in [Notices -> {"none", "queued", "taken", "done", "dropped"}]
         /\ retries' \in [Notices -> 0..MaxRetries]
         /\ queue'[n] \in {"queued", "dropped"}
         /\ \A m \in Notices \ {n} : queue'[m] = queue[m]
<1> USE PushesAssumption DEF PushesTypeOK
<1>1. PICK q \in {"queued", "dropped"} : queue' = [queue EXCEPT ![n] = q]
  BY DEF Retry
<1>2. retries' \in [Notices -> 0..MaxRetries]
  <2>1. CASE retries[n] < MaxRetries
    <3>1. retries[n] + 1 \in 0..MaxRetries
      BY <2>1
    <3> QED
      BY <2>1, <3>1 DEF Retry
  <2>2. CASE ~(retries[n] < MaxRetries)
    BY <2>2 DEF Retry
  <2> QED
    BY <2>1, <2>2
<1> QED
  BY <1>1, <1>2

LEMMA PushesInitially == PushesInit => PushesInv
<1> SUFFICES ASSUME PushesInit
             PROVE  PushesInv
  OBVIOUS
<1>1. PushesTypeOK
  BY IdleIsTask, PushesAssumption DEF PushesInit, PushesTypeOK
<1> QED
  BY <1>1, IdleIsTask DEF PushesInit, PushesInv, PushedOncePerTry, Has

LEMMA PushesKeptBy == PushesInv /\ [PushesNext]_pushVars => PushesInv'
<1> SUFFICES ASSUME PushesInv, [PushesNext]_pushVars
             PROVE  PushesInv'
  OBVIOUS
<1> USE IdleIsTask, PushesAssumption DEF PushesInv, PushesTypeOK, PushedOncePerTry, Has
<1>a. CASE UNCHANGED pushVars
  BY <1>a DEF pushVars, devices, tasks
<1>1. CASE CleanupInactive
  BY <1>1 DEF CleanupInactive, tasks
<1>2. ASSUME NEW t \in Tokens, UnregisterDevice(t)
      PROVE  PushesInv'
  BY <1>2 DEF UnregisterDevice, tasks
<1>3. ASSUME NEW u \in Users, NEW t \in Tokens, RegisterDevice(u, t)
      PROVE  PushesInv'
  BY <1>3 DEF RegisterDevice, tasks
<1>4. ASSUME NEW n \in Notices, TokensUnread(n)
      PROVE  PushesInv'
  <2>1. /\ queue' \in [Notices -> {"none", "queued", "taken", "done", "dropped"}]
        /\ retries' \in [Notices -> 0..MaxRetries]
        /\ queue'[n] \in {"queued", "dropped"}
        /\ \A m \in Notices \ {n} : queue'[m] = queue[m]
    BY <1>4, RetryQueues DEF TokensUnread
  <2>2. queue[n] = "queued" /\ UNCHANGED <<to, owner, active, task, got, cuts>>
    BY <1>4 DEF TokensUnread, devices
  <2> QED
    BY <2>1, <2>2
<1>5. ASSUME NEW n \in Notices, NEW u \in Users, Delay(n, u)
      PROVE  PushesInv'
  BY <1>5 DEF Delay, devices
<1>6. ASSUME NEW w \in Workers, NEW n \in Notices, SendToUser(w, n)
      PROVE  PushesInv'
  <2> DEFINE r == [Idle EXCEPT !.at = "sending", !.notice = n,
                               !.left = {t \in active : owner[t] = to[n]}]
  <2>1. r \in Task /\ r.at = "sending" /\ r.notice = n
    BY DEF Task, Idle
  <2>2. r.left \subseteq Tokens
    BY <2>1 DEF Task
  <2>3. /\ task' = [task EXCEPT ![w] = r] /\ task[w].at = "idle" /\ queue[n] = "queued"
        /\ queue' = [queue EXCEPT ![n] = "taken"]
        /\ UNCHANGED <<to, retries, owner, active, got, cuts>>
    BY <1>6 DEF SendToUser, IsAt, Take, devices
  <2> HIDE DEF r
  <2> QED
    BY <2>1, <2>2, <2>3
<1>7. ASSUME NEW w \in Workers, NEW t \in Tokens, Push(w, t)
      PROVE  PushesInv'
  <2> DEFINE n == task[w].notice
  <2>1. /\ task[w].at = "sending" /\ t \in task[w].left /\ n \in Notices
        /\ task' = [task EXCEPT ![w] = StruckOff(task[w], t)] /\ task[w] \in Task
        /\ got' = [got EXCEPT ![n][t] = @ + 1]
        /\ UNCHANGED <<owner, active, to, queue, retries, cuts>>
    BY <1>7 DEF Push, IsAt, Take, devices, tasks, StruckOff
  <2>g. /\ got' \in [Notices -> [Tokens -> Nat]]
        /\ got'[n][t] = got[n][t] + 1
        /\ \A m \in Notices, s \in Tokens : m # n \/ s # t => got'[m][s] = got[m][s]
    BY <2>1
  <2>3. /\ task'[w].at = "sending" /\ task'[w].notice = n
        /\ task'[w].left = task[w].left \ {t} /\ task'[w] \in Task
        /\ \A v \in Workers \ {w} : task'[v] = task[v]
    BY <2>1, StruckOffIsTask
  <2>2. PushesTypeOK'
    BY <2>1, <2>g, <2>3
  <2>b. t \in Tokens /\ got[n][t] \in Nat /\ cuts[n] \in Nat /\ got[n][t] <= cuts[n]
    BY <2>1
  <2>4. PushedOncePerTry'
    BY <2>1, <2>g, <2>b
  <2>5. ASSUME NEW v \in Workers
        PROVE  (task[v].at # "idle" => task[v].notice \in Notices)'
    BY <2>1, <2>3
  <2>6. ASSUME NEW m \in Notices
        PROVE  /\ queue'[m] \in {"none", "queued"} => \A s \in Tokens : got'[m][s] <= cuts'[m]
               /\ \A v \in Workers : Has(v, m)' =>
                    /\ queue'[m] = "taken"
                    /\ \A s \in task'[v].left : got'[m][s] <= cuts'[m]
               /\ \A u, v \in Workers : Has(u, m)' /\ Has(v, m)' => u = v
    <3>1. \A v \in Workers : Has(v, m)' <=> Has(v, m)
      BY <2>1, <2>3
    <3>2. CASE m = n
      <4>1. queue[m] = "taken" /\ \A v \in Workers : Has(v, m) => v = w
        BY <2>1, <3>2
      <4>2. \A s \in task'[w].left : s \in Tokens /\ s # t /\ got'[m][s] = got[m][s]
        BY <2>1, <2>3, <2>g, <3>2 DEF Task
      <4> QED
        BY <2>1, <2>3, <3>1, <3>2, <4>1, <4>2
    <3>3. CASE m # n
      <4>1. \A v \in Workers : Has(v, m) => v # w /\ task'[v] = task[v]
        BY <2>1, <2>3, <3>3
      <4>2. \A v \in Workers : \A s \in task[v].left : s \in Tokens
        BY DEF Task
      <4> QED
        BY <2>1, <2>g, <3>1, <3>3, <4>1, <4>2
    <3> QED
      BY <3>2, <3>3
  <2> QED
    BY <2>2, <2>4, <2>5, <2>6
<1>8. ASSUME NEW w \in Workers, NEW r \in Task, task[w].at # "idle", r.at # "idle",
             r.notice = task[w].notice, r.left \subseteq task[w].left,
             task' = [task EXCEPT ![w] = r], active' \subseteq active,
             UNCHANGED <<owner, tasks, got, cuts>>
      PROVE  PushesInv'
  <2>1. /\ \A v \in Workers \ {w} : task'[v] = task[v]
        /\ task'[w] = r
        /\ UNCHANGED <<owner, to, queue, retries, got, cuts>>
    BY <1>8 DEF tasks
  <2>2. PushesTypeOK'
    BY <1>8, <2>1
  <2> QED
    BY <1>8, <2>1, <2>2
<1>9. ASSUME NEW w \in Workers,
             \/ MarkInactive(w)
             \/ \E t \in Tokens : PushFails(w, t) \/ PushUnknown(w, t)
      PROVE  PushesInv'
  <2>0. task[w] \in Task
    OBVIOUS
  <2>1. ASSUME MarkInactive(w)
        PROVE  PushesInv'
    <3> DEFINE r == Going(task[w], "sending", task[w].left, NoToken)
    <3>0. r = [task[w] EXCEPT !.at = "sending", !.token = NoToken]
      BY DEF Task, Going
    <3>1. /\ r \in Task /\ r.at # "idle" /\ r.notice = task[w].notice
          /\ r.left \subseteq task[w].left
      BY <2>0, GoesOn
    <3>2. /\ task[w].at # "idle" /\ task' = [task EXCEPT ![w] = r] /\ active' \subseteq active
          /\ UNCHANGED <<owner, tasks, got, cuts>>
      BY <2>1, <3>0 DEF MarkInactive, IsAt, Take
    <3> HIDE DEF r
    <3> QED
      BY <1>8, <3>1, <3>2
  <2>2. ASSUME NEW t \in Tokens, PushFails(w, t)
        PROVE  PushesInv'
    <3> DEFINE r == StruckOff(task[w], t)
    <3>1. /\ r \in Task /\ r.at = task[w].at /\ r.notice = task[w].notice
          /\ r.left \subseteq task[w].left
      BY <2>0, StruckOffIsTask
    <3>2. /\ task[w].at # "idle" /\ task' = [task EXCEPT ![w] = r] /\ active' \subseteq active
          /\ UNCHANGED <<owner, tasks, got, cuts>>
      BY <2>2 DEF PushFails, IsAt, Take, devices, StruckOff
    <3> HIDE DEF r
    <3> QED
      BY <1>8, <3>1, <3>2
  <2>3. ASSUME NEW t \in Tokens, PushUnknown(w, t)
        PROVE  PushesInv'
    <3> DEFINE left == task[w].left \ {t}
               r == Going(task[w], "answered", left, t)
    <3>0. left \in SUBSET task[w].left /\ t \in Tokens \cup {NoToken}
      OBVIOUS
    <3> HIDE DEF left
    <3>1. /\ r \in Task /\ r.at = "answered" /\ r.notice = task[w].notice
          /\ r.left \subseteq task[w].left
      BY <2>0, <3>0, GoesOn
    <3>2. /\ task[w].at # "idle" /\ task' = [task EXCEPT ![w] = r] /\ active' \subseteq active
          /\ UNCHANGED <<owner, tasks, got, cuts>>
      BY <2>3 DEF PushUnknown, IsAt, Take, devices, Going, left
    <3> HIDE DEF r
    <3> QED
      BY <1>8, <3>1, <3>2
  <2> QED
    BY <1>9, <2>1, <2>2, <2>3
<1>10. ASSUME NEW w \in Workers, EndTask(w)
       PROVE  PushesInv'
  BY <1>10 DEF EndTask, IsAt, Rest, Take, devices
\* A task that was cut off has one interruption more.
<1>11. ASSUME NEW w \in Workers, NEW n \in Notices, n = task[w].notice, task[w].at # "idle",
              task' = [task EXCEPT ![w] = Idle], CutOff(n),
              queue' \in [Notices -> {"none", "queued", "taken", "done", "dropped"}],
              retries' \in [Notices -> 0..MaxRetries],
              \A m \in Notices \ {n} : queue'[m] = queue[m],
              UNCHANGED <<owner, active, to, got>>
       PROVE  PushesInv'
  <2>1. /\ task'[w].at = "idle"
        /\ \A v \in Workers \ {w} : task'[v] = task[v]
        /\ \A v \in Workers : (Has(v, n) => v = w) /\ ~Has(v, n)'
    BY <1>11
  <2>2. /\ cuts' \in [Notices -> 0..MaxCuts]
        /\ cuts'[n] = cuts[n] + 1
        /\ \A m \in Notices \ {n} : cuts'[m] = cuts[m]
    BY <1>11 DEF CutOff
  <2>3. PushesTypeOK'
    BY <1>11, <2>2
  <2>4. \A t \in Tokens : got[n][t] \in Nat /\ cuts[n] \in Nat /\ got[n][t] <= cuts'[n]
    BY <2>2
  <2>5. PushedOncePerTry'
    BY <1>11, <2>2, <2>4
  <2> QED
    BY <1>11, <2>1, <2>2, <2>3, <2>4, <2>5
<1>12. ASSUME NEW w \in Workers, SoftLimit(w)
       PROVE  PushesInv'
  <2> DEFINE n == task[w].notice
  <2>1. /\ n \in Notices /\ task' = [task EXCEPT ![w] = Idle] /\ task[w].at = "sending"
        /\ UNCHANGED <<owner, active, to, got>>
        /\ Retry(n) /\ CutOff(n)
    BY <1>12 DEF SoftLimit, IsAt, Rest, Take, devices
  <2>2. /\ queue' \in [Notices -> {"none", "queued", "taken", "done", "dropped"}]
        /\ retries' \in [Notices -> 0..MaxRetries]
        /\ \A m \in Notices \ {n} : queue'[m] = queue[m]
    BY <2>1, RetryQueues
  <2> QED
    BY <1>11, <2>1, <2>2
<1>13. ASSUME NEW w \in Workers, Crash(w)
       PROVE  PushesInv'
  <2> DEFINE n == task[w].notice
  <2>1. /\ n \in Notices /\ task' = [task EXCEPT ![w] = Idle] /\ task[w].at # "idle"
        /\ UNCHANGED <<owner, active, to, retries, got>>
        /\ CutOff(n)
    BY <1>13 DEF Crash, IsAt, Rest, Take, devices
  <2>2. PICK q \in {"queued", "dropped"} : queue' = [queue EXCEPT ![n] = q]
    BY <1>13 DEF Crash
  <2> QED
    BY <1>11, <2>1, <2>2
<1> QED
  BY <1>a, <1>1, <1>2, <1>3, <1>4, <1>5, <1>6, <1>7, <1>9, <1>10, <1>12, <1>13 DEF PushesNext

-----------------------------------------------------------------------------
(* Backups: one worker makes a backup; once its dump is on disk, the file   *)
(* goes only when it is old or condemned, or when its record has failed; of *)
(* the scheduled backups that are young, or may become so, one at most did  *)
(* not overlap.                                                             *)

Making == {"dumping", "writing", "dumped"}

MakesFile(b) == \E w \in Workers : job[w].at \in {"writing", "dumped"} /\ job[w].backup = b

NeedsFile(b) == record[b] = "completed" \/ MakesFile(b)

Kept(b) == b \in files \cup old \cup condemned

\* A backup of the schedule that no task overlapped, and that is young or may yet be.
InHand(b) == \E w \in Workers : job[w].at \in Making /\ job[w].backup = b

Young(b) ==
  /\ b \in scheduled /\ b \notin overlapped
  /\ (b \in fresh /\ record[b] = "completed") \/ InHand(b)

Checked == \E w \in Workers : job[w].at = "checked"

JobInv(j) ==
  /\ j.doomed # {} => j.at = "removing"
  /\ j.at \in Making \cup {"failing", "tidying"} => j.backup \in Backups
  /\ j.at \in {"free", "checked", "removing"} => j.backup = NoBackup
  /\ j.backup \in Backups => record[j.backup] # "absent"
  /\ j.at \in Making => record[j.backup] \in {"running", "deleted"}
  /\ j.at = "tidying" => record[j.backup] \in {"failed", "deleted"}

JobsInv ==
  \A w \in Workers :
    /\ JobInv(job[w])
    /\ \A v \in Workers : job[v].backup = job[w].backup /\ job[w].backup \in Backups => v = w

FilesInv == \A b \in Backups : NeedsFile(b) => record[b] = "deleted" \/ Kept(b)

SpacingInv ==
  /\ \A b \in scheduled : record[b] # "absent"
  /\ \A a, b \in Backups : Young(a) /\ Young(b) => a = b
  /\ Checked => \A b \in Backups : ~Young(b)

BackupsInv == BackupsTypeOK /\ JobsInv /\ FilesInv /\ SpacingInv

LEMMA FreeIsJob ==
  Free \in Job /\ Free.at = "free" /\ Free.backup = NoBackup /\ Free.doomed = {}
BY DEF Free, Job

LEMMA BackupsInitially == BackupsInit => BackupsInv
<1> SUFFICES ASSUME BackupsInit
             PROVE  BackupsInv
  OBVIOUS
<1> USE FreeIsJob, BackupsAssumption DEF BackupsInit
<1>1. BackupsTypeOK
  BY DEF BackupsTypeOK
<1>2. JobsInv
  BY DEF JobsInv, JobInv, Making
<1>3. FilesInv
  BY DEF FilesInv, NeedsFile, MakesFile
<1>4. SpacingInv
  BY DEF SpacingInv, Young, InHand, Checked, Making
<1> QED
  BY <1>1, <1>2, <1>3, <1>4 DEF BackupsInv

\* A worker's job goes on, or it begins a backup, or it ends.
LEMMA TurnsAreJobs ==
  ASSUME BackupsTypeOK, NEW w \in Workers,
         NEW at \in {"free", "checked", "dumping", "writing", "dumped",
                     "failing", "tidying", "cleaning", "removing"}
  PROVE  LET next == [job[w] EXCEPT !.at = at]
         IN  next \in Job /\ next.at = at /\ next.backup = job[w].backup /\ next.doomed = job[w].doomed
BY DEF BackupsTypeOK, Job

LEMMA BackupsTypeKeptBy ==
  BackupsTypeOK /\ JobsInv /\ [BackupsNext]_backupVars => BackupsTypeOK'
<1> SUFFICES ASSUME BackupsTypeOK, JobsInv, [BackupsNext]_backupVars
             PROVE  BackupsTypeOK'
  OBVIOUS
<1> USE FreeIsJob, BackupsAssumption DEF BackupsTypeOK, faults, marks, Doing, Turn, Stop
<1>a. CASE UNCHANGED backupVars
  BY <1>a DEF backupVars
<1>1. ASSUME NEW b \in Backups, PassInterval(b) \/ PassRetention(b)
      PROVE  BackupsTypeOK'
  BY <1>1 DEF PassInterval, PassRetention
<1>2. ASSUME NEW w \in Workers,
             GiveUp(w) \/ LateFailure(w) \/ CleanUp(w) \/ DumpEnds(w) \/ DumpFails(w)
      PROVE  BackupsTypeOK'
  BY <1>2 DEF GiveUp, LateFailure, CleanUp, DumpEnds, DumpFails, Job
<1>3. ASSUME NEW w \in Workers, RunScheduled(w)
      PROVE  BackupsTypeOK'
  BY <1>3 DEF RunScheduled, Beside, Job
<1>4. ASSUME NEW w \in Workers, WriteFile(w)
      PROVE  BackupsTypeOK'
  <2>1. job[w].backup \in Backups /\ job' \in [Workers -> Job]
    BY <1>4, TurnsAreJobs DEF WriteFile, JobsInv, JobInv, Making
  <2> QED
    BY <1>4, <2>1 DEF WriteFile
<1>5. ASSUME NEW w \in Workers, TidyUp(w)
      PROVE  BackupsTypeOK'
  BY <1>5 DEF TidyUp
<1>6. ASSUME NEW w \in Workers, CompleteRecord(w)
      PROVE  BackupsTypeOK'
  <2>1. job[w].backup \in Backups /\ job' \in [Workers -> Job]
    BY <1>6, TurnsAreJobs DEF CompleteRecord, JobsInv, JobInv, Making
  <2>2. record' \in [Backups -> {"absent", "running", "completed", "failed", "deleted"}]
    BY <1>6 DEF CompleteRecord, SetStatus
  <2>3. fresh' \subseteq Backups /\ UNCHANGED <<scheduled, files, old, faults>>
    BY <1>6, <2>1 DEF CompleteRecord
  <2> QED
    BY <2>1, <2>2, <2>3
<1>7. ASSUME NEW w \in Workers, FailRecord(w)
      PROVE  BackupsTypeOK'
  BY <1>7 DEF FailRecord, SetStatus, Job
<1>8. ASSUME NEW w \in Workers, NEW doomed \in SUBSET Backups, NEW gone, RemoveFiles(w, doomed, gone),
             condemned' \subseteq Backups
      PROVE  BackupsTypeOK'
  BY <1>8 DEF RemoveFiles, Job
<1>9. ASSUME NEW w \in Workers, CleanUpOld(w) \/ \E b \in Backups : DeleteBackup(w, b)
      PROVE  BackupsTypeOK'
  BY <1>8, <1>9 DEF CleanUpOld, DeleteBackup
<1>10. ASSUME NEW w \in Workers, CommitRemoval(w)
       PROVE  BackupsTypeOK'
  BY <1>10 DEF CommitRemoval
<1>11. ASSUME NEW w \in Workers, Fault(w)
       PROVE  BackupsTypeOK'
  BY <1>11 DEF Fault, Have, Job
<1>12. ASSUME NEW w \in Workers, NEW b \in Backups, CreateScheduled(w, b) \/ CreateManual(w, b)
       PROVE  BackupsTypeOK'
  BY <1>12 DEF CreateScheduled, CreateManual, Insert, Job
<1> QED
  BY <1>a, <1>1, <1>2, <1>3, <1>4, <1>5, <1>6, <1>7, <1>9, <1>10, <1>11, <1>12
  DEF BackupsNext, Progress

\* Nobody touches the record of another worker's backup, but to delete it.
LEMMA JobsGoOn ==
  ASSUME BackupsTypeOK, JobsInv, NEW w \in Workers, NEW r \in Job,
         job' = [job EXCEPT ![w] = r], r.backup \in {job[w].backup, NoBackup},
         \A b \in Backups : b # job[w].backup => record'[b] \in {record[b], "deleted"},
         JobInv(r)'
  PROVE  JobsInv'
<1> USE BackupsAssumption DEF BackupsTypeOK, JobsInv
<1>1. ASSUME NEW v \in Workers, v # w
      PROVE  job'[v] = job[v] /\ JobInv(job[v])'
  <2>1. job'[v] = job[v] /\ JobInv(job[v])
    BY <1>1
  <2>2. job[v].backup \in Backups => job[v].backup # job[w].backup
    BY <1>1
  <2>3. job[v].backup \in Backups => record'[job[v].backup] \in {record[job[v].backup], "deleted"}
    BY <2>2
  <2> QED
    BY <2>1, <2>3 DEF JobInv
<1>2. job'[w] = r
  OBVIOUS
<1>3. \A v \in Workers : JobInv(job[v])'
  BY <1>1, <1>2
<1>4. ASSUME NEW u \in Workers, NEW v \in Workers, job'[u].backup = job'[v].backup, job'[v].backup \in Backups
      PROVE  u = v
  BY <1>1, <1>2, <1>4
<1> QED
  BY <1>3, <1>4

LEMMA BackupsJobsKeptBy ==
  BackupsTypeOK /\ JobsInv /\ [BackupsNext]_backupVars => JobsInv'
<1> SUFFICES ASSUME BackupsTypeOK, JobsInv, [BackupsNext]_backupVars
             PROVE  JobsInv'
  OBVIOUS
<1> USE FreeIsJob, BackupsAssumption DEF Doing
<1>0. BackupsTypeOK'
  BY BackupsTypeKeptBy
<1>l. \A w \in Workers : job[w] \in Job /\ JobInv(job[w])
  BY DEF BackupsTypeOK, JobsInv
<1>a. CASE UNCHANGED <<job, record>>
  BY <1>a DEF JobsInv, JobInv
\* Steps that leave the records alone.
<1>1. ASSUME NEW w \in Workers, NEW r \in Job, job' = [job EXCEPT ![w] = r], record' = record,
             r.backup \in {job[w].backup, NoBackup}, JobInv(r)
      PROVE  JobsInv'
  <2>1. JobInv(r)'
    BY <1>1 DEF JobInv
  <2> QED
    BY <1>1, <2>1, JobsGoOn
<1>2. ASSUME NEW w \in Workers, NEW step \in {"checked", "writing", "dumped", "failing", "cleaning"},
             Turn(w, step), record' = record,
             job[w].doomed = {},
             step \in {"writing", "dumped"} => job[w].at \in Making,
             step = "failing" => job[w].backup \in Backups,
             step = "checked" => job[w].backup = NoBackup
      PROVE  JobsInv'
  <2>0. step \in {"free", "checked", "dumping", "writing", "dumped",
                  "failing", "tidying", "cleaning", "removing"}
    OBVIOUS
  <2>4. LET next == [job[w] EXCEPT !.at = step]
        IN  next \in Job /\ next.at = step /\ next.backup = job[w].backup /\ next.doomed = job[w].doomed
    BY <2>0, TurnsAreJobs
  <2>5. job' = [job EXCEPT ![w] = [job[w] EXCEPT !.at = step]]
    BY <1>2 DEF Turn, BackupsTypeOK
  <2>1. PICK r \in Job : /\ job' = [job EXCEPT ![w] = r]
                        /\ r.at = step /\ r.backup = job[w].backup /\ r.doomed = job[w].doomed
    BY <2>4, <2>5
  <2>3. JobInv(r)
    BY <1>2, <1>l, <2>1 DEF JobInv, Making
  <2> QED
    BY <1>1, <1>2, <2>1, <2>3
<1>3. ASSUME NEW w \in Workers,
             \/ RunScheduled(w) \/ WriteFile(w) \/ DumpEnds(w) \/ DumpFails(w)
             \/ LateFailure(w) \/ CleanUp(w)
      PROVE  JobsInv'
  <2>1. job[w].doomed = {} /\ (job[w].at \in Making => job[w].backup \in Backups)
    BY <1>3, <1>l DEF RunScheduled, WriteFile, DumpEnds, DumpFails, LateFailure, CleanUp, JobInv, Making
  <2>2. record' = record
    BY <1>3 DEF RunScheduled, WriteFile, DumpEnds, DumpFails, LateFailure, CleanUp
  <2>3. CASE RunScheduled(w)
    BY <1>2, <1>l, <2>1, <2>2, <2>3 DEF RunScheduled, JobInv
  <2>4. CASE WriteFile(w) \/ DumpEnds(w)
    BY <1>2, <2>1, <2>2, <2>4 DEF WriteFile, DumpEnds, Making
  <2>5. CASE DumpFails(w)
    BY <1>2, <2>1, <2>2, <2>5 DEF DumpFails, Making
  <2>6. CASE LateFailure(w)
    <3>1. job[w].backup \in Backups
      BY <1>l, <2>6 DEF LateFailure, Job
    <3> QED
      BY <1>2, <2>1, <2>2, <2>6, <3>1 DEF LateFailure
  <2>7. CASE CleanUp(w)
    BY <1>2, <2>1, <2>2, <2>7 DEF CleanUp
  <2> QED
    BY <1>3, <2>3, <2>4, <2>5, <2>6, <2>7
<1>4. ASSUME NEW w \in Workers, GiveUp(w) \/ TidyUp(w) \/ Fault(w)
      PROVE  JobsInv'
  BY <1>1, <1>4 DEF GiveUp, TidyUp, Fault, Stop, JobInv, Making
<1>5. ASSUME NEW w \in Workers, NEW doomed \in SUBSET Backups, NEW gone, RemoveFiles(w, doomed, gone)
      PROVE  JobsInv'
  <2> DEFINE r == [at |-> "removing", backup |-> NoBackup, doomed |-> doomed]
  <2>1. r \in Job /\ r.at = "removing" /\ r.backup = NoBackup
    BY DEF Job
  <2>2. job' = [job EXCEPT ![w] = r] /\ record' = record
    BY <1>5 DEF RemoveFiles
  <2> HIDE DEF r
  <2>3. JobInv(r)
    BY <2>1 DEF JobInv, Making
  <2> QED
    BY <1>1, <2>1, <2>2, <2>3
<1>6. ASSUME NEW w \in Workers, CleanUpOld(w) \/ \E b \in Backups : DeleteBackup(w, b)
      PROVE  JobsInv'
  BY <1>5, <1>6 DEF CleanUpOld, DeleteBackup, BackupsTypeOK
\* Steps that change a record.
<1>7. ASSUME NEW w \in Workers, CompleteRecord(w)
      PROVE  JobsInv'
  <2> DEFINE b == job[w].backup
  <2>1. PICK r \in Job : /\ job' = [job EXCEPT ![w] = r]
                        /\ r.at = "cleaning" /\ r.backup = b /\ r.doomed = job[w].doomed
    BY <1>7, TurnsAreJobs DEF CompleteRecord, Turn
  <2>2. b \in Backups /\ job[w].doomed = {}
    BY <1>7, <1>l DEF CompleteRecord, JobInv, Making
  <2>3. /\ record'[b] # "absent"
        /\ \A a \in Backups : a # b => record'[a] = record[a]
    BY <1>7, <2>2 DEF CompleteRecord, SetStatus, BackupsTypeOK
  <2>5. JobInv(r)'
    BY <2>1, <2>2, <2>3 DEF JobInv, Making
  <2> QED
    BY <2>1, <2>3, <2>5, JobsGoOn
<1>8. ASSUME NEW w \in Workers, FailRecord(w)
      PROVE  JobsInv'
  <2> DEFINE b == job[w].backup
  <2>1. PICK r \in Job : /\ job' = [job EXCEPT ![w] = r]
                        /\ r.at = "tidying" /\ r.backup = b /\ r.doomed = job[w].doomed
    BY <1>8, TurnsAreJobs DEF FailRecord, Turn
  <2>2. b \in Backups /\ job[w].doomed = {}
    BY <1>8, <1>l DEF FailRecord, JobInv, Making
  <2>3. /\ record'[b] \in {"failed", "deleted"}
        /\ \A a \in Backups : a # b => record'[a] = record[a]
    BY <1>8, <2>2 DEF FailRecord, SetStatus, BackupsTypeOK
  <2>5. JobInv(r)'
    BY <2>1, <2>2, <2>3 DEF JobInv, Making
  <2> QED
    BY <2>1, <2>3, <2>5, JobsGoOn
<1>9. ASSUME NEW w \in Workers, CommitRemoval(w)
      PROVE  JobsInv'
  <2>1. JobInv(Free)'
    BY DEF JobInv, Making
  <2>2. \A b \in Backups : record'[b] \in {record[b], "deleted"}
    BY <1>9 DEF CommitRemoval
  <2> QED
    BY <1>9, <2>1, <2>2, JobsGoOn DEF CommitRemoval, Stop
<1>10. ASSUME NEW w \in Workers, NEW b \in Backups, Insert(w, b), job[w].backup = NoBackup
       PROVE  JobsInv'
  <2> DEFINE r == [at |-> "dumping", backup |-> b, doomed |-> {}]
  <2>1. r \in Job /\ r.at = "dumping" /\ r.backup = b /\ r.doomed = {}
    BY DEF Job
  <2>2. /\ job' = [job EXCEPT ![w] = r] /\ record[b] = "absent"
        /\ record' = [record EXCEPT ![b] = "running"]
    BY <1>10 DEF Insert
  <2> HIDE DEF r
  <2>3. job'[w] = r /\ \A v \in Workers \ {w} : job'[v] = job[v] /\ job[v].backup # b
    BY <1>l, <2>2 DEF BackupsTypeOK, JobInv
  <2>4. JobInv(r)'
    BY <2>1, <2>2 DEF JobInv, Making, BackupsTypeOK
  <2>5. \A v \in Workers \ {w} : JobInv(job[v])'
    BY <1>l, <2>2, <2>3 DEF JobInv, BackupsTypeOK, Making
  <2>6. \A u, v \in Workers : job'[u].backup = job'[v].backup /\ job'[v].backup \in Backups => u = v
    BY <2>1, <2>3 DEF JobsInv
  <2> QED
    BY <2>3, <2>4, <2>5, <2>6 DEF JobsInv
<1>11. ASSUME NEW w \in Workers, NEW b \in Backups, CreateScheduled(w, b) \/ CreateManual(w, b)
       PROVE  JobsInv'
  BY <1>10, <1>11, <1>l DEF CreateScheduled, CreateManual, JobInv
<1>12. ASSUME NEW b \in Backups, PassInterval(b) \/ PassRetention(b)
       PROVE  JobsInv'
  BY <1>a, <1>12 DEF PassInterval, PassRetention
<1> QED
  BY <1>a, <1>3, <1>4, <1>6, <1>7, <1>8, <1>9, <1>11, <1>12 DEF BackupsNext, Progress, backupVars

LEMMA FilesStay ==
  ASSUME FilesInv, NEW b \in Backups, NeedsFile(b)',
         record[b] = "deleted" => record'[b] = "deleted",
         NeedsFile(b) \/ Kept(b)',
         Kept(b) => Kept(b)' \/ record'[b] = "deleted"
  PROVE  record'[b] = "deleted" \/ Kept(b)'
BY DEF FilesInv

LEMMA BackupsFilesKeptBy ==
  BackupsTypeOK /\ JobsInv /\ FilesInv /\ [BackupsNext]_backupVars => FilesInv'
<1> SUFFICES ASSUME BackupsTypeOK, JobsInv, FilesInv, [BackupsNext]_backupVars,
                    NEW b \in Backups, NeedsFile(b)'
             PROVE  record'[b] = "deleted" \/ Kept(b)'
  BY DEF FilesInv
<1> USE FreeIsJob, BackupsAssumption DEF Doing, marks, faults
<1>l. \A w \in Workers : job[w] \in Job /\ JobInv(job[w])
  BY DEF BackupsTypeOK, JobsInv
<1>t. job \in [Workers -> Job] /\ record \in [Backups -> {"absent", "running", "completed", "failed", "deleted"}]
  BY DEF BackupsTypeOK
<1>n. ASSUME NEW w \in Workers, NEW r \in Job, job' = [job EXCEPT ![w] = r]
      PROVE  job'[w] = r /\ \A v \in Workers \ {w} : job'[v] = job[v]
  BY <1>n, <1>t
\* The job goes on, or ends, and no file is lost.
<1>1. ASSUME NEW w \in Workers, NEW r \in Job, job' = [job EXCEPT ![w] = r],
             record'[b] \in {record[b], "running", "failed", "deleted"} \/ MakesFile(b),
             record[b] = "deleted" => record'[b] = "deleted",
             files \subseteq files', old \subseteq old', condemned \subseteq condemned',
             r.at \in {"writing", "dumped"} =>
               \/ r.backup \in files'
               \/ r.backup = job[w].backup /\ job[w].at \in {"writing", "dumped"}
      PROVE  record'[b] = "deleted" \/ Kept(b)'
  <2>1. job'[w] = r /\ \A v \in Workers \ {w} : job'[v] = job[v]
    BY <1>1, <1>n
  <2>2. Kept(b) => Kept(b)'
    BY <1>1 DEF Kept
  <2>3. MakesFile(b)' => MakesFile(b) \/ b \in files'
    BY <1>1, <2>1 DEF MakesFile
  <2>4. NeedsFile(b) \/ Kept(b)'
    BY <1>1, <2>3 DEF NeedsFile, Kept, MakesFile
  <2> QED
    BY <1>1, <2>2, <2>4, FilesStay
<1>a. CASE UNCHANGED <<job, record, files, condemned>> /\ old \subseteq old'
  BY <1>a, FilesStay DEF NeedsFile, MakesFile, Kept
<1>2. ASSUME NEW w \in Workers,
             \/ RunScheduled(w) \/ DumpEnds(w) \/ DumpFails(w)
             \/ LateFailure(w) \/ CleanUp(w) \/ WriteFile(w) \/ CompleteRecord(w) \/ FailRecord(w)
      PROVE  record'[b] = "deleted" \/ Kept(b)'
  <2>1. PICK step \in {"checked", "writing", "dumped", "failing", "cleaning", "tidying"} :
          /\ Turn(w, step)
          /\ step = "writing" => job[w].backup \in files'
          /\ step = "dumped" => job[w].at = "writing"
    BY <1>2 DEF RunScheduled, DumpEnds, DumpFails, LateFailure, CleanUp, WriteFile,
                CompleteRecord, FailRecord
  <2>2. step \in {"free", "checked", "dumping", "writing", "dumped",
                  "failing", "tidying", "cleaning", "removing"}
    OBVIOUS
  <2>3. LET next == [job[w] EXCEPT !.at = step]
        IN  next \in Job /\ next.at = step /\ next.backup = job[w].backup /\ next.doomed = job[w].doomed
    BY <2>2, TurnsAreJobs
  <2>4. job' = [job EXCEPT ![w] = [job[w] EXCEPT !.at = step]]
    BY <2>1, <1>t DEF Turn
  <2>5. PICK r \in Job : /\ job' = [job EXCEPT ![w] = r]
                        /\ r.at = step /\ r.backup = job[w].backup /\ r.doomed = job[w].doomed
    BY <2>3, <2>4
  <2>6. files \subseteq files' /\ old' = old /\ condemned' = condemned
    BY <1>2 DEF RunScheduled, DumpEnds, DumpFails, LateFailure, CleanUp, WriteFile,
                CompleteRecord, FailRecord
  <2>7. /\ record'[b] \in {record[b], "running", "failed", "deleted"} \/ MakesFile(b)
        /\ record[b] = "deleted" => record'[b] = "deleted"
    <3>1. CASE CompleteRecord(w)
      BY <1>t, <3>1 DEF CompleteRecord, SetStatus, MakesFile
    <3>2. CASE FailRecord(w)
      BY <1>t, <3>2 DEF FailRecord, SetStatus
    <3>3. CASE ~CompleteRecord(w) /\ ~FailRecord(w)
      BY <1>2, <3>3 DEF RunScheduled, DumpEnds, DumpFails, LateFailure, CleanUp, WriteFile
    <3> QED
      BY <3>1, <3>2, <3>3
  <2> QED
    BY <1>1, <2>1, <2>5, <2>6, <2>7
<1>3. ASSUME NEW w \in Workers, GiveUp(w) \/ Fault(w)
      PROVE  record'[b] = "deleted" \/ Kept(b)'
  <2>1. /\ job' = [job EXCEPT ![w] = Free] /\ record' = record /\ files' = files
        /\ old' = old /\ condemned' = condemned
    BY <1>3 DEF GiveUp, Fault, Stop
  <2> QED
    BY <1>1, <2>1
<1>4. ASSUME NEW w \in Workers, NEW c \in Backups, Insert(w, c),
             UNCHANGED <<files, old, condemned>>
      PROVE  record'[b] = "deleted" \/ Kept(b)'
  <2> DEFINE r == [at |-> "dumping", backup |-> c, doomed |-> {}]
  <2>1. r \in Job /\ r.at = "dumping"
    BY DEF Job
  <2>2. job' = [job EXCEPT ![w] = r]
    BY <1>4 DEF Insert
  <2>3. record'[b] \in {record[b], "running"} /\ (record[b] = "deleted" => record'[b] = "deleted")
    BY <1>4, <1>t DEF Insert
  <2> HIDE DEF r
  <2> QED
    BY <1>1, <1>4, <2>1, <2>2, <2>3
<1>5. ASSUME NEW w \in Workers, NEW c \in Backups, CreateScheduled(w, c) \/ CreateManual(w, c)
      PROVE  record'[b] = "deleted" \/ Kept(b)'
  BY <1>4, <1>5 DEF CreateScheduled, CreateManual
\* A file goes when it is old or condemned, or its record says that the backup has failed.
<1>6. ASSUME NEW w \in Workers, TidyUp(w)
      PROVE  record'[b] = "deleted" \/ Kept(b)'
  <2>1. /\ job' = [job EXCEPT ![w] = Free] /\ record' = record /\ job[w].at = "tidying"
        /\ files' = files \ {job[w].backup} /\ UNCHANGED <<old, condemned>>
    BY <1>6 DEF TidyUp, Stop
  <2>2. CASE job[w].backup = b
    <3>1. record[b] \in {"failed", "deleted"}
      BY <1>l, <2>1, <2>2 DEF JobInv
    <3>2. \A v \in Workers : job[v].backup = b => v = w
      BY <2>2 DEF JobsInv
    <3>3. ~MakesFile(b)'
      BY <1>n, <2>1, <2>2, <3>2 DEF MakesFile
    <3> QED
      BY <2>1, <3>1, <3>3 DEF NeedsFile
  <2>3. CASE job[w].backup # b
    <3>1. job'[w] = Free /\ \A v \in Workers \ {w} : job'[v] = job[v]
      BY <1>n, <2>1
    <3>2. Kept(b) => Kept(b)'
      BY <2>1, <2>3 DEF Kept
    <3>3. NeedsFile(b)
      BY <2>1, <3>1 DEF NeedsFile, MakesFile
    <3> QED
      BY <2>1, <3>2, <3>3, FilesStay
  <2> QED
    BY <2>2, <2>3
<1>7. ASSUME NEW w \in Workers, NEW doomed \in SUBSET Backups, NEW gone,
             RemoveFiles(w, doomed, gone),
             gone \subseteq old \cup condemned', condemned \subseteq condemned'
      PROVE  record'[b] = "deleted" \/ Kept(b)'
  <2> DEFINE r == [at |-> "removing", backup |-> NoBackup, doomed |-> doomed]
  <2>1. r \in Job /\ r.at = "removing"
    BY DEF Job
  <2>2. /\ job' = [job EXCEPT ![w] = r] /\ files' = files \ gone
        /\ record' = record /\ old' = old
    BY <1>7 DEF RemoveFiles
  <2>3. job'[w] = r /\ \A v \in Workers \ {w} : job'[v] = job[v]
    BY <1>n, <2>1, <2>2
  <2> HIDE DEF r
  <2>4. Kept(b) => Kept(b)'
    BY <1>7, <2>2 DEF Kept
  <2>5. NeedsFile(b)
    BY <2>1, <2>2, <2>3 DEF NeedsFile, MakesFile
  <2> QED
    BY <2>2, <2>4, <2>5, FilesStay
<1>8. ASSUME NEW w \in Workers, CleanUpOld(w) \/ \E c \in Backups : DeleteBackup(w, c)
      PROVE  record'[b] = "deleted" \/ Kept(b)'
  BY <1>7, <1>8 DEF CleanUpOld, DeleteBackup, BackupsTypeOK
<1>9. ASSUME NEW w \in Workers, CommitRemoval(w)
      PROVE  record'[b] = "deleted" \/ Kept(b)'
  <2>1. /\ job' = [job EXCEPT ![w] = Free] /\ files' = files
        /\ old' = old \ job[w].doomed /\ condemned' = condemned \ job[w].doomed
        /\ record'[b] = IF b \in job[w].doomed THEN "deleted" ELSE record[b]
    BY <1>9 DEF CommitRemoval, Stop
  <2>2. job'[w] = Free /\ \A v \in Workers \ {w} : job'[v] = job[v]
    BY <1>n, <2>1
  <2>3. CASE b \notin job[w].doomed
    <3>1. Kept(b) => Kept(b)'
      BY <2>1, <2>3 DEF Kept
    <3>2. NeedsFile(b)
      BY <2>1, <2>2, <2>3 DEF NeedsFile, MakesFile
    <3> QED
      BY <2>1, <2>3, <3>1, <3>2, FilesStay
  <2> QED
    BY <2>1, <2>3
<1>10. ASSUME NEW c \in Backups, PassInterval(c) \/ PassRetention(c)
       PROVE  record'[b] = "deleted" \/ Kept(b)'
  BY <1>a, <1>10 DEF PassInterval, PassRetention
<1> QED
  BY <1>a, <1>2, <1>3, <1>5, <1>6, <1>8, <1>9, <1>10 DEF BackupsNext, Progress, backupVars

LEMMA SpacingStays ==
  ASSUME SpacingInv, \A b \in Backups : Young(b)' => Young(b), Checked' => Checked,
         \A b \in scheduled' : record'[b] # "absent"
  PROVE  SpacingInv'
BY DEF SpacingInv

LEMMA BackupsSpacingKeptBy ==
  BackupsTypeOK /\ JobsInv /\ SpacingInv /\ [BackupsNext]_backupVars => SpacingInv'
<1> SUFFICES ASSUME BackupsTypeOK, JobsInv, SpacingInv, [BackupsNext]_backupVars
             PROVE  SpacingInv'
  OBVIOUS
<1> USE FreeIsJob, BackupsAssumption DEF Doing, marks, faults
<1>l. \A w \in Workers : job[w] \in Job /\ JobInv(job[w])
  BY DEF BackupsTypeOK, JobsInv
<1>t. /\ job \in [Workers -> Job]
      /\ record \in [Backups -> {"absent", "running", "completed", "failed", "deleted"}]
      /\ scheduled \subseteq Backups /\ fresh \subseteq Backups
  BY DEF BackupsTypeOK
<1>n. ASSUME NEW w \in Workers, NEW r \in Job, job' = [job EXCEPT ![w] = r]
      PROVE  job'[w] = r /\ \A v \in Workers \ {w} : job'[v] = job[v]
  BY <1>n, <1>t
<1>r. \A b \in scheduled : record[b] # "absent"
  BY DEF SpacingInv
<1>a. CASE UNCHANGED backupVars
  BY <1>a, SpacingStays, <1>r DEF backupVars, Young, InHand, Checked
\* No backup becomes young, and no task finds that one is due.
<1>1. ASSUME NEW w \in Workers, NEW r \in Job, job' = [job EXCEPT ![w] = r], r.at # "checked",
             r.at \in Making => r.backup = job[w].backup /\ job[w].at \in Making,
             UNCHANGED <<scheduled, fresh, overlapped>>,
             \A b \in Backups : /\ record'[b] = "completed" => record[b] = "completed"
                                /\ record'[b] = "absent" => record[b] = "absent"
      PROVE  SpacingInv'
  <2>1. job'[w] = r /\ \A v \in Workers \ {w} : job'[v] = job[v]
    BY <1>1, <1>n
  <2>2. \A b \in Backups : InHand(b)' => InHand(b)
    BY <1>1, <2>1 DEF InHand
  <2>3. \A b \in Backups : Young(b)' => Young(b)
    BY <1>1, <2>2 DEF Young
  <2>4. Checked' => Checked
    BY <1>1, <2>1 DEF Checked
  <2> QED
    BY <1>1, <1>r, <1>t, <2>3, <2>4, SpacingStays
<1>2. ASSUME NEW w \in Workers,
             \/ DumpEnds(w) \/ DumpFails(w) \/ LateFailure(w) \/ CleanUp(w)
             \/ WriteFile(w) \/ FailRecord(w)
      PROVE  SpacingInv'
  <2>1. PICK step \in {"writing", "dumped", "failing", "cleaning", "tidying"} :
          /\ Turn(w, step)
          /\ step \in Making => job[w].at \in Making
    BY <1>2 DEF DumpEnds, DumpFails, LateFailure, CleanUp, WriteFile, FailRecord, Making
  <2>2. step \in {"free", "checked", "dumping", "writing", "dumped",
                  "failing", "tidying", "cleaning", "removing"}
    OBVIOUS
  <2>3. LET next == [job[w] EXCEPT !.at = step]
        IN  next \in Job /\ next.at = step /\ next.backup = job[w].backup /\ next.doomed = job[w].doomed
    BY <2>2, TurnsAreJobs
  <2>4. job' = [job EXCEPT ![w] = [job[w] EXCEPT !.at = step]]
    BY <2>1, <1>t DEF Turn
  <2>5. PICK r \in Job : /\ job' = [job EXCEPT ![w] = r]
                        /\ r.at = step /\ r.backup = job[w].backup
    BY <2>3, <2>4
  <2>6. /\ UNCHANGED <<scheduled, fresh, overlapped>>
        /\ \A b \in Backups : /\ record'[b] = "completed" => record[b] = "completed"
                              /\ record'[b] = "absent" => record[b] = "absent"
    BY <1>2, <1>t
    DEF DumpEnds, DumpFails, LateFailure, CleanUp, WriteFile, FailRecord, SetStatus
  <2> QED
    BY <1>1, <2>1, <2>5, <2>6
<1>3. ASSUME NEW w \in Workers, GiveUp(w) \/ TidyUp(w) \/ Fault(w)
      PROVE  SpacingInv'
  <2>1. /\ job' = [job EXCEPT ![w] = Free] /\ record' = record
        /\ UNCHANGED <<scheduled, fresh, overlapped>>
    BY <1>3 DEF GiveUp, TidyUp, Fault, Stop
  <2> QED
    BY <1>1, <2>1 DEF Making
<1>4. ASSUME NEW w \in Workers, NEW doomed \in SUBSET Backups, NEW gone, RemoveFiles(w, doomed, gone)
      PROVE  SpacingInv'
  <2>1. [at |-> "removing", backup |-> NoBackup, doomed |-> doomed] \in Job
    BY DEF Job
  <2>2. PICK r \in Job : job' = [job EXCEPT ![w] = r] /\ r.at = "removing"
    BY <1>4, <2>1 DEF RemoveFiles
  <2>3. record' = record /\ UNCHANGED <<scheduled, fresh, overlapped>>
    BY <1>4 DEF RemoveFiles
  <2> QED
    BY <1>1, <2>2, <2>3 DEF Making
<1>5. ASSUME NEW w \in Workers, CleanUpOld(w) \/ \E b \in Backups : DeleteBackup(w, b)
      PROVE  SpacingInv'
  BY <1>4, <1>5 DEF CleanUpOld, DeleteBackup, BackupsTypeOK
\* A backup that was in hand is completed.
<1>6. ASSUME NEW w \in Workers, CompleteRecord(w)
      PROVE  SpacingInv'
  <2> DEFINE c == job[w].backup
  <2>1. PICK r \in Job : /\ job' = [job EXCEPT ![w] = r] /\ r.at = "cleaning"
    BY <1>6, TurnsAreJobs DEF CompleteRecord, Turn
  <2>2. /\ \A b \in Backups \ {c} : record'[b] = record[b] /\ (b \in fresh' => b \in fresh)
        /\ \A b \in Backups : record'[b] = "absent" => record[b] = "absent"
        /\ UNCHANGED <<scheduled, overlapped>>
    BY <1>6, <1>t DEF CompleteRecord, SetStatus, Have
  <2>3. InHand(c)
    BY <1>6 DEF CompleteRecord, InHand, Making
  <2>4. job'[w] = r /\ \A v \in Workers \ {w} : job'[v] = job[v]
    BY <2>1, <1>n
  <2>5. \A b \in Backups : InHand(b)' => InHand(b)
    BY <2>1, <2>4 DEF InHand, Making
  <2>6. ASSUME NEW b \in Backups, Young(b)'
        PROVE  Young(b)
    <3>1. CASE b = c
      BY <2>2, <2>3, <2>6, <3>1 DEF Young
    <3>2. CASE b # c
      BY <2>2, <2>5, <2>6, <3>2 DEF Young
    <3> QED
      BY <3>1, <3>2
  <2>7. Checked' => Checked
    BY <2>1, <2>4 DEF Checked
  <2> QED
    BY <1>r, <1>t, <2>2, <2>6, <2>7, SpacingStays
\* A task that finds a backup due makes all in hand overlapped.
<1>7. ASSUME NEW w \in Workers, RunScheduled(w)
      PROVE  SpacingInv'
  <2>1. PICK r \in Job : /\ job' = [job EXCEPT ![w] = r]
                        /\ r.at = "checked" /\ r.backup = job[w].backup
    BY <1>7, TurnsAreJobs DEF RunScheduled, Turn
  <2>2. /\ job[w].at = "free" /\ UNCHANGED <<record, scheduled, fresh>>
        /\ overlapped' = overlapped \cup Beside(w)
        /\ \A b \in scheduled : ~(b \in fresh /\ record[b] = "completed")
    BY <1>7, <1>t DEF RunScheduled, Due, Have
  <2>3. job'[w] = r /\ \A v \in Workers \ {w} : job'[v] = job[v]
    BY <2>1, <1>n
  <2>4. \A b \in Backups : InHand(b)' /\ b \in scheduled => b \in Beside(w)
    BY <2>1, <2>3 DEF InHand, Beside, Making
  <2>5. \A b \in Backups : ~Young(b)'
    BY <2>2, <2>4 DEF Young
  <2> QED
    BY <1>r, <2>2, <2>5 DEF SpacingInv
\* The new backup is the only one that may become young.
<1>8. ASSUME NEW w \in Workers, NEW b \in Backups, Insert(w, b), fresh' = fresh
      PROVE  /\ \A v \in Workers \ {w} : job'[v] = job[v]
             /\ job'[w].at = "dumping" /\ record[b] = "absent"
             /\ \A a \in Backups \ {b} : (InHand(a)' => InHand(a)) /\ record'[a] = record[a]
             /\ record'[b] = "running"
  <2> DEFINE r == [at |-> "dumping", backup |-> b, doomed |-> {}]
  <2>1. r \in Job /\ r.at = "dumping" /\ r.backup = b
    BY DEF Job
  <2>2. job' = [job EXCEPT ![w] = r] /\ record[b] = "absent" /\ record' = [record EXCEPT ![b] = "running"]
    BY <1>8 DEF Insert
  <2>3. job'[w] = r /\ \A v \in Workers \ {w} : job'[v] = job[v]
    BY <2>1, <2>2, <1>n
  <2> HIDE DEF r
  <2>4. \A a \in Backups \ {b} : InHand(a)' => InHand(a)
    BY <2>1, <2>3 DEF InHand
  <2> QED
    BY <1>t, <2>1, <2>2, <2>3, <2>4
<1>9. ASSUME NEW w \in Workers, NEW b \in Backups, CreateManual(w, b)
      PROVE  SpacingInv'
  <2>1. UNCHANGED <<scheduled, fresh, overlapped>> /\ Insert(w, b)
    BY <1>9 DEF CreateManual
  <2>2. b \notin scheduled
    BY <1>8, <1>r, <2>1
  <2>3. \A a \in Backups : Young(a)' => Young(a)
    BY <1>8, <2>1, <2>2 DEF Young
  <2>4. Checked' => Checked
    BY <1>8, <2>1 DEF Checked
  <2> QED
    BY <1>8, <1>r, <1>t, <2>1, <2>3, <2>4, SpacingStays
<1>10. ASSUME NEW w \in Workers, NEW b \in Backups, CreateScheduled(w, b)
       PROVE  SpacingInv'
  <2>1. /\ job[w].at = "checked" /\ fresh' = fresh /\ scheduled' = scheduled \cup {b}
        /\ overlapped \subseteq overlapped' /\ Insert(w, b)
        /\ (\E v \in Workers \ {w} : job[v].at = "checked") => b \in overlapped'
    BY <1>10 DEF CreateScheduled
  <2>2. \A a \in Backups : ~Young(a)
    BY <2>1 DEF SpacingInv, Checked
  <2>3. ASSUME NEW a \in Backups, a # b
        PROVE  ~Young(a)'
    BY <1>8, <2>1, <2>2, <2>3 DEF Young
  <2>4. Checked' => b \in overlapped'
    <3>1. job'[w].at = "dumping" /\ \A v \in Workers \ {w} : job'[v] = job[v]
      BY <1>8, <2>1
    <3> QED
      BY <2>1, <3>1 DEF Checked
  <2>5. \A a \in scheduled' : record'[a] # "absent"
    BY <1>8, <1>r, <1>t, <2>1
  <2>6. Checked' => ~Young(b)'
    BY <2>4 DEF Young
  <2> QED
    BY <2>3, <2>5, <2>6 DEF SpacingInv
<1>11. ASSUME NEW w \in Workers, CommitRemoval(w)
       PROVE  SpacingInv'
  <2> DEFINE gone == job[w].doomed
  <2>1. /\ job' = [job EXCEPT ![w] = Free]
        /\ record' = [b \in Backups |-> IF b \in gone THEN "deleted" ELSE record[b]]
        /\ scheduled' = scheduled \ gone /\ fresh' = fresh \ gone /\ overlapped' = overlapped \ gone
    BY <1>11 DEF CommitRemoval, Stop
  <2>2. job'[w] = Free /\ \A v \in Workers \ {w} : job'[v] = job[v]
    BY <1>n, <2>1
  <2>3. \A b \in Backups : InHand(b)' => InHand(b)
    BY <2>2 DEF InHand, Making
  <2>4. \A b \in Backups : Young(b)' => Young(b)
    BY <2>1, <2>3 DEF Young
  <2>5. Checked' => Checked
    BY <2>2 DEF Checked
  <2> QED
    BY <1>r, <1>t, <2>1, <2>4, <2>5, SpacingStays
<1>12. ASSUME NEW b \in Backups, PassInterval(b) \/ PassRetention(b)
       PROVE  SpacingInv'
  <2>1. fresh' \subseteq fresh /\ UNCHANGED <<record, scheduled, job, overlapped>>
    BY <1>12 DEF PassInterval, PassRetention
  <2> QED
    BY <1>r, <2>1, SpacingStays DEF Young, InHand, Checked
<1> QED
  BY <1>a, <1>2, <1>3, <1>5, <1>6, <1>7, <1>9, <1>10, <1>11, <1>12 DEF BackupsNext, Progress

LEMMA BackupsKeptBy == BackupsInv /\ [BackupsNext]_backupVars => BackupsInv'
BY BackupsTypeKeptBy, BackupsJobsKeptBy, BackupsFilesKeptBy, BackupsSpacingKeptBy DEF BackupsInv

LEMMA BackupsAreKept == BackupsInv => BackupsKept
<1> SUFFICES ASSUME BackupsInv
             PROVE  CompletedIsRestorable /\ SpacedOut
  BY DEF BackupsKept
<1>1. CompletedIsRestorable
  BY DEF BackupsInv, FilesInv, NeedsFile, Kept, CompletedIsRestorable, Have
<1>2. SpacedOut
  BY DEF BackupsInv, BackupsTypeOK, SpacingInv, Young, SpacedOut, Have
<1> QED
  BY <1>1, <1>2

-----------------------------------------------------------------------------
(* All services side by side                                                *)

LEMMA InitiallyTasks == Init => BackupsInit /\ PushesInit /\ MessagesInit /\ ProvidersInit
BY DEF Init

LEMMA StepOfTasks ==
  [Next]_vars => /\ [BackupsNext]_backupVars
                 /\ [PushesNext]_pushVars
                 /\ [MessagesNext]_messageVars
                 /\ [ProvidersNext]_providerVars
BY DEF Next, vars, taskVars, RequestsNext, TasksNext, CatalogueNext

\* TasksKept, for any number of workers, backups, devices, notices and codes, whatever
\* fails or crashes: a completed backup has its file until it is older than the retention
\* or an administrator has asked to delete it; of the scheduled backups of one interval
\* all but one are of tasks that ran beside another; a device gets a notice once, and once
\* more at most for each interruption of its task; a code that send_otp sends to a phone is
\* stored, register commits no user whose code was not sent, and a message is logged as
\* sent only if it was.
THEOREM TasksAreKept == Spec => []TasksKept
<1> DEFINE Inv == BackupsInv /\ PushesInv /\ MessagesInv
<1>1. Init => Inv
  BY InitiallyTasks, BackupsInitially, PushesInitially, MessagesInitially
<1>2. Inv /\ [Next]_vars => Inv'
  BY StepOfTasks, BackupsKeptBy, PushesKeptBy, MessagesKeptBy
<1>3. Inv => TasksKept
  BY BackupsAreKept DEF PushesInv, MessagesInv, TasksKept
<1> QED
  BY <1>1, <1>2, <1>3, PTL DEF Spec

\* AnswersAreTrue: whatever is lost, late, wrong, or not JSON though it says it is a
\* success, the service is told of a payment that is open, paid or taken back, or of an
\* eSIM, only if that has happened at the provider.
THEOREM AnswersAreAlwaysTrue == Spec => []AnswersAreTrue
<1>1. Init => ProvidersInv
  BY InitiallyTasks, ProvidersInitially
<1>2. ProvidersInv /\ [Next]_vars => ProvidersInv'
  BY StepOfTasks, ProvidersKeptBy
<1>3. ProvidersInv => AnswersAreTrue
  BY DEF ProvidersInv, AnswersAreTrue
<1> QED
  BY <1>1, <1>2, <1>3, PTL DEF Spec

\* TypeOK: every variable of the ten services keeps its type.
THEOREM OperationsTypeCorrect == Spec => []TypeOK
<1> DEFINE Inv == /\ TicketsInv /\ UsageInv /\ ConsoleInv
                  /\ BackupsInv /\ PushesInv /\ MessagesInv /\ ProvidersInv
                  /\ IndexInv /\ PlansInv /\ RatesInv
<1>1. Init => Inv
  BY InitiallyRequests, InitiallyTasks, InitiallyCatalogue,
     TicketsInitially, UsageInitially, ConsoleInitially,
     BackupsInitially, PushesInitially, MessagesInitially, ProvidersInitially,
     IndexInitially, PlansInitially, RatesInitially
<1>2. Inv /\ [Next]_vars => Inv'
  BY StepOfRequests, StepOfTasks, StepOfCatalogue,
     TicketsKeptBy, UsageKeptBy, ConsoleKeptBy,
     BackupsKeptBy, PushesKeptBy, MessagesKeptBy, ProvidersKeptBy,
     IndexKeptBy, PlansKeptBy, RatesKeptBy
<1>3. Inv => TypeOK
  BY DEF TypeOK, TicketsInv, UsageInv, ConsoleInv, BackupsInv, PushesInv, MessagesInv,
         ProvidersInv, IndexInv, PlansInv, RatesInv
<1> QED
  BY <1>1, <1>2, <1>3, PTL DEF Spec
=============================================================================
