------------------------------ MODULE Messages ------------------------------
(***************************************************************************)
(* One-time codes on their way to a phone: the row in otp_codes, the call  *)
(* of the SMS provider and the row the provider's client logs, each in a   *)
(* transaction of its own, except that register calls the provider before  *)
(* it commits the user and the code.                                       *)
(***************************************************************************)
EXTENDS Requests

CONSTANT Texts

VARIABLES
  provider, \* the configured SMS provider
  origin,   \* "register" or "send_otp"
  code,     \* row of otp_codes: "none", "open" in a transaction, "stored", "undone"
  sms,      \* "unsent", "calling", or what the client was told
  logged,   \* status in sms_provider_transactions
  inbox     \* the codes that phones have received

messageVars == <<provider, origin, code, sms, logged, inbox>>

MessagesTypeOK ==
  /\ provider \in {"otpiq", "bulksmsiraq"}
  /\ origin \in [Texts -> {"none", "register", "send_otp"}]
  /\ code \in [Texts -> {"none", "open", "stored", "undone"}]
  /\ sms \in [Texts -> {"unsent", "calling", "sent", "refused"}]
  /\ logged \in [Texts -> {"none", "sent", "other", "unknown", "failed"}]
  /\ inbox \in SUBSET Texts

MessagesInit ==
  /\ provider \in {"otpiq", "bulksmsiraq"}
  /\ origin = [m \in Texts |-> "none"]
  /\ code = [m \in Texts |-> "none"]
  /\ sms = [m \in Texts |-> "unsent"]
  /\ logged = [m \in Texts |-> "none"]
  /\ inbox = {}

-----------------------------------------------------------------------------
RegisterUser(m) ==
  /\ origin[m] = "none"
  /\ origin' = [origin EXCEPT ![m] = "register"]
  /\ code' = [code EXCEPT ![m] = "open"]
  /\ UNCHANGED <<provider, sms, logged, inbox>>

\* Variant: the provider is called inside the transaction here, too.
SendBeforeCommit(m) ==
  /\ origin[m] = "none"
  /\ origin' = [origin EXCEPT ![m] = "send_otp"]
  /\ code' = [code EXCEPT ![m] = "open"]
  /\ UNCHANGED <<provider, sms, logged, inbox>>

SendOtpCode(m) ==
  /\ origin[m] = "none"
  /\ origin' = [origin EXCEPT ![m] = "send_otp"]
  /\ code' = [code EXCEPT ![m] = "stored"]
  /\ UNCHANGED <<provider, sms, logged, inbox>>

SendText(m) ==
  /\ origin[m] # "none" /\ sms[m] = "unsent"
  /\ sms' = [sms EXCEPT ![m] = "calling"]
  /\ UNCHANGED <<provider, origin, code, logged, inbox>>

CallOtpiq(m) == provider = "otpiq" /\ SendText(m)
CallBulkSMSIraq(m) == provider = "bulksmsiraq" /\ SendText(m)

Answer(m, outcome, l) ==
  /\ sms' = [sms EXCEPT ![m] = outcome]
  /\ \/ logged' = [logged EXCEPT ![m] = l]
     \/ UNCHANGED logged   \* _log_transaction swallows its own errors

\* The client has no key: it simulates, or is not ready.
SkipProvider(m) ==
  /\ origin[m] # "none" /\ sms[m] = "unsent"
  /\ \/ Answer(m, "sent", "sent")
     \/ sms' = [sms EXCEPT ![m] = "refused"] /\ UNCHANGED logged
  /\ UNCHANGED <<provider, origin, code, inbox>>

\* An accepted message arrives now or never.
Arrive(m) == inbox' \in {inbox, inbox \cup {m}}

Accepted(m) ==
  /\ provider = "otpiq" /\ sms[m] = "calling"
  /\ Answer(m, "sent", "sent") /\ Arrive(m)
  /\ UNCHANGED <<provider, origin, code>>

\* The row takes over the provider's own word.
BulkAccepted(m) ==
  /\ provider = "bulksmsiraq" /\ sms[m] = "calling"
  /\ \E word \in {"sent", "other"} : Answer(m, "sent", word)
  /\ Arrive(m)
  /\ UNCHANGED <<provider, origin, code>>

\* An error of the provider has no status of its own.
Rejected(m) ==
  /\ sms[m] = "calling"
  /\ Answer(m, "refused", "unknown")
  /\ UNCHANGED <<provider, origin, code, inbox>>

\* No answer, or one that is not JSON: the message may have been accepted.
Unanswered(m) ==
  /\ provider = "otpiq" /\ sms[m] = "calling"
  /\ Answer(m, "refused", "failed") /\ Arrive(m)
  /\ UNCHANGED <<provider, origin, code>>

BulkUnanswered(m) ==
  /\ provider = "bulksmsiraq" /\ sms[m] = "calling"
  /\ Answer(m, "refused", "failed") /\ Arrive(m)
  /\ UNCHANGED <<provider, origin, code>>

\* An error of the provider is raised through register's transaction.
CommitUser(m) ==
  /\ code[m] = "open" /\ sms[m] = "sent"
  /\ code' = [code EXCEPT ![m] = "stored"]
  /\ UNCHANGED <<provider, origin, sms, logged, inbox>>

RollBackUser(m) ==
  /\ code[m] = "open"
  /\ code' = [code EXCEPT ![m] = "undone"]
  /\ sms' = [sms EXCEPT ![m] = IF @ \in {"unsent", "calling"} THEN "refused" ELSE @]
  /\ UNCHANGED <<provider, origin, logged, inbox>>

\* The code expires; the model uses its number again.
Expire(m) ==
  /\ code[m] \in {"stored", "undone"} /\ sms[m] \in {"sent", "refused"}
  /\ origin' = [origin EXCEPT ![m] = "none"]
  /\ code' = [code EXCEPT ![m] = "none"]
  /\ sms' = [sms EXCEPT ![m] = "unsent"]
  /\ logged' = [logged EXCEPT ![m] = "none"]
  /\ inbox' = inbox \ {m}
  /\ UNCHANGED provider

MessagesNext ==
  \E m \in Texts :
    \/ RegisterUser(m) \/ SendOtpCode(m)
    \/ CallOtpiq(m) \/ CallBulkSMSIraq(m) \/ SkipProvider(m)
    \/ Accepted(m) \/ BulkAccepted(m) \/ Rejected(m)
    \/ Unanswered(m) \/ BulkUnanswered(m)
    \/ CommitUser(m) \/ RollBackUser(m) \/ Expire(m)

MessagesSpec == MessagesInit /\ [][MessagesNext]_messageVars

-----------------------------------------------------------------------------
\* A code that a phone has received can be used, unless it is the first one of a user
\* whose registration is under way or was undone: register sends it before it commits.
ReceivedIsStored ==
  \A m \in inbox : code[m] # "stored" => origin[m] = "register" /\ code[m] \in {"open", "undone"}

\* A user is registered only if the provider took the first code, and a code is logged
\* as sent only if the provider did not refuse it.
SentAsRecorded ==
  \A m \in Texts :
    /\ origin[m] = "register" /\ code[m] = "stored" => sms[m] = "sent"
    /\ logged[m] = "sent" => sms[m] = "sent"

MessagesKept == ReceivedIsStored /\ SentAsRecorded
=============================================================================
