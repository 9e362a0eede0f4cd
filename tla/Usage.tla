------------------------------- MODULE Usage -------------------------------
(***************************************************************************)
(* Callbacks about an eSIM: the provider calls in any order, again, or not *)
(* at all; the handlers keep the highest report of the data used, log the  *)
(* call in a transaction of its own and notify the owner.                  *)
(***************************************************************************)
EXTENDS Naturals, Requests

CONSTANT MaxUsage   \* bound on the data used, in steps that the properties tell apart

ASSUME UsageAssumption == MaxUsage \in Nat

VARIABLES
  used,          \* data_usage_mb; 0 stands for NULL, too
  caller,        \* the callbacks that are served
  highest,       \* the highest report that has been committed
  acknowledged,  \* reports logged as a success by a callback that did not fail since
  notified,      \* the highest report the owner has been sent
  collided       \* history: two callbacks were between reading the row and committing it,
                 \* and none has committed the highest report alone since

usageVars == <<used, caller, highest, acknowledged, notified, collided>>

Reports == 0..MaxUsage
Higher(a, b) == IF a > b THEN a ELSE b

\* Callbacks that change no row; the quiet ones are of a balance, a telephone number, an
\* unknown type or an unknown eSIM.
Signals == {"topup", "location", "quiet"}

\* A FirstUse callback logs after its commit, a DataUsage callback before it.
Caller == [at : {"gone", "reading", "logged", "stored", "telling", "noted", "greeting"},
           kind : Signals \cup {"usage", "first"}, report : Reports, copy : Reports]

Gone == [at |-> "gone", kind |-> "quiet", report |-> 0, copy |-> 0]

UsageTypeOK ==
  /\ used \in Reports /\ highest \in Reports /\ notified \in Reports
  /\ caller \in [Workers -> Caller]
  /\ acknowledged \subseteq Reports
  /\ collided \in BOOLEAN

UsageInit ==
  /\ used = 0 /\ highest = 0 /\ notified = 0
  /\ caller = [w \in Workers |-> Gone]
  /\ acknowledged = {}
  /\ collided = FALSE

Calling(w, step) == caller[w].at = step
Continue(w, step) == caller' = [caller EXCEPT ![w].at = step]
InTransaction == {"reading", "logged"}

-----------------------------------------------------------------------------
\* A report of now or of some time ago, late or repeated, for an eSIM that is known.
Receive(w, u, kind) ==
  /\ Calling(w, "gone")
  /\ caller' = [caller EXCEPT ![w] = [at |-> "reading", kind |-> kind, report |-> u, copy |-> used]]
  /\ collided' = (collided \/ \E v \in Workers : caller[v].at \in InTransaction)
  /\ UNCHANGED <<used, highest, acknowledged, notified>>

ProcessUsage(w, u) == Receive(w, u, "usage")
ProcessFirstUse(w, u) == Receive(w, u, "first")

\* An error of the log is swallowed.
LogCallback(w) ==
  /\ \/ Calling(w, "reading") /\ caller[w].kind = "usage" /\ Continue(w, "logged")
     \/ Calling(w, "stored") /\ Continue(w, "telling")
  /\ acknowledged' \in {acknowledged, acknowledged \cup {caller[w].report}}
  /\ UNCHANGED <<used, highest, notified, collided>>

CommitAs(w, u) ==
  /\ \/ Calling(w, "reading") /\ caller[w].kind = "first" /\ Continue(w, "stored")
     \/ Calling(w, "logged") /\ Continue(w, "telling")
  /\ used' = u
  /\ highest' = Higher(caller[w].report, highest)
  /\ collided' = (collided /\ (used' # highest' \/ \E v \in Workers \ {w} : caller[v].at \in InTransaction))
  /\ UNCHANGED <<acknowledged, notified>>

\* Variant: the report is stored as it comes.
StoreReport(w) == CommitAs(w, caller[w].report)

CommitUsage(w) ==
  CommitAs(w, IF caller[w].report > caller[w].copy THEN caller[w].report ELSE used)

\* Every report that was taken is sent, also one that is lower than an earlier one was.
SendPush(w) ==
  /\ Calling(w, "telling")
  /\ notified' \in {notified, Higher(notified, caller[w].report)}
  /\ caller' = [caller EXCEPT ![w] = Gone]
  /\ UNCHANGED <<used, highest, acknowledged, collided>>

\* What the provider's parsers keep of the ICCID: a top-up loses it.
IccidOf(kind) == kind = "location"

ProcessNotice(w, kind) ==
  /\ Calling(w, "gone")
  /\ caller' = [caller EXCEPT ![w] = [at |-> "noted", kind |-> kind, report |-> 0, copy |-> 0]]
  /\ UNCHANGED <<used, highest, acknowledged, notified, collided>>

\* Logged, then told to the owner if there is one and the handler sends a push.
LogNotice(w) ==
  /\ Calling(w, "noted")
  /\ \/ caller[w].kind \in {"topup", "location"} /\ IccidOf(caller[w].kind) /\ Continue(w, "greeting")
     \/ caller' = [caller EXCEPT ![w] = Gone]
  /\ UNCHANGED <<used, highest, acknowledged, notified, collided>>

Greet(w) ==
  /\ Calling(w, "greeting")
  /\ caller' = [caller EXCEPT ![w] = Gone]
  /\ UNCHANGED <<used, highest, acknowledged, notified, collided>>

\* The transaction is rolled back; the log row of the callback stays.
CallbackFails(w) ==
  /\ ~Calling(w, "gone")
  /\ caller' = [caller EXCEPT ![w] = Gone]
  /\ acknowledged' = IF Calling(w, "logged") THEN acknowledged \ {caller[w].report} ELSE acknowledged
  /\ UNCHANGED <<used, highest, notified, collided>>

UsageNext ==
  \E w \in Workers :
    \/ LogCallback(w) \/ CommitUsage(w) \/ SendPush(w) \/ CallbackFails(w)
    \/ LogNotice(w) \/ Greet(w)
    \/ \E kind \in Signals : ProcessNotice(w, kind)
    \/ \E u \in Reports : ProcessUsage(w, u) \/ ProcessFirstUse(w, u)

UsageSpec == UsageInit /\ [][UsageNext]_usageVars

-----------------------------------------------------------------------------
\* The row holds the highest of the reports, in whatever order and however often they
\* came, but for a higher one that was lost to a simultaneous callback and has not come
\* again since.
HighestIsKept == ~collided => used = highest

\* What the log calls a success and what the owner is told has been committed, at the
\* same time as others or not, unless the callback that logged it is under way or failed.
ToldWasStored ==
  /\ notified <= highest
  /\ \A u \in acknowledged :
       u <= highest \/ \E w \in Workers : Calling(w, "logged") /\ caller[w].report = u
=============================================================================
