------------------------------ MODULE Console ------------------------------
(***************************************************************************)
(* The administrators' handlers: a change of a row in one transaction,     *)
(* then the audit row in a second one, then the answer.  Only orders and   *)
(* payments are locked; some handlers write no audit row, and two fail     *)
(* before they do, after their change is committed.                        *)
(***************************************************************************)
EXTENDS Requests

CONSTANTS Admins, NoAdmin

ASSUME ConsoleAssumption == NoAdmin \notin Admins

VARIABLES
  kind,     \* "setting": a row of system_settings; "account": a user's is_active;
            \* "finance": a tax rate or coupon; "charge": an order or payment
  row,      \* the row: its value, and updated_by of a setting
  trail,    \* the latest row of audit_logs about it
  console,  \* the workers' requests
  audited,  \* the last change has an audit row: "no", "stamped" if it set updated_by, "yes"
  mixed     \* the last change overlapped with another request

consoleVars == <<kind, row, trail, console, audited, mixed>>

Choices == {"on", "off"}
Row == [value : Choices \cup {"none"}, by : Admins \cup {NoAdmin}]
NoEntry == [value |-> "none", by |-> NoAdmin]

\* unstamped: with an audit row, but updated_by is left as it is.
Audits == {"written", "unstamped", "missing", "broken"}

Closed == [at |-> "closed", goal |-> NoEntry, audit |-> "missing", copy |-> NoEntry, alone |-> FALSE]

ConsoleTypeOK ==
  /\ kind \in {"setting", "account", "finance", "charge"}
  /\ row \in Row /\ trail \in Row
  /\ console \in [Workers -> [at : {"closed", "read", "committed"}, goal : Row,
                               audit : Audits, copy : Row, alone : BOOLEAN]]
  /\ audited \in {"no", "yes", "stamped"} /\ mixed \in BOOLEAN

\* A user is there and active from the start; of a charge, none stands for pending.
ConsoleInit ==
  /\ \/ kind \in {"setting", "finance", "charge"} /\ row = NoEntry
     \/ kind = "account" /\ row = [NoEntry EXCEPT !.value = "on"]
  /\ trail = row
  /\ console = [w \in Workers |-> Closed]
  /\ audited = "stamped" /\ mixed = FALSE

-----------------------------------------------------------------------------
\* The row is read, and locked if it is a charge; other requests are no longer alone.
Open(w, goal, audit) ==
  LET beside == {v \in Workers : console[v].at # "closed"} IN
  /\ console[w].at = "closed"
  /\ kind = "charge" => \A v \in beside : console[v].at # "read"
  /\ console' = [v \in Workers |->
       IF v = w THEN [at |-> "read", goal |-> goal, audit |-> audit,
                      copy |-> row, alone |-> beside = {}]
       ELSE IF v \in beside THEN [console[v] EXCEPT !.alone = FALSE] ELSE console[v]]
  /\ mixed' = (mixed \/ \E v \in beside : console[v].at = "committed")
  /\ UNCHANGED <<kind, row, trail, audited>>

Goal(v, a) == [value |-> v, by |-> a]

\* Of a setting's value it matters only that it is there.
SetSetting(w, a) == kind = "setting" /\ Open(w, Goal("on", a), "written")
UpdateServerConfig(w, a) == kind = "setting" /\ Open(w, Goal("on", a), "missing")
UpdateBackupSetting(w, a) == kind = "setting" /\ Open(w, Goal("on", a), "unstamped")
DeleteSetting(w, a) ==
  kind = "setting" /\ row.value # "none" /\ Open(w, Goal("none", a), "written")

\* A handler of a row that keeps no updated_by.
Handle(w, v, audit) == Open(w, Goal(v, NoAdmin), audit)

\* ban_user, unban_user and update_user with is_active
UpdateUser(w, v) == kind = "account" /\ Handle(w, v, "written")
DeleteAccount(w) == kind = "account" /\ row.value = "on" /\ Handle(w, "off", "written")
ToggleUserActive(w) ==
  kind = "account" /\ Handle(w, IF row.value = "on" THEN "off" ELSE "on", "missing")

CreateTax(w, v) == kind = "finance" /\ row.value = "none" /\ Handle(w, v, "missing")
CreateCoupon(w) == kind = "finance" /\ row.value = "none" /\ Handle(w, "on", "missing")
UpdateTax(w, v) == kind = "finance" /\ row.value # "none" /\ Handle(w, v, "missing")
UpdateCoupon(w, v) == kind = "finance" /\ row.value # "none" /\ Handle(w, v, "missing")

ConfirmPayment(w) == kind = "charge" /\ row.value = "none" /\ Handle(w, "on", "written")
ApproveOrder(w) == kind = "charge" /\ row.value = "none" /\ Handle(w, "on", "written")
ReprocessOrder(w) == kind = "charge" /\ row.value = "on" /\ Handle(w, "on", "written")
RefundPayment(w) == kind = "charge" /\ row.value = "on" /\ Handle(w, "off", "written")
CancelOrder(w) == kind = "charge" /\ row.value # "off" /\ Handle(w, "off", "written")
\* The audit row is to hold two names that are not defined.
RefundOrder(w) == kind = "charge" /\ row.value = "on" /\ Handle(w, "off", "broken")

\* What the commit makes of the row.
Outcome(copy, goal) ==
  IF goal.value = "none" THEN NoEntry
  ELSE IF copy.value = "none" THEN goal
  ELSE Goal(Written(row.value, copy.value, goal.value), Written(row.by, copy.by, goal.by))

\* A row that has appeared meanwhile violates UNIQUE, and one that has gone cannot be
\* updated; a row that has gone may be deleted.
Possible(copy, goal) == goal.value # "none" => (copy.value = "none" <=> row.value = "none")

CommitChange(w) ==
  LET c == console[w] IN
  /\ c.at = "read" /\ Possible(c.copy, c.goal)
  /\ row' = Outcome(c.copy, IF c.audit = "unstamped" THEN Goal(c.goal.value, c.copy.by) ELSE c.goal)
  /\ audited' = "no" /\ mixed' = ~c.alone
  /\ console' = [console EXCEPT ![w] =
       IF c.audit \in {"written", "unstamped"}
         THEN [c EXCEPT !.at = "committed", !.copy = NoEntry]
         ELSE Closed]
  /\ UNCHANGED <<kind, trail>>

\* Variant: the audit row is committed before the change is.
LogFirst(w) ==
  LET c == console[w] IN
  /\ c.at = "read" /\ c.audit = "written"
  /\ trail' = c.goal
  /\ UNCHANGED <<kind, row, console, audited, mixed>>

Log(w) ==
  /\ console[w].at = "committed"
  /\ trail' = console[w].goal
  /\ audited' = IF console[w].audit = "unstamped" THEN "yes" ELSE "stamped"
  /\ console' = [console EXCEPT ![w] = Closed]
  /\ UNCHANGED <<kind, row, mixed>>

\* An error before the commit changes nothing; one of the audit leaves the change.
RequestFails(w) ==
  /\ console[w].at # "closed"
  /\ console' = [console EXCEPT ![w] = Closed]
  /\ UNCHANGED <<kind, row, trail, audited, mixed>>

\* The administrators turn to another order or payment.
NextCharge ==
  /\ kind = "charge" /\ row.value = "off" /\ \A w \in Workers : console[w] = Closed
  /\ row' = NoEntry /\ trail' = NoEntry
  /\ audited' = "stamped" /\ mixed' = FALSE
  /\ UNCHANGED <<kind, console>>

ConsoleNext ==
  \/ NextCharge
  \/ \E w \in Workers :
       \/ CommitChange(w) \/ Log(w) \/ RequestFails(w)
       \/ DeleteAccount(w) \/ ToggleUserActive(w) \/ CreateCoupon(w)
       \/ ConfirmPayment(w) \/ ApproveOrder(w) \/ ReprocessOrder(w)
       \/ RefundPayment(w) \/ CancelOrder(w) \/ RefundOrder(w)
       \/ \E a \in Admins :
            \/ SetSetting(w, a) \/ UpdateServerConfig(w, a)
            \/ UpdateBackupSetting(w, a) \/ DeleteSetting(w, a)
       \/ \E v \in Choices :
            UpdateUser(w, v) \/ CreateTax(w, v) \/ UpdateTax(w, v) \/ UpdateCoupon(w, v)

ConsoleSpec == ConsoleInit /\ [][ConsoleNext]_consoleVars

-----------------------------------------------------------------------------
\* The latest audit row tells how an account, an order or a payment stands, and of a
\* setting who has changed it last, if that change set updated_by, or that it is deleted,
\* unless the last change has no audit row or overlapped with another request.
TrailTellsLast ==
  audited # "no" /\ ~mixed =>
    /\ (trail.value = "none" <=> row.value = "none")
    /\ kind \in {"account", "charge"} => trail.value = row.value
    /\ row.value # "none" /\ audited = "stamped" => trail.by = row.by
=============================================================================
