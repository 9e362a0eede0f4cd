-------------------------- MODULE RequestsProofs --------------------------
(***************************************************************************)
(* Tickets, usage callbacks and the console: what the handlers keep, for   *)
(* any number of workers, proved of each service and then of all of them   *)
(* side by side.                                                           *)
(***************************************************************************)
EXTENDS MCOperations, TLAPS

-----------------------------------------------------------------------------
(* Tickets: messages are late only for a ticket that is closed.             *)

TicketsInv == TicketsTypeOK /\ ClosedProperly /\ (late => ticket.status = "closed")

LEMMA TicketsInitially == TicketsInit => TicketsInv
<1>1. NoTicket \in Ticket /\ NoTicket.status = "absent"
  BY DEF NoTicket, Ticket, Statuses
<1>2. Away \in [at : {"away", "serving"}, copy : Ticket]
  BY <1>1 DEF Away
<1> QED
  BY <1>1, <1>2 DEF TicketsInit, TicketsInv, TicketsTypeOK, ClosedProperly

LEMMA StatusIsStatus ==
  ASSUME TicketsTypeOK, NEW w \in Workers, NEW s \in Statuses
  PROVE  /\ Status(w, s) \in Statuses
         /\ Status(w, s) = IF s = desk[w].copy.status THEN ticket.status ELSE s
BY DEF TicketsTypeOK, Ticket, Status, Written

LEMMA TicketsKeptBy ==
  TicketsInv /\ [TicketsNext]_ticketVars => TicketsInv'
<1> SUFFICES ASSUME TicketsInv, [TicketsNext]_ticketVars
             PROVE  TicketsInv'
  OBVIOUS
<1> USE DEF TicketsInv, TicketsTypeOK, ClosedProperly, Ticket
<1>a. CASE UNCHANGED ticketVars
  BY <1>a DEF ticketVars
<1>1. CASE CreateTicket
  BY <1>1, StaffAssumption DEF CreateTicket, NoTicket, Statuses
<1>2. ASSUME NEW w \in Workers, ReadTicket(w)
      PROVE  TicketsInv'
  BY <1>2 DEF ReadTicket
<1>3. ASSUME NEW w \in Workers, Refuse(w)
      PROVE  TicketsInv'
  BY <1>3, StaffAssumption DEF Refuse, Away, NoTicket, Statuses
<1>4. ASSUME NEW w \in Workers, NEW t \in Ticket, Save(w, t)
      PROVE  /\ ticket' = t
             /\ desk' \in [Workers -> [at : {"away", "serving"}, copy : Ticket]]
             /\ overtaken' \in BOOLEAN
             /\ ~overtaken' =>
                  \/ t.status = "closed" /\ ticket.status # "closed" /\ t.dated
                  \/ ~overtaken /\ desk[w].copy = ticket
  BY <1>4, StaffAssumption DEF Save, Away, NoTicket, Statuses
<1>5. ASSUME NEW w \in Workers, AddMessage(w)
      PROVE  TicketsInv'
  <2> DEFINE s == desk[w].copy.status
             u == IF s = "resolved" THEN "open" ELSE s
             t == [ticket EXCEPT !.status = Status(w, u)]
  <2>1. s \in Statuses /\ u \in Statuses /\ s # "closed"
    BY <1>5 DEF AddMessage, Statuses
  <2>2. t \in Ticket
    BY <2>1, StatusIsStatus
  <2>3. Save(w, t) /\ Message
    BY <1>5 DEF AddMessage
  <2>4. t.status = "closed" => ticket.status = "closed"
    BY <2>1, StatusIsStatus
  <2> HIDE DEF s, u, t
  <2>5. ticket' = t /\ late' = (t.status = "closed")
    BY <2>2, <2>3, <1>4 DEF Message
  <2>6. t.status = "closed" => overtaken'
    BY <2>1, <2>2, <2>3, <2>4, <1>4 DEF s
  <2> QED
    BY <2>2, <2>3, <2>5, <2>6, <1>4
<1>6. ASSUME NEW w \in Workers, CloseTicket(w)
      PROVE  TicketsInv'
  <2> DEFINE t == [ticket EXCEPT !.status = Status(w, "closed"), !.dated = TRUE]
  <2>1. Status(w, "closed") = "closed" /\ t \in Ticket
    BY <1>6, StatusIsStatus DEF CloseTicket, Statuses
  <2>2. Save(w, t) /\ NoMessage /\ desk[w].copy.status # "closed"
    BY <1>6 DEF CloseTicket
  <2>3. t.status = "closed" /\ t.dated
    BY <2>1
  <2> HIDE DEF t
  <2>4. ticket' = t /\ late' = late
    BY <2>1, <2>2, <2>3, <1>4 DEF NoMessage
  <2> QED
    BY <2>1, <2>2, <2>3, <2>4, <1>4
<1>7. ASSUME NEW w \in Workers, AdminReply(w)
      PROVE  TicketsInv'
  <2>1. Save(w, ticket) /\ Message /\ desk[w].copy.status # "closed"
    BY <1>7 DEF AdminReply
  <2>2. ticket' = ticket /\ late' = (ticket.status = "closed")
    BY <2>1, <1>4 DEF Message
  <2> QED
    BY <2>1, <2>2, <1>4
<1>8. ASSUME NEW w \in Workers, NEW s \in Statuses \ {"absent"}, AdminUpdateStatus(w, s)
      PROVE  TicketsInv'
  <2> DEFINE t == [ticket EXCEPT
                     !.status = Status(w, s),
                     !.dated = IF s = "closed" THEN TRUE
                               ELSE IF s = "open" /\ desk[w].copy.dated THEN FALSE ELSE @]
  <2>1. t \in Ticket
    BY StatusIsStatus
  <2>2. Save(w, t) /\ NoMessage
    BY <1>8 DEF AdminUpdateStatus
  <2>3. t.status = "closed" =>
          \/ s = "closed" /\ t.dated
          \/ ticket.status = "closed" /\ desk[w].copy.status # "closed"
    BY StatusIsStatus
  <2> HIDE DEF t
  <2>4. ticket' = t /\ late' = (late /\ t.status = "closed")
    BY <2>1, <2>2, <1>4 DEF NoMessage
  <2>5. t.status = "closed" /\ ~overtaken' => t.dated /\ ~late
    BY <2>1, <2>2, <2>3, <1>4
  <2> QED
    BY <2>1, <2>2, <2>4, <2>5, <1>4
<1>9. ASSUME NEW w \in Workers, NEW a \in Staff, AdminAssign(w, a)
      PROVE  TicketsInv'
  <2> DEFINE t == [ticket EXCEPT !.assigned = a]
  <2>1. t \in Ticket /\ t.status = ticket.status /\ t.dated = ticket.dated
    OBVIOUS
  <2>2. Save(w, t) /\ NoMessage
    BY <1>9 DEF AdminAssign
  <2> HIDE DEF t
  <2>3. ticket' = t /\ late' = late
    BY <2>1, <2>2, <1>4 DEF NoMessage
  <2> QED
    BY <2>1, <2>2, <2>3, <1>4
<1> QED
  BY <1>a, <1>1, <1>2, <1>3, <1>5, <1>6, <1>7, <1>8, <1>9 DEF TicketsNext

-----------------------------------------------------------------------------
(* Usage: while no two callbacks have been between reading and committing,  *)
(* the only one that is there has read what is stored; what a callback is   *)
(* about to log or to tell has been committed whether or not they have.     *)

OneReads ==
  /\ \A w \in Workers : caller[w].at \in InTransaction => caller[w].copy = used
  /\ \A v, w \in Workers :
       caller[v].at \in InTransaction /\ caller[w].at \in InTransaction => v = w

TellersHaveStored ==
  \A w \in Workers : caller[w].at \in {"stored", "telling"} => caller[w].report <= highest

UsageInv ==
  /\ UsageTypeOK /\ TellersHaveStored /\ ToldWasStored
  /\ ~collided => OneReads /\ used = highest

LEMMA UsageInitially == UsageInit => UsageInv
<1> SUFFICES ASSUME UsageInit
             PROVE  UsageInv
  OBVIOUS
<1> USE UsageAssumption DEF UsageInit, Reports, Gone
<1>1. UsageTypeOK
  <2>1. Gone \in Caller
    BY DEF Caller, Signals
  <2>2. caller \in [Workers -> Caller]
    BY <2>1
  <2>3. 0 \in Reports
    BY UsageAssumption
  <2> QED
    BY <2>2, <2>3 DEF UsageTypeOK
<1>2. OneReads /\ TellersHaveStored /\ ToldWasStored
  BY DEF OneReads, TellersHaveStored, ToldWasStored, InTransaction
<1> QED
  BY <1>1, <1>2 DEF UsageInv

LEMMA UsageKeptBy == UsageInv /\ [UsageNext]_usageVars => UsageInv'
<1> SUFFICES ASSUME UsageInv, [UsageNext]_usageVars
             PROVE  UsageInv'
  OBVIOUS
<1> USE UsageAssumption DEF UsageInv, UsageTypeOK, Caller, Reports, Calling, Signals,
  OneReads, TellersHaveStored, ToldWasStored, InTransaction
<1>a. CASE UNCHANGED usageVars
  BY <1>a DEF usageVars
<1>g. Gone \in Caller /\ Gone.at = "gone"
  BY DEF Gone
<1>1. ASSUME NEW w \in Workers, LogCallback(w)
      PROVE  UsageInv'
  BY <1>1 DEF LogCallback, Continue
<1>2. ASSUME NEW w \in Workers, CommitUsage(w)
      PROVE  UsageInv'
  <2> DEFINE report == caller[w].report
  <2>1. /\ caller' \in {[caller EXCEPT ![w].at = "stored"], [caller EXCEPT ![w].at = "telling"]}
        /\ caller[w].at \in InTransaction
        /\ used' = IF report > caller[w].copy THEN report ELSE used
        /\ highest' = Higher(report, highest)
        /\ collided' = (collided /\ (used' # highest' \/
                                   \E v \in Workers \ {w} : caller[v].at \in InTransaction))
        /\ UNCHANGED <<acknowledged, notified>>
    BY <1>2 DEF CommitUsage, CommitAs, Continue
  <2>2. highest' \in Reports /\ report <= highest' /\ highest <= highest'
    BY <2>1 DEF Higher
  <2>3. UsageTypeOK' /\ TellersHaveStored' /\ notified' <= highest'
    BY <2>1, <2>2
  <2>4. ASSUME NEW u \in acknowledged'
        PROVE  u <= highest' \/ \E v \in Workers : (Calling(v, "logged") /\ caller[v].report = u)'
    <3>1. u \in acknowledged /\ u \in Nat
      BY <2>1, <2>4
    <3>2. ASSUME ~(u <= highest')
          PROVE  \E v \in Workers : (Calling(v, "logged") /\ caller[v].report = u)'
      <4>1. PICK v \in Workers : caller[v].at = "logged" /\ caller[v].report = u
        BY <2>2, <3>1, <3>2
      <4>2. v # w
        BY <2>2, <3>2, <4>1
      <4> QED
        BY <2>1, <4>1, <4>2
    <3> QED
      BY <3>2
  <2>5. CASE ~collided
    <3>1. used' = highest'
      BY <2>1, <2>5 DEF Higher
    <3>2. OneReads'
      BY <2>1, <2>5
    <3> QED
      BY <2>3, <2>4, <3>1, <3>2
  <2>6. CASE collided /\ ~collided'
    <3>1. used' = highest' /\ \A v \in Workers \ {w} : caller[v].at \notin InTransaction
      BY <2>1, <2>6
    <3>2. OneReads'
      BY <2>1, <3>1
    <3> QED
      BY <2>3, <2>4, <3>1, <3>2
  <2> QED
    BY <2>1, <2>3, <2>4, <2>5, <2>6
<1>3. ASSUME NEW w \in Workers, SendPush(w)
      PROVE  UsageInv'
  BY <1>3, <1>g DEF SendPush, Higher
<1>4. ASSUME NEW w \in Workers, CallbackFails(w)
      PROVE  UsageInv'
  <2>0. /\ caller' = [caller EXCEPT ![w] = Gone] /\ acknowledged' \subseteq acknowledged
        /\ UNCHANGED <<used, highest, notified, collided>>
    BY <1>4 DEF CallbackFails
  <2>1. UsageTypeOK' /\ TellersHaveStored'
    BY <1>g, <2>0
  <2>2. ~collided => OneReads' /\ used' = highest'
    BY <1>g, <2>0
  <2>3. ASSUME NEW u \in acknowledged'
        PROVE  u <= highest' \/ \E v \in Workers : (Calling(v, "logged") /\ caller[v].report = u)'
    <3>1. u \in acknowledged /\ highest' = highest /\ caller' = [caller EXCEPT ![w] = Gone]
      BY <1>4, <2>3 DEF CallbackFails
    <3>2. ASSUME ~(u <= highest)
          PROVE  \E v \in Workers : (Calling(v, "logged") /\ caller[v].report = u)'
      <4>1. PICK v \in Workers : caller[v].at = "logged" /\ caller[v].report = u
        BY <2>3, <3>1, <3>2
      <4>2. v # w
        BY <1>4, <2>3, <4>1 DEF CallbackFails
      <4> QED
        BY <3>1, <4>1, <4>2
    <3> QED
      BY <3>1, <3>2
  <2> QED
    BY <1>4, <2>1, <2>2, <2>3 DEF CallbackFails
<1>5. ASSUME NEW w \in Workers, LogNotice(w)
      PROVE  UsageInv'
  BY <1>5, <1>g DEF LogNotice, Continue, IccidOf
<1>6. ASSUME NEW w \in Workers, Greet(w)
      PROVE  UsageInv'
  BY <1>6, <1>g DEF Greet
<1>7. ASSUME NEW w \in Workers, NEW k \in Signals, ProcessNotice(w, k)
      PROVE  UsageInv'
  <2> DEFINE c == [at |-> "noted", kind |-> k, report |-> 0, copy |-> 0]
  <2>1. c \in Caller /\ c.at = "noted"
    OBVIOUS
  <2>2. /\ caller' = [caller EXCEPT ![w] = c] /\ caller[w].at = "gone"
        /\ UNCHANGED <<used, highest, acknowledged, notified, collided>>
    BY <1>7 DEF ProcessNotice
  <2> HIDE DEF c
  <2> QED
    BY <2>1, <2>2
<1>8. ASSUME NEW w \in Workers, NEW u \in Reports, ProcessUsage(w, u) \/ ProcessFirstUse(w, u)
      PROVE  UsageInv'
  <2>1. PICK k \in {"usage", "first"} : Receive(w, u, k)
    BY <1>8 DEF ProcessUsage, ProcessFirstUse
  <2> DEFINE c == [at |-> "reading", kind |-> k, report |-> u, copy |-> used]
  <2>2. c \in Caller /\ c.at = "reading" /\ c.copy = used
    BY <2>1
  <2>3. /\ caller' = [caller EXCEPT ![w] = c] /\ caller[w].at = "gone"
        /\ collided' \in BOOLEAN
        /\ ~collided' => ~collided /\ \A v \in Workers : caller[v].at \notin InTransaction
        /\ UNCHANGED <<used, highest, acknowledged, notified>>
    BY <2>1 DEF Receive
  <2> HIDE DEF c
  <2> QED
    BY <2>2, <2>3
<1> QED
  BY <1>a, <1>1, <1>2, <1>3, <1>4, <1>5, <1>6, <1>7, <1>8 DEF UsageNext

-----------------------------------------------------------------------------
(* Console: a request that was alone has read the row as it is, and what it *)
(* has committed is what it is going to log.                                *)

Alone(w) == \A v \in Workers \ {w} : console[v].at = "closed"

TrailTells(t, stamped) ==
  /\ t.value = "none" <=> row.value = "none"
  /\ kind \in {"account", "charge"} => t.value = row.value
  /\ row.value # "none" /\ stamped => t.by = row.by

ReadAlone ==
  \A w \in Workers : console[w].alone /\ console[w].at # "closed" =>
    Alone(w) /\ (console[w].at = "read" => console[w].copy = row)

LogsLast ==
  \A w \in Workers : ~mixed /\ console[w].at = "committed" =>
    /\ Alone(w)
    /\ TrailTells(console[w].goal, console[w].audit = "written")
    /\ console[w].audit \in {"written", "unstamped"}

ConsoleInv == ConsoleTypeOK /\ ReadAlone /\ LogsLast /\ TrailTellsLast

LEMMA ConsoleInitially == ConsoleInit => ConsoleInv
<1> SUFFICES ASSUME ConsoleInit
             PROVE  ConsoleInv
  OBVIOUS
<1>1. Closed \in [at : {"closed", "read", "committed"}, goal : Row,
                  audit : Audits, copy : Row, alone : BOOLEAN]
  BY DEF Closed, NoEntry, Row, Choices, Audits
<1>2. console \in [Workers -> [at : {"closed", "read", "committed"}, goal : Row,
                               audit : Audits, copy : Row, alone : BOOLEAN]]
  BY <1>1 DEF ConsoleInit
<1>3. row \in Row
  BY DEF ConsoleInit, NoEntry, Row, Choices
<1>4. ConsoleTypeOK
  BY <1>2, <1>3 DEF ConsoleTypeOK, ConsoleInit
<1>5. ReadAlone /\ LogsLast /\ TrailTellsLast
  BY DEF ReadAlone, LogsLast, TrailTellsLast, ConsoleInit, Closed
<1> QED
  BY <1>4, <1>5 DEF ConsoleInv

\* Every handler that begins reads the row.
LEMMA OpenKeeps ==
  ASSUME ConsoleInv, NEW w \in Workers, NEW goal \in Row, NEW audit \in Audits,
         Open(w, goal, audit)
  PROVE  ConsoleInv'
<1> DEFINE beside == {v \in Workers : console[v].at # "closed"}
<1> USE DEF ConsoleInv, ConsoleTypeOK
<1>1. /\ console[w].at = "closed"
      /\ console'[w] = [at |-> "read", goal |-> goal, audit |-> audit,
                        copy |-> row, alone |-> beside = {}]
      /\ \A v \in Workers \ {w} :
           console'[v] = IF v \in beside THEN [console[v] EXCEPT !.alone = FALSE] ELSE console[v]
      /\ mixed' = (mixed \/ \E v \in beside : console[v].at = "committed")
      /\ UNCHANGED <<kind, row, trail, audited>>
  BY DEF Open
<1>2. ConsoleTypeOK'
  BY DEF Open
<1>3. ReadAlone'
  BY <1>1, <1>2 DEF ReadAlone, Alone
<1>4. LogsLast'
  <2> SUFFICES ASSUME ~mixed'
               PROVE  \A v \in Workers : console'[v].at # "committed"
    BY DEF LogsLast
  <2>1. \A v \in Workers : console[v].at # "committed"
    BY <1>1
  <2>2. \A v \in Workers \ {w} : console'[v].at = console[v].at
    BY <1>1
  <2>3. console'[w].at = "read"
    BY <1>1
  <2> QED
    BY <2>1, <2>2, <2>3
<1>5. TrailTellsLast'
  BY <1>1 DEF TrailTellsLast
<1> QED
  BY <1>2, <1>3, <1>4, <1>5

\* What is left of a request that was alone is its goal.
LEMMA OutcomeIsRow ==
  ASSUME NEW goal \in Row, NEW copy \in Row, row \in Row
  PROVE  Outcome(copy, goal) \in Row
BY DEF Outcome, Written, Goal, Row, NoEntry

LEMMA AloneCommitsGoal ==
  ASSUME NEW goal \in Row, row \in Row
  PROVE  Outcome(row, goal) = IF goal.value = "none" THEN NoEntry ELSE goal
<1>1. goal = Goal(goal.value, goal.by)
  BY DEF Row, Goal
<1>2. Written(row.value, row.value, goal.value) = goal.value /\ Written(row.by, row.by, goal.by) = goal.by
  BY DEF Written
<1> QED
  BY <1>1, <1>2 DEF Outcome

LEMMA CommitKeeps ==
  ASSUME ConsoleInv, NEW w \in Workers, CommitChange(w)
  PROVE  ConsoleInv'
<1> USE DEF ConsoleInv, ConsoleTypeOK
<1> DEFINE c == console[w]
           set == IF c.audit = "unstamped" THEN Goal(c.goal.value, c.copy.by) ELSE c.goal
<1>1. /\ c.at = "read" /\ row' = Outcome(c.copy, set)
      /\ audited' = "no" /\ mixed' = ~c.alone
      /\ UNCHANGED <<kind, trail>>
      /\ \A v \in Workers \ {w} : console'[v] = console[v]
  BY DEF CommitChange
<1>2. /\ c.goal \in Row /\ c.copy \in Row /\ set \in Row
      /\ set.value = c.goal.value /\ (c.audit = "written" => set.by = c.goal.by)
  BY DEF Goal, Row
<1>3. Closed \in [at : {"closed", "read", "committed"}, goal : Row,
                  audit : Audits, copy : Row, alone : BOOLEAN]
  BY DEF Closed, NoEntry, Row, Choices, Audits
<1>4. /\ console'[w] \in [at : {"closed", "read", "committed"}, goal : Row,
                          audit : Audits, copy : Row, alone : BOOLEAN]
      /\ \/ /\ c.audit \in {"written", "unstamped"}
            /\ console'[w].at = "committed" /\ console'[w].goal = c.goal
            /\ console'[w].audit = c.audit /\ console'[w].alone = c.alone
         \/ console'[w].at = "closed"
  BY <1>3 DEF CommitChange, Closed, NoEntry, Row, Choices
<1>5. ConsoleTypeOK'
  <2>1. row' \in Row
    BY <1>1, <1>2, OutcomeIsRow
  <2>2. console' \in [Workers -> [at : {"closed", "read", "committed"}, goal : Row,
                                 audit : Audits, copy : Row, alone : BOOLEAN]]
    BY <1>4 DEF CommitChange
  <2> QED
    BY <2>1, <2>2, <1>1
<1>6. ASSUME c.alone
      PROVE  Alone(w) /\ row' = IF set.value = "none" THEN NoEntry ELSE set
  <2>1. Alone(w) /\ c.copy = row
    BY <1>1, <1>6 DEF ReadAlone
  <2> QED
    BY <2>1, <1>1, <1>2, AloneCommitsGoal
<1> HIDE DEF set
<1>7. ASSUME c.alone
      PROVE  /\ c.goal.value = "none" <=> row'.value = "none"
             /\ c.goal.value = row'.value
             /\ row'.value # "none" /\ c.audit = "written" => c.goal.by = row'.by
  <2>1. NoEntry.value = "none"
    BY DEF NoEntry
  <2>2. CASE set.value = "none"
    BY <2>1, <2>2, <1>2, <1>6, <1>7
  <2>3. CASE set.value # "none"
    BY <2>3, <1>2, <1>6, <1>7
  <2> QED
    BY <2>2, <2>3
<1>8. ReadAlone'
  <2> SUFFICES ASSUME NEW v \in Workers, console'[v].alone, console'[v].at # "closed"
               PROVE  Alone(v)' /\ console'[v].at # "read"
    BY DEF ReadAlone
  <2>1. v = w
    BY <1>1, <1>5 DEF ReadAlone, Alone
  <2> QED
    BY <2>1, <1>1, <1>4, <1>6 DEF Alone
<1>9. LogsLast'
  <2> SUFFICES ASSUME ~mixed', NEW v \in Workers, console'[v].at = "committed"
               PROVE  /\ Alone(v)'
                      /\ TrailTells(console[v].goal, console[v].audit = "written")'
                      /\ console'[v].audit \in {"written", "unstamped"}
    BY DEF LogsLast
  <2>1. v = w
    BY <1>1, <1>6 DEF Alone
  <2> QED
    BY <2>1, <1>1, <1>4, <1>6, <1>7 DEF Alone, TrailTells
<1> QED
  BY <1>1, <1>5, <1>8, <1>9 DEF TrailTellsLast

LEMMA ConsoleKeptBy == ConsoleInv /\ [ConsoleNext]_consoleVars => ConsoleInv'
<1> SUFFICES ASSUME ConsoleInv, [ConsoleNext]_consoleVars
             PROVE  ConsoleInv'
  OBVIOUS
<1> USE DEF ConsoleInv, ConsoleTypeOK
<1>a. CASE UNCHANGED consoleVars
  BY <1>a DEF consoleVars, ReadAlone, LogsLast, Alone, TrailTells, TrailTellsLast
<1>c. Closed \in [at : {"closed", "read", "committed"}, goal : Row,
                  audit : Audits, copy : Row, alone : BOOLEAN]
  BY DEF Closed, NoEntry, Row, Choices, Audits
<1>1. CASE NextCharge
  <2>1. NoEntry \in Row
    BY DEF NoEntry, Row, Choices
  <2>2. ConsoleTypeOK'
    BY <1>1, <2>1 DEF NextCharge
  <2>3. ReadAlone' /\ LogsLast'
    BY <1>1 DEF NextCharge, ReadAlone, LogsLast, Closed
  <2>4. TrailTellsLast'
    BY <1>1 DEF NextCharge, TrailTellsLast
  <2> QED
    BY <2>2, <2>3, <2>4
<1>2. ASSUME NEW w \in Workers, CommitChange(w)
      PROVE  ConsoleInv'
  BY <1>2, CommitKeeps
<1>3. ASSUME NEW w \in Workers, Log(w)
      PROVE  ConsoleInv'
  <2>1. ConsoleTypeOK'
    BY <1>3, <1>c DEF Log
  <2>2. ReadAlone'
    BY <1>3, <2>1 DEF Log, ReadAlone, Alone, Closed
  <2>3. LogsLast'
    BY <1>3, <2>1 DEF Log, LogsLast, Alone, Closed, TrailTells
  <2>4. TrailTellsLast'
    BY <1>3 DEF Log, LogsLast, TrailTellsLast, TrailTells
  <2> QED
    BY <2>1, <2>2, <2>3, <2>4
<1>4. ASSUME NEW w \in Workers, RequestFails(w)
      PROVE  ConsoleInv'
  <2>1. ConsoleTypeOK'
    BY <1>4, <1>c DEF RequestFails
  <2>2. ReadAlone'
    BY <1>4, <2>1 DEF RequestFails, ReadAlone, Alone, Closed
  <2>3. LogsLast'
    BY <1>4, <2>1 DEF RequestFails, LogsLast, Alone, Closed, TrailTells
  <2> QED
    BY <1>4, <2>1, <2>2, <2>3 DEF RequestFails, TrailTellsLast
<1>5. ASSUME NEW w \in Workers, NEW goal \in Row, NEW audit \in Audits, Open(w, goal, audit)
      PROVE  ConsoleInv'
  BY <1>5, OpenKeeps
<1>6. ASSUME NEW w \in Workers, NEW v \in Choices \cup {"none"}, NEW a \in Admins \cup {NoAdmin}
      PROVE  Goal(v, a) \in Row
  BY DEF Goal, Row
<1>7. ASSUME NEW w \in Workers,
             \E v \in Choices, audit \in Audits : Handle(w, v, audit)
      PROVE  ConsoleInv'
  BY <1>5, <1>6, <1>7 DEF Handle
<1>8. ASSUME NEW w \in Workers, NEW a \in Admins,
             \/ SetSetting(w, a) \/ UpdateServerConfig(w, a)
             \/ UpdateBackupSetting(w, a) \/ DeleteSetting(w, a)
      PROVE  ConsoleInv'
  BY <1>5, <1>6, <1>8
  DEF SetSetting, UpdateServerConfig, UpdateBackupSetting, DeleteSetting, Audits, Choices
<1>9. ASSUME NEW w \in Workers,
             \/ DeleteAccount(w) \/ ToggleUserActive(w) \/ CreateCoupon(w)
             \/ ConfirmPayment(w) \/ ApproveOrder(w) \/ ReprocessOrder(w)
             \/ RefundPayment(w) \/ CancelOrder(w) \/ RefundOrder(w)
      PROVE  ConsoleInv'
  BY <1>7, <1>9
  DEF DeleteAccount, ToggleUserActive, CreateCoupon, ConfirmPayment, ApproveOrder,
      ReprocessOrder, RefundPayment, CancelOrder, RefundOrder, Audits, Choices
<1>10. ASSUME NEW w \in Workers, NEW v \in Choices,
              UpdateUser(w, v) \/ CreateTax(w, v) \/ UpdateTax(w, v) \/ UpdateCoupon(w, v)
       PROVE  ConsoleInv'
  BY <1>7, <1>10 DEF UpdateUser, CreateTax, UpdateTax, UpdateCoupon, Audits
<1> QED
  BY <1>a, <1>1, <1>2, <1>3, <1>4, <1>8, <1>9, <1>10 DEF ConsoleNext

-----------------------------------------------------------------------------
(* All services side by side                                                *)

LEMMA InitiallyRequests == Init => TicketsInit /\ UsageInit /\ ConsoleInit
BY DEF Init

LEMMA StepOfRequests ==
  [Next]_vars => /\ [TicketsNext]_ticketVars
                 /\ [UsageNext]_usageVars
                 /\ [ConsoleNext]_consoleVars
BY DEF Next, vars, requestVars, RequestsNext, TasksNext, CatalogueNext

\* ClosedProperly: a closed ticket has its closing date and no later messages, for any
\* number of owners and staff at work on it, unless requests overlapped.
THEOREM TicketsCloseProperly == Spec => []ClosedProperly
<1>1. Init => TicketsInv
  BY InitiallyRequests, TicketsInitially
<1>2. TicketsInv /\ [Next]_vars => TicketsInv'
  BY StepOfRequests, TicketsKeptBy
<1>3. TicketsInv => ClosedProperly
  BY DEF TicketsInv
<1> QED
  BY <1>1, <1>2, <1>3, PTL DEF Spec

\* RecordsKept, for any number of workers: whatever they overlap with, callbacks log as a
\* success and tell the owner only what has been committed, and once the highest report is
\* committed while no other callback is at the row, it stays the highest. The latest audit
\* row tells how a row stands after a change that was alone and that writes an audit row.
THEOREM RecordsAreKept == Spec => []RecordsKept
<1>1. Init => UsageInv /\ ConsoleInv
  BY InitiallyRequests, UsageInitially, ConsoleInitially
<1>2. (UsageInv /\ ConsoleInv) /\ [Next]_vars => (UsageInv /\ ConsoleInv)'
  BY StepOfRequests, UsageKeptBy, ConsoleKeptBy
<1>3. UsageInv /\ ConsoleInv => RecordsKept
  BY DEF UsageInv, ConsoleInv, RecordsKept, HighestIsKept
<1> QED
  BY <1>1, <1>2, <1>3, PTL DEF Spec
=============================================================================
