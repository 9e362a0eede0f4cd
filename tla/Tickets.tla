------------------------------ MODULE Tickets ------------------------------
(***************************************************************************)
(* A support ticket: its owner and the staff change its status and add     *)
(* messages in transactions that read the ticket without a lock.  Tickets  *)
(* share nothing, so one is enough.                                        *)
(***************************************************************************)
EXTENDS Naturals, Requests

CONSTANTS Staff, Nobody

ASSUME StaffAssumption == Nobody \notin Staff

VARIABLES
  ticket,     \* row of support_tickets; dated: closed_at is set
  desk,       \* the workers' requests with the copy they have read
  late,       \* messages were added since the ticket is closed
  overtaken   \* a request has committed over another one since the ticket was closed

ticketVars == <<ticket, desk, late, overtaken>>

Statuses == {"absent", "open", "pending", "resolved", "closed"}
Ticket == [status : Statuses, dated : BOOLEAN, assigned : Staff \cup {Nobody}]

NoTicket == [status |-> "absent", dated |-> FALSE, assigned |-> Nobody]
Away == [at |-> "away", copy |-> NoTicket]

TicketsTypeOK ==
  /\ ticket \in Ticket
  /\ desk \in [Workers -> [at : {"away", "serving"}, copy : Ticket]]
  /\ late \in BOOLEAN /\ overtaken \in BOOLEAN

TicketsInit ==
  /\ ticket = NoTicket
  /\ desk = [w \in Workers |-> Away]
  /\ late = FALSE /\ overtaken = FALSE

-----------------------------------------------------------------------------
\* The ticket and its first message are one transaction.
CreateTicket ==
  /\ ticket = NoTicket
  /\ ticket' = [NoTicket EXCEPT !.status = "open"]
  /\ UNCHANGED <<desk, late, overtaken>>

ReadTicket(w) ==
  /\ desk[w] = Away /\ ticket # NoTicket
  /\ desk' = [desk EXCEPT ![w] = [at |-> "serving", copy |-> ticket]]
  /\ UNCHANGED <<ticket, late, overtaken>>

\* Flush and commit of a request of w that leaves the ticket as t.
Save(w, t) ==
  /\ desk[w].at = "serving"
  /\ ticket' = t
  /\ desk' = [desk EXCEPT ![w] = Away]
  /\ overtaken' = IF t.status = "closed" /\ ticket.status # "closed" /\ t.dated THEN FALSE
                  ELSE overtaken \/ desk[w].copy # ticket

Status(w, s) == Written(ticket.status, desk[w].copy.status, s)
Message == late' = (ticket'.status = "closed")
NoMessage == late' = (late /\ ticket'.status = "closed")

\* A message of the owner opens a resolved ticket again; its closing date stays.
AddMessage(w) ==
  LET s == desk[w].copy.status IN
  /\ s # "closed"
  /\ Save(w, [ticket EXCEPT !.status = Status(w, IF s = "resolved" THEN "open" ELSE s)])
  /\ Message

CloseTicket(w) ==
  /\ desk[w].copy.status # "closed"
  /\ Save(w, [ticket EXCEPT !.status = Status(w, "closed"), !.dated = TRUE])
  /\ NoMessage

\* Variant: staff may answer a closed ticket.
ReplyAnyway(w) ==
  /\ Save(w, ticket)
  /\ Message

AdminReply(w) ==
  /\ desk[w].copy.status # "closed"
  /\ Save(w, ticket)
  /\ Message

AdminUpdateStatus(w, s) ==
  /\ Save(w, [ticket EXCEPT
       !.status = Status(w, s),
       !.dated = IF s = "closed" THEN TRUE
                 ELSE IF s = "open" /\ desk[w].copy.dated THEN FALSE ELSE @])
  /\ NoMessage

AdminAssign(w, a) ==
  /\ Save(w, [ticket EXCEPT !.assigned = a])
  /\ NoMessage

\* Refused for a closed ticket, somebody else's ticket or bad input, or rolled back.
Refuse(w) ==
  /\ desk[w].at = "serving"
  /\ desk' = [desk EXCEPT ![w] = Away]
  /\ UNCHANGED <<ticket, late, overtaken>>

TicketsNext ==
  \/ CreateTicket
  \/ \E w \in Workers :
       \/ ReadTicket(w) \/ AddMessage(w) \/ CloseTicket(w) \/ AdminReply(w) \/ Refuse(w)
       \/ \E s \in Statuses \ {"absent"} : AdminUpdateStatus(w, s)
       \/ \E a \in Staff : AdminAssign(w, a)

TicketsSpec == TicketsInit /\ [][TicketsNext]_ticketVars

-----------------------------------------------------------------------------
\* A closed ticket has its closing date and gets no more messages, unless a request
\* that had read the ticket before another one changed it has committed since.
ClosedProperly == ticket.status = "closed" /\ ~overtaken => ticket.dated /\ ~late
=============================================================================
