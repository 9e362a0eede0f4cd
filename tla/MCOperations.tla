---------------------------- MODULE MCOperations ----------------------------
(* The services around orders and payments, side by side.  They share no   *)
(* state, so each behaviour follows one of them.                           *)
EXTENDS Tickets, Backups, Pushes, Messages, NetworkIndex, Plans, Rates, Usage, Console, Providers

VARIABLE part

requestVars == <<ticketVars, usageVars, consoleVars>>
taskVars == <<backupVars, pushVars, messageVars, providerVars>>
catalogueVars == <<indexVars, planVars, rateVars>>

vars == <<part, requestVars, taskVars, catalogueVars>>

TypeOK ==
  /\ TicketsTypeOK /\ UsageTypeOK /\ ConsoleTypeOK
  /\ BackupsTypeOK /\ PushesTypeOK /\ MessagesTypeOK /\ ProvidersTypeOK
  /\ IndexTypeOK /\ PlansTypeOK /\ RatesTypeOK

Parts ==
  {"tickets", "usage", "console", "backups", "pushes", "messages", "providers",
   "index", "plans", "rates"}

Init ==
  /\ part \in Parts
  /\ part # "console" => kind = "setting"
  /\ part # "messages" => provider = "otpiq"
  /\ part # "providers" => client = "fib"
  /\ TicketsInit /\ UsageInit /\ ConsoleInit
  /\ BackupsInit /\ PushesInit /\ MessagesInit /\ ProvidersInit
  /\ IndexInit /\ PlansInit /\ RatesInit

RequestsNext ==
  /\ UNCHANGED <<taskVars, catalogueVars>>
  /\ \/ part = "tickets" /\ TicketsNext /\ UNCHANGED <<usageVars, consoleVars>>
     \/ part = "usage" /\ UsageNext /\ UNCHANGED <<ticketVars, consoleVars>>
     \/ part = "console" /\ ConsoleNext /\ UNCHANGED <<ticketVars, usageVars>>

TasksNext ==
  /\ UNCHANGED <<requestVars, catalogueVars>>
  /\ \/ part = "backups" /\ BackupsNext /\ UNCHANGED <<pushVars, messageVars, providerVars>>
     \/ part = "pushes" /\ PushesNext /\ UNCHANGED <<backupVars, messageVars, providerVars>>
     \/ part = "messages" /\ MessagesNext /\ UNCHANGED <<backupVars, pushVars, providerVars>>
     \/ part = "providers" /\ ProvidersNext /\ UNCHANGED <<backupVars, pushVars, messageVars>>

CatalogueNext ==
  /\ UNCHANGED <<requestVars, taskVars>>
  /\ \/ part = "index" /\ IndexNext /\ UNCHANGED <<planVars, rateVars>>
     \/ part = "plans" /\ PlansNext /\ UNCHANGED <<indexVars, rateVars>>
     \/ part = "rates" /\ RatesNext /\ UNCHANGED <<indexVars, planVars>>

Next == UNCHANGED part /\ (RequestsNext \/ TasksNext \/ CatalogueNext)

Spec == Init /\ [][Next]_vars /\ (part = "backups" => BackupsFairness)

-----------------------------------------------------------------------------
\* Whatever fails, is repeated or crashes: a completed backup can be restored until its
\* retention is over or its deletion is asked for, and a device gets a notice no more
\* often than its task was tried.  Backups of the schedule whose tasks did not overlap are
\* an interval apart, and a code that a phone has is stored, unless it is register's.
TasksKept == BackupsKept /\ PushedOncePerTry /\ MessagesKept

\* What the services are told of a payment or an eSIM has happened at the provider.
AnswersAreTrue == ClaimsAreTrue

\* The files, plans and rates where nothing overlapped: one builder of the index unless
\* two were at the lock file together, readable files unless a writing failed or met
\* another, one plan for each bundle that no two imports were about to add and nobody
\* gave by hand, a rate with its source unless two changes of it crossed; and, whatever
\* overlapped, orders of plans that are there.
CatalogueKept ==
  /\ OneBuild /\ FilesReadable
  /\ OnePlanPerBundle /\ OrdersHaveTheirPlan
  /\ RateAsTold

\* An eSIM's row holds the highest report, but for one that was lost to a simultaneous
\* callback; nothing is told or logged that was not committed; and the latest audit row
\* tells what a change left that was alone and has an audit row.
RecordsKept == HighestIsKept /\ ToldWasStored /\ TrailTellsLast
=============================================================================
