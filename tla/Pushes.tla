------------------------------- MODULE Pushes -------------------------------
(***************************************************************************)
(* Push notifications: Celery tasks that send a notice to every active     *)
(* device of a user while devices register, move to another user and       *)
(* unregister.  A task is acknowledged late and retried if it raises.      *)
(***************************************************************************)
EXTENDS Naturals, Requests

CONSTANTS Users, Tokens, Notices, NoUser, NoToken, NoNotice,
          MaxRetries,  \* max_retries of the task
          MaxCuts      \* bound on the interruptions of a task

ASSUME PushesAssumption ==
  /\ NoUser \notin Users /\ NoToken \notin Tokens /\ NoNotice \notin Notices
  /\ MaxRetries \in Nat /\ MaxCuts \in Nat

VARIABLES
  owner, active,  \* rows of device_tokens; NoUser without a row
  to,             \* whom a notice is for
  queue, retries, \* the tasks
  task,           \* what the workers do
  got,            \* history: how often a device has got a notice
  cuts            \* history: how often a notice's task was cut off by a time limit or a crash

devices == <<owner, active>>
tasks == <<to, queue, retries>>
pushVars == <<devices, tasks, task, got, cuts>>

\* left: the devices still to be notified; token: the one FCM does not know.
Task == [at : {"idle", "sending", "answered"}, notice : Notices \cup {NoNotice},
         left : SUBSET Tokens, token : Tokens \cup {NoToken}]

Idle == [at |-> "idle", notice |-> NoNotice, left |-> {}, token |-> NoToken]

PushesTypeOK ==
  /\ owner \in [Tokens -> Users \cup {NoUser}]
  /\ active \in SUBSET {t \in Tokens : owner[t] # NoUser}
  /\ to \in [Notices -> Users \cup {NoUser}]
  /\ queue \in [Notices -> {"none", "queued", "taken", "done", "dropped"}]
  /\ retries \in [Notices -> 0..MaxRetries]
  /\ task \in [Workers -> Task]
  /\ got \in [Notices -> [Tokens -> Nat]]
  /\ cuts \in [Notices -> 0..MaxCuts]

PushesInit ==
  /\ owner = [t \in Tokens |-> NoUser] /\ active = {}
  /\ to = [n \in Notices |-> NoUser]
  /\ queue = [n \in Notices |-> "none"] /\ retries = [n \in Notices |-> 0]
  /\ task = [w \in Workers |-> Idle]
  /\ got = [n \in Notices |-> [t \in Tokens |-> 0]] /\ cuts = [n \in Notices |-> 0]

-----------------------------------------------------------------------------
(* Devices                                                                 *)

IsAt(w, step) == task[w].at = step
Take(w, r) == task' = [task EXCEPT ![w] = r]
Rest(w) == Take(w, Idle)

\* The handlers of device_tokens read a row without a lock and write what differs.  Two
\* that overlap leave what one after the other leaves, so each is one step.
RegisterDevice(u, t) ==
  /\ owner' = [owner EXCEPT ![t] = u]
  /\ active' = active \cup {t}
  /\ UNCHANGED <<tasks, task, got, cuts>>

UnregisterDevice(t) ==
  /\ active' = active \ {t}
  /\ UNCHANGED <<owner, tasks, task, got, cuts>>

\* Variant: rows that have not changed for 30 days.
CleanupUnchanged ==
  \E stale \in SUBSET Tokens :
    /\ owner' = [t \in Tokens |-> IF t \in stale THEN NoUser ELSE owner[t]]
    /\ UNCHANGED <<active, tasks, task, got, cuts>>

\* Rows that have been inactive for 30 days; no task is that old.
CleanupInactive ==
  LET stale == {t \in Tokens \ active : \A w \in Workers : task[w].token # t /\ t \notin task[w].left}
  IN
  /\ owner' = [t \in Tokens |-> IF t \in stale THEN NoUser ELSE owner[t]]
  /\ UNCHANGED <<active, tasks, task, got, cuts>>

-----------------------------------------------------------------------------
(* Notices                                                                 *)

Delay(n, u) ==
  /\ queue[n] = "none"
  /\ to' = [to EXCEPT ![n] = u]
  /\ queue' = [queue EXCEPT ![n] = "queued"]
  /\ UNCHANGED <<retries, devices, task, got, cuts>>

\* self.retry: the task is queued again until it has been retried often enough.
Retry(n) ==
  IF retries[n] < MaxRetries
  THEN /\ queue' = [queue EXCEPT ![n] = "queued"]
       /\ retries' = [retries EXCEPT ![n] = @ + 1]
  ELSE queue' = [queue EXCEPT ![n] = "dropped"] /\ UNCHANGED retries

SendToUser(w, n) ==
  /\ IsAt(w, "idle") /\ queue[n] = "queued"
  /\ queue' = [queue EXCEPT ![n] = "taken"]
  /\ Take(w, [Idle EXCEPT !.at = "sending", !.notice = n,
                           !.left = {t \in active : owner[t] = to[n]}])
  /\ UNCHANGED <<to, retries, devices, got, cuts>>

TokensUnread(n) ==
  /\ queue[n] = "queued"
  /\ Retry(n)
  /\ UNCHANGED <<to, devices, task, got, cuts>>

\* The device gets the notice, whether or not FCM's answer arrives in time.
Push(w, t) ==
  LET n == task[w].notice IN
  /\ IsAt(w, "sending") /\ t \in task[w].left
  /\ Take(w, [task[w] EXCEPT !.left = @ \ {t}])
  /\ got' = [got EXCEPT ![n][t] = @ + 1]
  /\ UNCHANGED <<devices, tasks, cuts>>

\* Errors are results of their own and stop nothing.
PushFails(w, t) ==
  /\ IsAt(w, "sending") /\ t \in task[w].left
  /\ Take(w, [task[w] EXCEPT !.left = @ \ {t}])
  /\ UNCHANGED <<devices, tasks, got, cuts>>

\* UNREGISTERED or NOT_FOUND
PushUnknown(w, t) ==
  /\ IsAt(w, "sending") /\ t \in task[w].left
  /\ Take(w, [task[w] EXCEPT !.at = "answered", !.left = @ \ {t}, !.token = t])
  /\ UNCHANGED <<devices, tasks, got, cuts>>

\* The device may have registered again since; an error is swallowed.
MarkInactive(w) ==
  /\ IsAt(w, "answered")
  /\ active' \in {active, active \ {task[w].token}}
  /\ Take(w, [task[w] EXCEPT !.at = "sending", !.token = NoToken])
  /\ UNCHANGED <<owner, tasks, got, cuts>>

\* Variant: the task is retried if it did not reach every device.
EndOrRetry(w) ==
  LET n == task[w].notice IN
  /\ IsAt(w, "sending") /\ task[w].left = {}
  /\ IF \E t \in active : owner[t] = to[n] /\ got[n][t] = 0 THEN Retry(n)
     ELSE queue' = [queue EXCEPT ![n] = "done"] /\ UNCHANGED retries
  /\ Rest(w)
  /\ UNCHANGED <<to, devices, got, cuts>>

EndTask(w) ==
  /\ IsAt(w, "sending") /\ task[w].left = {}
  /\ queue' = [queue EXCEPT ![task[w].notice] = "done"]
  /\ Rest(w)
  /\ UNCHANGED <<to, retries, devices, got, cuts>>

CutOff(n) == cuts[n] < MaxCuts /\ cuts' = [cuts EXCEPT ![n] = @ + 1]

\* The soft time limit between two devices.
SoftLimit(w) ==
  /\ IsAt(w, "sending")
  /\ Retry(task[w].notice)
  /\ CutOff(task[w].notice)
  /\ Rest(w)
  /\ UNCHANGED <<to, devices, got>>

\* The worker is killed at the hard time limit and the task is not sent again, or its
\* machine is lost and the broker delivers it again.
Crash(w) ==
  LET n == task[w].notice IN
  /\ ~IsAt(w, "idle")
  /\ Rest(w)
  /\ \E q \in {"queued", "dropped"} : queue' = [queue EXCEPT ![n] = q]
  /\ CutOff(n)
  /\ UNCHANGED <<to, retries, devices, got>>

PushesNext ==
  \/ CleanupInactive
  \/ \E t \in Tokens : UnregisterDevice(t) \/ \E u \in Users : RegisterDevice(u, t)
  \/ \E n \in Notices : TokensUnread(n) \/ \E u \in Users : Delay(n, u)
  \/ \E w \in Workers :
       \/ \E n \in Notices : SendToUser(w, n)
       \/ \E t \in Tokens : Push(w, t) \/ PushFails(w, t) \/ PushUnknown(w, t)
       \/ MarkInactive(w) \/ EndTask(w) \/ SoftLimit(w) \/ Crash(w)

PushesSpec == PushesInit /\ [][PushesNext]_pushVars

-----------------------------------------------------------------------------
\* A device gets a notice once, and once more at most for each time its task was cut off
\* half-way, whatever fails, is retried, moves or registers meanwhile.
PushedOncePerTry == \A n \in Notices, t \in Tokens : got[n][t] <= 1 + cuts[n]
=============================================================================
