------------------------------ MODULE Backups ------------------------------
(***************************************************************************)
(* Database dumps: records, files, the jobs that make them - scheduled by  *)
(* Celery beat or asked for by an administrator -, their time limits and   *)
(* crashes, and the removal of old and of chosen backups.                  *)
(***************************************************************************)
EXTENDS Naturals, Requests

CONSTANTS
  Backups,     \* records, numbered as they are created
  NoBackup

ASSUME BackupsAssumption == Backups \subseteq Nat /\ NoBackup \notin Backups

VARIABLES
  record,      \* status of the rows of backup_records
  scheduled,   \* the backups made by the scheduled task
  files,       \* the backups whose dump is on disk
  fresh,       \* completed backups created within the interval
  old,         \* completed backups created before the retention's cutoff
  job,         \* what the workers do
  orphaned,    \* running, and nobody works on it any more
  condemned,   \* history: an administrator has asked to delete it
  overlapped   \* history: scheduled backups of tasks that ran beside another one

marks == <<fresh, old>>
faults == <<orphaned, condemned, overlapped>>
backupVars == <<record, scheduled, files, marks, job, faults>>

\* A job, the backup it makes and the backups whose files it has removed.
Job == [at : {"free", "checked", "dumping", "writing", "dumped",
               "failing", "tidying", "cleaning", "removing"},
        backup : Backups \cup {NoBackup}, doomed : SUBSET Backups]

Free == [at |-> "free", backup |-> NoBackup, doomed |-> {}]

BackupsTypeOK ==
  /\ record \in [Backups -> {"absent", "running", "completed", "failed", "deleted"}]
  /\ {scheduled, files, fresh, old, orphaned, condemned, overlapped} \subseteq SUBSET Backups
  /\ job \in [Workers -> Job]

BackupsInit ==
  /\ record = [b \in Backups |-> "absent"]
  /\ scheduled = {} /\ files = {} /\ fresh = {} /\ old = {}
  /\ job = [w \in Workers |-> Free]
  /\ orphaned = {} /\ condemned = {} /\ overlapped = {}

-----------------------------------------------------------------------------
Doing(w, step) == job[w].at = step
Turn(w, step) == job' = [job EXCEPT ![w].at = step]
Stop(w) == job' = [job EXCEPT ![w] = Free]

Have(status) == {b \in Backups : record[b] = status}

\* _update_record finds no row if the backup has been deleted meanwhile.
SetStatus(b, status) ==
  record' = IF record[b] = "deleted" THEN record ELSE [record EXCEPT ![b] = status]

\* Time passes; the interval and the retention stay what they are.  A job is much
\* shorter than both, so a backup's age is counted from its completion.
PassInterval(b) ==
  /\ b \in fresh /\ fresh' = fresh \ {b}
  /\ UNCHANGED <<record, scheduled, files, old, job, faults>>

PassRetention(b) ==
  /\ b \in Have("completed") \ (fresh \cup old)
  /\ old' = old \cup {b}
  /\ UNCHANGED <<record, scheduled, files, fresh, job, faults>>

\* Due, as run_scheduled_backup reads it; a record that is still running does not count.
Due == scheduled \cap fresh \cap Have("completed") = {}

\* The scheduled backups that other workers are making.
Beside(w) == {job[v].backup : v \in Workers \ {w}} \cap scheduled

\* A task of beat, or one that is delivered again or retried.
RunScheduled(w) ==
  /\ Doing(w, "free") /\ Due
  /\ Turn(w, "checked")
  /\ overlapped' = overlapped \cup Beside(w)
  /\ UNCHANGED <<record, scheduled, files, marks, orphaned, condemned>>

\* The record is committed as running before pg_dump starts.
Insert(w, b) ==
  /\ record[b] = "absent" /\ \A a \in Backups : a < b => record[a] # "absent"
  /\ record' = [record EXCEPT ![b] = "running"]
  /\ job' = [job EXCEPT ![w] = [at |-> "dumping", backup |-> b, doomed |-> {}]]

CreateScheduled(w, b) ==
  /\ Doing(w, "checked")
  /\ Insert(w, b)
  /\ scheduled' = scheduled \cup {b}
  /\ overlapped' = IF \E v \in Workers \ {w} : Doing(v, "checked")
                   THEN overlapped \cup {b} ELSE overlapped
  /\ UNCHANGED <<files, marks, orphaned, condemned>>

\* backup_disabled in the meantime, or the directory cannot be made.
GiveUp(w) ==
  /\ Doing(w, "checked")
  /\ Stop(w)
  /\ UNCHANGED <<record, scheduled, files, marks, faults>>

CreateManual(w, b) ==
  /\ Doing(w, "free")
  /\ Insert(w, b)
  /\ UNCHANGED <<scheduled, files, marks, faults>>

-----------------------------------------------------------------------------
(* The dump                                                                *)

WriteFile(w) ==
  /\ Doing(w, "dumping")
  /\ files' = files \cup {job[w].backup}
  /\ Turn(w, "writing")
  /\ UNCHANGED <<record, scheduled, marks, faults>>

\* Somebody may have removed the file meanwhile; pg_dump does not notice.
DumpEnds(w) ==
  /\ Doing(w, "writing")
  /\ Turn(w, "dumped")
  /\ UNCHANGED <<record, scheduled, files, marks, faults>>

\* Variant: the record of a dump that failed is forgotten.
FailQuietly(w) ==
  /\ job[w].at \in {"dumping", "writing", "dumped"}
  /\ Turn(w, "tidying")
  /\ UNCHANGED <<record, scheduled, files, marks, faults>>

\* An error of pg_dump, its time-out, the soft time limit of the task, or a record
\* that cannot be updated.
DumpFails(w) ==
  /\ job[w].at \in {"dumping", "writing", "dumped"}
  /\ Turn(w, "failing")
  /\ UNCHANGED <<record, scheduled, files, marks, faults>>

\* Variant: the end of pg_dump is not waited for.
CompleteEarly(w) ==
  /\ job[w].at \in {"dumping", "writing", "dumped"}
  /\ SetStatus(job[w].backup, "completed")
  /\ fresh' = fresh \cup ({job[w].backup} \ Have("deleted"))
  /\ Turn(w, "cleaning")
  /\ UNCHANGED <<scheduled, files, old, faults>>

CompleteRecord(w) ==
  /\ Doing(w, "dumped")
  /\ SetStatus(job[w].backup, "completed")
  /\ fresh' = fresh \cup ({job[w].backup} \ Have("deleted"))
  /\ Turn(w, "cleaning")
  /\ UNCHANGED <<scheduled, files, old, faults>>

\* The soft time limit may also strike when the record is completed.
LateFailure(w) ==
  /\ Doing(w, "cleaning") /\ job[w].backup # NoBackup
  /\ Turn(w, "failing")
  /\ UNCHANGED <<record, scheduled, files, marks, faults>>

FailRecord(w) ==
  /\ Doing(w, "failing")
  /\ SetStatus(job[w].backup, "failed")
  /\ Turn(w, "tidying")
  /\ UNCHANGED <<scheduled, files, marks, faults>>

\* _cleanup_file
TidyUp(w) ==
  /\ Doing(w, "tidying")
  /\ files' = files \ {job[w].backup}
  /\ Stop(w)
  /\ UNCHANGED <<record, scheduled, marks, faults>>

-----------------------------------------------------------------------------
(* Removal                                                                 *)

CleanUp(w) ==
  /\ Doing(w, "free")
  /\ Turn(w, "cleaning")
  /\ UNCHANGED <<record, scheduled, files, marks, faults>>

\* The files go before the rows do; those under another backup_path stay.
RemoveFiles(w, doomed, gone) ==
  /\ files' = files \ gone
  /\ job' = [job EXCEPT ![w] = [at |-> "removing", backup |-> NoBackup, doomed |-> doomed]]
  /\ UNCHANGED <<record, scheduled, marks, orphaned, overlapped>>

CleanUpOld(w) ==
  LET doomed == old \cap Have("completed") IN
  /\ Doing(w, "cleaning")
  /\ \E gone \in SUBSET doomed : RemoveFiles(w, doomed, gone)
  /\ UNCHANGED condemned

DeleteBackup(w, b) ==
  /\ Doing(w, "free") /\ record[b] \notin {"absent", "deleted"}
  /\ \E gone \in SUBSET {b} : RemoveFiles(w, {b}, gone)
  /\ condemned' = condemned \cup {b}

\* A row that somebody else has deleted does not stop the transaction.
CommitRemoval(w) ==
  /\ Doing(w, "removing")
  /\ record' = [b \in Backups |-> IF b \in job[w].doomed THEN "deleted" ELSE record[b]]
  /\ scheduled' = scheduled \ job[w].doomed
  /\ fresh' = fresh \ job[w].doomed /\ old' = old \ job[w].doomed
  /\ orphaned' = orphaned \ job[w].doomed /\ overlapped' = overlapped \ job[w].doomed
  /\ condemned' = condemned \ job[w].doomed
  /\ Stop(w)
  /\ UNCHANGED files

-----------------------------------------------------------------------------
\* An error, or the end of the worker: its process is killed at the hard time limit,
\* or the request times out.
Fault(w) ==
  /\ ~Doing(w, "free")
  /\ Stop(w)
  /\ orphaned' = orphaned \cup ({job[w].backup} \cap Have("running"))
  /\ UNCHANGED <<record, scheduled, files, marks, condemned, overlapped>>

Progress(w) ==
  \/ DumpEnds(w) \/ DumpFails(w) \/ CompleteRecord(w) \/ FailRecord(w) \/ TidyUp(w)
  \/ CleanUpOld(w) \/ CommitRemoval(w)

BackupsNext ==
  \/ \E b \in Backups : PassInterval(b) \/ PassRetention(b)
  \/ \E w \in Workers :
       \/ RunScheduled(w) \/ GiveUp(w) \/ WriteFile(w) \/ LateFailure(w) \/ CleanUp(w)
       \/ Progress(w) \/ Fault(w)
       \/ \E b \in Backups : CreateScheduled(w, b) \/ CreateManual(w, b) \/ DeleteBackup(w, b)

\* pg_dump has a time-out and the task a soft time limit, so a job that is not killed
\* goes on.
BackupsFairness == \A w \in Workers : WF_backupVars(Progress(w))

BackupsSpec == BackupsInit /\ [][BackupsNext]_backupVars /\ BackupsFairness

-----------------------------------------------------------------------------
\* A backup that says completed has its dump on disk, whatever fails, crashes or is
\* removed half-way: only a dump older than the retention, or one an administrator has
\* asked to delete, can be gone before its row is.
CompletedIsRestorable == Have("completed") \subseteq files \cup old \cup condemned

\* No two completed backups of the schedule are within one interval, unless their
\* tasks ran at the same time: nothing in the code keeps those apart.
SpacedOut ==
  \A a, b \in scheduled \cap fresh \cap Have("completed") : a = b \/ {a, b} \cap overlapped # {}

\* Both of them.
BackupsKept == CompletedIsRestorable /\ SpacedOut

\* Every record that says running becomes completed or failed, or is deleted, unless
\* the worker that made it came to its end, or the database failed while the failure
\* was recorded.
BackupsEnd == \A b \in Backups : record[b] = "running" ~> record[b] # "running" \/ b \in orphaned
=============================================================================
