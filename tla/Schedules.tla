------------------------------ MODULE Schedules ------------------------------
(***************************************************************************)
(* From the crons of backup groups to ScheduledTask rows, to jobs in       *)
(* memory, to sessions.                                                    *)
(*   services/backup_group_service.py  group changes, sync_scheduled_tasks *)
(*   managers/scheduler.py             rows, jobs, _execute_task           *)
(*   main.py, services/task_status.py  startup, what is shown as running   *)
(*                                                                         *)
(* No await of a reconciliation suspends, so it is one step with the       *)
(* change that caused it, which is committed before and stays if the       *)
(* reconciliation raises.  Rows outlive the process, jobs do not.          *)
(***************************************************************************)
EXTENDS Naturals, FiniteSets

CONSTANTS
  Groups,      \* group ids; an id may be used again
  Crons,       \* crons that validate_schedule accepts
  BadCrons,    \* those of them that CronTrigger refuses
  MaxCrashes,  \* bound: crashes
  MaxChanges,  \* bound: changes of groups
  None

ASSUME ScheduleAssumption ==
  /\ BadCrons \subseteq Crons
  /\ MaxCrashes \in Nat /\ MaxChanges \in Nat
  /\ None \notin Crons

VARIABLES
  group,       \* group[g]: BackupGroup row and whether it has datasets, or None
  row,         \* row[t]: the ScheduledTask row of a task name, or None
  job,         \* job[t]: the cron of the job in memory, None if there is none
  session,     \* groups with a running session
  boot,        \* "up", "down", "starting" between start() and the sync, or
               \* "failed" when that sync raised
  synced,      \* history: how the last reconciliation went
  touched,     \* history: groups whose datasets changed since
  stripped,    \* history: tasks with a row whose job a failed deletion took
  crashes, changes

vars == <<group, row, job, session, boot, synced, touched, stripped, crashes, changes>>

\* A task is named for its group and the key of its cron.
Keys == {"full", "incremental"}
Tasks == Groups \X Keys
GroupRow == [enabled : BOOLEAN, datasets : BOOLEAN, cron : [Keys -> Crons \cup {None}]]
\* ran: some TaskHistory row refers to it.
TaskRow == [cron : Crons, ran : BOOLEAN]
ASSUME NoRowAssumption == None \notin TaskRow

-----------------------------------------------------------------------------
(* sync_scheduled_tasks *)

\* Tasks that groups want: enabled, with datasets, and with the cron.
Desired(G) ==
  { t \in Tasks : /\ G[t[1]] # None
                  /\ G[t[1]].enabled /\ G[t[1]].datasets
                  /\ G[t[1]].cron[t[2]] # None }
Existing(R) == { t \in Tasks : R[t] # None }

\* Mutant of JobFor: whatever validate_schedule accepts gets a job.
JobForAny(c) == c

\* _schedule_task only logs what the trigger refuses.
JobFor(c) == IF c \in BadCrons THEN None ELSE c

\* Mutant of Reconciled: a task that exists is taken to be right.
ReconciledNew(G, R) ==
  [t \in Tasks |-> IF t \in Desired(G) /\ R[t] = None
                   THEN [cron |-> G[t[1]].cron[t[2]], ran |-> FALSE] ELSE R[t]]

\* create_task and update_task: every desired task has its cron.
Reconciled(G, R) ==
  [t \in Tasks |->
     IF t \notin Desired(G) THEN R[t]
     ELSE [cron |-> G[t[1]].cron[t[2]], ran |-> R[t] # None /\ R[t].ran]]

\* A job is replaced when its row was made or changed.
Replaced(R, S) ==
  { t \in Tasks : S[t] # None /\ (R[t] # None => R[t].cron # S[t].cron) }
Rescheduled(R, S, J) ==
  [t \in Tasks |-> IF t \in Replaced(R, S) THEN JobFor(S[t].cron) ELSE J[t]]

\* Mutant of Removals: a deletion that fails is passed over.
RemovalsQuiet(G, R) ==
  LET gone == Existing(R) \ Desired(G)
  IN {[rows |-> { t \in gone : ~R[t].ran }, jobs |-> gone, ok |-> TRUE]}

\* A task that ran cannot be deleted: its history refers to it.  delete_task
\* has taken its job away by then, and the loop ends there.
Removals(G, R) ==
  LET gone == Existing(R) \ Desired(G)
      kept == { t \in gone : R[t].ran }
  IN IF kept = {} THEN {[rows |-> gone, jobs |-> gone, ok |-> TRUE]}
     ELSE { [rows |-> P, jobs |-> P \cup {t}, ok |-> FALSE] :
              P \in SUBSET (gone \ kept), t \in kept }

Drop(f, S) == [t \in Tasks |-> IF t \in S THEN None ELSE f[t]]

\* The rows and jobs after a reconciliation of the groups G, from jobs J.
Sync(G, J) ==
  LET S == Reconciled(G, row)
  IN \E x \in Removals(G, row) :
       /\ row' = Drop(S, x.rows)
       /\ job' = Drop(Rescheduled(row, S, J), x.jobs)
       /\ stripped' = (stripped \ Replaced(row, S)) \cup (x.jobs \ x.rows)
       /\ synced' = IF x.ok THEN "ok" ELSE "raised"
       /\ touched' = {}

-----------------------------------------------------------------------------
(* Changes of groups *)

Change(g, r) ==
  /\ boot = "up" /\ changes < MaxChanges
  /\ changes' = changes + 1
  /\ group' = [group EXCEPT ![g] = r]

\* create_group and update_group, with whatever crons and flags they are given.
SaveGroup(g, r) ==
  /\ Change(g, r) /\ r # group[g]
  /\ group[g] # None => r.datasets = group[g].datasets
  /\ Sync(group', job)
  /\ UNCHANGED <<session, boot, crashes>>

DeleteGroup(g) ==
  /\ Change(g, None) /\ group[g] # None /\ g \notin session
  /\ Sync(group', job)
  /\ UNCHANGED <<session, boot, crashes>>

\* add_dataset and remove_dataset do not reconcile.
ChangeDatasets(g) ==
  /\ group[g] # None
  /\ Change(g, [group[g] EXCEPT !.datasets = ~@])
  /\ touched' = touched \cup {g}
  /\ UNCHANGED <<row, job, session, synced, stripped, boot, crashes>>

-----------------------------------------------------------------------------
(* Jobs *)

Startable(g) == group[g] # None /\ group[g].datasets /\ g \notin session

\* _execute_task: a history row, then start_session, which registers the
\* session and returns, or raises (also when the group has no sets).
Fire(t) ==
  /\ boot = "up" /\ job[t] # None /\ row[t] # None
  /\ row' = [row EXCEPT ![t].ran = TRUE]
  /\ \/ Startable(t[1]) /\ session' = session \cup {t[1]}
     \/ UNCHANGED session
  /\ UNCHANGED <<group, job, boot, synced, touched, stripped, crashes, changes>>

EndSession(g) ==
  /\ g \in session /\ boot = "up"
  /\ session' = session \ {g}
  /\ UNCHANGED <<group, row, job, boot, synced, touched, stripped, crashes, changes>>

-----------------------------------------------------------------------------
(* The process *)

Crash ==
  /\ boot # "down" /\ crashes < MaxCrashes
  /\ crashes' = crashes + 1
  /\ boot' = "down"
  /\ job' = [t \in Tasks |-> None]
  /\ UNCHANGED <<group, row, session, synced, touched, stripped, changes>>

\* recover_orphaned_backups, then scheduler.start loads the rows.
Boot ==
  /\ boot = "down"
  /\ boot' = "starting"
  /\ session' = {}
  /\ job' = [t \in Tasks |-> IF row[t] = None THEN None ELSE JobFor(row[t].cron)]
  /\ stripped' = {}
  /\ UNCHANGED <<group, row, synced, touched, crashes, changes>>

\* The lifespan's reconciliation; if it raises, the process does not come up.
Booted ==
  /\ boot = "starting"
  /\ Sync(group, job)
  /\ boot' = IF synced' = "ok" THEN "up" ELSE "failed"
  /\ UNCHANGED <<group, session, crashes, changes>>

\* A process that failed to start leaves no jobs; systemd starts the next.
Retry ==
  /\ boot = "failed"
  /\ boot' = "down"
  /\ job' = [t \in Tasks |-> None]
  /\ UNCHANGED <<group, row, session, synced, touched, stripped, crashes, changes>>

Init ==
  /\ group = [g \in Groups |-> None]
  /\ row = [t \in Tasks |-> None] /\ job = [t \in Tasks |-> None]
  /\ session = {}
  /\ boot = "up" /\ synced = "ok" /\ touched = {} /\ stripped = {}
  /\ crashes = 0 /\ changes = 0

Operator ==
  \E g \in Groups :
    \/ \E r \in GroupRow : SaveGroup(g, r)
    \/ DeleteGroup(g) \/ ChangeDatasets(g)

Process == Boot \/ Booted \/ Retry

Next ==
  \/ Operator \/ Process \/ Crash
  \/ \E t \in Tasks : Fire(t)
  \/ \E g \in Groups : EndSession(g)

Spec == Init /\ [][Next]_vars

-----------------------------------------------------------------------------
(* Properties *)

TypeOK ==
  /\ group \in [Groups -> GroupRow \cup {None}]
  /\ row \in [Tasks -> TaskRow \cup {None}]
  /\ job \in [Tasks -> (Crons \ BadCrons) \cup {None}]
  /\ session \subseteq Groups
  /\ boot \in {"up", "down", "starting", "failed"}
  /\ synced \in {"ok", "raised"} /\ touched \subseteq Groups /\ stripped \subseteq Tasks
  /\ crashes \in 0..MaxCrashes /\ changes \in 0..MaxChanges

\* A job always runs by the cron of its row, and while the program is up every task
\* that a group wants has its row, and its job if the trigger takes the cron: also
\* after a reconciliation that raised, because what is wanted comes first, and after
\* any restart that came up.  Short of what sync_scheduled_tasks says of itself are
\* two cases.  A group whose datasets changed has what it had, until some group is
\* saved or deleted or the program starts.  And a task whose deletion failed keeps its
\* row and not its job: wanted again with the same cron, its row is taken to be right,
\* and it does not run before the next start.
WantedIsScheduled ==
  /\ \A t \in Tasks : job[t] # None => row[t] # None /\ row[t].cron = job[t]
  /\ boot = "up" =>
       \A t \in Desired(group) :
         /\ t[1] \notin touched => row[t] # None /\ row[t].cron = group[t[1]].cron[t[2]]
         /\ row[t] # None /\ t \notin stripped => job[t] = JobFor(row[t].cron)

\* After a reconciliation that did not raise nothing else is scheduled, for groups
\* whose datasets have not changed since, and no wanted task is without a job for a
\* reason other than its own deletion.
UnwantedIsGone ==
  boot = "up" /\ synced = "ok" =>
    /\ \A t \in Tasks : t[1] \notin touched => (t \in Existing(row) <=> t \in Desired(group))
    /\ stripped \subseteq { t \in Tasks : row[t] # None /\ row[t].ran /\ job[t] = None }

\* main.py:44: a job whose group is gone is removed.
GoneGroupHasNoTask ==
  boot = "up" => \A t \in Existing(row) : group[t[1]] # None

=============================================================================
