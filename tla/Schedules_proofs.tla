--------------------------- MODULE Schedules_proofs ---------------------------
(***************************************************************************)
(* Proofs about Schedules: what groups want is scheduled, and after a      *)
(* clean reconciliation nothing else is, for any groups and crons.         *)
(***************************************************************************)
EXTENDS Schedules, TLAPS

DataOK ==
  /\ row \in [Tasks -> TaskRow \cup {None}]
  /\ job \in [Tasks -> (Crons \ BadCrons) \cup {None}]
  /\ stripped \subseteq Tasks

\* A job runs by its row; a failed deletion leaves a row that ran, without a job.
JobsOK ==
  /\ \A t \in Tasks : job[t] # None => row[t] # None /\ row[t].cron = job[t]
  /\ \A t \in stripped : row[t] # None /\ row[t].ran /\ job[t] = None

\* Between two reconciliations every other row has the job its cron admits: this is
\* what makes passing over a row that did not change right.
RowsServed ==
  \A t \in Tasks : row[t] # None /\ t \notin stripped => job[t] = JobFor(row[t].cron)

\* A change of datasets touches no row: the tasks of every other group are as they
\* were wanted.
Wanted(G) ==
  \A t \in Desired(G) :
    t[1] \notin touched => row[t] # None /\ row[t].cron = G[t[1]].cron[t[2]]

Clean(G) ==
  \A t \in Tasks : t[1] \notin touched => (t \in Existing(row) <=> t \in Desired(G))

IInv ==
  /\ TypeOK /\ JobsOK
  /\ boot \in {"up", "starting"} => RowsServed
  /\ boot = "up" => Wanted(group)
  /\ boot = "up" /\ synced = "ok" => Clean(group)

LEMMA InitInv == Init => IInv
<1> SUFFICES ASSUME Init PROVE IInv
  OBVIOUS
<1>1. TypeOK
  BY ScheduleAssumption DEF Init, TypeOK
<1>2. JobsOK /\ RowsServed
  BY DEF Init, JobsOK, RowsServed
<1>3. Desired(group) = {} /\ Existing(row) = {}
  BY DEF Init, Desired, Existing, Tasks
<1> QED
  BY <1>1, <1>2, <1>3 DEF IInv, Wanted, Clean

-----------------------------------------------------------------------------
(* A reconciliation *)

LEMMA DesiredCron ==
  ASSUME NEW G \in [Groups -> GroupRow \cup {None}], NEW t \in Desired(G)
  PROVE  t \in Tasks /\ G[t[1]].cron[t[2]] \in Crons
<1>1. t \in Tasks /\ G[t[1]] # None /\ G[t[1]].cron[t[2]] # None
  BY DEF Desired
<1>2. t[1] \in Groups /\ t[2] \in Keys
  BY <1>1 DEF Tasks
<1>3. G[t[1]] \in GroupRow
  BY <1>1, <1>2
<1>4. G[t[1]].cron \in [Keys -> Crons \cup {None}]
  BY <1>3 DEF GroupRow
<1> QED
  BY <1>1, <1>2, <1>4

\* Only unwanted rows that never ran are deleted, and all of them when it is clean.
LEMMA RemovalsAre ==
  ASSUME NEW G, DataOK, NEW x \in Removals(G, row)
  PROVE  /\ x.rows \subseteq x.jobs /\ x.jobs \subseteq Existing(row) \ Desired(G)
         /\ \A t \in x.rows : ~row[t].ran
         /\ \A t \in x.jobs \ x.rows : row[t].ran
         /\ x.ok \in BOOLEAN
         /\ x.ok => x.rows = Existing(row) \ Desired(G)
<1> DEFINE gone == Existing(row) \ Desired(G)
           kept == { t \in gone : row[t].ran }
<1>1. CASE kept = {}
  <2>1. x = [rows |-> gone, jobs |-> gone, ok |-> TRUE]
    BY <1>1 DEF Removals
  <2>2. x.rows = gone /\ x.jobs = gone /\ x.ok = TRUE
    BY <2>1
  <2> QED
    BY <1>1, <2>2
<1>2. CASE kept # {}
  <2>1. PICK P \in SUBSET (gone \ kept), t \in kept :
          x = [rows |-> P, jobs |-> P \cup {t}, ok |-> FALSE]
    BY <1>2 DEF Removals
  <2>2. x.rows = P /\ x.jobs = P \cup {t} /\ x.ok = FALSE
    BY <2>1
  <2> QED
    BY <2>1, <2>2
<1> QED
  BY <1>1, <1>2

LEMMA SyncKeeps ==
  ASSUME DataOK, JobsOK, RowsServed, NEW G \in [Groups -> GroupRow \cup {None}],
         Sync(G, job)
  PROVE  /\ DataOK' /\ JobsOK' /\ RowsServed' /\ synced' \in {"ok", "raised"}
         /\ \A t \in Desired(G) : row'[t] # None /\ row'[t].cron = G[t[1]].cron[t[2]]
         /\ synced' = "ok" => Existing(row') = Desired(G)
         /\ touched' = {}
<1> DEFINE S == Reconciled(G, row)
           new == Replaced(row, S)
<1>1. PICK x \in Removals(G, row) :
        /\ row' = Drop(S, x.rows)
        /\ job' = Drop(Rescheduled(row, S, job), x.jobs)
        /\ stripped' = (stripped \ new) \cup (x.jobs \ x.rows)
        /\ synced' = IF x.ok THEN "ok" ELSE "raised"
        /\ touched' = {}
  BY DEF Sync
<1>2. /\ x.rows \subseteq x.jobs /\ x.jobs \subseteq Existing(row) \ Desired(G)
      /\ \A t \in x.rows : ~row[t].ran
      /\ \A t \in x.jobs \ x.rows : row[t].ran
      /\ x.ok \in BOOLEAN
      /\ x.ok => x.rows = Existing(row) \ Desired(G)
  BY RemovalsAre
<1>3. ASSUME NEW t \in Desired(G)
      PROVE  /\ S[t] \in TaskRow /\ S[t].cron = G[t[1]].cron[t[2]] /\ t \in Tasks
             /\ row[t] # None /\ row[t].ran => S[t].ran
  <2>1. t \in Tasks /\ G[t[1]].cron[t[2]] \in Crons
    BY DesiredCron
  <2> DEFINE b == row[t] # None /\ row[t].ran
  <2>2. S[t] = [cron |-> G[t[1]].cron[t[2]], ran |-> b]
    BY <2>1 DEF Reconciled
  <2>3. b \in BOOLEAN /\ (row[t] # None /\ row[t].ran => b)
    OBVIOUS
  <2> HIDE DEF b, S
  <2>4. S[t].cron = G[t[1]].cron[t[2]] /\ S[t].ran = b
    BY <2>2
  <2>5. S[t] \in TaskRow
    BY <2>1, <2>2, <2>3 DEF TaskRow
  <2> QED
    BY <2>1, <2>3, <2>4, <2>5
<1>4. \A t \in Tasks \ Desired(G) : S[t] = row[t]
  BY DEF Reconciled
<1>5. \A t \in Tasks : S[t] \in TaskRow \cup {None}
  BY <1>3, <1>4 DEF DataOK
<1>6. \A t \in Tasks :
        t \in new <=> S[t] # None /\ (row[t] # None => row[t].cron # S[t].cron)
  BY DEF Replaced
<1>7. \A t \in Tasks : row'[t] = IF t \in x.rows THEN None ELSE S[t]
  BY <1>1 DEF Drop
<1>8. \A t \in Tasks : job'[t] = IF t \in x.jobs THEN None
                                 ELSE IF t \in new THEN JobFor(S[t].cron) ELSE job[t]
  BY <1>1 DEF Drop, Rescheduled
<1>9. row' = [t \in Tasks |-> row'[t]] /\ job' = [t \in Tasks |-> job'[t]]
  BY <1>1 DEF Drop
<1> HIDE DEF S, new
<1>10. x.jobs \subseteq Tasks /\ \A t \in x.jobs : row[t] # None /\ t \notin Desired(G)
  BY <1>2 DEF Existing
<1>11. \A t \in new : t \in Tasks => S[t] \in TaskRow
  BY <1>5, <1>6
<1>12. new \subseteq Tasks
  BY DEF new, Replaced
<1>13. \A c \in Crons : JobFor(c) \in (Crons \ BadCrons) \cup {None}
  BY DEF JobFor
<1>14. \A c \in Crons : JobFor(c) # None => JobFor(c) = c
  BY DEF JobFor
<1>15. DataOK'
  <2>1. \A t \in Tasks : row'[t] \in TaskRow \cup {None}
    BY <1>5, <1>7
  <2>2. \A t \in Tasks : job'[t] \in (Crons \ BadCrons) \cup {None}
    BY <1>8, <1>11, <1>13 DEF DataOK, TaskRow
  <2>3. stripped' \subseteq Tasks
    BY <1>1, <1>10 DEF DataOK
  <2> QED
    BY <1>9, <2>1, <2>2, <2>3 DEF DataOK
<1>16. \A t \in Tasks \ (new \cup x.rows) : row[t] = None => row'[t] = None
  BY <1>6, <1>7
<1>17. ASSUME NEW t \in Tasks, job'[t] # None
       PROVE  row'[t] # None /\ row'[t].cron = job'[t]
  <2>1. t \notin x.jobs /\ row'[t] = S[t]
    BY <1>2, <1>7, <1>8, <1>17
  <2>2. CASE t \in new
    BY <1>6, <1>8, <1>11, <1>14, <1>17, <2>1, <2>2 DEF TaskRow
  <2>3. CASE t \notin new
    <3>1. job'[t] = job[t] /\ row[t] # None /\ row[t].cron = job[t]
      BY <1>8, <1>17, <2>1, <2>3 DEF JobsOK
    <3>2. S[t] # None
      <4>1. CASE t \in Desired(G)
        BY <1>3, <4>1, NoRowAssumption
      <4>2. CASE t \notin Desired(G)
        BY <1>4, <3>1, <4>2
      <4> QED
        BY <4>1, <4>2
    <3>3. row[t].cron = S[t].cron
      BY <1>6, <2>3, <3>1, <3>2
    <3> QED
      BY <2>1, <3>1, <3>2, <3>3
  <2> QED
    BY <2>2, <2>3
<1>18. ASSUME NEW t \in stripped'
       PROVE  row'[t] # None /\ row'[t].ran /\ job'[t] = None
  <2>1. CASE t \in x.jobs \ x.rows
    BY <1>2, <1>4, <1>7, <1>8, <1>10, <2>1
  <2>2. CASE t \in stripped \ new /\ t \notin x.jobs
    <3>1. t \in Tasks /\ row[t] # None /\ row[t].ran /\ job[t] = None
      BY <2>2 DEF DataOK, JobsOK
    <3>2. row'[t] = S[t] /\ job'[t] = None
      BY <1>2, <1>7, <1>8, <2>2, <3>1
    <3>3. S[t] # None /\ S[t].ran
      <4>1. CASE t \in Desired(G)
        BY <1>3, <3>1, <4>1, NoRowAssumption
      <4>2. CASE t \notin Desired(G)
        BY <1>4, <3>1, <4>2
      <4> QED
        BY <4>1, <4>2
    <3> QED
      BY <3>2, <3>3
  <2>3. t \notin x.rows
    <3>1. CASE t \in stripped
      BY <1>2, <3>1 DEF JobsOK
    <3> QED
      BY <1>1, <3>1
  <2> QED
    BY <1>1, <2>1, <2>2, <2>3
<1>19. ASSUME NEW t \in Tasks, row'[t] # None, t \notin stripped'
       PROVE  job'[t] = JobFor(row'[t].cron)
  <2>1. t \notin x.rows /\ t \notin x.jobs /\ row'[t] = S[t]
    BY <1>1, <1>7, <1>19
  <2>2. CASE t \in new
    BY <1>8, <2>1, <2>2
  <2>3. CASE t \notin new
    <3>1. t \notin stripped /\ job'[t] = job[t]
      BY <1>1, <1>8, <1>19, <2>1, <2>3
    <3>2. row[t] # None /\ row[t].cron = S[t].cron
      BY <1>6, <1>19, <2>1, <2>3
    <3> QED
      BY <2>1, <3>1, <3>2 DEF RowsServed
  <2> QED
    BY <2>2, <2>3
<1>20. ASSUME NEW t \in Desired(G)
       PROVE  row'[t] # None /\ row'[t].cron = G[t[1]].cron[t[2]]
  <2>1. t \in Tasks /\ S[t] \in TaskRow /\ S[t].cron = G[t[1]].cron[t[2]]
    BY <1>3
  <2>2. row'[t] = S[t]
    BY <1>2, <1>7, <2>1
  <2> QED
    BY <2>1, <2>2, NoRowAssumption
<1>21. ASSUME synced' = "ok" PROVE Existing(row') = Desired(G)
  <2>1. x.rows = Existing(row) \ Desired(G)
    BY <1>1, <1>2, <1>21
  <2>2. ASSUME NEW t \in Tasks, row'[t] # None PROVE t \in Desired(G)
    <3>1. CASE t \notin Desired(G)
      BY <1>4, <1>7, <2>1, <2>2, <3>1 DEF Existing
    <3> QED
      BY <3>1
  <2>3. \A t \in Desired(G) : t \in Tasks
    BY DesiredCron
  <2> QED
    BY <1>20, <2>2, <2>3 DEF Existing
<1>22. synced' \in {"ok", "raised"} /\ touched' = {}
  BY <1>1
<1> QED
  BY <1>15, <1>17, <1>18, <1>19, <1>20, <1>21, <1>22 DEF JobsOK, RowsServed

-----------------------------------------------------------------------------
(* Steps *)

LEMMA SaveInv ==
  ASSUME IInv, NEW g \in Groups,
         DeleteGroup(g) \/ \E r \in GroupRow : SaveGroup(g, r)
  PROVE  IInv'
<1>1. PICK r \in GroupRow \cup {None} :
        /\ group' = [group EXCEPT ![g] = r] /\ Sync(group', job)
        /\ boot = "up" /\ changes < MaxChanges /\ changes' = changes + 1
        /\ UNCHANGED <<session, boot, crashes>>
  BY DEF DeleteGroup, SaveGroup, Change
<1>2. PICK G : G = group'
  OBVIOUS
<1>3. G \in [Groups -> GroupRow \cup {None}] /\ Sync(G, job)
  BY <1>1, <1>2 DEF IInv, TypeOK
<1>4. DataOK /\ JobsOK /\ RowsServed
  BY <1>1 DEF IInv, TypeOK, DataOK
<1>5. /\ DataOK' /\ JobsOK' /\ RowsServed' /\ synced' \in {"ok", "raised"}
      /\ \A t \in Desired(G) : row'[t] # None /\ row'[t].cron = G[t[1]].cron[t[2]]
      /\ synced' = "ok" => Existing(row') = Desired(G)
      /\ touched' = {}
  BY <1>3, <1>4, SyncKeeps
<1>6. changes' \in 0..MaxChanges
  BY <1>1, ScheduleAssumption DEF IInv, TypeOK
<1>7. TypeOK'
  BY <1>1, <1>2, <1>3, <1>5, <1>6 DEF IInv, TypeOK, DataOK
<1>8. Wanted(group)' /\ (synced' = "ok" => Clean(group)')
  BY <1>2, <1>5 DEF Wanted, Clean
<1> QED
  BY <1>5, <1>7, <1>8 DEF IInv

LEMMA BootedInv == IInv /\ Booted => IInv'
<1> SUFFICES ASSUME IInv, Booted PROVE IInv'
  OBVIOUS
<1>1. /\ UNCHANGED <<group, session, crashes, changes>> /\ boot = "starting"
      /\ boot' = IF synced' = "ok" THEN "up" ELSE "failed"
      /\ Sync(group, job)
  BY DEF Booted
<1>2. PICK G : G = group
  OBVIOUS
<1>3. G \in [Groups -> GroupRow \cup {None}] /\ Sync(G, job)
  BY <1>1, <1>2 DEF IInv, TypeOK
<1>4. DataOK /\ JobsOK /\ RowsServed
  BY <1>1 DEF IInv, TypeOK, DataOK
<1>5. /\ DataOK' /\ JobsOK' /\ RowsServed' /\ synced' \in {"ok", "raised"}
      /\ \A t \in Desired(G) : row'[t] # None /\ row'[t].cron = G[t[1]].cron[t[2]]
      /\ synced' = "ok" => Existing(row') = Desired(G)
      /\ touched' = {}
  BY <1>3, <1>4, SyncKeeps
<1>6. TypeOK'
  BY <1>1, <1>5 DEF IInv, TypeOK, DataOK
<1>7. Wanted(group)' /\ (synced' = "ok" => Clean(group)')
  BY <1>1, <1>2, <1>5 DEF Wanted, Clean
<1> QED
  BY <1>5, <1>6, <1>7 DEF IInv

LEMMA ChangeDatasetsInv ==
  ASSUME IInv, NEW g \in Groups, ChangeDatasets(g)
  PROVE  IInv'
<1>1. /\ UNCHANGED <<row, job, session, synced, stripped, boot, crashes>>
      /\ touched' = touched \cup {g}
      /\ group[g] # None /\ group' = [group EXCEPT ![g] = [group[g] EXCEPT !.datasets = ~@]]
      /\ changes < MaxChanges /\ changes' = changes + 1
  BY DEF ChangeDatasets, Change
<1>2. [group[g] EXCEPT !.datasets = ~@] \in GroupRow
  <2>1. group[g] \in GroupRow
    BY <1>1 DEF IInv, TypeOK
  <2> QED
    BY <2>1 DEF GroupRow
<1>3. group' \in [Groups -> GroupRow \cup {None}]
  BY <1>1, <1>2 DEF IInv, TypeOK
<1>4. changes' \in 0..MaxChanges
  BY <1>1, ScheduleAssumption DEF IInv, TypeOK
<1>5. TypeOK'
  BY <1>1, <1>3, <1>4 DEF IInv, TypeOK
<1>6. ASSUME NEW t \in Tasks, t[1] \notin touched'
      PROVE  t[1] \notin touched /\ group'[t[1]] = group[t[1]]
  <2>1. t[1] \in Groups
    BY DEF Tasks
  <2> QED
    BY <1>1, <1>3, <1>6, <2>1 DEF IInv, TypeOK
<1>7. ASSUME NEW t \in Tasks, t[1] \notin touched'
      PROVE  t \in Desired(group') <=> t \in Desired(group)
  BY <1>6, <1>7 DEF Desired
<1>8. Wanted(group) => Wanted(group)'
  <2>1. Desired(group') \subseteq Tasks
    BY DEF Desired
  <2> QED
    BY <1>1, <1>6, <1>7, <2>1 DEF Wanted
<1>9. Clean(group) => Clean(group)'
  BY <1>1, <1>6, <1>7 DEF Clean, Existing
<1> QED
  BY <1>1, <1>5, <1>8, <1>9 DEF IInv, JobsOK, RowsServed

LEMMA FireInv == ASSUME IInv, NEW t \in Tasks, Fire(t) PROVE IInv'
<1>1. /\ UNCHANGED <<group, job, boot, synced, touched, stripped, crashes, changes>>
      /\ row[t] # None /\ job[t] # None /\ row' = [row EXCEPT ![t].ran = TRUE]
      /\ session' = session \/ session' = session \cup {t[1]}
  BY DEF Fire
<1>2. t[1] \in Groups
  BY DEF Tasks
<1>3. row \in [Tasks -> TaskRow \cup {None}] /\ row[t] \in TaskRow
  BY <1>1 DEF IInv, TypeOK
<1>4. /\ row'[t] \in TaskRow /\ row'[t].cron = row[t].cron
      /\ \A u \in Tasks \ {t} : row'[u] = row[u]
  BY <1>1, <1>3 DEF TaskRow
<1>5. row' \in [Tasks -> TaskRow \cup {None}]
  BY <1>1, <1>3, <1>4
<1>6. TypeOK'
  BY <1>1, <1>2, <1>5 DEF IInv, TypeOK
<1>7. \A u \in Tasks : (row'[u] # None <=> row[u] # None)
                       /\ (row[u] # None => row'[u].cron = row[u].cron)
  BY <1>1, <1>4, NoRowAssumption
<1>8. t \notin stripped
  BY <1>1 DEF IInv, JobsOK
<1>9. JobsOK'
  BY <1>1, <1>4, <1>7, <1>8 DEF IInv, JobsOK, TypeOK
<1>10. RowsServed => RowsServed'
  BY <1>1, <1>7 DEF RowsServed
<1>11. Existing(row)' = Existing(row) /\ Desired(group)' = Desired(group)
  BY <1>1, <1>7 DEF Existing, Desired
<1>12. Wanted(group) => Wanted(group)'
  BY <1>1, <1>7, <1>11 DEF Wanted, Desired
<1>13. Clean(group) => Clean(group)'
  BY <1>1, <1>11 DEF Clean
<1> QED
  BY <1>1, <1>6, <1>9, <1>10, <1>12, <1>13 DEF IInv

LEMMA ProcessInv == IInv /\ (Crash \/ Boot \/ Retry) => IInv'
<1> SUFFICES ASSUME IInv, Crash \/ Boot \/ Retry PROVE IInv'
  OBVIOUS
<1>1. UNCHANGED <<group, row, synced, touched, changes>>
  BY DEF Crash, Boot, Retry
<1>2. CASE Crash \/ Retry
  <2>1. job' = [t \in Tasks |-> None] /\ boot' = "down" /\ UNCHANGED <<session, stripped>>
    BY <1>2 DEF Crash, Retry
  <2>2. crashes' \in 0..MaxCrashes
    BY <1>2, ScheduleAssumption DEF Crash, Retry, IInv, TypeOK
  <2>3. TypeOK'
    BY <1>1, <2>1, <2>2 DEF IInv, TypeOK
  <2>4. JobsOK'
    BY <1>1, <2>1 DEF IInv, JobsOK, TypeOK
  <2> QED
    BY <2>1, <2>3, <2>4 DEF IInv
<1>3. CASE Boot
  <2>1. /\ boot' = "starting" /\ session' = {} /\ stripped' = {}
        /\ UNCHANGED crashes
        /\ job' = [t \in Tasks |-> IF row[t] = None THEN None ELSE JobFor(row[t].cron)]
    BY <1>3 DEF Boot
  <2>2. job' \in [Tasks -> (Crons \ BadCrons) \cup {None}]
    <3>1. \A t \in Tasks : row[t] # None => row[t].cron \in Crons
      BY DEF IInv, TypeOK, TaskRow
    <3> QED
      BY <2>1, <3>1 DEF JobFor
  <2>3. TypeOK'
    BY <1>1, <2>1, <2>2 DEF IInv, TypeOK
  <2>4. JobsOK' /\ RowsServed'
    BY <1>1, <2>1 DEF JobsOK, RowsServed, JobFor
  <2> QED
    BY <2>1, <2>3, <2>4 DEF IInv
<1> QED
  BY <1>2, <1>3

LEMMA StepInv == IInv /\ [Next]_vars => IInv'
<1> SUFFICES ASSUME IInv, [Next]_vars PROVE IInv'
  OBVIOUS
<1>1. CASE UNCHANGED vars
  BY <1>1 DEF vars, IInv, TypeOK, JobsOK, RowsServed, Wanted, Clean, Existing, Desired
<1>2. CASE \E g \in Groups : EndSession(g)
  BY <1>2
  DEF EndSession, IInv, TypeOK, JobsOK, RowsServed, Wanted, Clean, Existing, Desired
<1>3. CASE Operator
  BY <1>3, SaveInv, ChangeDatasetsInv DEF Operator
<1>4. CASE Process \/ Crash
  BY <1>4, ProcessInv, BootedInv DEF Process
<1>5. CASE \E t \in Tasks : Fire(t)
  BY <1>5, FireInv
<1> QED
  BY <1>1, <1>2, <1>3, <1>4, <1>5 DEF Next

-----------------------------------------------------------------------------
(* Theorems *)

\* Rows, jobs and what a failed deletion left between them stay in step, through
\* changes of groups, crashes and failed starts.
THEOREM Invariance == Spec => []IInv
BY InitInv, StepInv, PTL DEF Spec

\* Only crons that CronTrigger takes become jobs; everything stays in its domain.
THEOREM TypeCorrect == Spec => []TypeOK
<1>1. IInv => TypeOK
  BY DEF IInv
<1> QED
  BY <1>1, Invariance, PTL

\* sync_scheduled_tasks puts what is wanted first, so that it is scheduled even when
\* a deletion raises: for every group whose datasets have not changed since, the row,
\* and the job unless a failed deletion of the same task took it.
THEOREM WantedStays == Spec => []WantedIsScheduled
<1>1. IInv => WantedIsScheduled
  BY DEF IInv, JobsOK, RowsServed, Wanted, WantedIsScheduled, Desired
<1> QED
  BY <1>1, Invariance, PTL

\* A reconciliation that does not raise leaves nothing else scheduled, for groups
\* whose datasets have not changed since.
THEOREM UnwantedGoes == Spec => []UnwantedIsGone
<1>1. IInv => UnwantedIsGone
  BY DEF IInv, JobsOK, TypeOK, UnwantedIsGone, Clean
<1> QED
  BY <1>1, Invariance, PTL

=============================================================================
