-------------------------- MODULE BackupCycle_proofs --------------------------
(***************************************************************************)
(* Proofs about BackupCycle, for every value of its constants: type        *)
(* correctness, and what a session leaves behind, in the rows of the runs, *)
(* in the snapshots of the pool and on the disks.  The invariants, the     *)
(* first three used by all that follow:                                    *)
(*   TypeInv     the domains, and what each stage of a session has in hand *)
(*   OutcomeInv  a worker and the row of its session                       *)
(*   RunInv      a worker and the row of its run; no two share one         *)
(*   Driven, SnapInv, FileInv   rows that say running, snapshots that      *)
(*               successes name, streams that successes promise            *)
(*   RotationInv what a session will rotate past, and when a set was used  *)
(*   ReplayInv   what each incremental follows, and what a session has     *)
(*               copied; on FileInv                                        *)
(*   FullInv     fulls are sent from nothing; with the others, every step  *)
(*               is one of SetChain                                        *)
(*   LeftInv     what pruning has spared although nothing names it         *)
(***************************************************************************)
EXTENDS BackupCycle, TLAPS, FiniteSetTheorems, SequenceTheorems, WellFoundedInduction

\* The operators on the cycle stay within it.
LEMMA AfterInCycle ==
  ASSUME NEW g \in Groups, NEW s \in Ran(Cycle[g]), NEW n \in Nat
  PROVE  After(g, s, n) \in Ran(Cycle[g])
<1> DEFINE L == Len(Cycle[g])
           p == PositionOf(g, s)
<1>1. L \in Nat /\ L > 0 /\ DOMAIN Cycle[g] = 1..L
  BY TopologyAssumption
<1>2. p \in 1..L
  BY <1>1 DEF PositionOf, Ran
<1>3. p + n - 1 \in Nat
  BY <1>1, <1>2
<1>4. (p + n - 1) % L \in 0..(L - 1)
  BY <1>1, <1>3
<1>5. ((p + n - 1) % L) + 1 \in DOMAIN Cycle[g]
  BY <1>1, <1>4
<1> QED
  BY <1>5 DEF After, Ran

-----------------------------------------------------------------------------
(* Type correctness *)

\* Stages in which a session has a current set, a disk, and a run.
SetStages == Stages \ {"idle", "resolve", "rotate", "capture", "blocked"}
DiskStages == SetStages \ {"disk"}
RunStages == DiskStages \ {"dataset"}

\* The locals of the worker of g are the ones its stage reads.
JobOK(g) ==
  /\ pc[g] \notin {"idle", "resolve", "blocked"} =>
       job[g].targets # << >> /\ Ran(job[g].targets) \subseteq Ran(Cycle[g])
  /\ pc[g] \in SetStages => job[g].at \in DOMAIN job[g].targets
  /\ pc[g] \in DiskStages => job[g].disk \in Disks /\ job[g].item # 0
  /\ pc[g] \in RunStages => job[g].item \in DOMAIN Members[g] /\ work[g].run \in DOMAIN runs

\* The inductive strengthening of TypeOK: without JobOK a worker could index
\* its targets, its members or the runs out of range.
TypeInv ==
  /\ TypeOK
  /\ \A g \in Groups : activeSet[g] \in Ran(Cycle[g]) /\ JobOK(g)

\* What the helpers return when the types are right.
LEMMA CurTypes ==
  ASSUME TypeInv, NEW g \in Groups
  PROVE  /\ pc[g] \in SetStages => CurSet(g) \in Sets
         /\ pc[g] \in DiskStages => job[g].disk \in Disks
         /\ pc[g] \in RunStages =>
              CurDataset(g) \in Datasets /\ Row(g) \in BackupRun /\ work[g].run \in DOMAIN runs
<1>1. Ran(Cycle[g]) \subseteq Sets
  BY TopologyAssumption DEF Ran
<1>2. pc[g] \in SetStages => CurSet(g) \in Sets
  BY <1>1 DEF TypeInv, JobOK, CurSet, Ran, SetStages
<1>3. ASSUME pc[g] \in RunStages
      PROVE  CurDataset(g) \in Datasets /\ Row(g) \in BackupRun /\ work[g].run \in DOMAIN runs
  BY <1>3, TopologyAssumption DEF TypeInv, TypeOK, RowsOK, JobOK, CurDataset, Row
<1>4. pc[g] \in DiskStages => job[g].disk \in Disks
  BY DEF TypeInv, JobOK
<1> QED
  BY <1>2, <1>3, <1>4

\* A step of group g's worker leaves the locals of the others alone.
OthersKept(g) ==
  \A h \in Groups \ {g} :
    pc'[h] = pc[h] /\ job'[h] = job[h] /\ work'[h] = work[h] /\ activeSet'[h] = activeSet[h]

LEMMA LocalStep ==
  ASSUME TypeInv, NEW g \in Groups, RowsOK', StoreOK', WorkerOK', OthersKept(g),
         DOMAIN runs \subseteq DOMAIN runs',
         activeSet'[g] \in Ran(Cycle[g]), JobOK(g)'
  PROVE  TypeInv'
<1>1. ASSUME NEW h \in Groups, h # g
      PROVE  activeSet'[h] \in Ran(Cycle[h]) /\ JobOK(h)'
  BY <1>1 DEF OthersKept, TypeInv, JobOK
<1> QED
  BY <1>1 DEF TypeInv, TypeOK

\* A step within backup_dataset, or out of it into a blocked session: the
\* job and the row stay the ones they were.
LEMMA RunStep ==
  ASSUME TypeInv, NEW g \in Groups, RowsOK', StoreOK', WorkerOK', OthersKept(g),
         pc[g] \in RunStages, pc'[g] \in RunStages \cup {"blocked"},
         activeSet' = activeSet, job' = job, work'[g].run = work[g].run,
         DOMAIN runs' = DOMAIN runs
  PROVE  TypeInv'
<1>1. JobOK(g)'
  BY DEF TypeInv, JobOK, Stages, SetStages, DiskStages, RunStages
<1> QED
  BY <1>1, LocalStep DEF TypeInv

\* The updates of a run's row that are committed keep it a row.
LEMMA RowUpdates ==
  ASSUME NEW r \in BackupRun
  PROVE  /\ [r EXCEPT !.status = "failed"] \in BackupRun
         /\ [r EXCEPT !.status = "deleted"] \in BackupRun
         /\ \A t \in Second, y \in Triggers : [r EXCEPT !.snap = t, !.type = y] \in BackupRun
         /\ \A b, a \in Second :
              /\ [r EXCEPT !.status = "skipped", !.base = b, !.anchor = a] \in BackupRun
              /\ [r EXCEPT !.status = "success", !.base = b, !.anchor = a] \in BackupRun
         /\ \A k \in Disks : Retarget(r, k) \in BackupRun
BY DEF BackupRun, Retarget

\* The updates of the locals of backup_dataset.
LEMMA WorkUpdates ==
  ASSUME NEW w \in Work
  PROVE  /\ \A x \in {"success", "skipped", "failed"} : [w EXCEPT !.result = x] \in Work
         /\ \A x \in {"advanced", "recycled"} : [w EXCEPT !.retry = x] \in Work
         /\ \A t \in Nat : [w EXCEPT !.snap = t] \in Work
         /\ \A T \in SUBSET Seconds : [w EXCEPT !.doomed = T] \in Work
BY DEF Work, Second, Seconds

LEMMA SaveTyped ==
  ASSUME RowsOK, NEW g \in Groups, work[g].run \in DOMAIN runs,
         NEW row \in BackupRun, Save(g, row)
  PROVE  runs' \in Seq(BackupRun) /\ DOMAIN runs' = DOMAIN runs
<1> DEFINE n == work[g].run
<1>1. runs \in Seq(BackupRun) /\ n \in 1..Len(runs)
  BY DEF RowsOK
<1>2. [runs EXCEPT ![n] = row] \in Seq(BackupRun) /\ DOMAIN [runs EXCEPT ![n] = row] = DOMAIN runs
  BY <1>1, ExceptSeq
<1>3. runs' = runs \/ runs' = [runs EXCEPT ![n] = row]
  BY DEF Save
<1> QED
  BY <1>1, <1>2, <1>3

LEMMA DestroyTyped ==
  ASSUME StoreOK, NEW d \in Datasets, NEW T, Destroy(d, T)
  PROVE  snaps' \in [Datasets -> SUBSET Seconds]
BY DEF StoreOK, Destroy

LEMMA SmallestNat ==
  ASSUME NEW S \in SUBSET Nat, S # {}
  PROVE  \E x \in S : \A y \in S : x <= y
<1> DEFINE R == { p \in Nat \X Nat : p[1] < p[2] }
<1>1. IsWellFoundedOn(R, Nat)
  BY NatLessThanWellFounded DEF OpToRel
<1>2. \A x, y \in S : <<y, x>> \notin R => x <= y
  OBVIOUS
<1> HIDE DEF R
<1>3. PICK x \in S : \A y \in S : ~ (<<y, x>> \in R)
  BY <1>1, WFMin
<1> QED
  BY <1>2, <1>3

\* The base and the anchor that are resolved are snapshots or None.
LEMMA AnchorTyped ==
  ASSUME RowsOK, StoreOK, NEW s \in Sets, NEW d \in Datasets
  PROVE  SetAnchor(s, d) \in Second /\ FullAnchor(s, d) \in Second
<1> DEFINE fulls == { i \in SuccessIn(s, d) : runs[i].type = "full" }
<1>1. SetAnchor(s, d) \in Second
  BY DEF SetAnchor, StoreOK, Second, Seconds
<1>2. DOMAIN runs \subseteq Nat /\ \A i \in DOMAIN runs : runs[i].snap \in Second
  <2>1. runs \in Seq(BackupRun)
    BY DEF RowsOK
  <2>2. DOMAIN runs \subseteq Nat /\ \A i \in DOMAIN runs : runs[i] \in BackupRun
    BY <2>1
  <2> QED
    BY <2>2 DEF BackupRun
<1>3. fulls \subseteq DOMAIN runs
  BY DEF SuccessIn
<1>4. ASSUME fulls # {}
      PROVE  Oldest(fulls) \in fulls
  <2>1. \E i \in fulls : \A j \in fulls : i <= j
    BY <1>2, <1>3, <1>4, SmallestNat
  <2> QED
    BY <2>1 DEF Oldest
<1>5. FullAnchor(s, d) = IF fulls = {} THEN None ELSE runs[Oldest(fulls)].snap
  BY DEF FullAnchor
<1> HIDE DEF fulls
<1>6. FullAnchor(s, d) \in Second
  BY <1>2, <1>3, <1>4, <1>5 DEF Second
<1> QED
  BY <1>1, <1>6

LEMMA MountForRunType ==
  ASSUME TypeInv, NEW g \in Groups, MountForRun(g)
  PROVE  TypeInv'
<1>1. /\ pc[g] \in RunStages /\ CurSet(g) \in Sets /\ CurDataset(g) \in Datasets
     /\ Row(g) \in BackupRun /\ work[g].run \in DOMAIN runs /\ job[g].disk \in Disks
  BY CurTypes DEF MountForRun, Stages, SetStages, DiskStages, RunStages
<1>2. RowsOK /\ StoreOK /\ WorkerOK
  BY DEF TypeInv, TypeOK
<1>3. WorkerOK' /\ pc'[g] \in RunStages \cup {"blocked"}
  BY <1>2 DEF MountForRun, Goto, WorkerOK, Stages, SetStages, DiskStages, RunStages
<1>4. OthersKept(g) /\ activeSet' = activeSet /\ job' = job /\ work'[g].run = work[g].run
  BY <1>2 DEF MountForRun, Goto, OthersKept, WorkerOK, Work, rows
<1>5. RowsOK' /\ DOMAIN runs' = DOMAIN runs
  BY <1>2 DEF MountForRun, RowsOK, rows
<1>6. StoreOK'
  BY <1>1, <1>2 DEF MountForRun, StoreOK, disks, proc
<1> QED
  BY <1>1, <1>3, <1>4, <1>5, <1>6, RunStep

LEMMA ResolveAnchorType ==
  ASSUME TypeInv, NEW g \in Groups, ResolveAnchor(g)
  PROVE  TypeInv'
<1>1. /\ pc[g] \in RunStages /\ CurSet(g) \in Sets /\ CurDataset(g) \in Datasets
     /\ Row(g) \in BackupRun /\ work[g].run \in DOMAIN runs /\ job[g].disk \in Disks
  BY CurTypes DEF ResolveAnchor, Stages, SetStages, DiskStages, RunStages
<1>2. RowsOK /\ StoreOK /\ WorkerOK
  BY DEF TypeInv, TypeOK
<1>3. work[g] \in Work /\ work'[g] \in Work
  <2> DEFINE base == SetAnchor(CurSet(g), CurDataset(g))
             anchor == IF base = None THEN None ELSE FullAnchor(CurSet(g), CurDataset(g))
             type == IF base = None THEN "full" ELSE work[g].type
  <2>1. work[g] \in Work /\ type \in Triggers
    BY <1>2 DEF WorkerOK, Work, Triggers
  <2>2. base \in Second /\ anchor \in Second
    BY <1>1, <1>2, AnchorTyped DEF Second
  <2>3. work'[g] = [work[g] EXCEPT !.base = base, !.anchor = anchor, !.type = type]
    BY <1>2 DEF ResolveAnchor, WorkerOK
  <2> HIDE DEF base, anchor, type
  <2>4. [work[g] EXCEPT !.base = base, !.anchor = anchor, !.type = type] \in Work
    BY <2>1, <2>2 DEF Work
  <2> QED
    BY <2>1, <2>3, <2>4
<1>4. work' = [work EXCEPT ![g] = work'[g]]
  BY <1>2 DEF ResolveAnchor, WorkerOK
<1>5. WorkerOK' /\ pc'[g] \in RunStages \cup {"blocked"}
  BY <1>2, <1>3, <1>4 DEF ResolveAnchor, Goto, WorkerOK, Stages, SetStages, DiskStages, RunStages
<1>6. OthersKept(g) /\ activeSet' = activeSet /\ job' = job /\ work'[g].run = work[g].run
  BY <1>2 DEF ResolveAnchor, Goto, OthersKept, WorkerOK, Work, rows
<1>7. RowsOK' /\ DOMAIN runs' = DOMAIN runs
  BY <1>2 DEF ResolveAnchor, RowsOK, rows
<1>8. StoreOK'
  BY <1>1, <1>2 DEF ResolveAnchor, StoreOK, disks, proc
<1> QED
  BY <1>1, <1>5, <1>6, <1>7, <1>8, RunStep

LEMMA AnchorUnlistedType ==
  ASSUME TypeInv, NEW g \in Groups, AnchorUnlisted(g)
  PROVE  TypeInv'
<1>1. /\ pc[g] \in RunStages /\ CurSet(g) \in Sets /\ CurDataset(g) \in Datasets
     /\ Row(g) \in BackupRun /\ work[g].run \in DOMAIN runs /\ job[g].disk \in Disks
  BY CurTypes DEF AnchorUnlisted, Stages, SetStages, DiskStages, RunStages
<1>2. RowsOK /\ StoreOK /\ WorkerOK
  BY DEF TypeInv, TypeOK
<1>3. work[g] \in Work /\ work'[g] \in Work
  <2>1. work[g] \in Work /\ None \in Second /\ "full" \in Triggers
    BY <1>2 DEF WorkerOK, Second, Triggers
  <2>2. work'[g] = [work[g] EXCEPT !.base = None, !.anchor = None, !.type = "full"]
    BY <1>2 DEF AnchorUnlisted, WorkerOK
  <2>3. [work[g] EXCEPT !.base = None, !.anchor = None, !.type = "full"] \in Work
    BY <2>1 DEF Work
  <2> QED
    BY <2>1, <2>2, <2>3
<1>4. work' = [work EXCEPT ![g] = work'[g]]
  BY <1>2 DEF AnchorUnlisted, WorkerOK
<1>5. WorkerOK' /\ pc'[g] \in RunStages \cup {"blocked"}
  BY <1>2, <1>3, <1>4 DEF AnchorUnlisted, Goto, WorkerOK, Stages, SetStages, DiskStages, RunStages
<1>6. OthersKept(g) /\ activeSet' = activeSet /\ job' = job /\ work'[g].run = work[g].run
  BY <1>2 DEF AnchorUnlisted, Goto, OthersKept, WorkerOK, Work, rows
<1>7. RowsOK' /\ DOMAIN runs' = DOMAIN runs
  BY <1>2 DEF AnchorUnlisted, RowsOK, rows
<1>8. StoreOK'
  BY <1>1, <1>2 DEF AnchorUnlisted, StoreOK, disks, proc
<1> QED
  BY <1>1, <1>5, <1>6, <1>7, <1>8, RunStep

LEMMA ReuseSnapshotType ==
  ASSUME TypeInv, NEW g \in Groups, ReuseSnapshot(g)
  PROVE  TypeInv'
<1>1. /\ pc[g] \in RunStages /\ CurSet(g) \in Sets /\ CurDataset(g) \in Datasets
     /\ Row(g) \in BackupRun /\ work[g].run \in DOMAIN runs /\ job[g].disk \in Disks
  BY CurTypes DEF ReuseSnapshot, Stages, SetStages, DiskStages, RunStages
<1>2. RowsOK /\ StoreOK /\ WorkerOK
  BY DEF TypeInv, TypeOK
<1>3. WorkerOK' /\ pc'[g] \in RunStages \cup {"blocked"}
  BY <1>2 DEF ReuseSnapshot, Goto, WorkerOK, Stages, SetStages, DiskStages, RunStages
<1>4. OthersKept(g) /\ activeSet' = activeSet /\ job' = job /\ work'[g].run = work[g].run
  BY <1>2 DEF ReuseSnapshot, Goto, OthersKept, WorkerOK, Work, rows
<1>5. RowsOK' /\ DOMAIN runs' = DOMAIN runs
  BY <1>2 DEF ReuseSnapshot, RowsOK, rows
<1>6. StoreOK'
  BY <1>1, <1>2 DEF ReuseSnapshot, StoreOK, disks, proc
<1> QED
  BY <1>1, <1>3, <1>4, <1>5, <1>6, RunStep

LEMMA TakeSnapshotType ==
  ASSUME TypeInv, NEW g \in Groups, NEW t, TakeSnapshot(g, t)
  PROVE  TypeInv'
<1>1. /\ pc[g] \in RunStages /\ CurSet(g) \in Sets /\ CurDataset(g) \in Datasets
     /\ Row(g) \in BackupRun /\ work[g].run \in DOMAIN runs /\ job[g].disk \in Disks
  BY CurTypes DEF TakeSnapshot, Stages, SetStages, DiskStages, RunStages
<1>2. RowsOK /\ StoreOK /\ WorkerOK
  BY DEF TypeInv, TypeOK
<1>3. work[g] \in Work /\ work'[g] \in Work
  <2>1. work[g] \in Work /\ t \in Nat
    BY <1>2 DEF TakeSnapshot, WorkerOK, StoreOK
  <2>2. work'[g] = [work[g] EXCEPT !.snap = t]
    BY <1>2 DEF TakeSnapshot, WorkerOK
  <2> QED
    BY <2>1, <2>2, WorkUpdates
<1>4. work' = [work EXCEPT ![g] = work'[g]]
  BY <1>2 DEF TakeSnapshot, WorkerOK
<1>5. WorkerOK' /\ pc'[g] \in RunStages \cup {"blocked"}
  BY <1>2, <1>3, <1>4 DEF TakeSnapshot, Goto, WorkerOK, Stages, SetStages, DiskStages, RunStages
<1>6. OthersKept(g) /\ activeSet' = activeSet /\ job' = job /\ work'[g].run = work[g].run
  BY <1>2 DEF TakeSnapshot, Goto, OthersKept, WorkerOK, Work, rows
<1>7. RowsOK' /\ DOMAIN runs' = DOMAIN runs
  BY <1>2 DEF TakeSnapshot, RowsOK, rows
<1>8. StoreOK'
  <2>1. t \in Seconds /\ clock' \in Nat
    BY <1>2 DEF TakeSnapshot, StoreOK, Seconds
  <2>2. snaps' \in [Datasets -> SUBSET Seconds]
    BY <1>1, <1>2, <2>1 DEF TakeSnapshot, StoreOK
  <2> QED
    BY <1>2, <2>1, <2>2 DEF TakeSnapshot, StoreOK, disks, proc
<1> QED
  BY <1>1, <1>5, <1>6, <1>7, <1>8, RunStep

LEMMA SnapshotFailsType ==
  ASSUME TypeInv, NEW g \in Groups, NEW t, SnapshotFails(g, t)
  PROVE  TypeInv'
<1>1. /\ pc[g] \in RunStages /\ CurSet(g) \in Sets /\ CurDataset(g) \in Datasets
     /\ Row(g) \in BackupRun /\ work[g].run \in DOMAIN runs /\ job[g].disk \in Disks
  BY CurTypes DEF SnapshotFails, Stages, SetStages, DiskStages, RunStages
<1>2. RowsOK /\ StoreOK /\ WorkerOK
  BY DEF TypeInv, TypeOK
<1>3. work[g] \in Work /\ work'[g] \in Work
  <2>1. work[g] \in Work /\ t \in Nat
    BY <1>2 DEF SnapshotFails, WorkerOK, StoreOK
  <2>2. \/ work'[g] = [work[g] EXCEPT !.snap = t]
        \/ work'[g] = [work[g] EXCEPT !.result = "failed"]
    BY <1>2 DEF SnapshotFails, WorkerOK
  <2> QED
    BY <2>1, <2>2, WorkUpdates
<1>4. work' = [work EXCEPT ![g] = work'[g]]
  BY <1>2 DEF SnapshotFails, WorkerOK
<1>5. WorkerOK' /\ pc'[g] \in RunStages \cup {"blocked"}
  BY <1>2, <1>3, <1>4 DEF SnapshotFails, Goto, WorkerOK, Stages, SetStages, DiskStages, RunStages
<1>6. OthersKept(g) /\ activeSet' = activeSet /\ job' = job /\ work'[g].run = work[g].run
  BY <1>2 DEF SnapshotFails, Goto, OthersKept, WorkerOK, Work, rows
<1>7. runs' \in Seq(BackupRun) /\ DOMAIN runs' = DOMAIN runs
  <2>1. runs' = runs \/ Save(g, [Row(g) EXCEPT !.status = "failed"])
    BY DEF SnapshotFails
  <2>2. runs \in Seq(BackupRun) /\ [Row(g) EXCEPT !.status = "failed"] \in BackupRun
    BY <1>1, <1>2, RowUpdates DEF RowsOK
  <2> QED
    BY <1>1, <1>2, <2>1, <2>2, SaveTyped
<1>8. RowsOK'
  BY <1>2, <1>7 DEF SnapshotFails, RowsOK, rows
<1>9. StoreOK'
  BY <1>1, <1>2 DEF SnapshotFails, StoreOK, disks, proc
<1> QED
  BY <1>1, <1>5, <1>6, <1>7, <1>8, <1>9, RunStep

LEMMA DiscardFailedNameType ==
  ASSUME TypeInv, NEW g \in Groups, DiscardFailedName(g)
  PROVE  TypeInv'
<1>1. /\ pc[g] \in RunStages /\ CurSet(g) \in Sets /\ CurDataset(g) \in Datasets
     /\ Row(g) \in BackupRun /\ work[g].run \in DOMAIN runs /\ job[g].disk \in Disks
  BY CurTypes DEF DiscardFailedName, Stages, SetStages, DiskStages, RunStages
<1>2. RowsOK /\ StoreOK /\ WorkerOK
  BY DEF TypeInv, TypeOK
<1>3. work[g] \in Work /\ work'[g] \in Work
  BY <1>1, <1>2, WorkUpdates DEF DiscardFailedName, WorkerOK
<1>4. work' = [work EXCEPT ![g] = work'[g]]
  BY <1>2 DEF DiscardFailedName, WorkerOK
<1>5. WorkerOK' /\ pc'[g] \in RunStages \cup {"blocked"}
  BY <1>2, <1>3, <1>4 DEF DiscardFailedName, Goto, WorkerOK, Stages, SetStages, DiskStages, RunStages
<1>6. OthersKept(g) /\ activeSet' = activeSet /\ job' = job /\ work'[g].run = work[g].run
  BY <1>2 DEF DiscardFailedName, Goto, OthersKept, WorkerOK, Work, rows
<1>7. runs' \in Seq(BackupRun) /\ DOMAIN runs' = DOMAIN runs
  BY <1>1, <1>2, SaveTyped, RowUpdates DEF DiscardFailedName, WorkerOK, Work
<1>8. RowsOK'
  BY <1>2, <1>7 DEF DiscardFailedName, RowsOK, rows
<1>9. snaps' \in [Datasets -> SUBSET Seconds]
  BY <1>1, <1>2, DestroyTyped DEF DiscardFailedName, StoreOK
<1>10. StoreOK'
  BY <1>2, <1>9 DEF DiscardFailedName, StoreOK, disks, proc
<1> QED
  BY <1>1, <1>5, <1>6, <1>7, <1>8, <1>10, RunStep

LEMMA RecordSnapshotType ==
  ASSUME TypeInv, NEW g \in Groups, RecordSnapshot(g)
  PROVE  TypeInv'
<1>1. /\ pc[g] \in RunStages /\ CurSet(g) \in Sets /\ CurDataset(g) \in Datasets
     /\ Row(g) \in BackupRun /\ work[g].run \in DOMAIN runs /\ job[g].disk \in Disks
  BY CurTypes DEF RecordSnapshot, Stages, SetStages, DiskStages, RunStages
<1>2. RowsOK /\ StoreOK /\ WorkerOK
  BY DEF TypeInv, TypeOK
<1>3. WorkerOK' /\ pc'[g] \in RunStages \cup {"blocked"}
  BY <1>2 DEF RecordSnapshot, Goto, WorkerOK, Stages, SetStages, DiskStages, RunStages
<1>4. OthersKept(g) /\ activeSet' = activeSet /\ job' = job /\ work'[g].run = work[g].run
  BY <1>2 DEF RecordSnapshot, Goto, OthersKept, WorkerOK, Work, rows
<1>5. runs' \in Seq(BackupRun) /\ DOMAIN runs' = DOMAIN runs
  BY <1>1, <1>2, SaveTyped, RowUpdates DEF RecordSnapshot, WorkerOK, Work
<1>6. RowsOK'
  BY <1>2, <1>5 DEF RecordSnapshot, RowsOK, rows
<1>7. StoreOK'
  BY <1>1, <1>2 DEF RecordSnapshot, StoreOK, disks, proc
<1> QED
  BY <1>1, <1>3, <1>4, <1>5, <1>6, <1>7, RunStep

LEMMA ChangedType ==
  ASSUME TypeInv, NEW g \in Groups, Changed(g)
  PROVE  TypeInv'
<1>1. /\ pc[g] \in RunStages /\ CurSet(g) \in Sets /\ CurDataset(g) \in Datasets
     /\ Row(g) \in BackupRun /\ work[g].run \in DOMAIN runs /\ job[g].disk \in Disks
  BY CurTypes DEF Changed, Stages, SetStages, DiskStages, RunStages
<1>2. RowsOK /\ StoreOK /\ WorkerOK
  BY DEF TypeInv, TypeOK
<1>3. WorkerOK' /\ pc'[g] \in RunStages \cup {"blocked"}
  BY <1>2 DEF Changed, Goto, WorkerOK, Stages, SetStages, DiskStages, RunStages
<1>4. OthersKept(g) /\ activeSet' = activeSet /\ job' = job /\ work'[g].run = work[g].run
  BY <1>2 DEF Changed, Goto, OthersKept, WorkerOK, Work, rows
<1>5. RowsOK' /\ DOMAIN runs' = DOMAIN runs
  BY <1>2 DEF Changed, RowsOK, rows
<1>6. StoreOK'
  BY <1>1, <1>2 DEF Changed, StoreOK, disks, proc
<1> QED
  BY <1>1, <1>3, <1>4, <1>5, <1>6, RunStep

LEMMA UnchangedType ==
  ASSUME TypeInv, NEW g \in Groups, Unchanged(g)
  PROVE  TypeInv'
<1>1. /\ pc[g] \in RunStages /\ CurSet(g) \in Sets /\ CurDataset(g) \in Datasets
     /\ Row(g) \in BackupRun /\ work[g].run \in DOMAIN runs /\ job[g].disk \in Disks
  BY CurTypes DEF Unchanged, Stages, SetStages, DiskStages, RunStages
<1>2. RowsOK /\ StoreOK /\ WorkerOK
  BY DEF TypeInv, TypeOK
<1>3. WorkerOK' /\ pc'[g] \in RunStages \cup {"blocked"}
  BY <1>2 DEF Unchanged, Goto, WorkerOK, Stages, SetStages, DiskStages, RunStages
<1>4. OthersKept(g) /\ activeSet' = activeSet /\ job' = job /\ work'[g].run = work[g].run
  BY <1>2 DEF Unchanged, Goto, OthersKept, WorkerOK, Work, rows
<1>5. runs' \in Seq(BackupRun) /\ DOMAIN runs' = DOMAIN runs
  BY <1>1, <1>2, SaveTyped, RowUpdates DEF Unchanged, WorkerOK, Work
<1>6. RowsOK'
  BY <1>2, <1>5 DEF Unchanged, RowsOK, rows
<1>7. StoreOK'
  BY <1>1, <1>2 DEF Unchanged, StoreOK, disks, proc
<1> QED
  BY <1>1, <1>3, <1>4, <1>5, <1>6, <1>7, RunStep

LEMMA DropSkippedType ==
  ASSUME TypeInv, NEW g \in Groups, DropSkipped(g)
  PROVE  TypeInv'
<1>1. /\ pc[g] \in RunStages /\ CurSet(g) \in Sets /\ CurDataset(g) \in Datasets
     /\ Row(g) \in BackupRun /\ work[g].run \in DOMAIN runs /\ job[g].disk \in Disks
  BY CurTypes DEF DropSkipped, Stages, SetStages, DiskStages, RunStages
<1>2. RowsOK /\ StoreOK /\ WorkerOK
  BY DEF TypeInv, TypeOK
<1>3. work[g] \in Work /\ work'[g] \in Work
  BY <1>1, <1>2, WorkUpdates DEF DropSkipped, WorkerOK
<1>4. work' = [work EXCEPT ![g] = work'[g]]
  BY <1>2 DEF DropSkipped, WorkerOK
<1>5. WorkerOK' /\ pc'[g] \in RunStages \cup {"blocked"}
  BY <1>2, <1>3, <1>4 DEF DropSkipped, Goto, WorkerOK, Stages, SetStages, DiskStages, RunStages
<1>6. OthersKept(g) /\ activeSet' = activeSet /\ job' = job /\ work'[g].run = work[g].run
  BY <1>2 DEF DropSkipped, Goto, OthersKept, WorkerOK, Work, rows
<1>7. RowsOK' /\ DOMAIN runs' = DOMAIN runs
  BY <1>2 DEF DropSkipped, RowsOK, rows
<1>8. snaps' \in [Datasets -> SUBSET Seconds]
  BY <1>1, <1>2, DestroyTyped DEF DropSkipped, StoreOK
<1>9. StoreOK'
  BY <1>2, <1>8 DEF DropSkipped, StoreOK, disks, proc
<1> QED
  BY <1>1, <1>5, <1>6, <1>7, <1>9, RunStep

LEMMA FitsType ==
  ASSUME TypeInv, NEW g \in Groups, Fits(g)
  PROVE  TypeInv'
<1>1. /\ pc[g] \in RunStages /\ CurSet(g) \in Sets /\ CurDataset(g) \in Datasets
     /\ Row(g) \in BackupRun /\ work[g].run \in DOMAIN runs /\ job[g].disk \in Disks
  BY CurTypes DEF Fits, Stages, SetStages, DiskStages, RunStages
<1>2. RowsOK /\ StoreOK /\ WorkerOK
  BY DEF TypeInv, TypeOK
<1>3. WorkerOK' /\ pc'[g] \in RunStages \cup {"blocked"}
  BY <1>2 DEF Fits, Goto, WorkerOK, Stages, SetStages, DiskStages, RunStages
<1>4. OthersKept(g) /\ activeSet' = activeSet /\ job' = job /\ work'[g].run = work[g].run
  BY <1>2 DEF Fits, Goto, OthersKept, WorkerOK, Work, rows
<1>5. RowsOK' /\ DOMAIN runs' = DOMAIN runs
  BY <1>2 DEF Fits, RowsOK, rows
<1>6. StoreOK'
  BY <1>1, <1>2 DEF Fits, StoreOK, disks, proc
<1> QED
  BY <1>1, <1>3, <1>4, <1>5, <1>6, RunStep

LEMMA SendDoneType ==
  ASSUME TypeInv, NEW g \in Groups, SendDone(g)
  PROVE  TypeInv'
<1>1. /\ pc[g] \in RunStages /\ CurSet(g) \in Sets /\ CurDataset(g) \in Datasets
     /\ Row(g) \in BackupRun /\ work[g].run \in DOMAIN runs /\ job[g].disk \in Disks
  BY CurTypes DEF SendDone, Stages, SetStages, DiskStages, RunStages
<1>2. RowsOK /\ StoreOK /\ WorkerOK
  BY DEF TypeInv, TypeOK
<1>3. WorkerOK' /\ pc'[g] \in RunStages \cup {"blocked"}
  BY <1>2 DEF SendDone, Goto, WorkerOK, Stages, SetStages, DiskStages, RunStages
<1>4. OthersKept(g) /\ activeSet' = activeSet /\ job' = job /\ work'[g].run = work[g].run
  BY <1>2 DEF SendDone, Goto, OthersKept, WorkerOK, Work, rows
<1>5. RowsOK' /\ DOMAIN runs' = DOMAIN runs
  BY <1>2 DEF SendDone, RowsOK, rows
<1>6. StoreOK'
  <2> DEFINE file == [ds |-> CurDataset(g), type |-> work[g].type, snap |-> work[g].snap,
                      base |-> work[g].base, by |-> session[g].id, listed |-> FALSE]
  <2>1. work[g] \in Work /\ session[g].id \in Nat
    BY <1>2 DEF WorkerOK, RowsOK, SessionRow
  <2>2. file \in Stream
    BY <1>1, <2>1 DEF Work, Stream
  <2>3. media' = [media EXCEPT ![job[g].disk] = @ \cup {file}]
    BY DEF SendDone
  <2> HIDE DEF file
  <2>4. media' \in [Disks -> SUBSET Stream]
    BY <1>1, <1>2, <2>2, <2>3 DEF StoreOK
  <2> QED
    BY <1>2, <2>4 DEF SendDone, StoreOK, proc
<1> QED
  BY <1>1, <1>3, <1>4, <1>5, <1>6, RunStep

LEMMA SendFailsType ==
  ASSUME TypeInv, NEW g \in Groups, SendFails(g)
  PROVE  TypeInv'
<1>1. /\ pc[g] \in RunStages /\ CurSet(g) \in Sets /\ CurDataset(g) \in Datasets
     /\ Row(g) \in BackupRun /\ work[g].run \in DOMAIN runs /\ job[g].disk \in Disks
  BY CurTypes DEF SendFails, Stages, SetStages, DiskStages, RunStages
<1>2. RowsOK /\ StoreOK /\ WorkerOK
  BY DEF TypeInv, TypeOK
<1>3. WorkerOK' /\ pc'[g] \in RunStages \cup {"blocked"}
  BY <1>2 DEF SendFails, Goto, WorkerOK, Stages, SetStages, DiskStages, RunStages
<1>4. OthersKept(g) /\ activeSet' = activeSet /\ job' = job /\ work'[g].run = work[g].run
  BY <1>2 DEF SendFails, Goto, OthersKept, WorkerOK, Work, rows
<1>5. RowsOK' /\ DOMAIN runs' = DOMAIN runs
  BY <1>2 DEF SendFails, RowsOK, rows
<1>6. StoreOK'
  BY <1>1, <1>2 DEF SendFails, StoreOK, disks, proc
<1> QED
  BY <1>1, <1>3, <1>4, <1>5, <1>6, RunStep

LEMMA DropFailedType ==
  ASSUME TypeInv, NEW g \in Groups, DropFailed(g)
  PROVE  TypeInv'
<1>1. /\ pc[g] \in RunStages /\ CurSet(g) \in Sets /\ CurDataset(g) \in Datasets
     /\ Row(g) \in BackupRun /\ work[g].run \in DOMAIN runs /\ job[g].disk \in Disks
  BY CurTypes DEF DropFailed, Stages, SetStages, DiskStages, RunStages
<1>2. RowsOK /\ StoreOK /\ WorkerOK
  BY DEF TypeInv, TypeOK
<1>3. work[g] \in Work /\ work'[g] \in Work
  BY <1>1, <1>2, WorkUpdates DEF DropFailed, WorkerOK
<1>4. work' = [work EXCEPT ![g] = work'[g]]
  BY <1>2 DEF DropFailed, WorkerOK
<1>5. WorkerOK' /\ pc'[g] \in RunStages \cup {"blocked"}
  BY <1>2, <1>3, <1>4 DEF DropFailed, Goto, WorkerOK, Stages, SetStages, DiskStages, RunStages
<1>6. OthersKept(g) /\ activeSet' = activeSet /\ job' = job /\ work'[g].run = work[g].run
  BY <1>2 DEF DropFailed, Goto, OthersKept, WorkerOK, Work, rows
<1>7. runs' \in Seq(BackupRun) /\ DOMAIN runs' = DOMAIN runs
  BY <1>1, <1>2, SaveTyped, RowUpdates DEF DropFailed, WorkerOK, Work
<1>8. RowsOK'
  BY <1>2, <1>7 DEF DropFailed, RowsOK, rows
<1>9. snaps' \in [Datasets -> SUBSET Seconds]
  BY <1>1, <1>2, DestroyTyped DEF DropFailed, StoreOK
<1>10. StoreOK'
  BY <1>2, <1>9 DEF DropFailed, StoreOK, disks, proc
<1> QED
  BY <1>1, <1>5, <1>6, <1>7, <1>8, <1>10, RunStep

LEMMA CommitRunType ==
  ASSUME TypeInv, NEW g \in Groups, CommitRun(g)
  PROVE  TypeInv'
<1>1. /\ pc[g] \in RunStages /\ CurSet(g) \in Sets /\ CurDataset(g) \in Datasets
     /\ Row(g) \in BackupRun /\ work[g].run \in DOMAIN runs /\ job[g].disk \in Disks
  BY CurTypes DEF CommitRun, Stages, SetStages, DiskStages, RunStages
<1>2. RowsOK /\ StoreOK /\ WorkerOK
  BY DEF TypeInv, TypeOK
<1>3. WorkerOK' /\ pc'[g] \in RunStages \cup {"blocked"}
  BY <1>2 DEF CommitRun, Goto, WorkerOK, Stages, SetStages, DiskStages, RunStages
<1>4. OthersKept(g) /\ activeSet' = activeSet /\ job' = job /\ work'[g].run = work[g].run
  BY <1>2 DEF CommitRun, Goto, OthersKept, WorkerOK, Work, rows
<1>5. runs' \in Seq(BackupRun) /\ DOMAIN runs' = DOMAIN runs
  BY <1>1, <1>2, SaveTyped, RowUpdates DEF CommitRun, WorkerOK, Work
<1>6. RowsOK'
  BY <1>2, <1>5 DEF CommitRun, RowsOK, rows
<1>7. StoreOK'
  BY <1>1, <1>2 DEF CommitRun, StoreOK, disks, proc
<1> QED
  BY <1>1, <1>3, <1>4, <1>5, <1>6, <1>7, RunStep

LEMMA PruneListType ==
  ASSUME TypeInv, NEW g \in Groups, PruneList(g)
  PROVE  TypeInv'
<1>1. /\ pc[g] \in RunStages /\ CurSet(g) \in Sets /\ CurDataset(g) \in Datasets
     /\ Row(g) \in BackupRun /\ work[g].run \in DOMAIN runs /\ job[g].disk \in Disks
  BY CurTypes DEF PruneList, Stages, SetStages, DiskStages, RunStages
<1>2. RowsOK /\ StoreOK /\ WorkerOK
  BY DEF TypeInv, TypeOK
<1>3. work[g] \in Work /\ work'[g] \in Work
  <2> DEFINE d == CurDataset(g)
             T == snaps[d] \ (NewestTwo(d) \cup {work[g].snap} \cup Referenced(d))
  <2>1. work[g] \in Work /\ T \in SUBSET Seconds
    BY <1>1, <1>2 DEF WorkerOK, StoreOK
  <2>2. work'[g] = [work[g] EXCEPT !.doomed = T]
    BY <1>2 DEF PruneList, WorkerOK
  <2> HIDE DEF T
  <2> QED
    BY <2>1, <2>2, WorkUpdates
<1>4. work' = [work EXCEPT ![g] = work'[g]]
  BY <1>2 DEF PruneList, WorkerOK
<1>5. WorkerOK' /\ pc'[g] \in RunStages \cup {"blocked"}
  BY <1>2, <1>3, <1>4 DEF PruneList, Goto, WorkerOK, Stages, SetStages, DiskStages, RunStages
<1>6. OthersKept(g) /\ activeSet' = activeSet /\ job' = job /\ work'[g].run = work[g].run
  BY <1>2 DEF PruneList, Goto, OthersKept, WorkerOK, Work, rows
<1>7. RowsOK' /\ DOMAIN runs' = DOMAIN runs
  BY <1>2 DEF PruneList, RowsOK, rows
<1>8. StoreOK'
  BY <1>1, <1>2 DEF PruneList, StoreOK, disks, proc
<1> QED
  BY <1>1, <1>5, <1>6, <1>7, <1>8, RunStep

LEMMA PruneOneType ==
  ASSUME TypeInv, NEW g \in Groups, NEW t, PruneOne(g, t)
  PROVE  TypeInv'
<1>1. /\ pc[g] \in RunStages /\ CurSet(g) \in Sets /\ CurDataset(g) \in Datasets
     /\ Row(g) \in BackupRun /\ work[g].run \in DOMAIN runs /\ job[g].disk \in Disks
  BY CurTypes DEF PruneOne, Stages, SetStages, DiskStages, RunStages
<1>2. RowsOK /\ StoreOK /\ WorkerOK
  BY DEF TypeInv, TypeOK
<1>3. work[g] \in Work /\ work'[g] \in Work
  <2>1. work[g] \in Work /\ work[g].doomed \ {t} \in SUBSET Seconds
    BY <1>2 DEF WorkerOK, Work
  <2>2. work'[g] = [work[g] EXCEPT !.doomed = work[g].doomed \ {t}]
    BY <1>2 DEF PruneOne, WorkerOK
  <2> QED
    BY <2>1, <2>2, WorkUpdates
<1>4. work' = [work EXCEPT ![g] = work'[g]]
  BY <1>2 DEF PruneOne, WorkerOK
<1>5. WorkerOK' /\ pc'[g] \in RunStages \cup {"blocked"}
  BY <1>2, <1>3, <1>4 DEF PruneOne, WorkerOK, Stages, SetStages, DiskStages, RunStages
<1>6. OthersKept(g) /\ activeSet' = activeSet /\ job' = job /\ work'[g].run = work[g].run
  BY <1>2 DEF PruneOne, OthersKept, WorkerOK, Work, rows
<1>7. RowsOK' /\ DOMAIN runs' = DOMAIN runs
  BY <1>2 DEF PruneOne, RowsOK, rows
<1>8. snaps' \in [Datasets -> SUBSET Seconds]
  BY <1>1, <1>2, DestroyTyped DEF PruneOne, StoreOK
<1>9. StoreOK'
  BY <1>2, <1>8 DEF PruneOne, StoreOK, disks, proc
<1> QED
  BY <1>1, <1>5, <1>6, <1>7, <1>9, RunStep

LEMMA PruneDoneType ==
  ASSUME TypeInv, NEW g \in Groups, PruneDone(g)
  PROVE  TypeInv'
<1>1. /\ pc[g] \in RunStages /\ CurSet(g) \in Sets /\ CurDataset(g) \in Datasets
     /\ Row(g) \in BackupRun /\ work[g].run \in DOMAIN runs /\ job[g].disk \in Disks
  BY CurTypes DEF PruneDone, Stages, SetStages, DiskStages, RunStages
<1>2. RowsOK /\ StoreOK /\ WorkerOK
  BY DEF TypeInv, TypeOK
<1>3. WorkerOK' /\ pc'[g] \in RunStages \cup {"blocked"}
  BY <1>2 DEF PruneDone, Goto, WorkerOK, Stages, SetStages, DiskStages, RunStages
<1>4. OthersKept(g) /\ activeSet' = activeSet /\ job' = job /\ work'[g].run = work[g].run
  BY <1>2 DEF PruneDone, Goto, OthersKept, WorkerOK, Work, rows
<1>5. RowsOK' /\ DOMAIN runs' = DOMAIN runs
  BY <1>2 DEF PruneDone, RowsOK, rows
<1>6. StoreOK'
  BY <1>1, <1>2 DEF PruneDone, StoreOK, disks, proc
<1> QED
  BY <1>1, <1>3, <1>4, <1>5, <1>6, RunStep

LEMMA PruneSkippedType ==
  ASSUME TypeInv, NEW g \in Groups, PruneSkipped(g)
  PROVE  TypeInv'
<1>1. /\ pc[g] \in RunStages /\ CurSet(g) \in Sets /\ CurDataset(g) \in Datasets
     /\ Row(g) \in BackupRun /\ work[g].run \in DOMAIN runs /\ job[g].disk \in Disks
  BY CurTypes DEF PruneSkipped, Stages, SetStages, DiskStages, RunStages
<1>2. RowsOK /\ StoreOK /\ WorkerOK
  BY DEF TypeInv, TypeOK
<1>3. WorkerOK' /\ pc'[g] \in RunStages \cup {"blocked"}
  BY <1>2 DEF PruneSkipped, Goto, WorkerOK, Stages, SetStages, DiskStages, RunStages
<1>4. OthersKept(g) /\ activeSet' = activeSet /\ job' = job /\ work'[g].run = work[g].run
  BY <1>2 DEF PruneSkipped, Goto, OthersKept, WorkerOK, Work, rows
<1>5. RowsOK' /\ DOMAIN runs' = DOMAIN runs
  BY <1>2 DEF PruneSkipped, RowsOK, rows
<1>6. StoreOK'
  BY <1>1, <1>2 DEF PruneSkipped, StoreOK, disks, proc
<1> QED
  BY <1>1, <1>3, <1>4, <1>5, <1>6, RunStep

LEMMA RecordManifestType ==
  ASSUME TypeInv, NEW g \in Groups, RecordManifest(g)
  PROVE  TypeInv'
<1>1. /\ pc[g] \in RunStages /\ CurSet(g) \in Sets /\ CurDataset(g) \in Datasets
     /\ Row(g) \in BackupRun /\ work[g].run \in DOMAIN runs /\ job[g].disk \in Disks
  BY CurTypes DEF RecordManifest, Stages, SetStages, DiskStages, RunStages
<1>2. RowsOK /\ StoreOK /\ WorkerOK
  BY DEF TypeInv, TypeOK
<1>3. work[g] \in Work /\ work'[g] \in Work
  BY <1>1, <1>2, WorkUpdates DEF RecordManifest, WorkerOK
<1>4. work' = [work EXCEPT ![g] = work'[g]]
  BY <1>2 DEF RecordManifest, WorkerOK
<1>5. WorkerOK' /\ pc'[g] \in RunStages \cup {"blocked"}
  BY <1>2, <1>3, <1>4 DEF RecordManifest, Goto, WorkerOK, Stages, SetStages, DiskStages, RunStages
<1>6. OthersKept(g) /\ activeSet' = activeSet /\ job' = job /\ work'[g].run = work[g].run
  BY <1>2 DEF RecordManifest, Goto, OthersKept, WorkerOK, Work, rows
<1>7. RowsOK' /\ DOMAIN runs' = DOMAIN runs
  BY <1>2 DEF RecordManifest, RowsOK, rows
<1>8. StoreOK'
  <2> DEFINE k == job[g].disk
             mine == { f \in media[k] : f.ds = CurDataset(g) /\ f.snap = work[g].snap }
             listed == { [f EXCEPT !.listed = TRUE] : f \in mine }
  <2>1. mine \subseteq Stream
    BY <1>1, <1>2 DEF StoreOK
  <2>2. listed \subseteq Stream
    BY <2>1 DEF Stream
  <2>3. media' = [media EXCEPT ![k] = (@ \ mine) \cup listed]
    BY DEF RecordManifest
  <2> HIDE DEF mine, listed
  <2>4. media' \in [Disks -> SUBSET Stream]
    BY <1>1, <1>2, <2>2, <2>3 DEF StoreOK
  <2> QED
    BY <1>2, <2>4 DEF RecordManifest, StoreOK, proc
<1> QED
  BY <1>1, <1>5, <1>6, <1>7, <1>8, RunStep

LEMMA ManifestFailsType ==
  ASSUME TypeInv, NEW g \in Groups, ManifestFails(g)
  PROVE  TypeInv'
<1>1. /\ pc[g] \in RunStages /\ CurSet(g) \in Sets /\ CurDataset(g) \in Datasets
     /\ Row(g) \in BackupRun /\ work[g].run \in DOMAIN runs /\ job[g].disk \in Disks
  BY CurTypes DEF ManifestFails, Stages, SetStages, DiskStages, RunStages
<1>2. RowsOK /\ StoreOK /\ WorkerOK
  BY DEF TypeInv, TypeOK
<1>3. work[g] \in Work /\ work'[g] \in Work
  BY <1>1, <1>2, WorkUpdates DEF ManifestFails, WorkerOK
<1>4. work' = [work EXCEPT ![g] = work'[g]]
  BY <1>2 DEF ManifestFails, WorkerOK
<1>5. WorkerOK' /\ pc'[g] \in RunStages \cup {"blocked"}
  BY <1>2, <1>3, <1>4 DEF ManifestFails, Goto, WorkerOK, Stages, SetStages, DiskStages, RunStages
<1>6. OthersKept(g) /\ activeSet' = activeSet /\ job' = job /\ work'[g].run = work[g].run
  BY <1>2 DEF ManifestFails, Goto, OthersKept, WorkerOK, Work, rows
<1>7. RowsOK' /\ DOMAIN runs' = DOMAIN runs
  BY <1>2 DEF ManifestFails, RowsOK, rows
<1>8. StoreOK'
  BY <1>1, <1>2 DEF ManifestFails, StoreOK, disks, proc
<1> QED
  BY <1>1, <1>5, <1>6, <1>7, <1>8, RunStep

LEMMA RunErrsType ==
  ASSUME TypeInv, NEW g \in Groups, RunErrs(g)
  PROVE  TypeInv'
<1>1. /\ pc[g] \in RunStages /\ CurSet(g) \in Sets /\ CurDataset(g) \in Datasets
     /\ Row(g) \in BackupRun /\ work[g].run \in DOMAIN runs /\ job[g].disk \in Disks
  BY CurTypes DEF RunErrs, Stages, SetStages, DiskStages, RunStages
<1>2. RowsOK /\ StoreOK /\ WorkerOK
  BY DEF TypeInv, TypeOK
<1>3. work[g] \in Work /\ work'[g] \in Work
  BY <1>1, <1>2, WorkUpdates DEF RunErrs, WorkerOK
<1>4. work' = [work EXCEPT ![g] = work'[g]]
  BY <1>2 DEF RunErrs, WorkerOK
<1>5. WorkerOK' /\ pc'[g] \in RunStages \cup {"blocked"}
  BY <1>2, <1>3, <1>4 DEF RunErrs, Goto, WorkerOK, Stages, SetStages, DiskStages, RunStages
<1>6. OthersKept(g) /\ activeSet' = activeSet /\ job' = job /\ work'[g].run = work[g].run
  BY <1>2 DEF RunErrs, Goto, OthersKept, WorkerOK, Work, rows
<1>7. runs' \in Seq(BackupRun) /\ DOMAIN runs' = DOMAIN runs
  BY <1>1, <1>2, SaveTyped, RowUpdates DEF RunErrs, WorkerOK, Work
<1>8. RowsOK'
  BY <1>2, <1>7 DEF RunErrs, RowsOK, rows
<1>9. StoreOK'
  BY <1>1, <1>2 DEF RunErrs, StoreOK, disks, proc
<1> QED
  BY <1>1, <1>5, <1>6, <1>7, <1>8, <1>9, RunStep

LEMMA PutAwayFullType ==
  ASSUME TypeInv, NEW g \in Groups, PutAwayFull(g)
  PROVE  TypeInv'
<1>1. /\ pc[g] \in RunStages /\ CurSet(g) \in Sets /\ CurDataset(g) \in Datasets
     /\ Row(g) \in BackupRun /\ work[g].run \in DOMAIN runs /\ job[g].disk \in Disks
  BY CurTypes DEF PutAwayFull, Stages, SetStages, DiskStages, RunStages
<1>2. RowsOK /\ StoreOK /\ WorkerOK
  BY DEF TypeInv, TypeOK
<1>3. WorkerOK' /\ pc'[g] \in RunStages \cup {"blocked"}
  BY <1>2 DEF PutAwayFull, Goto, WorkerOK, Stages, SetStages, DiskStages, RunStages
<1>4. OthersKept(g) /\ activeSet' = activeSet /\ job' = job /\ work'[g].run = work[g].run
  BY <1>2 DEF PutAwayFull, Goto, OthersKept, WorkerOK, Work, rows
<1>5. RowsOK' /\ DOMAIN runs' = DOMAIN runs
  BY <1>2 DEF PutAwayFull, RowsOK, rows
<1>6. StoreOK'
  BY <1>1, <1>2 DEF PutAwayFull, IdleMounts, StoreOK, proc
<1> QED
  BY <1>1, <1>3, <1>4, <1>5, <1>6, RunStep

LEMMA NoRoomInSetType ==
  ASSUME TypeInv, NEW g \in Groups, NoRoomInSet(g)
  PROVE  TypeInv'
<1>1. /\ pc[g] \in RunStages /\ CurSet(g) \in Sets /\ CurDataset(g) \in Datasets
     /\ Row(g) \in BackupRun /\ work[g].run \in DOMAIN runs /\ job[g].disk \in Disks
  BY CurTypes DEF NoRoomInSet, Stages, SetStages, DiskStages, RunStages
<1>2. RowsOK /\ StoreOK /\ WorkerOK
  BY DEF TypeInv, TypeOK
<1>3. WorkerOK' /\ pc'[g] \in RunStages \cup {"blocked"}
  BY <1>2 DEF NoRoomInSet, Goto, Block, WorkerOK, Stages, SetStages, DiskStages, RunStages
<1>4. OthersKept(g) /\ activeSet' = activeSet /\ job' = job /\ work'[g].run = work[g].run
  BY <1>2 DEF NoRoomInSet, Goto, Block, OthersKept, WorkerOK, Work, rows
<1>5. RowsOK' /\ DOMAIN runs' = DOMAIN runs
  BY <1>2 DEF NoRoomInSet, Block, Goto, RowsOK, rows
<1>6. StoreOK'
  BY <1>1, <1>2 DEF NoRoomInSet, StoreOK, disks, proc
<1> QED
  BY <1>1, <1>3, <1>4, <1>5, <1>6, RunStep

LEMMA WipeType ==
  ASSUME TypeInv, NEW g \in Groups, Wipe(g)
  PROVE  TypeInv'
<1>1. /\ pc[g] \in RunStages /\ CurSet(g) \in Sets /\ CurDataset(g) \in Datasets
     /\ Row(g) \in BackupRun /\ work[g].run \in DOMAIN runs /\ job[g].disk \in Disks
  BY CurTypes DEF Wipe, Stages, SetStages, DiskStages, RunStages
<1>2. RowsOK /\ StoreOK /\ WorkerOK
  BY DEF TypeInv, TypeOK
<1>3. WorkerOK' /\ pc'[g] \in RunStages \cup {"blocked"}
  BY <1>2 DEF Wipe, Goto, WorkerOK, Stages, SetStages, DiskStages, RunStages
<1>4. OthersKept(g) /\ activeSet' = activeSet /\ job' = job /\ work'[g].run = work[g].run
  BY <1>2 DEF Wipe, Goto, OthersKept, WorkerOK, Work, rows
<1>5. RowsOK' /\ DOMAIN runs' = DOMAIN runs
  BY <1>2 DEF Wipe, RowsOK, rows
<1>6. StoreOK'
  BY <1>1, <1>2 DEF Wipe, StoreOK, disks, proc
<1> QED
  BY <1>1, <1>3, <1>4, <1>5, <1>6, RunStep

LEMMA RecycleFailsType ==
  ASSUME TypeInv, NEW g \in Groups, RecycleFails(g)
  PROVE  TypeInv'
<1>1. /\ pc[g] \in RunStages /\ CurSet(g) \in Sets /\ CurDataset(g) \in Datasets
     /\ Row(g) \in BackupRun /\ work[g].run \in DOMAIN runs /\ job[g].disk \in Disks
  BY CurTypes DEF RecycleFails, Stages, SetStages, DiskStages, RunStages
<1>2. RowsOK /\ StoreOK /\ WorkerOK
  BY DEF TypeInv, TypeOK
<1>3. WorkerOK' /\ pc'[g] \in RunStages \cup {"blocked"}
  BY <1>2 DEF RecycleFails, Block, Goto, WorkerOK, Stages, SetStages, DiskStages, RunStages
<1>4. OthersKept(g) /\ activeSet' = activeSet /\ job' = job /\ work'[g].run = work[g].run
  BY <1>2 DEF RecycleFails, Block, Goto, OthersKept, WorkerOK, Work, rows
<1>5. RowsOK' /\ DOMAIN runs' = DOMAIN runs
  BY <1>2 DEF RecycleFails, Block, Goto, RowsOK, rows
<1>6. StoreOK'
  BY <1>1, <1>2 DEF RecycleFails, StoreOK, disks, proc
<1> QED
  BY <1>1, <1>3, <1>4, <1>5, <1>6, RunStep

LEMMA ReformattedType ==
  ASSUME TypeInv, NEW g \in Groups, Reformatted(g)
  PROVE  TypeInv'
<1>1. /\ pc[g] \in RunStages /\ CurSet(g) \in Sets /\ CurDataset(g) \in Datasets
     /\ Row(g) \in BackupRun /\ work[g].run \in DOMAIN runs /\ job[g].disk \in Disks
  BY CurTypes DEF Reformatted, Stages, SetStages, DiskStages, RunStages
<1>2. RowsOK /\ StoreOK /\ WorkerOK
  BY DEF TypeInv, TypeOK
<1>3. work[g] \in Work /\ work'[g] \in Work
  BY <1>1, <1>2, WorkUpdates DEF Reformatted, WorkerOK
<1>4. work' = [work EXCEPT ![g] = work'[g]]
  BY <1>2 DEF Reformatted, WorkerOK
<1>5. WorkerOK' /\ pc'[g] \in RunStages \cup {"blocked"}
  BY <1>2, <1>3, <1>4 DEF Reformatted, Goto, WorkerOK, Stages, SetStages, DiskStages, RunStages
<1>6. OthersKept(g) /\ activeSet' = activeSet /\ job' = job /\ work'[g].run = work[g].run
  BY <1>2 DEF Reformatted, Goto, OthersKept, WorkerOK, Work, rows
<1>7. RowsOK' /\ DOMAIN runs' = DOMAIN runs
  <2>1. runs \in Seq(BackupRun)
    BY <1>2 DEF RowsOK
  <2>2. ASSUME NEW i \in DOMAIN runs
        PROVE  runs[i] \in BackupRun /\ [runs[i] EXCEPT !.status = "deleted"] \in BackupRun
    <3>1. runs[i] \in BackupRun
      BY <2>1
    <3> QED
      BY <3>1, RowUpdates
  <2>3. DOMAIN runs' = 1..Len(runs) /\ \A i \in 1..Len(runs) : runs'[i] \in BackupRun
    BY <2>1, <2>2 DEF Reformatted
  <2>4. runs' \in Seq(BackupRun)
    <3>1. Len(runs) \in Nat /\ runs' \in [1..Len(runs) -> BackupRun]
      <4>1. runs' = [i \in 1..Len(runs) |-> runs'[i]]
        BY <2>1, <2>3 DEF Reformatted
      <4> QED
        BY <2>1, <2>3, <4>1
    <3> QED
      BY <3>1
  <2> QED
    BY <1>2, <2>1, <2>3, <2>4 DEF Reformatted, RowsOK, rows
<1>8. StoreOK'
  BY <1>1, <1>2 DEF Reformatted, StoreOK, disks, proc
<1> QED
  BY <1>1, <1>5, <1>6, <1>7, <1>8, RunStep

\* The rows a worker inserts are typed.
LEMMA InsertTyped ==
  ASSUME TypeInv, NEW g \in Groups, pc[g] = "dataset", job[g].item <= Len(Members[g]),
         NEW s \in Sets, NEW type \in Triggers, NEW status \in {"running", "failed"},
         Insert(g, s, type, status)
  PROVE  /\ job[g].item \in DOMAIN Members[g]
         /\ runs' \in Seq(BackupRun)
         /\ DOMAIN runs' = DOMAIN runs \cup {Len(runs) + 1}
<1>1. RowsOK /\ WorkerOK /\ job[g] \in Job /\ session[g].id \in Nat
  BY DEF TypeInv, TypeOK, WorkerOK, RowsOK, SessionRow
<1>2. job[g].disk \in Disks /\ job[g].item \in DOMAIN Members[g] /\ CurDataset(g) \in Datasets
  <2>1. job[g].disk \in Disks /\ job[g].item # 0
    BY DEF TypeInv, JobOK, Stages, SetStages, DiskStages
  <2>2. job[g].item \in Nat
    BY <1>1 DEF Job
  <2>3. Members[g] \in Seq(Datasets)
    BY TopologyAssumption
  <2>4. job[g].item \in DOMAIN Members[g]
    BY <2>1, <2>2, <2>3
  <2> QED
    BY <2>1, <2>3, <2>4 DEF CurDataset
<1> DEFINE row == [session |-> session[g].id, set |-> s, disk |-> job[g].disk,
                   ds |-> CurDataset(g), type |-> type, snap |-> None,
                   base |-> None, anchor |-> None, status |-> status]
<1>3. row \in BackupRun
  BY <1>1, <1>2 DEF BackupRun, Second
<1>4. runs' = Append(runs, row)
  BY DEF Insert
<1> HIDE DEF row
<1> QED
  BY <1>1, <1>2, <1>3, <1>4, AppendProperties DEF RowsOK

\* The updates of the locals of a session.
LEMMA JobUpdates ==
  ASSUME NEW j \in Job
  PROVE  /\ \A a, b \in BOOLEAN, n \in Nat : [j EXCEPT !.ok = a, !.bad = b, !.item = n] \in Job
         /\ \A w \in Seq(Disks), n \in Nat : [j EXCEPT !.written = w, !.at = n] \in Job
<1>1. ASSUME NEW a \in BOOLEAN, NEW b \in BOOLEAN, NEW n \in Nat
      PROVE  [j EXCEPT !.ok = a, !.bad = b, !.item = n] \in Job
  BY DEF Job
<1>2. ASSUME NEW w \in Seq(Disks), NEW n \in Nat
      PROVE  [j EXCEPT !.written = w, !.at = n] \in Job
  BY DEF Job
<1> QED
  BY <1>1, <1>2

\* After the caller's bookkeeping the worker is at the next dataset.
LEMMA CountTyped ==
  ASSUME WorkerOK, NEW g \in Groups, NEW result, Count(g, result)
  PROVE  /\ WorkerOK'
         /\ pc'[g] = "dataset" /\ job'[g].item = job[g].item + 1
         /\ job'[g].targets = job[g].targets /\ job'[g].at = job[g].at
         /\ job'[g].disk = job[g].disk
         /\ \A h \in Groups \ {g} : pc'[h] = pc[h] /\ job'[h] = job[h] /\ work'[h] = work[h]
<1>1. NoWork \in Work
  BY DEF NoWork, Work, Second, Triggers, Seconds
<1>2. job[g] \in Job
  BY DEF WorkerOK
<1> DEFINE ok == job[g].ok \/ result \in {"success", "skipped"}
           bad == job[g].bad \/ result = "failed"
           j == [job[g] EXCEPT !.ok = ok, !.bad = bad, !.item = job[g].item + 1]
<1>3. job' = [job EXCEPT ![g] = j]
  BY DEF Count
<1>4. ok \in BOOLEAN /\ bad \in BOOLEAN
  OBVIOUS
<1> HIDE DEF ok, bad
<1>5. j \in Job
  <2>1. job[g].item + 1 \in Nat
    BY <1>2 DEF Job
  <2> QED
    BY <1>2, <1>4, <2>1, JobUpdates
<1>6. j.item = job[g].item + 1 /\ j.targets = job[g].targets /\ j.at = job[g].at /\ j.disk = job[g].disk
  BY <1>2 DEF Job
<1> HIDE DEF j
<1>7. pc' = [pc EXCEPT ![g] = "dataset"] /\ work' = [work EXCEPT ![g] = NoWork]
  BY DEF Count, Goto
<1>8. WorkerOK'
  BY <1>1, <1>3, <1>5, <1>7 DEF WorkerOK, Stages
<1> QED
  BY <1>3, <1>6, <1>7, <1>8 DEF WorkerOK

\* The end of a run: the worker goes on with the next dataset.
LEMMA CountStep ==
  ASSUME TypeInv, NEW g \in Groups, NEW result, Count(g, result), pc[g] \in RunStages,
         RowsOK', StoreOK', activeSet' = activeSet, DOMAIN runs' = DOMAIN runs
  PROVE  TypeInv'
<1>1. WorkerOK /\ job[g] \in Job
  BY DEF TypeInv, TypeOK, WorkerOK
<1>2. /\ WorkerOK' /\ pc'[g] = "dataset" /\ job'[g].item = job[g].item + 1
      /\ job'[g].targets = job[g].targets /\ job'[g].at = job[g].at
      /\ job'[g].disk = job[g].disk
      /\ \A h \in Groups \ {g} : pc'[h] = pc[h] /\ job'[h] = job[h] /\ work'[h] = work[h]
  BY <1>1, CountTyped
<1>3. /\ job[g].targets # << >> /\ Ran(job[g].targets) \subseteq Ran(Cycle[g])
      /\ job[g].at \in DOMAIN job[g].targets /\ job[g].disk \in Disks
      /\ job[g].item + 1 # 0
  BY <1>1 DEF TypeInv, JobOK, Job, Stages, SetStages, DiskStages, RunStages
<1>4. JobOK(g)'
  BY <1>2, <1>3 DEF JobOK, RunStages
<1> QED
  BY <1>2, <1>4, LocalStep DEF TypeInv, OthersKept

LEMMA ResetTyped == NoJob \in Job /\ NoWork \in Work
BY DEF NoJob, Job, NoWork, Work, Second, Triggers, Seconds

LEMMA StartType ==
  ASSUME TypeInv, NEW g \in Groups, NEW trigger \in Triggers, Start(g, trigger)
  PROVE  TypeInv'
<1>1. RowsOK /\ StoreOK /\ WorkerOK
  BY DEF TypeInv, TypeOK
<1>2. [NoJob EXCEPT !.trigger = trigger] \in Job
  BY ResetTyped DEF Job
<1>3. WorkerOK' /\ OthersKept(g)
  BY <1>1, <1>2 DEF Start, Goto, WorkerOK, OthersKept, Stages, rows
<1>4. RowsOK'
  BY <1>1 DEF Start, RowsOK, SessionRow, rows
<1>5. StoreOK'
  BY <1>1 DEF Start, StoreOK, disks, proc
<1>6. pc'[g] = "resolve" /\ runs' = runs /\ activeSet' = activeSet
  BY <1>1 DEF Start, Goto, WorkerOK, rows
<1> QED
  BY <1>3, <1>4, <1>5, <1>6, LocalStep
     DEF TypeInv, JobOK, Stages, SetStages, DiskStages, RunStages

\* The sets a session targets are sets of its cycle, and there is at least one.
LEMMA TargetsTyped ==
  ASSUME NEW g \in Groups, activeSet[g] \in Ran(Cycle[g])
  PROVE  /\ TargetSets(g) \in Seq(Sets) /\ TargetSets(g) # << >>
         /\ 1 \in DOMAIN TargetSets(g)
         /\ Ran(TargetSets(g)) \subseteq Ran(Cycle[g])
<1>1. CopyCount(g) \in Nat \ {0}
  BY TopologyAssumption DEF CopyCount
<1>2. ASSUME NEW i \in 1..CopyCount(g)
      PROVE  After(g, activeSet[g], i - 1) \in Ran(Cycle[g])
  BY <1>1, <1>2, AfterInCycle
<1>3. Ran(Cycle[g]) \subseteq Sets
  BY TopologyAssumption DEF Ran
<1>4. DOMAIN TargetSets(g) = 1..CopyCount(g)
  BY DEF TargetSets
<1>5. TargetSets(g) \in [1..CopyCount(g) -> Ran(Cycle[g])]
  BY <1>2 DEF TargetSets
<1>6. TargetSets(g) \in [1..CopyCount(g) -> Sets]
  BY <1>3, <1>5
<1>7. 1 \in DOMAIN TargetSets(g) /\ TargetSets(g) \in Seq(Sets)
  BY <1>1, <1>4, <1>6
<1>8. \A i \in DOMAIN TargetSets(g) : TargetSets(g)[i] \in Ran(Cycle[g])
  BY <1>4, <1>5
<1>9. Ran(TargetSets(g)) \subseteq Ran(Cycle[g])
  BY <1>8 DEF Ran
<1>10. TargetSets(g) # << >>
  BY <1>7
<1> QED
  BY <1>7, <1>9, <1>10

LEMMA ResolveType ==
  ASSUME TypeInv, NEW g \in Groups, Resolve(g)
  PROVE  TypeInv'
<1>1. RowsOK /\ StoreOK /\ WorkerOK /\ job[g] \in Job
  BY DEF TypeInv, TypeOK, WorkerOK
<1> DEFINE T == TargetSets(g)
<1>2. T \in Seq(Sets) /\ T # << >> /\ 1 \in DOMAIN T /\ Ran(T) \subseteq Ran(Cycle[g])
  BY TargetsTyped DEF TypeInv
<1>3. job' = [job EXCEPT ![g] = [job[g] EXCEPT !.targets = T, !.at = 1]]
  BY DEF Resolve
<1> HIDE DEF T
<1>4. [job[g] EXCEPT !.targets = T, !.at = 1] \in Job
  BY <1>1, <1>2 DEF Job
<1>5. WorkerOK' /\ OthersKept(g) /\ pc'[g] = "disk" /\ job'[g].targets = T /\ job'[g].at = 1
  BY <1>1, <1>3, <1>4 DEF Resolve, Goto, WorkerOK, OthersKept, Job, Stages, rows
<1>6. RowsOK' /\ StoreOK' /\ runs' = runs /\ activeSet' = activeSet
  BY <1>1 DEF Resolve, RowsOK, StoreOK, rows, disks, proc
<1>7. JobOK(g)'
  BY <1>2, <1>5 DEF JobOK, DiskStages, RunStages
<1> QED
  BY <1>5, <1>6, <1>7, LocalStep DEF TypeInv

LEMMA ChooseDiskType ==
  ASSUME TypeInv, NEW g \in Groups, NEW k, ChooseDisk(g, k)
  PROVE  TypeInv'
<1>1. RowsOK /\ StoreOK /\ WorkerOK /\ job[g] \in Job
  BY DEF TypeInv, TypeOK, WorkerOK
<1>2. CurSet(g) \in Sets /\ k \in Disks
  BY CurTypes, TopologyAssumption DEF ChooseDisk, Stages, SetStages
<1>3. [job[g] EXCEPT !.disk = k, !.item = 1] \in Job
  BY <1>1, <1>2 DEF Job
<1>4. /\ WorkerOK' /\ OthersKept(g) /\ pc'[g] = "dataset"
      /\ job'[g].targets = job[g].targets /\ job'[g].at = job[g].at
      /\ job'[g].disk = k /\ job'[g].item = 1
  BY <1>1, <1>3 DEF ChooseDisk, Goto, WorkerOK, OthersKept, Job, Stages
<1>5. RowsOK' /\ runs' = runs /\ activeSet' = activeSet
  BY <1>1, <1>2 DEF ChooseDisk, RowsOK
<1>6. StoreOK'
  BY <1>1, <1>2 DEF ChooseDisk, StoreOK, proc
<1>7. /\ job[g].targets # << >> /\ Ran(job[g].targets) \subseteq Ran(Cycle[g])
      /\ job[g].at \in DOMAIN job[g].targets
  BY DEF ChooseDisk, TypeInv, JobOK, Stages, SetStages
<1>8. JobOK(g)'
  BY <1>2, <1>4, <1>7 DEF JobOK, RunStages
<1> QED
  BY <1>4, <1>5, <1>6, <1>8, LocalStep DEF TypeInv

LEMMA NoUsableDiskType ==
  ASSUME TypeInv, NEW g \in Groups, NoUsableDisk(g)
  PROVE  TypeInv'
<1>1. RowsOK /\ StoreOK /\ WorkerOK
  BY DEF TypeInv, TypeOK
<1>2. WorkerOK' /\ OthersKept(g) /\ pc'[g] = "blocked"
  BY <1>1 DEF NoUsableDisk, Block, Goto, WorkerOK, OthersKept, Stages
<1>3. RowsOK' /\ StoreOK' /\ runs' = runs /\ activeSet' = activeSet
  BY <1>1 DEF NoUsableDisk, Block, RowsOK, StoreOK, disks, proc
<1> QED
  BY <1>2, <1>3, LocalStep DEF TypeInv, JobOK, SetStages, DiskStages, RunStages

LEMMA DatasetMissingType ==
  ASSUME TypeInv, NEW g \in Groups, DatasetMissing(g)
  PROVE  TypeInv'
<1>1. RowsOK /\ StoreOK /\ WorkerOK /\ job[g] \in Job
  BY DEF TypeInv, TypeOK, WorkerOK
<1>2. pc[g] = "dataset" /\ "dataset" \in DiskStages /\ job[g].targets[1] \in Sets
  BY <1>1 DEF DatasetMissing, TypeInv, JobOK, Job, Stages, SetStages, DiskStages
<1>3. runs' \in Seq(BackupRun) /\ DOMAIN runs \subseteq DOMAIN runs'
  BY <1>2, InsertTyped DEF DatasetMissing, Triggers
<1>4. /\ WorkerOK' /\ pc'[g] = "dataset" /\ job'[g].item = job[g].item + 1
      /\ job'[g].targets = job[g].targets /\ job'[g].at = job[g].at
      /\ job'[g].disk = job[g].disk
      /\ \A h \in Groups \ {g} : pc'[h] = pc[h] /\ job'[h] = job[h] /\ work'[h] = work[h]
  BY <1>1, CountTyped DEF DatasetMissing
<1>5. RowsOK' /\ StoreOK' /\ activeSet' = activeSet
  BY <1>1, <1>3 DEF DatasetMissing, RowsOK, StoreOK, rows, disks, proc
<1>6. /\ job[g].targets # << >> /\ Ran(job[g].targets) \subseteq Ran(Cycle[g])
      /\ job[g].at \in DOMAIN job[g].targets /\ job[g].disk \in Disks
      /\ job[g].item + 1 # 0
  BY <1>1, <1>2 DEF TypeInv, JobOK, Job, Stages, SetStages, DiskStages
<1>7. JobOK(g)'
  BY <1>4, <1>6 DEF JobOK, RunStages
<1> QED
  BY <1>3, <1>4, <1>5, <1>7, LocalStep DEF TypeInv, OthersKept

LEMMA NewRunType ==
  ASSUME TypeInv, NEW g \in Groups, NewRun(g)
  PROVE  TypeInv'
<1> DEFINE type == IF lastUsed[CurSet(g)] = 0 THEN "full" ELSE job[g].trigger
<1>1. RowsOK /\ StoreOK /\ WorkerOK /\ job[g] \in Job
  BY DEF TypeInv, TypeOK, WorkerOK
<1>2. type \in Triggers
  BY <1>1 DEF Job, Triggers
<1>3. CurSet(g) \in Sets
  BY CurTypes DEF NewRun, Stages, SetStages
<1>4. /\ pc[g] = "dataset" /\ job[g].item <= Len(Members[g])
      /\ Insert(g, CurSet(g), type, "running")
      /\ work' = [work EXCEPT ![g] = [NoWork EXCEPT !.run = Len(runs) + 1, !.type = type]]
  BY DEF NewRun
<1> HIDE DEF type
<1>5. /\ job[g].item \in DOMAIN Members[g] /\ runs' \in Seq(BackupRun)
      /\ DOMAIN runs' = DOMAIN runs \cup {Len(runs) + 1}
  BY <1>2, <1>3, <1>4, InsertTyped
<1> DEFINE w == [NoWork EXCEPT !.run = Len(runs) + 1, !.type = type]
<1>6. w \in Work /\ w.run = Len(runs) + 1
  <2>1. NoWork \in Work /\ Len(runs) + 1 \in Nat
    BY <1>1, ResetTyped DEF RowsOK
  <2> QED
    BY <1>2, <2>1 DEF Work
<1>7. work' = [work EXCEPT ![g] = w]
  BY <1>4
<1> HIDE DEF w
<1>8. WorkerOK' /\ OthersKept(g) /\ pc'[g] = "mount" /\ job' = job /\ work'[g].run = Len(runs) + 1
  BY <1>1, <1>6, <1>7 DEF NewRun, Goto, WorkerOK, OthersKept, Stages, rows
<1>9. RowsOK' /\ StoreOK' /\ activeSet' = activeSet
  BY <1>1, <1>5 DEF NewRun, RowsOK, StoreOK, rows, disks, proc
<1>10. JobOK(g)'
  BY <1>4, <1>5, <1>8 DEF TypeInv, JobOK, Stages, SetStages, DiskStages, RunStages
<1> QED
  BY <1>5, <1>8, <1>9, <1>10, LocalStep DEF TypeInv

LEMMA SetWrittenType ==
  ASSUME TypeInv, NEW g \in Groups, SetWritten(g)
  PROVE  TypeInv'
<1>1. RowsOK /\ StoreOK /\ WorkerOK /\ job[g] \in Job
  BY DEF TypeInv, TypeOK, WorkerOK
<1>2. /\ job[g].targets # << >> /\ Ran(job[g].targets) \subseteq Ran(Cycle[g])
      /\ job[g].at \in DOMAIN job[g].targets /\ job[g].disk \in Disks
  BY DEF SetWritten, TypeInv, JobOK, Stages, SetStages, DiskStages
<1> DEFINE j == [job[g] EXCEPT !.written = Append(job[g].written, job[g].disk),
                               !.at = job[g].at + 1]
<1>3. job' = [job EXCEPT ![g] = j]
  BY DEF SetWritten
<1>4. Append(job[g].written, job[g].disk) \in Seq(Disks)
  BY <1>1, <1>2 DEF Job
<1>5. j \in Job /\ j.targets = job[g].targets /\ j.at = job[g].at + 1
  <2>1. job[g].at + 1 \in Nat
    BY <1>1 DEF Job
  <2>2. j \in Job
    BY <1>1, <1>4, <2>1, JobUpdates
  <2> QED
    BY <1>1, <2>2 DEF Job
<1> HIDE DEF j
<1> DEFINE stage == IF job[g].at < Len(job[g].targets) THEN "disk" ELSE "rotate"
<1>6. pc' = [pc EXCEPT ![g] = stage] /\ stage \in {"disk", "rotate"}
  BY DEF SetWritten, Goto
<1>7. stage = "disk" => job[g].at + 1 \in DOMAIN job[g].targets
  BY <1>1, <1>2 DEF Job
<1> HIDE DEF stage
<1>8. /\ WorkerOK' /\ OthersKept(g) /\ pc'[g] = stage
      /\ job'[g].targets = job[g].targets /\ job'[g].at = job[g].at + 1
  BY <1>1, <1>3, <1>5, <1>6 DEF SetWritten, WorkerOK, OthersKept, Stages, rows
<1>9. RowsOK' /\ StoreOK' /\ runs' = runs /\ activeSet' = activeSet
  BY <1>1 DEF SetWritten, RowsOK, StoreOK, rows, disks, proc
<1>10. JobOK(g)'
  BY <1>2, <1>6, <1>7, <1>8 DEF JobOK, SetStages, DiskStages, RunStages
<1> QED
  BY <1>8, <1>9, <1>10, LocalStep DEF TypeInv

LEMMA NeedsSpaceType ==
  ASSUME TypeInv, NEW g \in Groups, NeedsSpace(g)
  PROVE  TypeInv'
<1>1. /\ pc[g] \in RunStages /\ work[g].run \in DOMAIN runs /\ Row(g) \in BackupRun
      /\ job[g].disk \in Disks
  BY CurTypes DEF NeedsSpace, Stages, SetStages, DiskStages, RunStages
<1>2. RowsOK /\ StoreOK /\ WorkerOK /\ work[g] \in Work
  BY DEF TypeInv, TypeOK, WorkerOK
<1>3. runs' \in Seq(BackupRun) /\ DOMAIN runs' = DOMAIN runs
  BY <1>1, <1>2, SaveTyped, RowUpdates DEF NeedsSpace
<1>4. StoreOK'
  BY <1>2 DEF NeedsSpace, StoreOK, disks, proc
<1>5. work[g].retry \in {"no", "advanced", "recycled"}
  BY <1>2 DEF Work
<1>6. CASE work[g].retry = "no"
  <2>1. Goto(g, "full") /\ UNCHANGED <<activeSet, needsDisk, lastUsed, job, work>>
    BY <1>6 DEF NeedsSpace
  <2>2. WorkerOK' /\ OthersKept(g) /\ pc'[g] = "full" /\ job' = job /\ work'[g].run = work[g].run
    BY <1>2, <2>1 DEF Goto, WorkerOK, OthersKept, Stages
  <2>3. RowsOK' /\ activeSet' = activeSet
    BY <1>2, <1>3, <2>1 DEF NeedsSpace, RowsOK
  <2> QED
    BY <1>1, <1>3, <1>4, <2>2, <2>3, RunStep DEF Stages, SetStages, DiskStages, RunStages
<1>7. CASE work[g].retry = "recycled"
  <2>1. Block(g) /\ UNCHANGED <<job, work>>
    BY <1>7 DEF NeedsSpace
  <2>2. WorkerOK' /\ OthersKept(g) /\ pc'[g] = "blocked" /\ job' = job /\ work'[g].run = work[g].run
    BY <1>2, <2>1 DEF Block, Goto, WorkerOK, OthersKept, Stages
  <2>3. RowsOK' /\ activeSet' = activeSet
    BY <1>2, <1>3, <2>1 DEF Block, NeedsSpace, RowsOK
  <2> QED
    BY <1>1, <1>3, <1>4, <2>2, <2>3, RunStep
<1>8. CASE work[g].retry = "advanced"
  <2>1. Count(g, "failed") /\ UNCHANGED <<activeSet, needsDisk, lastUsed>>
    BY <1>8 DEF NeedsSpace
  <2>2. RowsOK' /\ activeSet' = activeSet
    BY <1>2, <1>3, <2>1 DEF NeedsSpace, RowsOK
  <2> QED
    BY <1>1, <1>3, <1>4, <2>1, <2>2, CountStep
<1> QED
  BY <1>5, <1>6, <1>7, <1>8

LEMMA UnmountType ==
  ASSUME TypeInv, NEW g \in Groups, Unmount(g)
  PROVE  TypeInv'
<1>1. pc[g] \in RunStages /\ job[g].disk \in Disks
  BY CurTypes DEF Unmount, Stages, SetStages, DiskStages, RunStages
<1>2. RowsOK /\ StoreOK
  BY DEF TypeInv, TypeOK
<1>3. RowsOK' /\ runs' = runs /\ activeSet' = activeSet
  BY <1>2 DEF Unmount, RowsOK, rows
<1>4. StoreOK'
  BY <1>1, <1>2 DEF Unmount, IdleMounts, StoreOK, proc
<1>5. Count(g, work[g].result)
  BY DEF Unmount
<1> QED
  BY <1>1, <1>3, <1>4, <1>5, CountStep

LEMMA AdvanceToType ==
  ASSUME TypeInv, NEW g \in Groups, NEW k, AdvanceTo(g, k)
  PROVE  TypeInv'
<1>1. /\ pc[g] \in RunStages /\ work[g].run \in DOMAIN runs /\ Row(g) \in BackupRun
      /\ CurSet(g) \in Sets
  BY CurTypes DEF AdvanceTo, Stages, SetStages, DiskStages, RunStages
<1>2. RowsOK /\ StoreOK /\ WorkerOK /\ job[g] \in Job /\ work[g] \in Work
  BY DEF TypeInv, TypeOK, WorkerOK
<1>3. k \in Disks
  BY <1>1, TopologyAssumption DEF AdvanceTo
<1>4. [job[g] EXCEPT !.disk = k] \in Job /\ [work[g] EXCEPT !.retry = "advanced"] \in Work
  BY <1>2, <1>3, WorkUpdates DEF Job
<1>5. /\ WorkerOK' /\ OthersKept(g) /\ pc'[g] = "mount" /\ work'[g].run = work[g].run
      /\ job'[g].targets = job[g].targets /\ job'[g].at = job[g].at
      /\ job'[g].disk = k /\ job'[g].item = job[g].item
  BY <1>2, <1>4 DEF AdvanceTo, Goto, WorkerOK, OthersKept, Job, Work, Stages
<1>6. Retarget(Row(g), k) \in BackupRun
  BY <1>1, <1>3, RowUpdates
<1>7. runs' \in Seq(BackupRun) /\ DOMAIN runs' = DOMAIN runs
  BY <1>1, <1>2, <1>6, SaveTyped DEF AdvanceTo
<1>8. RowsOK' /\ activeSet' = activeSet
  BY <1>1, <1>2, <1>3, <1>7 DEF AdvanceTo, RowsOK
<1>9. StoreOK'
  BY <1>2, <1>3 DEF AdvanceTo, StoreOK, proc
<1>10. /\ job[g].targets # << >> /\ Ran(job[g].targets) \subseteq Ran(Cycle[g])
       /\ job[g].at \in DOMAIN job[g].targets /\ job[g].item # 0
       /\ job[g].item \in DOMAIN Members[g]
  BY <1>1 DEF TypeInv, JobOK, Stages, SetStages, DiskStages, RunStages
<1>11. JobOK(g)'
  BY <1>1, <1>3, <1>5, <1>7, <1>10 DEF JobOK
<1> QED
  BY <1>5, <1>7, <1>8, <1>9, <1>11, LocalStep DEF TypeInv

\* _rotate moves on within the cycle.
LEMMA RotateType ==
  ASSUME TypeInv, NEW g \in Groups, Rotate(g)
  PROVE  TypeInv'
<1>1. RowsOK /\ StoreOK /\ WorkerOK /\ job[g] \in Job
  BY DEF TypeInv, TypeOK, WorkerOK
<1>2. job[g].targets # << >> /\ Ran(job[g].targets) \subseteq Ran(Cycle[g])
  BY DEF Rotate, TypeInv, JobOK
<1>3. NextSet(g) \in Ran(Cycle[g]) /\ NextSet(g) \in Sets
  <2>1. job[g].targets \in Seq(Sets)
    BY <1>1 DEF Job
  <2>2. job[g].targets[1] \in Ran(Cycle[g]) /\ Len(job[g].targets) \in Nat
    <3>1. 1 \in DOMAIN job[g].targets
      BY <1>2, <2>1
    <3>2. job[g].targets[1] \in Ran(job[g].targets)
      BY <3>1 DEF Ran
    <3>3. Len(job[g].targets) \in Nat
      BY <2>1
    <3> QED
      BY <1>2, <3>2, <3>3
  <2>3. NextSet(g) \in Ran(Cycle[g])
    BY <2>2, AfterInCycle DEF NextSet
  <2>4. Ran(Cycle[g]) \subseteq Sets
    BY TopologyAssumption DEF Ran
  <2> QED
    BY <2>3, <2>4
<1>4. lastUsed' \in [Sets -> Nat]
  BY <1>1 DEF Rotate, RowsOK, SessionRow
<1>5. activeSet' = [activeSet EXCEPT ![g] = NextSet(g)]
  BY DEF Rotate
<1>6. RowsOK' /\ runs' = runs /\ activeSet'[g] \in Ran(Cycle[g])
  BY <1>1, <1>3, <1>4, <1>5 DEF Rotate, RowsOK
<1>7. /\ WorkerOK' /\ OthersKept(g) /\ pc'[g] = "capture" /\ job' = job
  BY <1>1, <1>5 DEF Rotate, Goto, WorkerOK, RowsOK, OthersKept, Stages
<1>8. StoreOK'
  BY <1>1 DEF Rotate, StoreOK, disks, proc
<1>9. JobOK(g)'
  BY <1>2, <1>7 DEF JobOK, SetStages, DiskStages, RunStages
<1> QED
  BY <1>6, <1>7, <1>8, <1>9, LocalStep

LEMMA CaptureConfigType ==
  ASSUME TypeInv, NEW g \in Groups, CaptureConfig(g)
  PROVE  TypeInv'
<1>1. RowsOK /\ StoreOK /\ WorkerOK /\ job[g] \in Job
  BY DEF TypeInv, TypeOK, WorkerOK
<1>2. job[g].written \in Seq(Disks) /\ job[g].written # << >>
  BY <1>1 DEF CaptureConfig, Job
<1>3. Head(job[g].written) \in Disks /\ Tail(job[g].written) \in Seq(Disks)
  BY <1>2
<1>4. [job[g] EXCEPT !.written = Tail(job[g].written)] \in Job
  BY <1>1, <1>3 DEF Job
<1>5. WorkerOK' /\ OthersKept(g) /\ pc'[g] = "capture" /\ job'[g].targets = job[g].targets
  BY <1>1, <1>4 DEF CaptureConfig, WorkerOK, OthersKept, Job, rows
<1>6. RowsOK' /\ runs' = runs /\ activeSet' = activeSet
  BY <1>1 DEF CaptureConfig, RowsOK, rows
<1>7. StoreOK'
  BY <1>1, <1>3 DEF CaptureConfig, StoreOK, proc
<1>8. JobOK(g)'
  BY <1>5 DEF CaptureConfig, TypeInv, JobOK, SetStages, DiskStages, RunStages
<1> QED
  BY <1>5, <1>6, <1>7, <1>8, LocalStep DEF TypeInv

LEMMA FinishType ==
  ASSUME TypeInv, NEW g \in Groups, Finish(g)
  PROVE  TypeInv'
<1>1. RowsOK /\ StoreOK /\ WorkerOK
  BY DEF TypeInv, TypeOK
<1> DEFINE status == CASE pc[g] = "blocked" -> "needs_disk"
                       [] pc[g] = "rotate"  -> "failed"
                       [] pc[g] = "capture" -> IF job[g].bad THEN "partial" ELSE "success"
<1>2. status \in {"needs_disk", "failed", "partial", "success"}
  BY DEF Finish
<1>3. session' = [session EXCEPT ![g] = [session[g] EXCEPT !.status = status]]
  BY DEF Finish
<1> HIDE DEF status
<1>4. session' \in [Groups -> SessionRow]
  BY <1>1, <1>2, <1>3 DEF RowsOK, SessionRow
<1>5. RowsOK' /\ runs' = runs /\ activeSet' = activeSet
  BY <1>1, <1>4 DEF Finish, RowsOK, rows
<1>6. WorkerOK' /\ OthersKept(g) /\ pc'[g] = "idle"
  BY <1>1, ResetTyped DEF Finish, Goto, WorkerOK, OthersKept, Stages, rows
<1>7. StoreOK'
  BY <1>1 DEF Finish, StoreOK, disks, proc
<1> QED
  BY <1>5, <1>6, <1>7, LocalStep DEF TypeInv, JobOK, SetStages, DiskStages, RunStages

LEMMA WorkerDiesType ==
  ASSUME TypeInv, NEW g \in Groups, WorkerDies(g)
  PROVE  TypeInv'
<1>1. RowsOK /\ StoreOK /\ WorkerOK
  BY DEF TypeInv, TypeOK
<1>2. WorkerOK' /\ OthersKept(g) /\ pc'[g] = "idle"
  BY <1>1, ResetTyped DEF WorkerDies, Goto, WorkerOK, OthersKept, Stages, rows
<1>3. RowsOK' /\ StoreOK' /\ runs' = runs /\ activeSet' = activeSet
  BY <1>1 DEF WorkerDies, RowsOK, StoreOK, rows, disks, proc
<1> QED
  BY <1>2, <1>3, LocalStep DEF TypeInv, JobOK, SetStages, DiskStages, RunStages

LEMMA CrashType ==
  ASSUME TypeInv, Crash
  PROVE  TypeInv'
<1>1. RowsOK /\ StoreOK /\ WorkerOK
  BY DEF TypeInv, TypeOK
<1>2. WorkerOK'
  BY ResetTyped DEF Crash, WorkerOK, Stages
<1>3. RowsOK' /\ activeSet' = activeSet
  BY <1>1 DEF Crash, RowsOK, rows
<1>4. StoreOK'
  <2>1. mounted' \subseteq Disks
    BY <1>1 DEF Crash, StoreOK
  <2>2. up' \in BOOLEAN
    BY DEF Crash
  <2>3. crashes' \in Nat
    BY <1>1 DEF Crash, StoreOK
  <2> QED
    BY <1>1, <2>1, <2>2, <2>3 DEF Crash, StoreOK
<1>5. \A g \in Groups : pc'[g] = "idle"
  BY DEF Crash
<1> QED
  BY <1>2, <1>3, <1>4, <1>5 DEF TypeInv, TypeOK, JobOK, SetStages, DiskStages, RunStages

\* A step that leaves the workers, the active sets and the ids of the runs alone.
LEMMA OuterStep ==
  ASSUME TypeInv, RowsOK', StoreOK', UNCHANGED <<activeSet, pc, job, work>>,
         DOMAIN runs' = DOMAIN runs
  PROVE  TypeInv'
BY DEF TypeInv, TypeOK, WorkerOK, JobOK

LEMMA RecoverRunType ==
  ASSUME TypeInv, NEW i \in DOMAIN runs, RecoverRun(i)
  PROVE  TypeInv'
<1>1. RowsOK /\ StoreOK /\ runs[i].ds \in Datasets
  <2>1. RowsOK /\ StoreOK /\ runs \in Seq(BackupRun)
    BY DEF TypeInv, TypeOK, RowsOK
  <2>2. runs[i] \in BackupRun
    BY <2>1
  <2> QED
    BY <2>1, <2>2 DEF BackupRun
<1>2. StoreOK' /\ RowsOK'
  BY <1>1 DEF RecoverRun, StoreOK, RowsOK, rows, disks, proc
<1> QED
  BY <1>2, OuterStep DEF RecoverRun, rows

LEMMA RestartType ==
  ASSUME TypeInv, Restart
  PROVE  TypeInv'
<1>1. RowsOK /\ StoreOK /\ runs \in Seq(BackupRun)
  BY DEF TypeInv, TypeOK, RowsOK
<1>2. ASSUME NEW i \in DOMAIN runs
      PROVE  runs[i] \in BackupRun /\ [runs[i] EXCEPT !.status = "failed"] \in BackupRun
  <2>1. runs[i] \in BackupRun
    BY <1>1
  <2> QED
    BY <2>1, RowUpdates
<1>3. runs' = [i \in 1..Len(runs) |-> runs'[i]] /\ \A i \in 1..Len(runs) : runs'[i] \in BackupRun
  BY <1>1, <1>2 DEF Restart
<1>4. runs' \in Seq(BackupRun) /\ DOMAIN runs' = DOMAIN runs
  BY <1>1, <1>3
<1>5. session' \in [Groups -> SessionRow]
  BY <1>1 DEF Restart, RowsOK, SessionRow
<1>6. RowsOK' /\ StoreOK'
  BY <1>1, <1>4, <1>5 DEF Restart, RowsOK, StoreOK, rows, disks
<1> QED
  BY <1>4, <1>6, OuterStep DEF Restart, rows

LEMMA OperatorUnmountsType ==
  ASSUME TypeInv, NEW k \in Disks, OperatorUnmounts(k)
  PROVE  TypeInv'
<1>1. RowsOK /\ StoreOK
  BY DEF TypeInv, TypeOK
<1>2. RowsOK' /\ StoreOK'
  BY <1>1 DEF OperatorUnmounts, RowsOK, StoreOK, rows, proc
<1> QED
  BY <1>2, OuterStep DEF OperatorUnmounts, rows

LEMMA InitType ==
  ASSUME Init
  PROVE  TypeInv
<1>1. \A g \in Groups : Cycle[g][1] \in Ran(Cycle[g]) /\ Cycle[g][1] \in Sets
  <2>1. ASSUME NEW g \in Groups
        PROVE  Cycle[g] \in Seq(Sets) /\ Cycle[g] # << >>
    BY TopologyAssumption
  <2> QED
    BY <2>1 DEF Ran
<1>2. ASSUME NEW s \in Sets
      PROVE  (IF DisksOf[s] = {} THEN None ELSE CHOOSE k \in DisksOf[s] : TRUE) \in Disks \cup {None}
  BY TopologyAssumption
<1>3. RowsOK
  BY <1>1, <1>2 DEF Init, RowsOK, SessionRow
<1>4. StoreOK
  BY DEF Init, StoreOK
<1>5. WorkerOK
  BY ResetTyped DEF Init, WorkerOK, Stages
<1> QED
  BY <1>1, <1>3, <1>4, <1>5 DEF Init, TypeInv, TypeOK, JobOK, SetStages, DiskStages, RunStages

LEMMA WorkerType ==
  ASSUME TypeInv, NEW g \in Groups, Worker(g)
  PROVE  TypeInv'
<1>1. CASE Choosing(g)
  BY <1>1, ResolveType, ChooseDiskType, NoUsableDiskType, DatasetMissingType, NewRunType,
     SetWrittenType DEF Choosing
<1>2. CASE Writing(g)
  BY <1>2, MountForRunType, ResolveAnchorType, AnchorUnlistedType, ReuseSnapshotType,
     TakeSnapshotType, SnapshotFailsType, DiscardFailedNameType, RecordSnapshotType, ChangedType, UnchangedType,
     DropSkippedType, FitsType, NeedsSpaceType, SendDoneType, SendFailsType, DropFailedType,
     CommitRunType DEF Writing
<1>3. CASE Settling(g)
  BY <1>3, PruneListType, PruneSkippedType, PruneOneType, PruneDoneType, RecordManifestType, ManifestFailsType,
     RunErrsType, UnmountType DEF Settling
<1>4. CASE Making(g)
  BY <1>4, PutAwayFullType, AdvanceToType, NoRoomInSetType, WipeType, RecycleFailsType,
     ReformattedType DEF Making
<1>5. CASE Ending(g)
  BY <1>5, RotateType, CaptureConfigType, FinishType DEF Ending
<1> QED
  BY <1>1, <1>2, <1>3, <1>4, <1>5 DEF Worker

LEMMA NextType ==
  ASSUME TypeInv, [Next]_vars
  PROVE  TypeInv'
<1>1. ASSUME NEW g \in Groups, NEW trigger \in Triggers, Start(g, trigger)
      PROVE  TypeInv'
  BY <1>1, StartType
<1>2. ASSUME NEW g \in Groups, Worker(g)
      PROVE  TypeInv'
  BY <1>2, WorkerType
<1>3. ASSUME NEW g \in Groups, WorkerDies(g)
      PROVE  TypeInv'
  BY <1>3, WorkerDiesType
<1>4. CASE Crash
  BY <1>4, CrashType
<1>5. CASE Recovery
  BY <1>5, RecoverRunType, RestartType DEF Recovery
<1>6. ASSUME NEW k \in Disks, OperatorUnmounts(k)
      PROVE  TypeInv'
  BY <1>6, OperatorUnmountsType
<1>7. CASE UNCHANGED vars
  BY <1>7 DEF vars, rows, disks, proc, TypeInv, TypeOK, RowsOK, StoreOK, WorkerOK, JobOK
<1> QED
  BY <1>1, <1>2, <1>3, <1>4, <1>5, <1>6, <1>7 DEF Next

\* Type correctness, with its strengthening.
THEOREM TypeInvariant == Spec => []TypeInv
<1>1. Init => TypeInv
  BY InitType
<1>2. TypeInv /\ [Next]_vars => TypeInv'
  BY NextType
<1> QED
  BY <1>1, <1>2, PTL DEF Spec

\* Every variable stays in its domain, whatever the topology, the faults and
\* the number of sessions.
THEOREM TypeCorrect == Spec => []TypeOK
<1>1. TypeInv => TypeOK
  BY DEF TypeInv
<1> QED
  BY <1>1, TypeInvariant, PTL

-----------------------------------------------------------------------------
(* A session and its row *)

\* A worker runs only while the process serves and its session row says so; only a
\* group that recycles gets as far as wiping a disk.
OutcomeOK(g) ==
  /\ pc[g] # "idle" => up /\ session[g].status = "running"
  /\ pc[g] \in {"wipe", "reformat"} => g \in Recycling

OutcomeInv == \A g \in Groups : OutcomeOK(g)

\* The row of run i survives a step of the worker of g.
RowKept(g, i) ==
  \/ runs'[i] = runs[i]
  \/ i = work[g].run
  \/ pc[g] = "reformat" /\ g \in Recycling /\ runs[i].disk = job[g].disk

\* What every step of the worker of g does: it keeps its own outcome right and
\* touches neither another session nor, but for a recycling, another's run.
SettledBy(g) ==
  /\ OutcomeOK(g)'
  /\ up' = up
  /\ \A h \in Groups \ {g} :
       pc'[h] = pc[h] /\ session'[h] = session[h]
  /\ \A i \in DOMAIN runs : RowKept(g, i)

LEMMA ChoosingSettles ==
  ASSUME TypeInv, NEW g \in Groups, OutcomeOK(g), Choosing(g)
  PROVE  SettledBy(g)
<1>1. /\ pc \in [Groups -> Stages]
      /\ session \in [Groups -> SessionRow]
  BY DEF TypeInv, TypeOK, WorkerOK, RowsOK
<1>2. runs \in Seq(BackupRun)
  BY DEF TypeInv, TypeOK, RowsOK
<1>3. CASE Resolve(g)
  BY <1>1, <1>2, <1>3 DEF Resolve, Goto, rows, proc, OutcomeOK, SettledBy, RowKept
<1>4. ASSUME NEW k, ChooseDisk(g, k)
      PROVE  SettledBy(g)
  BY <1>1, <1>2, <1>4 DEF ChooseDisk, Goto, proc, OutcomeOK, SettledBy, RowKept
<1>5. CASE NoUsableDisk(g)
  BY <1>1, <1>2, <1>5 DEF NoUsableDisk, Block, Goto, proc, OutcomeOK, SettledBy, RowKept
<1>6. CASE DatasetMissing(g)
  BY <1>1, <1>2, <1>6 DEF DatasetMissing, Count, Insert, Goto, rows, proc, OutcomeOK, SettledBy, RowKept
<1>7. CASE NewRun(g)
  BY <1>1, <1>2, <1>7 DEF NewRun, Goto, Insert, rows, proc, OutcomeOK, SettledBy, RowKept
<1>8. CASE SetWritten(g)
  BY <1>1, <1>2, <1>8 DEF SetWritten, Goto, rows, proc, OutcomeOK, SettledBy, RowKept
<1> QED
  BY <1>3, <1>4, <1>5, <1>6, <1>7, <1>8 DEF Choosing

LEMMA WritingSettles ==
  ASSUME TypeInv, NEW g \in Groups, OutcomeOK(g), Writing(g)
  PROVE  SettledBy(g)
<1>1. /\ pc \in [Groups -> Stages]
      /\ session \in [Groups -> SessionRow]
  BY DEF TypeInv, TypeOK, WorkerOK, RowsOK
<1>2. runs \in Seq(BackupRun)
  BY DEF TypeInv, TypeOK, RowsOK
<1>3. CASE MountForRun(g)
  BY <1>1, <1>2, <1>3 DEF MountForRun, Goto, rows, proc, OutcomeOK, SettledBy, RowKept
<1>4. CASE ResolveAnchor(g) \/ AnchorUnlisted(g)
  BY <1>1, <1>2, <1>4 DEF ResolveAnchor, AnchorUnlisted, Goto, rows, proc, OutcomeOK, SettledBy, RowKept
<1>5. CASE ReuseSnapshot(g)
  BY <1>1, <1>2, <1>5 DEF ReuseSnapshot, Goto, rows, proc, OutcomeOK, SettledBy, RowKept
<1>6. ASSUME NEW t, TakeSnapshot(g, t)
      PROVE  SettledBy(g)
  BY <1>1, <1>2, <1>6 DEF TakeSnapshot, Goto, rows, proc, OutcomeOK, SettledBy, RowKept
<1>7. ASSUME NEW t, SnapshotFails(g, t)
      PROVE  SettledBy(g)
  BY <1>1, <1>2, <1>7 DEF SnapshotFails, Goto, Save, rows, proc, OutcomeOK, SettledBy, RowKept
<1>8. CASE DiscardFailedName(g)
  BY <1>1, <1>2, <1>8 DEF DiscardFailedName, Goto, Save, rows, proc, OutcomeOK, SettledBy, RowKept
<1>9. CASE RecordSnapshot(g)
  BY <1>1, <1>2, <1>9 DEF RecordSnapshot, Goto, Save, rows, proc, OutcomeOK, SettledBy, RowKept
<1>10. CASE Changed(g)
  BY <1>1, <1>2, <1>10 DEF Changed, Goto, rows, proc, OutcomeOK, SettledBy, RowKept
<1>11. CASE Unchanged(g)
  BY <1>1, <1>2, <1>11 DEF Unchanged, Goto, Save, rows, proc, OutcomeOK, SettledBy, RowKept
<1>12. CASE DropSkipped(g)
  BY <1>1, <1>2, <1>12 DEF DropSkipped, Goto, rows, proc, OutcomeOK, SettledBy, RowKept
<1>13. CASE Fits(g)
  BY <1>1, <1>2, <1>13 DEF Fits, Goto, rows, proc, OutcomeOK, SettledBy, RowKept
<1>14. CASE NeedsSpace(g)
  <2>1. /\ work[g].retry \in {"no", "advanced", "recycled"}
        /\ \A i \in DOMAIN runs : RowKept(g, i)
    BY <1>2, <1>14 DEF NeedsSpace, Save, RowKept, TypeInv, TypeOK, WorkerOK, Work
  <2>2. pc[g] = "capacity" /\ UNCHANGED <<session, proc>>
    BY <1>14 DEF NeedsSpace
  <2>3. CASE Goto(g, "full")
    BY <1>1, <2>1, <2>2, <2>3 DEF Goto, proc, OutcomeOK, SettledBy
  <2>4. CASE pc' = [pc EXCEPT ![g] = "dataset"]
    BY <1>1, <2>1, <2>2, <2>4 DEF proc, OutcomeOK, SettledBy
  <2>5. CASE Block(g)
    BY <1>1, <2>1, <2>2, <2>5 DEF Block, Goto, proc, OutcomeOK, SettledBy
  <2> QED
    BY <1>14, <2>1, <2>3, <2>4, <2>5 DEF NeedsSpace, Count, Goto
<1>15. CASE SendDone(g)
  BY <1>1, <1>2, <1>15 DEF SendDone, Goto, rows, proc, OutcomeOK, SettledBy, RowKept
<1>16. CASE SendFails(g)
  BY <1>1, <1>2, <1>16 DEF SendFails, Goto, rows, proc, OutcomeOK, SettledBy, RowKept
<1>17. CASE DropFailed(g)
  BY <1>1, <1>2, <1>17 DEF DropFailed, Goto, Save, rows, proc, OutcomeOK, SettledBy, RowKept
<1>18. CASE CommitRun(g)
  BY <1>1, <1>2, <1>18 DEF CommitRun, Goto, Save, rows, proc, OutcomeOK, SettledBy, RowKept
<1> QED
  BY <1>3, <1>4, <1>5, <1>6, <1>7, <1>8, <1>9, <1>10, <1>11, <1>12, <1>13, <1>14, <1>15, <1>16, <1>17, <1>18 DEF Writing

LEMMA SettlingSettles ==
  ASSUME TypeInv, NEW g \in Groups, OutcomeOK(g), Settling(g)
  PROVE  SettledBy(g)
<1>1. /\ pc \in [Groups -> Stages]
      /\ session \in [Groups -> SessionRow]
  BY DEF TypeInv, TypeOK, WorkerOK, RowsOK
<1>2. runs \in Seq(BackupRun)
  BY DEF TypeInv, TypeOK, RowsOK
<1>3. CASE PruneList(g)
  BY <1>1, <1>2, <1>3 DEF PruneList, Goto, rows, proc, OutcomeOK, SettledBy, RowKept
<1>4. ASSUME NEW t, PruneOne(g, t)
      PROVE  SettledBy(g)
  BY <1>1, <1>2, <1>4 DEF PruneOne, Goto, rows, proc, OutcomeOK, SettledBy, RowKept
<1>5. CASE PruneDone(g) \/ PruneSkipped(g)
  BY <1>1, <1>2, <1>5 DEF PruneDone, PruneSkipped, Goto, rows, proc, OutcomeOK, SettledBy, RowKept
<1>6. CASE RecordManifest(g)
  BY <1>1, <1>2, <1>6 DEF RecordManifest, Goto, rows, proc, OutcomeOK, SettledBy, RowKept
<1>7. CASE ManifestFails(g)
  BY <1>1, <1>2, <1>7 DEF ManifestFails, Goto, rows, proc, OutcomeOK, SettledBy, RowKept
<1>8. CASE RunErrs(g)
  BY <1>1, <1>2, <1>8 DEF RunErrs, Goto, Save, rows, proc, OutcomeOK, SettledBy, RowKept
<1>9. CASE Unmount(g)
  BY <1>1, <1>2, <1>9 DEF Unmount, Count, Goto, rows, proc, OutcomeOK, SettledBy, RowKept
<1> QED
  BY <1>3, <1>4, <1>5, <1>6, <1>7, <1>8, <1>9 DEF Settling

LEMMA MakingSettles ==
  ASSUME TypeInv, NEW g \in Groups, OutcomeOK(g), Making(g)
  PROVE  SettledBy(g)
<1>1. /\ pc \in [Groups -> Stages]
      /\ session \in [Groups -> SessionRow]
  BY DEF TypeInv, TypeOK, WorkerOK, RowsOK
<1>2. runs \in Seq(BackupRun)
  BY DEF TypeInv, TypeOK, RowsOK
<1>3. CASE PutAwayFull(g)
  BY <1>1, <1>2, <1>3 DEF PutAwayFull, Goto, rows, proc, OutcomeOK, SettledBy, RowKept
<1>4. ASSUME NEW k, AdvanceTo(g, k)
      PROVE  SettledBy(g)
  BY <1>1, <1>2, <1>4 DEF AdvanceTo, Goto, Save, proc, OutcomeOK, SettledBy, RowKept
<1>5. CASE NoRoomInSet(g)
  BY <1>1, <1>2, <1>5 DEF NoRoomInSet, Goto, Block, proc, OutcomeOK, SettledBy, RowKept
<1>6. CASE Wipe(g)
  BY <1>1, <1>2, <1>6 DEF Wipe, Goto, rows, proc, OutcomeOK, SettledBy, RowKept
<1>7. CASE RecycleFails(g)
  BY <1>1, <1>2, <1>7 DEF RecycleFails, Block, Goto, proc, OutcomeOK, SettledBy, RowKept
<1>8. CASE Reformatted(g)
  BY <1>1, <1>2, <1>8 DEF Reformatted, Goto, rows, proc, OutcomeOK, SettledBy, RowKept
<1> QED
  BY <1>3, <1>4, <1>5, <1>6, <1>7, <1>8 DEF Making

LEMMA EndingSettles ==
  ASSUME TypeInv, NEW g \in Groups, OutcomeOK(g), Ending(g)
  PROVE  SettledBy(g)
<1>1. /\ pc \in [Groups -> Stages]
      /\ session \in [Groups -> SessionRow]
  BY DEF TypeInv, TypeOK, WorkerOK, RowsOK
<1>2. runs \in Seq(BackupRun)
  BY DEF TypeInv, TypeOK, RowsOK
<1>3. CASE Rotate(g)
  BY <1>1, <1>2, <1>3 DEF Rotate, Goto, proc, OutcomeOK, SettledBy, RowKept
<1>4. CASE CaptureConfig(g)
  BY <1>1, <1>2, <1>4 DEF CaptureConfig, Goto, rows, proc, OutcomeOK, SettledBy, RowKept
<1>5. CASE Finish(g)
  BY <1>1, <1>2, <1>5 DEF Finish, Goto, rows, proc, OutcomeOK, SettledBy, RowKept
<1> QED
  BY <1>3, <1>4, <1>5 DEF Ending

LEMMA WorkerSettles ==
  ASSUME TypeInv, OutcomeInv, NEW g \in Groups, Worker(g)
  PROVE  SettledBy(g) /\ OutcomeInv'
<1>1. SettledBy(g)
  BY ChoosingSettles, WritingSettles, SettlingSettles, MakingSettles, EndingSettles
     DEF OutcomeInv, Worker
<1>2. ASSUME NEW h \in Groups, h # g
      PROVE  OutcomeOK(h)'
  BY <1>1, <1>2 DEF SettledBy, OutcomeInv, OutcomeOK
<1> QED
  BY <1>1, <1>2 DEF SettledBy, OutcomeInv

LEMMA OutcomeStep ==
  ASSUME TypeInv, OutcomeInv, [Next]_vars
  PROVE  OutcomeInv'
<1>1. /\ pc \in [Groups -> Stages]
      /\ session \in [Groups -> SessionRow]
  BY DEF TypeInv, TypeOK, WorkerOK, RowsOK
<1>2. ASSUME NEW g \in Groups, NEW trigger \in Triggers, Start(g, trigger)
      PROVE  OutcomeInv'
  <2>1. ASSUME NEW h \in Groups
        PROVE  OutcomeOK(h)'
    BY <1>1, <1>2 DEF Start, Goto, rows, proc, OutcomeInv, OutcomeOK
  <2> QED
    BY <2>1 DEF OutcomeInv
<1>3. ASSUME NEW g \in Groups, Worker(g)
      PROVE  OutcomeInv'
  BY <1>3, WorkerSettles
<1>4. ASSUME NEW g \in Groups, WorkerDies(g)
      PROVE  OutcomeInv'
  <2>1. ASSUME NEW h \in Groups
        PROVE  OutcomeOK(h)'
    BY <1>1, <1>4 DEF WorkerDies, Goto, rows, proc, OutcomeInv, OutcomeOK
  <2> QED
    BY <2>1 DEF OutcomeInv
<1>5. CASE Crash
  BY <1>5 DEF Crash, rows, OutcomeInv, OutcomeOK
<1>6. CASE Recovery
  <2>1. ASSUME NEW i \in DOMAIN runs, RecoverRun(i)
        PROVE  OutcomeInv'
    BY <2>1 DEF RecoverRun, rows, proc, OutcomeInv, OutcomeOK
  <2>2. CASE Restart
    <3>1. ASSUME NEW h \in Groups
          PROVE  OutcomeOK(h)'
      BY <1>1, <2>2 DEF Restart, OrphanSession, rows, SessionRow, OutcomeInv, OutcomeOK
    <3> QED
      BY <3>1 DEF OutcomeInv
  <2> QED
    BY <1>6, <2>1, <2>2 DEF Recovery
<1>7. ASSUME NEW k \in Disks, OperatorUnmounts(k)
      PROVE  OutcomeInv'
  BY <1>7 DEF OperatorUnmounts, rows, proc, OutcomeInv, OutcomeOK
<1>8. CASE UNCHANGED vars
  BY <1>8 DEF vars, rows, proc, OutcomeInv, OutcomeOK
<1> QED
  BY <1>2, <1>3, <1>4, <1>5, <1>6, <1>7, <1>8 DEF Next

THEOREM OutcomeInvariant == Spec => [](TypeInv /\ OutcomeInv)
<1>1. Init => TypeInv /\ OutcomeInv
  BY InitType DEF Init, OutcomeInv, OutcomeOK
<1>2. TypeInv /\ OutcomeInv /\ [Next]_vars => (TypeInv /\ OutcomeInv)'
  BY NextType, OutcomeStep
<1> QED
  BY <1>1, <1>2, PTL DEF Spec

\* A finished run of no worker is rewritten by nothing but a recycling.
FinishedKept ==
  \A i \in DOMAIN runs :
    runs[i].status # "running" /\ (\A g \in Groups : work[g].run # i)
      => \/ runs'[i] = runs[i]
         \/ \E g \in Recycling : pc[g] = "reformat" /\ runs[i].disk = job[g].disk

LEMMA FinishedStep ==
  ASSUME TypeInv, OutcomeInv, [Next]_vars
  PROVE  FinishedKept
<1>1. ASSUME NEW g \in Groups, Worker(g)
      PROVE  FinishedKept
  <2>1. \A i \in DOMAIN runs : RowKept(g, i)
    BY <1>1, WorkerSettles DEF SettledBy
  <2> QED
    BY <2>1 DEF FinishedKept, RowKept
<1>2. CASE Recovery
  <2>1. ASSUME NEW i \in DOMAIN runs, runs[i].status # "running"
        PROVE  runs'[i] = runs[i]
    BY <1>2, <2>1 DEF Recovery, RecoverRun, Restart, OrphanRun
  <2> QED
    BY <2>1 DEF FinishedKept
<1>3. ASSUME UNCHANGED runs
      PROVE  FinishedKept
  BY <1>3 DEF FinishedKept
<1>4. ASSUME NEW g \in Groups, NEW trigger \in Triggers, Start(g, trigger)
      PROVE  UNCHANGED runs
  BY <1>4 DEF Start
<1>5. ASSUME NEW g \in Groups, WorkerDies(g)
      PROVE  UNCHANGED runs
  BY <1>5 DEF WorkerDies
<1>6. ASSUME NEW k \in Disks, OperatorUnmounts(k)
      PROVE  UNCHANGED runs
  BY <1>6 DEF OperatorUnmounts
<1>7. Crash \/ UNCHANGED vars => UNCHANGED runs
  BY DEF Crash, vars
<1> QED
  BY <1>1, <1>2, <1>3, <1>4, <1>5, <1>6, <1>7 DEF Next

\* Once its worker has moved on a finished run keeps its outcome, whatever
\* other sessions, crashes and the recovery do; only the recycling of its disk
\* removes it.
THEOREM FinishedRunsCorrect == Spec => FinishedRunsKept
<1>1. TypeInv /\ OutcomeInv /\ [Next]_vars => [FinishedKept]_vars
  BY FinishedStep
<1> QED
  BY <1>1, OutcomeInvariant, PTL DEF Spec, FinishedRunsKept, FinishedKept

-----------------------------------------------------------------------------
(* Rows and their workers *)

\* Stages after the outcome of a run, and those at which its row is not running:
\* also after a skip, and after a refusal for space.
Settled == {"list", "prune", "manifest", "unmount"}
Decided == Settled \cup {"dropskipped", "full", "advance", "wipe", "reformat"}

\* The row a worker writes is of the dataset it is at, and its status is not
\* ahead of the worker.
RunOK(g) ==
  pc[g] \in RunStages =>
    /\ Row(g).ds = CurDataset(g)
    /\ pc[g] \in Decided => Row(g).status # "running"
    /\ pc[g] \notin Settled => Row(g).status # "success"

\* No two workers write the same row.
OwnRuns ==
  \A g, h \in Groups :
    pc[g] \in RunStages /\ pc[h] \in RunStages /\ work[g].run = work[h].run => g = h

RunInv == OwnRuns /\ \A g \in Groups : RunOK(g)

\* What a step of the worker of g does to the rows: but for its own it deletes
\* some at most.
RowsMoved(g) ==
  /\ DOMAIN runs \subseteq DOMAIN runs'
  /\ \A i \in DOMAIN runs :
       \/ runs'[i] = runs[i] \/ runs'[i] = [runs[i] EXCEPT !.status = "deleted"]
       \/ pc[g] \in RunStages /\ i = work[g].run

MovesOn(g) ==
  /\ OthersKept(g) /\ RowsMoved(g) /\ RunOK(g)'
  /\ pc'[g] \in RunStages =>
       \/ work'[g].run \notin DOMAIN runs
       \/ pc[g] \in RunStages /\ work'[g].run = work[g].run

LEMMA WorkerRuns ==
  ASSUME TypeInv, RunInv, NEW g \in Groups, MovesOn(g)
  PROVE  RunInv'
<1>1. \A h \in Groups : pc[h] \in RunStages =>
        work[h].run \in DOMAIN runs /\ Row(h) \in BackupRun
  BY CurTypes
<1>2. ASSUME NEW h \in Groups, h # g
      PROVE  RunOK(h)'
  <2>1. SUFFICES ASSUME pc[h] \in RunStages
                 PROVE  /\ Row(h)'.ds = CurDataset(h)
                        /\ pc[h] \in Decided => Row(h)'.status # "running"
                        /\ pc[h] \notin Settled => Row(h)'.status # "success"
    BY <1>2 DEF MovesOn, OthersKept, RunOK, CurDataset
  <2>2. Row(h)' = runs'[work[h].run] /\ RunOK(h)
    BY <1>2 DEF MovesOn, OthersKept, Row, RunInv
  <2>3. Row(h)' = Row(h) \/ Row(h)' = [Row(h) EXCEPT !.status = "deleted"]
    BY <1>1, <1>2, <2>1, <2>2 DEF MovesOn, RowsMoved, RunInv, OwnRuns, Row
  <2> QED
    BY <1>1, <2>1, <2>2, <2>3 DEF RunOK, BackupRun
<1>3. OwnRuns'
  BY <1>1 DEF MovesOn, OthersKept, RunInv, OwnRuns
<1> QED
  BY <1>2, <1>3 DEF MovesOn, RunInv

\* Steps within a run that write no row, that write its row, and that leave it.
LEMMA RunKept ==
  ASSUME TypeInv, RunInv, NEW g \in Groups, OthersKept(g), runs' = runs,
         pc[g] \in RunStages, pc'[g] \in RunStages,
         job'[g].item = job[g].item, work'[g].run = work[g].run,
         pc'[g] \in Decided => pc[g] \in Decided \/ Row(g).status # "running",
         pc'[g] \notin Settled => pc[g] \notin Settled
  PROVE  MovesOn(g)
<1>1. Row(g)' = Row(g) /\ CurDataset(g)' = CurDataset(g)
  BY DEF Row, CurDataset
<1> QED
  BY <1>1 DEF MovesOn, RowsMoved, RunInv, RunOK

LEMMA SavedRow ==
  ASSUME TypeInv, NEW g \in Groups, pc[g] \in RunStages, NEW row, Save(g, row)
  PROVE  /\ DOMAIN runs' = DOMAIN runs
         /\ \A i \in DOMAIN runs : i # work[g].run => runs'[i] = runs[i]
         /\ IF Row(g).status = "deleted" THEN runs'[work[g].run] = Row(g)
            ELSE runs'[work[g].run] = row
<1>1. work[g].run \in DOMAIN runs /\ runs \in Seq(BackupRun)
  BY CurTypes DEF TypeInv, TypeOK, RowsOK
<1> QED
  BY <1>1 DEF Save, Row

LEMMA RunSaved ==
  ASSUME TypeInv, RunInv, NEW g \in Groups, OthersKept(g),
         pc[g] \in RunStages, pc'[g] \in RunStages,
         job'[g].item = job[g].item, work'[g].run = work[g].run,
         NEW row, Save(g, row), row.ds = Row(g).ds,
         pc'[g] \in Decided => row.status # "running",
         pc'[g] \notin Settled => row.status # "success"
  PROVE  MovesOn(g)
<1>1. RowsMoved(g) /\ Row(g)' \in {Row(g), row} /\ (Row(g)' = Row(g) => Row(g).status = "deleted" \/ Row(g) = row)
  BY SavedRow DEF RowsMoved, Row
<1>2. CurDataset(g)' = CurDataset(g)
  BY DEF CurDataset
<1> QED
  BY <1>1, <1>2 DEF MovesOn, RunInv, RunOK

LEMMA RunLeft ==
  ASSUME NEW g \in Groups, OthersKept(g), RowsMoved(g), pc'[g] \notin RunStages
  PROVE  MovesOn(g)
BY DEF MovesOn, RunOK

LEMMA WritingMoves ==
  ASSUME TypeInv, RunInv, NEW g \in Groups, Writing(g)
  PROVE  MovesOn(g)
<1>1. /\ pc \in [Groups -> Stages] /\ work \in [Groups -> Work] /\ job \in [Groups -> Job]
      /\ work[g] \in Work /\ job[g] \in Job
  BY DEF TypeInv, TypeOK, WorkerOK
<1>2. pc[g] \in RunStages => Row(g) \in BackupRun
  BY CurTypes
<1>3. CASE MountForRun(g)
  BY <1>1, <1>3, RunKept DEF MountForRun, rows, Goto, OthersKept, Stages, SetStages, DiskStages, RunStages, Settled, Decided
<1>4. CASE ResolveAnchor(g)
  BY <1>1, <1>4, RunKept DEF ResolveAnchor, rows, Goto, OthersKept, Stages, SetStages, DiskStages, RunStages, Settled, Decided
<1>4a. CASE AnchorUnlisted(g)
  BY <1>1, <1>4a, RunKept DEF AnchorUnlisted, rows, Goto, OthersKept, Stages, SetStages, DiskStages, RunStages, Settled, Decided
<1>5. CASE ReuseSnapshot(g)
  BY <1>1, <1>5, RunKept DEF ReuseSnapshot, rows, Goto, OthersKept, Stages, SetStages, DiskStages, RunStages, Settled, Decided
<1>6. ASSUME NEW t, TakeSnapshot(g, t)
      PROVE  MovesOn(g)
  BY <1>1, <1>6, RunKept DEF TakeSnapshot, rows, Goto, OthersKept, Stages, SetStages, DiskStages, RunStages, Settled, Decided
<1>7. CASE Changed(g)
  BY <1>1, <1>7, RunKept DEF Changed, rows, Goto, OthersKept, Stages, SetStages, DiskStages, RunStages, Settled, Decided
<1>8. CASE DropSkipped(g)
  BY <1>1, <1>8, RunKept DEF DropSkipped, rows, Goto, OthersKept, Stages, SetStages, DiskStages, RunStages, Settled, Decided
<1>9. CASE Fits(g)
  BY <1>1, <1>9, RunKept DEF Fits, rows, Goto, OthersKept, Stages, SetStages, DiskStages, RunStages, Settled, Decided
<1>10. CASE SendDone(g)
  BY <1>1, <1>10, RunKept DEF SendDone, rows, Goto, OthersKept, Stages, SetStages, DiskStages, RunStages, Settled, Decided
<1>11. CASE SendFails(g)
  BY <1>1, <1>11, RunKept DEF SendFails, rows, Goto, OthersKept, Stages, SetStages, DiskStages, RunStages, Settled, Decided
<1>12. CASE DiscardFailedName(g)
  <2> DEFINE row == [Row(g) EXCEPT !.status = "failed"]
  <2>1. /\ OthersKept(g) /\ pc[g] \in RunStages /\ pc'[g] \in RunStages
        /\ job'[g].item = job[g].item /\ work'[g].run = work[g].run
        /\ Save(g, row)
    BY <1>1, <1>12 DEF DiscardFailedName, rows, Goto, OthersKept, Stages, SetStages, DiskStages, RunStages, Settled, Decided
  <2>2. row.ds = Row(g).ds /\ row.status # "running"
        /\ (pc'[g] \notin Settled => row.status # "success")
    BY <1>1, <1>2, <1>12, <2>1 DEF DiscardFailedName, Goto, BackupRun, Settled
  <2> HIDE DEF row
  <2> QED
    BY <2>1, <2>2, RunSaved
<1>13. CASE Unchanged(g)
  <2> DEFINE row == [Row(g) EXCEPT !.status = "skipped", !.base = work[g].base, !.anchor = work[g].anchor]
  <2>1. /\ OthersKept(g) /\ pc[g] \in RunStages /\ pc'[g] \in RunStages
        /\ job'[g].item = job[g].item /\ work'[g].run = work[g].run
        /\ Save(g, row)
    BY <1>1, <1>13 DEF Unchanged, rows, Goto, OthersKept, Stages, SetStages, DiskStages, RunStages, Settled, Decided
  <2>2. row.ds = Row(g).ds /\ row.status # "running"
        /\ (pc'[g] \notin Settled => row.status # "success")
    BY <1>1, <1>2, <1>13, <2>1 DEF Unchanged, Goto, BackupRun, Settled
  <2> HIDE DEF row
  <2> QED
    BY <2>1, <2>2, RunSaved
<1>14. CASE DropFailed(g)
  <2> DEFINE row == [Row(g) EXCEPT !.status = "failed"]
  <2>1. /\ OthersKept(g) /\ pc[g] \in RunStages /\ pc'[g] \in RunStages
        /\ job'[g].item = job[g].item /\ work'[g].run = work[g].run
        /\ Save(g, row)
    BY <1>1, <1>14 DEF DropFailed, rows, Goto, OthersKept, Stages, SetStages, DiskStages, RunStages, Settled, Decided
  <2>2. row.ds = Row(g).ds /\ row.status # "running"
        /\ (pc'[g] \notin Settled => row.status # "success")
    BY <1>1, <1>2, <1>14, <2>1 DEF DropFailed, Goto, BackupRun, Settled
  <2> HIDE DEF row
  <2> QED
    BY <2>1, <2>2, RunSaved
<1>15. CASE CommitRun(g)
  <2> DEFINE row == [Row(g) EXCEPT !.status = "success", !.base = work[g].base, !.anchor = work[g].anchor]
  <2>1. /\ OthersKept(g) /\ pc[g] \in RunStages /\ pc'[g] \in RunStages
        /\ job'[g].item = job[g].item /\ work'[g].run = work[g].run
        /\ Save(g, row)
    BY <1>1, <1>15 DEF CommitRun, rows, Goto, OthersKept, Stages, SetStages, DiskStages, RunStages, Settled, Decided
  <2>2. row.ds = Row(g).ds /\ row.status # "running"
        /\ (pc'[g] \notin Settled => row.status # "success")
    BY <1>1, <1>2, <1>15, <2>1 DEF CommitRun, Goto, BackupRun, Settled
  <2> HIDE DEF row
  <2> QED
    BY <2>1, <2>2, RunSaved
<1>16. CASE RecordSnapshot(g)
  <2> DEFINE row == [Row(g) EXCEPT !.snap = work[g].snap, !.type = work[g].type]
  <2>1. /\ OthersKept(g) /\ pc[g] = "record" /\ pc'[g] \in {"diff", "capacity"}
        /\ job'[g].item = job[g].item /\ work'[g].run = work[g].run
        /\ Save(g, row)
    BY <1>1, <1>16 DEF RecordSnapshot, rows, Goto, OthersKept, Stages, SetStages, DiskStages, RunStages, Settled, Decided
  <2>2. pc[g] \in RunStages \ Settled /\ pc'[g] \in RunStages \ Decided
    BY <2>1 DEF Stages, SetStages, DiskStages, RunStages, Settled, Decided
  <2>3. row.ds = Row(g).ds /\ row.status # "success"
    BY <1>2, <2>2 DEF BackupRun, RunInv, RunOK
  <2> HIDE DEF row
  <2> QED
    BY <2>1, <2>2, <2>3, RunSaved
<1>17. ASSUME NEW t, SnapshotFails(g, t)
      PROVE  MovesOn(g)
  <2> DEFINE row == [Row(g) EXCEPT !.status = "failed"]
  <2>1. /\ OthersKept(g) /\ pc[g] \in RunStages \ Settled
        /\ job'[g].item = job[g].item /\ work'[g].run = work[g].run
    BY <1>1, <1>17 DEF SnapshotFails, rows, Goto, OthersKept, Stages, SetStages, DiskStages, RunStages, Settled, Work
  <2>2. CASE work[g].snap = None
    BY <1>1, <1>17, <2>1, <2>2, RunKept DEF SnapshotFails, Goto, OthersKept, Stages, SetStages, DiskStages, RunStages, Settled, Decided
  <2>3. CASE work[g].snap # None
    <3>1. Save(g, row) /\ pc'[g] = "unmount"
      BY <1>1, <1>17, <2>3 DEF SnapshotFails, Goto
    <3>2. row.ds = Row(g).ds /\ row.status \notin {"running", "success"}
      BY <1>2, <2>1 DEF BackupRun
    <3> HIDE DEF row
    <3> QED
      BY <2>1, <3>1, <3>2, RunSaved DEF Stages, SetStages, DiskStages, RunStages
  <2> QED
    BY <2>2, <2>3
<1>18. CASE NeedsSpace(g)
  <2> DEFINE row == [Row(g) EXCEPT !.status = "failed"]
  <2>1. Save(g, row) /\ pc[g] \in RunStages /\ pc[g] = "capacity"
    BY <1>18 DEF NeedsSpace, Stages, SetStages, DiskStages, RunStages
  <2>2. RowsMoved(g)
    BY <2>1, SavedRow DEF RowsMoved
  <2>3. CASE Goto(g, "full") /\ UNCHANGED <<activeSet, needsDisk, lastUsed, job, work>>
    <3>1. row.ds = Row(g).ds /\ row.status \notin {"running", "success"}
      BY <1>2, <2>1 DEF BackupRun
    <3>2. /\ OthersKept(g) /\ pc'[g] \in RunStages
          /\ job'[g].item = job[g].item /\ work'[g].run = work[g].run
      BY <1>1, <2>3 DEF Goto, OthersKept, Stages, SetStages, DiskStages, RunStages, Settled, Decided
    <3> HIDE DEF row
    <3> QED
      BY <2>1, <3>1, <3>2, RunSaved
  <2>4. CASE Count(g, "failed") /\ UNCHANGED <<activeSet, needsDisk, lastUsed>>
    <3>1. OthersKept(g) /\ pc'[g] \notin RunStages
      BY <1>1, <2>4 DEF Count, Goto, OthersKept, Stages, SetStages, DiskStages, RunStages, Settled, Decided
    <3> QED
      BY <2>2, <3>1, RunLeft
  <2>5. CASE Block(g) /\ UNCHANGED <<job, work>>
    <3>1. OthersKept(g) /\ pc'[g] \notin RunStages
      BY <1>1, <2>5 DEF Block, Goto, OthersKept, Stages, SetStages, DiskStages, RunStages, Settled, Decided
    <3> QED
      BY <2>2, <3>1, RunLeft
  <2>6. work[g].retry \in {"no", "advanced", "recycled"}
    BY <1>1 DEF Work
  <2> QED
    BY <1>18, <2>3, <2>4, <2>5, <2>6 DEF NeedsSpace
<1> QED
  BY <1>3, <1>4, <1>4a, <1>5, <1>6, <1>7, <1>8, <1>9, <1>10, <1>11, <1>12, <1>13, <1>14, <1>15, <1>16, <1>17, <1>18 DEF Writing

LEMMA SettlingMoves ==
  ASSUME TypeInv, RunInv, NEW g \in Groups, Settling(g)
  PROVE  MovesOn(g)
<1>1. /\ pc \in [Groups -> Stages] /\ work \in [Groups -> Work] /\ job \in [Groups -> Job]
      /\ work[g] \in Work /\ job[g] \in Job
  BY DEF TypeInv, TypeOK, WorkerOK
<1>2. pc[g] \in RunStages => Row(g) \in BackupRun
  BY CurTypes
<1>3. CASE PruneList(g)
  BY <1>1, <1>3, RunKept DEF PruneList, rows, Goto, OthersKept, Stages, SetStages, DiskStages, RunStages, Settled, Decided
<1>4. ASSUME NEW t, PruneOne(g, t)
      PROVE  MovesOn(g)
  BY <1>1, <1>4, RunKept DEF PruneOne, rows, Goto, OthersKept, Stages, SetStages, DiskStages, RunStages, Settled, Decided
<1>5. CASE PruneDone(g) \/ PruneSkipped(g)
  BY <1>1, <1>5, RunKept DEF PruneDone, PruneSkipped, rows, Goto, OthersKept, Stages, SetStages, DiskStages, RunStages, Settled, Decided
<1>6. CASE RecordManifest(g)
  BY <1>1, <1>6, RunKept DEF RecordManifest, rows, Goto, OthersKept, Stages, SetStages, DiskStages, RunStages, Settled, Decided
<1>7. CASE ManifestFails(g)
  BY <1>1, <1>7, RunKept DEF ManifestFails, rows, Goto, OthersKept, Stages, SetStages, DiskStages, RunStages, Settled, Decided
<1>8. CASE RunErrs(g)
  <2> DEFINE row == [Row(g) EXCEPT !.status = "failed"]
  <2>1. /\ OthersKept(g) /\ pc[g] \in RunStages /\ pc'[g] \in RunStages
        /\ job'[g].item = job[g].item /\ work'[g].run = work[g].run
        /\ Save(g, row)
    BY <1>1, <1>8 DEF RunErrs, rows, Goto, OthersKept, Stages, SetStages, DiskStages, RunStages, Settled, Decided
  <2>2. /\ row.ds = Row(g).ds /\ row.status # "success"
        /\ (pc'[g] \in Decided => row.status # "running")
    BY <1>1, <1>2, <1>8, <2>1 DEF RunErrs, Goto, BackupRun, Settled, Decided
  <2> HIDE DEF row
  <2> QED
    BY <2>1, <2>2, RunSaved
<1>9. CASE Unmount(g)
  BY <1>1, <1>9, RunLeft DEF Unmount, RowsMoved, rows, Count, Goto, OthersKept, Stages, SetStages, DiskStages, RunStages, Settled, Decided
<1> QED
  BY <1>3, <1>4, <1>5, <1>6, <1>7, <1>8, <1>9 DEF Settling

LEMMA MakingMoves ==
  ASSUME TypeInv, RunInv, NEW g \in Groups, Making(g)
  PROVE  MovesOn(g)
<1>1. /\ pc \in [Groups -> Stages] /\ work \in [Groups -> Work] /\ job \in [Groups -> Job]
      /\ work[g] \in Work /\ job[g] \in Job
  BY DEF TypeInv, TypeOK, WorkerOK
<1>2. pc[g] \in RunStages => Row(g) \in BackupRun
  BY CurTypes
<1>3. CASE PutAwayFull(g)
  BY <1>1, <1>3, RunKept DEF PutAwayFull, rows, Goto, OthersKept, Stages, SetStages, DiskStages, RunStages, Settled, Decided
<1>4. ASSUME NEW k, AdvanceTo(g, k)
      PROVE  MovesOn(g)
  <2> DEFINE row == Retarget(Row(g), k)
  <2>1. /\ OthersKept(g) /\ pc[g] \in RunStages /\ pc'[g] \in RunStages
        /\ job'[g].item = job[g].item /\ work'[g].run = work[g].run
        /\ Save(g, row)
    BY <1>1, <1>4 DEF AdvanceTo, rows, Goto, OthersKept, Stages, SetStages, DiskStages, RunStages, Settled, Decided
  <2>2. /\ row.ds = Row(g).ds /\ row.status # "success"
        /\ (pc'[g] \in Decided => row.status # "running")
    BY <1>1, <1>2, <1>4, <2>1 DEF AdvanceTo, Goto, BackupRun, Settled, Decided, Retarget
  <2> HIDE DEF row
  <2> QED
    BY <2>1, <2>2, RunSaved
<1>5. CASE NoRoomInSet(g)
  <2>1. OthersKept(g) /\ runs' = runs /\ job' = job /\ work' = work /\ pc[g] = "advance"
        /\ pc'[g] \in {"wipe", "blocked"}
    BY <1>1, <1>5 DEF NoRoomInSet, Block, Goto, OthersKept
  <2>2. CASE pc'[g] = "wipe"
    BY <2>1, <2>2, RunKept DEF Goto, OthersKept, Stages, SetStages, DiskStages, RunStages, Settled, Decided
  <2>3. CASE pc'[g] = "blocked"
    BY <2>1, <2>3, RunLeft DEF RowsMoved, Goto, OthersKept, Stages, SetStages, DiskStages, RunStages, Settled, Decided
  <2> QED
    BY <2>1, <2>2, <2>3
<1>6. CASE Wipe(g)
  BY <1>1, <1>6, RunKept DEF Wipe, rows, Goto, OthersKept, Stages, SetStages, DiskStages, RunStages, Settled, Decided
<1>7. CASE RecycleFails(g)
  BY <1>1, <1>7, RunLeft DEF RecycleFails, RowsMoved, rows, Block, Goto, OthersKept, Stages, SetStages, DiskStages, RunStages, Settled, Decided
<1>8. CASE Reformatted(g)
  <2>1. RowsMoved(g)
    BY <1>8 DEF Reformatted, RowsMoved
  <2>2. /\ OthersKept(g) /\ pc[g] \in (RunStages \cap Decided) \ Settled /\ pc'[g] \in RunStages \ Decided
        /\ job'[g] = job[g] /\ work'[g].run = work[g].run
    BY <1>1, <1>8 DEF Reformatted, rows, Goto, OthersKept, Stages, SetStages, DiskStages, RunStages, Settled, Decided, Work
  <2>3. Row(g)' = Row(g) \/ Row(g)' = [Row(g) EXCEPT !.status = "deleted"]
    BY <1>1, <1>8, <2>2, CurTypes DEF Reformatted, Row
  <2>4. RunOK(g)'
    BY <1>2, <2>2, <2>3 DEF RunInv, RunOK, CurDataset, BackupRun
  <2> QED
    BY <2>1, <2>2, <2>4 DEF MovesOn
<1> QED
  BY <1>3, <1>4, <1>5, <1>6, <1>7, <1>8 DEF Making

LEMMA ChoosingMoves ==
  ASSUME TypeInv, RunInv, NEW g \in Groups, Choosing(g)
  PROVE  MovesOn(g)
<1>1. /\ pc \in [Groups -> Stages] /\ work \in [Groups -> Work] /\ job \in [Groups -> Job]
      /\ work[g] \in Work /\ job[g] \in Job
  BY DEF TypeInv, TypeOK, WorkerOK
<1>2. pc[g] \in RunStages => Row(g) \in BackupRun
  BY CurTypes
<1>3. CASE Resolve(g)
  BY <1>1, <1>3, RunLeft DEF Resolve, RowsMoved, rows, Goto, OthersKept, Stages, SetStages, DiskStages, RunStages, Settled, Decided
<1>4. ASSUME NEW k, ChooseDisk(g, k)
      PROVE  MovesOn(g)
  BY <1>1, <1>4, RunLeft DEF ChooseDisk, RowsMoved, rows, Goto, OthersKept, Stages, SetStages, DiskStages, RunStages, Settled, Decided
<1>5. CASE NoUsableDisk(g)
  BY <1>1, <1>5, RunLeft DEF NoUsableDisk, RowsMoved, rows, Block, Goto, OthersKept, Stages, SetStages, DiskStages, RunStages, Settled, Decided
<1>6. CASE DatasetMissing(g)
  BY <1>1, <1>6, RunLeft DEF DatasetMissing, Insert, RowsMoved, rows, Count, Goto, OthersKept, Stages, SetStages, DiskStages, RunStages, Settled, Decided
<1>7. CASE NewRun(g)
  <2>1. OthersKept(g) /\ pc'[g] = "mount" /\ work'[g].run = Len(runs) + 1 /\ job' = job
    BY <1>1, <1>7 DEF NewRun, rows, Goto, OthersKept
  <2>2. runs \in Seq(BackupRun)
    BY DEF TypeInv, TypeOK, RowsOK
  <2>3. /\ RowsMoved(g) /\ Len(runs) + 1 \notin DOMAIN runs
        /\ runs'[Len(runs) + 1].ds = CurDataset(g) /\ runs'[Len(runs) + 1].status = "running"
    BY <1>7, <2>2 DEF NewRun, Insert, RowsMoved
  <2>4. RunOK(g)'
    BY <2>1, <2>3 DEF RunOK, Row, CurDataset, Settled, Decided
  <2> QED
    BY <2>1, <2>3, <2>4 DEF MovesOn
<1>8. CASE SetWritten(g)
  BY <1>1, <1>8, RunLeft DEF SetWritten, RowsMoved, rows, Goto, OthersKept, Stages, SetStages, DiskStages, RunStages, Settled, Decided
<1> QED
  BY <1>3, <1>4, <1>5, <1>6, <1>7, <1>8 DEF Choosing

LEMMA EndingMoves ==
  ASSUME TypeInv, RunInv, NEW g \in Groups, Ending(g)
  PROVE  MovesOn(g)
<1>1. /\ pc \in [Groups -> Stages] /\ work \in [Groups -> Work] /\ job \in [Groups -> Job]
      /\ work[g] \in Work /\ job[g] \in Job
  BY DEF TypeInv, TypeOK, WorkerOK
<1>2. pc[g] \in RunStages => Row(g) \in BackupRun
  BY CurTypes
<1>3. CASE Rotate(g)
  BY <1>1, <1>3, RunLeft DEF Rotate, RowsMoved, rows, Goto, OthersKept, Stages, SetStages, DiskStages, RunStages, Settled, Decided
<1>4. CASE CaptureConfig(g)
  BY <1>1, <1>4, RunLeft DEF CaptureConfig, RowsMoved, rows, Goto, OthersKept, Stages, SetStages, DiskStages, RunStages, Settled, Decided
<1>5. CASE Finish(g)
  BY <1>1, <1>5, RunLeft DEF Finish, RowsMoved, rows, Goto, OthersKept, Stages, SetStages, DiskStages, RunStages, Settled, Decided
<1> QED
  BY <1>3, <1>4, <1>5 DEF Ending

LEMMA WorkerMoves ==
  ASSUME TypeInv, RunInv, NEW g \in Groups, Worker(g)
  PROVE  MovesOn(g)
BY WritingMoves, SettlingMoves, MakingMoves, ChoosingMoves, EndingMoves DEF Worker

\* A step that starts, kills or recovers: the runs that go on are as they were.
LEMMA RunsStay ==
  ASSUME RunInv, runs' = runs,
         \A g \in Groups : pc'[g] \in RunStages =>
           pc'[g] = pc[g] /\ job'[g] = job[g] /\ work'[g] = work[g]
  PROVE  RunInv'
BY DEF RunInv, OwnRuns, RunOK, Row, CurDataset

LEMMA RunStepInv ==
  ASSUME TypeInv, OutcomeInv, RunInv, [Next]_vars
  PROVE  RunInv'
<1>1. /\ pc \in [Groups -> Stages] /\ work \in [Groups -> Work] /\ job \in [Groups -> Job]
  BY DEF TypeInv, TypeOK, WorkerOK
<1>2. ASSUME NEW g \in Groups, NEW trigger \in Triggers, Start(g, trigger)
      PROVE  RunInv'
  BY <1>1, <1>2, RunsStay DEF Start, Goto, RunStages, DiskStages, SetStages
<1>3. ASSUME NEW g \in Groups, Worker(g)
      PROVE  RunInv'
  BY <1>3, WorkerMoves, WorkerRuns
<1>4. ASSUME NEW g \in Groups, WorkerDies(g)
      PROVE  RunInv'
  BY <1>1, <1>4, RunsStay DEF WorkerDies, Goto, RunStages, DiskStages, SetStages
<1>5. CASE Crash
  BY <1>5, RunsStay DEF Crash, RunStages, DiskStages, SetStages
<1>6. CASE Recovery
  <2>1. \A g \in Groups : pc'[g] = "idle"
    BY <1>6 DEF Recovery, RecoverRun, Restart, OutcomeInv, OutcomeOK
  <2> QED
    BY <2>1 DEF RunInv, OwnRuns, RunOK, RunStages, DiskStages, SetStages
<1>7. ASSUME NEW k \in Disks, OperatorUnmounts(k)
      PROVE  RunInv'
  BY <1>7, RunsStay DEF OperatorUnmounts
<1>8. CASE UNCHANGED vars
  BY <1>8, RunsStay DEF vars
<1> QED
  BY <1>2, <1>3, <1>4, <1>5, <1>6, <1>7, <1>8 DEF Next

\* Each worker writes a row of its own, of the dataset it is at, whose outcome is
\* never ahead of the worker: no success before the commit, nothing running after.
THEOREM RunInvariant == Spec => [](TypeInv /\ OutcomeInv /\ RunInv)
<1>1. Init => RunInv
  BY DEF Init, RunInv, OwnRuns, RunOK, RunStages, DiskStages, SetStages
<1>2. TypeInv /\ OutcomeInv /\ RunInv /\ [Next]_vars => RunInv'
  BY RunStepInv
<1> QED
  BY <1>1, <1>2, OutcomeInvariant, PTL DEF Spec

-----------------------------------------------------------------------------
(* Rows that say running *)

\* Every running row has its worker.
Driven ==
  up => /\ \A g \in Groups : session[g].status = "running" => pc[g] # "idle"
        /\ \A i \in DOMAIN runs : runs[i].status = "running" =>
             \E g \in Groups : pc[g] \in RunStages /\ work[g].run = i

LEMMA DrivenIsProperty ==
  ASSUME TypeInv, OutcomeInv, Driven
  PROVE  RunningIsDriven
BY DEF OutcomeInv, OutcomeOK, Driven, RunningIsDriven, RunStages, DiskStages, SetStages

\* How the worker of g deals with rows that say running: it drives a run on,
\* or leaves it with an outcome, and drives the row it adds.
Drives(g) ==
  /\ session'[g].status = "running" => pc'[g] # "idle"
  /\ pc[g] \in RunStages =>
       /\ DOMAIN runs' = DOMAIN runs
       /\ IF pc'[g] \in RunStages THEN work'[g].run = work[g].run
          ELSE runs'[work[g].run].status # "running"
  /\ pc[g] \notin RunStages =>
       \A i \in DOMAIN runs' \ DOMAIN runs :
         runs'[i].status = "running" => pc'[g] \in RunStages /\ work'[g].run = i

LEMMA DrivesOn ==
  ASSUME NEW g \in Groups, pc[g] \in RunStages, pc'[g] \in RunStages,
         DOMAIN runs' = DOMAIN runs, work'[g].run = work[g].run
  PROVE  Drives(g)
BY DEF Drives, RunStages, DiskStages, SetStages

LEMMA DrivesOut ==
  ASSUME NEW g \in Groups, pc[g] \notin RunStages, pc'[g] # "idle", runs' = runs
  PROVE  Drives(g)
BY DEF Drives

LEMMA WritingDrives ==
  ASSUME TypeInv, RunInv, NEW g \in Groups, Writing(g)
  PROVE  Drives(g)
<1>1. /\ pc \in [Groups -> Stages] /\ work \in [Groups -> Work] /\ job \in [Groups -> Job]
      /\ work[g] \in Work /\ job[g] \in Job /\ session \in [Groups -> SessionRow]
  BY DEF TypeInv, TypeOK, WorkerOK, RowsOK
<1>2. /\ runs \in Seq(BackupRun) /\ RunOK(g)
      /\ pc[g] \in RunStages => work[g].run \in DOMAIN runs /\ Row(g) \in BackupRun
  BY CurTypes DEF TypeInv, TypeOK, RowsOK, RunInv
<1>3. CASE MountForRun(g)
  BY <1>1, <1>3, DrivesOn DEF MountForRun, Goto, Stages, SetStages, DiskStages, RunStages
<1>4. CASE ResolveAnchor(g)
  BY <1>1, <1>4, DrivesOn DEF ResolveAnchor, Goto, Stages, SetStages, DiskStages, RunStages
<1>4a. CASE AnchorUnlisted(g)
  BY <1>1, <1>4a, DrivesOn DEF AnchorUnlisted, Goto, Stages, SetStages, DiskStages, RunStages
<1>5. CASE ReuseSnapshot(g)
  BY <1>1, <1>5, DrivesOn DEF ReuseSnapshot, Goto, Stages, SetStages, DiskStages, RunStages
<1>6. ASSUME NEW t, TakeSnapshot(g, t)
      PROVE  Drives(g)
  BY <1>1, <1>6, DrivesOn DEF TakeSnapshot, Goto, Stages, SetStages, DiskStages, RunStages
<1>7. ASSUME NEW t, SnapshotFails(g, t)
      PROVE  Drives(g)
  <2>1. pc[g] \in RunStages /\ pc'[g] \in {"collide", "unmount"}
    BY <1>1, <1>7 DEF SnapshotFails, Goto, Stages, SetStages, DiskStages, RunStages
  <2>2. DOMAIN runs' = DOMAIN runs
    BY <1>7 DEF SnapshotFails, Save
  <2>3. work'[g].run = work[g].run
    BY <1>1, <1>7 DEF SnapshotFails, Work
  <2> QED
    BY <2>1, <2>2, <2>3, DrivesOn DEF Stages, SetStages, DiskStages, RunStages
<1>8. CASE DiscardFailedName(g)
  BY <1>1, <1>8, DrivesOn DEF DiscardFailedName, Goto, Save, Stages, SetStages, DiskStages, RunStages
<1>9. CASE RecordSnapshot(g)
  BY <1>1, <1>9, DrivesOn DEF RecordSnapshot, Goto, Save, Stages, SetStages, DiskStages, RunStages
<1>10. CASE Changed(g)
  BY <1>1, <1>10, DrivesOn DEF Changed, Goto, Stages, SetStages, DiskStages, RunStages
<1>11. CASE Unchanged(g)
  BY <1>1, <1>11, DrivesOn DEF Unchanged, Goto, Save, Stages, SetStages, DiskStages, RunStages
<1>12. CASE DropSkipped(g)
  BY <1>1, <1>12, DrivesOn DEF DropSkipped, Goto, Stages, SetStages, DiskStages, RunStages
<1>13. CASE Fits(g)
  BY <1>1, <1>13, DrivesOn DEF Fits, Goto, Stages, SetStages, DiskStages, RunStages
<1>14. CASE NeedsSpace(g)
  <2> DEFINE row == [Row(g) EXCEPT !.status = "failed"]
  <2>1. pc[g] = "capacity" /\ pc[g] \in RunStages /\ Save(g, row) /\ session' = session
    BY <1>14 DEF NeedsSpace, Stages, SetStages, DiskStages, RunStages
  <2>2. DOMAIN runs' = DOMAIN runs /\ runs'[work[g].run].status # "running"
    BY <1>2, <2>1, SavedRow DEF BackupRun
  <2>3. CASE Goto(g, "full") /\ work' = work
    BY <1>1, <2>1, <2>2, <2>3, DrivesOn DEF Goto, Stages, SetStages, DiskStages, RunStages
  <2>4. CASE \E stage \in {"dataset", "blocked"} : Goto(g, stage)
    BY <1>1, <2>1, <2>2, <2>4 DEF Drives, Goto, Stages, SetStages, DiskStages, RunStages
  <2>5. work[g].retry \in {"no", "advanced", "recycled"}
    BY <1>1 DEF Work
  <2> QED
    BY <1>14, <2>3, <2>4, <2>5 DEF NeedsSpace, Count, Block
<1>15. CASE SendDone(g)
  BY <1>1, <1>15, DrivesOn DEF SendDone, Goto, Stages, SetStages, DiskStages, RunStages
<1>16. CASE SendFails(g)
  BY <1>1, <1>16, DrivesOn DEF SendFails, Goto, Stages, SetStages, DiskStages, RunStages
<1>17. CASE DropFailed(g)
  BY <1>1, <1>17, DrivesOn DEF DropFailed, Goto, Save, Stages, SetStages, DiskStages, RunStages
<1>18. CASE CommitRun(g)
  BY <1>1, <1>18, DrivesOn DEF CommitRun, Goto, Save, Stages, SetStages, DiskStages, RunStages
<1> QED
  BY <1>3, <1>4, <1>4a, <1>5, <1>6, <1>7, <1>8, <1>9, <1>10, <1>11, <1>12, <1>13, <1>14, <1>15, <1>16, <1>17, <1>18 DEF Writing

LEMMA SettlingDrives ==
  ASSUME TypeInv, RunInv, NEW g \in Groups, Settling(g)
  PROVE  Drives(g)
<1>1. /\ pc \in [Groups -> Stages] /\ work \in [Groups -> Work] /\ job \in [Groups -> Job]
      /\ work[g] \in Work /\ job[g] \in Job /\ session \in [Groups -> SessionRow]
  BY DEF TypeInv, TypeOK, WorkerOK, RowsOK
<1>2. /\ runs \in Seq(BackupRun) /\ RunOK(g)
      /\ pc[g] \in RunStages => work[g].run \in DOMAIN runs /\ Row(g) \in BackupRun
  BY CurTypes DEF TypeInv, TypeOK, RowsOK, RunInv
<1>3. CASE PruneList(g)
  BY <1>1, <1>3, DrivesOn DEF PruneList, Goto, Stages, SetStages, DiskStages, RunStages
<1>4. ASSUME NEW t, PruneOne(g, t)
      PROVE  Drives(g)
  BY <1>1, <1>4, DrivesOn DEF PruneOne, Goto, Stages, SetStages, DiskStages, RunStages
<1>5. CASE PruneDone(g) \/ PruneSkipped(g)
  BY <1>1, <1>5, DrivesOn DEF PruneDone, PruneSkipped, Goto, Stages, SetStages, DiskStages, RunStages
<1>6. CASE RecordManifest(g)
  BY <1>1, <1>6, DrivesOn DEF RecordManifest, Goto, Stages, SetStages, DiskStages, RunStages
<1>7. CASE ManifestFails(g)
  BY <1>1, <1>7, DrivesOn DEF ManifestFails, Goto, Stages, SetStages, DiskStages, RunStages
<1>8. CASE RunErrs(g)
  BY <1>1, <1>8, DrivesOn DEF RunErrs, Goto, Save, Stages, SetStages, DiskStages, RunStages
<1>9. CASE Unmount(g)
  <2>1. /\ pc[g] \in RunStages \cap Decided /\ runs' = runs
        /\ pc'[g] \notin RunStages \cup {"idle"}
    BY <1>1, <1>9 DEF Unmount, Goto, Count, Stages, SetStages, DiskStages, RunStages, Decided, Settled
  <2> QED
    BY <1>2, <2>1 DEF Drives, RunOK, Row
<1> QED
  BY <1>3, <1>4, <1>5, <1>6, <1>7, <1>8, <1>9 DEF Settling

LEMMA MakingDrives ==
  ASSUME TypeInv, RunInv, NEW g \in Groups, Making(g)
  PROVE  Drives(g)
<1>1. /\ pc \in [Groups -> Stages] /\ work \in [Groups -> Work] /\ job \in [Groups -> Job]
      /\ work[g] \in Work /\ job[g] \in Job /\ session \in [Groups -> SessionRow]
  BY DEF TypeInv, TypeOK, WorkerOK, RowsOK
<1>2. /\ runs \in Seq(BackupRun) /\ RunOK(g)
      /\ pc[g] \in RunStages => work[g].run \in DOMAIN runs /\ Row(g) \in BackupRun
  BY CurTypes DEF TypeInv, TypeOK, RowsOK, RunInv
<1>3. CASE PutAwayFull(g)
  BY <1>1, <1>3, DrivesOn DEF PutAwayFull, Goto, Stages, SetStages, DiskStages, RunStages
<1>4. ASSUME NEW k, AdvanceTo(g, k)
      PROVE  Drives(g)
  BY <1>1, <1>4, DrivesOn DEF AdvanceTo, Goto, Save, Stages, SetStages, DiskStages, RunStages
<1>5. CASE NoRoomInSet(g)
  <2>1. pc[g] = "advance" /\ runs' = runs /\ work' = work /\ pc'[g] \in {"wipe", "blocked"}
    BY <1>1, <1>5 DEF NoRoomInSet, Block, Goto
  <2>2. pc[g] \in RunStages \cap Decided
    BY <2>1 DEF Stages, SetStages, DiskStages, RunStages, Decided
  <2>3. CASE pc'[g] = "wipe"
    BY <2>1, <2>2, <2>3, DrivesOn DEF Stages, SetStages, DiskStages, RunStages
  <2>4. CASE pc'[g] = "blocked"
    BY <1>2, <2>1, <2>2, <2>4 DEF Drives, RunOK, Row, Stages, SetStages, DiskStages, RunStages
  <2> QED
    BY <2>1, <2>3, <2>4
<1>6. CASE Wipe(g)
  BY <1>1, <1>6, DrivesOn DEF Wipe, Goto, Stages, SetStages, DiskStages, RunStages
<1>7. CASE RecycleFails(g)
  <2>1. /\ pc[g] \in RunStages \cap Decided /\ runs' = runs
        /\ pc'[g] \notin RunStages \cup {"idle"}
    BY <1>1, <1>7 DEF RecycleFails, Goto, Block, Stages, SetStages, DiskStages, RunStages, Decided, Settled
  <2> QED
    BY <1>2, <2>1 DEF Drives, RunOK, Row
<1>8. CASE Reformatted(g)
  BY <1>1, <1>8, DrivesOn DEF Reformatted, Goto, Stages, SetStages, DiskStages, RunStages
<1> QED
  BY <1>3, <1>4, <1>5, <1>6, <1>7, <1>8 DEF Making

LEMMA ChoosingDrives ==
  ASSUME TypeInv, RunInv, NEW g \in Groups, Choosing(g)
  PROVE  Drives(g)
<1>1. /\ pc \in [Groups -> Stages] /\ work \in [Groups -> Work] /\ job \in [Groups -> Job]
      /\ work[g] \in Work /\ job[g] \in Job /\ session \in [Groups -> SessionRow]
  BY DEF TypeInv, TypeOK, WorkerOK, RowsOK
<1>2. /\ runs \in Seq(BackupRun) /\ RunOK(g)
      /\ pc[g] \in RunStages => work[g].run \in DOMAIN runs /\ Row(g) \in BackupRun
  BY CurTypes DEF TypeInv, TypeOK, RowsOK, RunInv
<1>3. CASE Resolve(g)
  BY <1>1, <1>3, DrivesOut DEF Resolve, Goto, Stages, SetStages, DiskStages, RunStages
<1>4. ASSUME NEW k, ChooseDisk(g, k)
      PROVE  Drives(g)
  BY <1>1, <1>4, DrivesOut DEF ChooseDisk, Goto, Stages, SetStages, DiskStages, RunStages
<1>5. CASE NoUsableDisk(g)
  BY <1>1, <1>5, DrivesOut DEF NoUsableDisk, Goto, Block, Stages, SetStages, DiskStages, RunStages
<1>6. CASE DatasetMissing(g)
  BY <1>1, <1>2, <1>6 DEF DatasetMissing, Insert, Goto, Count, Drives, Stages, SetStages, DiskStages, RunStages
<1>7. CASE NewRun(g)
  BY <1>1, <1>2, <1>7 DEF NewRun, Insert, Goto, Drives, Stages, SetStages, DiskStages, RunStages
<1>8. CASE SetWritten(g)
  BY <1>1, <1>8, DrivesOut DEF SetWritten, Goto, Stages, SetStages, DiskStages, RunStages
<1> QED
  BY <1>3, <1>4, <1>5, <1>6, <1>7, <1>8 DEF Choosing

LEMMA EndingDrives ==
  ASSUME TypeInv, RunInv, NEW g \in Groups, Ending(g)
  PROVE  Drives(g)
<1>1. /\ pc \in [Groups -> Stages] /\ work \in [Groups -> Work] /\ job \in [Groups -> Job]
      /\ work[g] \in Work /\ job[g] \in Job /\ session \in [Groups -> SessionRow]
  BY DEF TypeInv, TypeOK, WorkerOK, RowsOK
<1>2. /\ runs \in Seq(BackupRun) /\ RunOK(g)
      /\ pc[g] \in RunStages => work[g].run \in DOMAIN runs /\ Row(g) \in BackupRun
  BY CurTypes DEF TypeInv, TypeOK, RowsOK, RunInv
<1>3. CASE Rotate(g)
  BY <1>1, <1>3, DrivesOut DEF Rotate, Goto, Stages, SetStages, DiskStages, RunStages
<1>4. CASE CaptureConfig(g)
  BY <1>1, <1>4, DrivesOut DEF CaptureConfig, Goto, Stages, SetStages, DiskStages, RunStages
<1>5. CASE Finish(g)
  BY <1>1, <1>5 DEF Finish, Goto, Drives, Stages, SetStages, DiskStages, RunStages, SessionRow
<1> QED
  BY <1>3, <1>4, <1>5 DEF Ending

LEMMA WorkerDrives ==
  ASSUME TypeInv, OutcomeInv, RunInv, Driven, NEW g \in Groups, Worker(g)
  PROVE  Driven'
<1>1. Drives(g) /\ MovesOn(g) /\ SettledBy(g)
  BY WritingDrives, SettlingDrives, MakingDrives, ChoosingDrives, EndingDrives,
     WorkerMoves, WorkerSettles DEF Worker
<1>2. SUFFICES ASSUME up'
               PROVE  Driven'
  BY DEF Driven
<1>3. up
  BY <1>1, <1>2 DEF SettledBy
<1>4. ASSUME NEW h \in Groups, session'[h].status = "running"
      PROVE  pc'[h] # "idle"
  BY <1>1, <1>3, <1>4 DEF Drives, SettledBy, Driven
<1>5. ASSUME NEW i \in DOMAIN runs', runs'[i].status = "running"
      PROVE  \E h \in Groups : pc'[h] \in RunStages /\ work'[h].run = i
  <2>1. CASE pc[g] \in RunStages /\ work[g].run = i
    BY <1>1, <1>5, <2>1 DEF Drives
  <2>2. CASE i \in DOMAIN runs /\ ~(pc[g] \in RunStages /\ work[g].run = i)
    <3>1. runs \in Seq(BackupRun)
      BY DEF TypeInv, TypeOK, RowsOK
    <3>2. runs'[i] = runs[i] \/ runs'[i] = [runs[i] EXCEPT !.status = "deleted"]
      BY <1>1, <2>2 DEF MovesOn, RowsMoved
    <3>3. runs[i].status = "running"
      <4>1. runs[i] \in BackupRun
        BY <2>2, <3>1
      <4> QED
        BY <1>5, <3>2, <4>1 DEF BackupRun
    <3>4. PICK h \in Groups : pc[h] \in RunStages /\ work[h].run = i
      BY <1>3, <2>2, <3>3 DEF Driven
    <3> QED
      BY <1>1, <2>2, <3>4 DEF MovesOn, OthersKept
  <2>3. CASE i \notin DOMAIN runs
    BY <1>1, <1>5, <2>3 DEF Drives
  <2> QED
    BY <2>1, <2>2, <2>3
<1> QED
  BY <1>4, <1>5 DEF Driven

LEMMA DrivenStep ==
  ASSUME "death" \notin Faults, TypeInv, OutcomeInv, RunInv, Driven, [Next]_vars
  PROVE  Driven'
<1>1. /\ pc \in [Groups -> Stages] /\ session \in [Groups -> SessionRow]
      /\ runs \in Seq(BackupRun)
  BY DEF TypeInv, TypeOK, WorkerOK, RowsOK
<1>2. ASSUME NEW g \in Groups, NEW trigger \in Triggers, Start(g, trigger)
      PROVE  Driven'
  <2>1. up /\ pc[g] = "idle" /\ pc' = [pc EXCEPT ![g] = "resolve"]
    BY <1>2 DEF Start, Goto, OutcomeInv, OutcomeOK
  <2>2. \A h \in Groups : session'[h].status = "running" => pc'[h] # "idle"
    BY <1>1, <1>2, <2>1 DEF Start, Driven
  <2>3. \A h \in Groups : pc[h] \in RunStages => pc'[h] \in RunStages
    BY <1>1, <2>1 DEF RunStages, DiskStages, SetStages
  <2> QED
    BY <1>2, <2>1, <2>2, <2>3 DEF Start, Driven
<1>3. ASSUME NEW g \in Groups, Worker(g)
      PROVE  Driven'
  BY <1>3, WorkerDrives
<1>4. ASSUME NEW g \in Groups, WorkerDies(g)
      PROVE  FALSE
  BY <1>4 DEF WorkerDies
<1>5. CASE Crash
  BY <1>5 DEF Crash, Driven
<1>6. ASSUME NEW i \in DOMAIN runs, RecoverRun(i)
      PROVE  Driven'
  BY <1>6 DEF RecoverRun, proc, Driven
<1>7. CASE Restart
  <2>1. \A h \in Groups : session'[h].status # "running"
    BY <1>1, <1>7 DEF Restart, OrphanSession, SessionRow
  <2>2. \A i \in DOMAIN runs' : runs'[i].status # "running"
    BY <1>1, <1>7 DEF Restart, OrphanRun, BackupRun
  <2> QED
    BY <2>1, <2>2 DEF Driven
<1>8. ASSUME NEW k \in Disks, OperatorUnmounts(k)
      PROVE  Driven'
  BY <1>8 DEF OperatorUnmounts, proc, Driven
<1>9. CASE UNCHANGED vars
  BY <1>9 DEF vars, proc, Driven
<1> QED
  BY <1>2, <1>3, <1>4, <1>5, <1>6, <1>7, <1>8, <1>9 DEF Next, Recovery

\* While the process serves, a row that says running has its worker and a
\* running session its coroutine, across crashes and recoveries, as long as no
\* worker dies of a command timeout outside the try of backup_dataset.
THEOREM RunningIsDrivenCorrect ==
  ASSUME "death" \notin Faults
  PROVE  Spec => []RunningIsDriven
<1>1. Init => Driven
  BY DEF Init, Driven
<1>2. TypeInv /\ OutcomeInv /\ RunInv /\ Driven /\ [Next]_vars => Driven'
  BY DrivenStep
<1>3. TypeInv /\ OutcomeInv /\ Driven => RunningIsDriven
  BY DrivenIsProperty
<1> QED
  BY <1>1, <1>2, <1>3, RunInvariant, PTL DEF Spec

-----------------------------------------------------------------------------
(* Snapshots that successful runs name *)

\* The snapshots of a dataset that the clock has passed: their second is never
\* given to another one.
Past(d) == { t \in snaps[d] : t < clock }

\* Stages at which the row carries the snapshot of the run, unless deleted.
Recorded == {"diff", "capacity", "send", "commit"}

\* Until a run is settled no successful run names its snapshot, and the base
\* and the anchor it was given are there; what it prunes no run names.
SnapOK(g) ==
  pc[g] \in RunStages =>
    /\ work[g].snap # None => work[g].snap <= clock
    /\ pc[g] \in Recorded => Row(g).status = "deleted" \/ Row(g).snap = work[g].snap
    /\ pc[g] \notin Settled =>
         /\ Row(g).snap \notin Referenced(CurDataset(g))
         /\ work[g].snap \notin Referenced(CurDataset(g))
         /\ {work[g].base, work[g].anchor} \ {None} \subseteq Past(CurDataset(g))
    /\ pc[g] = "commit" => {work[g].snap} \ {None} \subseteq Past(CurDataset(g))
    /\ pc[g] = "prune" => work[g].doomed \cap Referenced(CurDataset(g)) = {}

\* A row that says running may be taken for an orphan: no successful run names
\* its snapshot, and no other run of its dataset is under way.
Leftover(i) ==
  /\ runs[i].snap \notin Referenced(runs[i].ds)
  /\ \A g \in Groups : runs[i].ds \in Ran(Members[g]) =>
       /\ session[g].status = "running"
       /\ pc[g] # "idle" => pc[g] \in RunStages /\ work[g].run = i

SnapInv ==
  /\ \A i \in DOMAIN runs : IsSuccess(i) => RefsOf(runs[i]) \subseteq Past(runs[i].ds)
  /\ \A i \in DOMAIN runs : runs[i].status = "running" => Leftover(i)
  /\ \A g \in Groups : SnapOK(g)

\* A step of the worker of g takes no snapshot a successful run names, touches
\* no other dataset, and makes a success only of what is in the pool.
SnapsMoved(g) ==
  /\ clock <= clock'
  /\ pc[g] \notin RunStages => snaps' = snaps
  /\ \A e \in Datasets : snaps'[e] = snaps[e] \/ (pc[g] \in RunStages /\ e = CurDataset(g))
  /\ pc[g] \in RunStages =>
       snaps[CurDataset(g)] \cap Referenced(CurDataset(g)) \subseteq snaps'[CurDataset(g)]

Successes(g) ==
  \A i \in DOMAIN runs' : runs'[i].status = "success" =>
    \/ i \in DOMAIN runs /\ runs'[i] = runs[i]
    \/ /\ pc[g] \in RunStages /\ runs'[i].ds = CurDataset(g)
       /\ \A d \in Datasets : d = CurDataset(g) => RefsOf(runs'[i]) \subseteq Past(d)'

SnapStep(g) == SnapsMoved(g) /\ Successes(g) /\ SnapOK(g)'

LEMMA ReferencedMember ==
  ASSUME NEW d, NEW t
  PROVE  t \in Referenced(d) <=>
           \E i \in DOMAIN runs : runs[i].ds = d /\ IsSuccess(i) /\ t \in RefsOf(runs[i])
BY DEF Referenced

LEMMA ReferencedPast ==
  ASSUME SnapInv, NEW d
  PROVE  Referenced(d) \subseteq Past(d)
BY ReferencedMember DEF SnapInv

\* No success is made of a row of dataset d: what it references shrinks.
LEMMA ReferencedShrinks ==
  ASSUME NEW d,
         \A i \in DOMAIN runs' : runs'[i].status = "success" /\ runs'[i].ds = d =>
           i \in DOMAIN runs /\ runs'[i] = runs[i]
  PROVE  Referenced(d)' \subseteq Referenced(d)
BY DEF Referenced, IsSuccess

\* Under Exclusive the runs under way are of different datasets.
LEMMA OwnDataset ==
  ASSUME TypeInv, Exclusive, NEW g \in Groups, pc[g] \in RunStages
  PROVE  /\ CurDataset(g) \in Ran(Members[g])
         /\ \A h \in Groups : CurDataset(g) \in Ran(Members[h]) => h = g
<1>1. CurDataset(g) \in Ran(Members[g])
  BY DEF TypeInv, JobOK, CurDataset, Ran
<1> QED
  BY <1>1 DEF Exclusive

LEMMA OthersSnapOK ==
  ASSUME TypeInv, TypeInv', Exclusive, RunInv, SnapInv, NEW g \in Groups,
         MovesOn(g), SnapStep(g), NEW h \in Groups, h # g
  PROVE  SnapOK(h)'
<1>1. SUFFICES ASSUME pc[h] \in RunStages
               PROVE  SnapOK(h)'
  BY DEF MovesOn, OthersKept, SnapOK
<1>2. PICK e \in Datasets : e = CurDataset(h)
  BY <1>1, CurTypes
<1>3. /\ pc'[h] = pc[h] /\ work'[h] = work[h] /\ CurDataset(h)' = e
      /\ work[h].run \in DOMAIN runs /\ Row(h) \in BackupRun
  BY <1>1, <1>2, CurTypes DEF MovesOn, OthersKept, CurDataset
<1>4. e \in Ran(Members[h]) /\ e \notin Ran(Members[g])
  BY <1>1, <1>2, OwnDataset DEF Exclusive
<1>5. ~(pc[g] \in RunStages /\ e = CurDataset(g))
  BY <1>4, OwnDataset
<1>6. snaps'[e] = snaps[e] /\ clock <= clock' /\ clock \in Nat /\ clock' \in Nat
  BY <1>3, <1>5 DEF SnapStep, SnapsMoved, TypeInv, TypeOK, StoreOK
<1>7. Referenced(e)' \subseteq Referenced(e)
  BY <1>5, ReferencedShrinks DEF SnapStep, Successes
<1>8. Row(h)'.snap = Row(h).snap /\ (Row(h)'.status = Row(h).status \/ Row(h)'.status = "deleted")
  <2>1. Row(h)' = runs'[work[h].run]
    BY <1>3 DEF Row
  <2>2. runs'[work[h].run] = Row(h) \/ runs'[work[h].run] = [Row(h) EXCEPT !.status = "deleted"]
    <3>1. ~(pc[g] \in RunStages /\ work[h].run = work[g].run)
      BY <1>1 DEF RunInv, OwnRuns
    <3> QED
      BY <1>3, <3>1 DEF MovesOn, RowsMoved, Row
  <2> QED
    BY <1>3, <2>1, <2>2 DEF BackupRun
<1>9. snaps[e] \subseteq Nat
  BY <1>3 DEF TypeInv, TypeOK, StoreOK, Seconds
<1>10. Past(e) \subseteq Past(e)'
  BY <1>6, <1>9 DEF Past
<1>11. work[h].snap # None => work[h].snap \in Nat
  BY DEF TypeInv, TypeOK, WorkerOK, Work, Second
<1>12. SnapOK(h)
  BY DEF SnapInv
<1> QED
  BY <1>1, <1>2, <1>3, <1>6, <1>7, <1>8, <1>10, <1>11, <1>12 DEF SnapOK

LEMMA RunningStays ==
  ASSUME TypeInv, TypeInv', OutcomeInv, OutcomeInv', Exclusive, RunInv, RunInv', SnapInv,
         NEW g \in Groups, pc[g] # "idle", MovesOn(g), Drives(g), SettledBy(g), SnapStep(g),
         NEW i \in DOMAIN runs', runs'[i].status = "running"
  PROVE  Leftover(i)'
<1>1. CASE pc'[g] \in RunStages /\ work'[g].run = i
  <2>1. /\ SnapOK(g)' /\ RunOK(g)' /\ OutcomeOK(g)'
    BY DEF SnapStep, RunInv, OutcomeInv
  <2>2. Row(g)' = runs'[i]
    BY <1>1 DEF Row
  <2>3. /\ runs'[i].ds = CurDataset(g)'
        /\ runs'[i].snap \notin Referenced(CurDataset(g))'
    BY <1>1, <2>1, <2>2 DEF RunOK, SnapOK, Decided
  <2>4. \A h \in Groups : CurDataset(g)' \in Ran(Members[h]) => h = g
    <3>1. CurDataset(g)' \in Ran(Members[g])
      BY <1>1 DEF TypeInv, JobOK, CurDataset, Ran
    <3> QED
      BY <3>1 DEF Exclusive
  <2>5. session'[g].status = "running"
    BY <1>1, <2>1 DEF OutcomeOK, RunStages, DiskStages, SetStages
  <2> QED
    BY <1>1, <2>3, <2>4, <2>5 DEF Leftover
<1>2. CASE ~(pc'[g] \in RunStages /\ work'[g].run = i)
  <2>1. i \in DOMAIN runs /\ ~(pc[g] \in RunStages /\ work[g].run = i)
    BY <1>2 DEF Drives
  <2>2. runs[i] \in BackupRun
    BY <2>1 DEF TypeInv, TypeOK, RowsOK
  <2>3. runs'[i] = runs[i]
    <3>1. runs'[i] = runs[i] \/ runs'[i] = [runs[i] EXCEPT !.status = "deleted"]
      BY <2>1 DEF MovesOn, RowsMoved
    <3> QED
      BY <2>2, <3>1 DEF BackupRun
  <2>4. Leftover(i)
    BY <2>1, <2>3 DEF SnapInv
  <2>5. PICK e \in Datasets : e = runs[i].ds
    BY <2>2 DEF BackupRun
  <2>6. e \notin Ran(Members[g])
    BY <2>1, <2>4, <2>5 DEF Leftover
  <2>7. ~(pc[g] \in RunStages /\ e = CurDataset(g))
    BY <2>6, OwnDataset
  <2>8. Referenced(e)' \subseteq Referenced(e)
    BY <2>7, ReferencedShrinks DEF SnapStep, Successes
  <2>9. ASSUME NEW h \in Groups, e \in Ran(Members[h])
        PROVE  /\ session'[h].status = "running"
               /\ pc'[h] # "idle" => pc'[h] \in RunStages /\ work'[h].run = i
    <3>1. h # g
      BY <2>6, <2>9
    <3>2. pc'[h] = pc[h] /\ work'[h] = work[h] /\ session'[h] = session[h]
      BY <3>1 DEF MovesOn, OthersKept, SettledBy
    <3> QED
      BY <2>4, <2>5, <2>9, <3>2 DEF Leftover
  <2> QED
    BY <2>3, <2>4, <2>5, <2>8, <2>9 DEF Leftover
<1> QED
  BY <1>1, <1>2

LEMMA ReferencedStays ==
  ASSUME TypeInv, TypeInv', SnapInv, NEW g \in Groups, SnapStep(g),
         NEW i \in DOMAIN runs', runs'[i].status = "success"
  PROVE  (RefsOf(runs[i]) \subseteq Past(runs[i].ds))'
<1>1. CASE i \in DOMAIN runs /\ runs'[i] = runs[i]
  <2>1. runs[i] \in BackupRun
    BY <1>1 DEF TypeInv, TypeOK, RowsOK
  <2>2. PICK d \in Datasets : d = runs[i].ds
    BY <2>1 DEF BackupRun
  <2>3. /\ RefsOf(runs[i]) \subseteq Past(d)
        /\ RefsOf(runs[i]) \subseteq Referenced(d)
    BY <1>1, <2>2, ReferencedMember DEF SnapInv, IsSuccess
  <2>4. /\ clock \in Nat /\ clock' \in Nat /\ clock <= clock'
        /\ snaps[d] \subseteq Nat
    BY DEF TypeInv, TypeOK, StoreOK, Seconds, SnapStep, SnapsMoved
  <2>5. snaps[d] \cap Referenced(d) \subseteq snaps'[d]
    BY DEF SnapStep, SnapsMoved
  <2>6. RefsOf(runs[i]) \subseteq Past(d)'
    BY <2>3, <2>4, <2>5 DEF Past
  <2> QED
    BY <1>1, <2>2, <2>6
<1>2. CASE /\ pc[g] \in RunStages /\ runs'[i].ds = CurDataset(g)
           /\ \A d \in Datasets : d = CurDataset(g) => RefsOf(runs'[i]) \subseteq Past(d)'
  <2>1. PICK d \in Datasets : d = CurDataset(g)
    BY <1>2, CurTypes
  <2> QED
    BY <1>2, <2>1
<1> QED
  BY <1>1, <1>2 DEF SnapStep, Successes

LEMMA WorkerSnaps ==
  ASSUME TypeInv, TypeInv', OutcomeInv, OutcomeInv', Exclusive, RunInv, RunInv', SnapInv,
         NEW g \in Groups, pc[g] # "idle", MovesOn(g), Drives(g), SettledBy(g), SnapStep(g)
  PROVE  SnapInv'
<1>1. \A h \in Groups : SnapOK(h)'
  BY OthersSnapOK DEF SnapStep
<1>2. \A i \in DOMAIN runs' : runs'[i].status = "running" => Leftover(i)'
  BY RunningStays
<1>3. \A i \in DOMAIN runs' : runs'[i].status = "success" =>
        (RefsOf(runs[i]) \subseteq Past(runs[i].ds))'
  BY ReferencedStays
<1> QED
  BY <1>1, <1>2, <1>3 DEF SnapInv, IsSuccess

\* Steps that leave the pool alone, that destroy what no successful run names,
\* that write a row which is no success, that settle a run, that are in none.
LEMMA PoolStill ==
  ASSUME TypeInv, NEW g \in Groups, snaps' = snaps, clock' = clock
  PROVE  SnapsMoved(g)
<1>1. clock \in Nat
  BY DEF TypeInv, TypeOK, StoreOK
<1>2. clock <= clock'
  BY <1>1
<1> QED
  BY <1>2 DEF SnapsMoved

LEMMA DestroyKeeps ==
  ASSUME TypeInv, NEW g \in Groups, pc[g] \in RunStages, clock' = clock,
         NEW T, T \cap Referenced(CurDataset(g)) = {}, Destroy(CurDataset(g), T)
  PROVE  SnapsMoved(g)
<1>1. snaps \in [Datasets -> SUBSET Seconds] /\ clock \in Nat /\ CurDataset(g) \in Datasets
  BY CurTypes DEF TypeInv, TypeOK, StoreOK
<1>2. clock <= clock'
  BY <1>1
<1>3. CASE snaps' = snaps
  BY <1>2, <1>3 DEF SnapsMoved
<1>4. CASE snaps' = [snaps EXCEPT ![CurDataset(g)] = @ \ (T \ Held(CurDataset(g)))]
  <2>1. /\ \A e \in Datasets : e # CurDataset(g) => snaps'[e] = snaps[e]
        /\ snaps[CurDataset(g)] \ T \subseteq snaps'[CurDataset(g)]
    BY <1>1, <1>4
  <2> QED
    BY <1>2, <2>1 DEF SnapsMoved
<1> QED
  BY <1>3, <1>4 DEF Destroy

LEMMA NoNewSuccess ==
  ASSUME TypeInv, NEW g \in Groups, pc[g] \in RunStages, NEW row, Save(g, row),
         row.status # "success"
  PROVE  Successes(g)
<1>1. Row(g) = runs[work[g].run]
  BY DEF Row
<1> QED
  BY <1>1, SavedRow DEF Successes

LEMMA SnapSettles ==
  ASSUME TypeInv, SnapInv, NEW g \in Groups, pc[g] \in RunStages, pc'[g] = "unmount",
         work'[g].snap = work[g].snap, SnapsMoved(g), Successes(g), clock' \in Nat
  PROVE  SnapStep(g)
<1>1. work[g].snap # None => work[g].snap <= clock
  BY DEF SnapInv, SnapOK
<1>2. /\ clock \in Nat /\ clock <= clock'
      /\ work[g].snap # None => work[g].snap \in Nat
  BY DEF TypeInv, TypeOK, StoreOK, WorkerOK, Work, Second, SnapsMoved
<1>3. SnapOK(g)'
  BY <1>1, <1>2 DEF SnapOK, Settled, Recorded
<1> QED
  BY <1>3 DEF SnapStep

LEMMA SnapOut ==
  ASSUME TypeInv, NEW g \in Groups, snaps' = snaps, clock' = clock,
         pc'[g] \notin RunStages, Successes(g)
  PROVE  SnapStep(g)
BY PoolStill DEF SnapStep, SnapOK

LEMMA SnapStill ==
  ASSUME TypeInv, SnapInv, NEW g \in Groups, pc[g] \in RunStages, pc'[g] \in RunStages,
         runs' = runs, snaps' = snaps, clock' = clock,
         job'[g].item = job[g].item, work'[g].run = work[g].run,
         work'[g].snap = work[g].snap, work'[g].base = work[g].base,
         work'[g].anchor = work[g].anchor,
         pc'[g] \notin Settled => pc[g] \notin Settled,
         pc'[g] \in Recorded => pc[g] \in Recorded,
         pc'[g] \notin {"commit", "prune"}
  PROVE  SnapStep(g)
<1>1. SnapsMoved(g) /\ Successes(g)
  BY PoolStill DEF Successes
<1>2. SnapOK(g)
  BY DEF SnapInv
<1>3. Row(g)' = Row(g) /\ CurDataset(g)' = CurDataset(g)
  BY DEF Row, CurDataset
<1>4. /\ Referenced(CurDataset(g))' = Referenced(CurDataset(g))
      /\ Past(CurDataset(g))' = Past(CurDataset(g))
  BY <1>3 DEF Referenced, IsSuccess, Past
<1>5. SnapOK(g)'
  BY <1>2, <1>3, <1>4 DEF SnapOK
<1> QED
  BY <1>1, <1>5 DEF SnapStep

LEMMA LargestIndex ==
  ASSUME NEW n \in Nat, NEW S \in SUBSET (1..n), S # {}
  PROVE  \E x \in S : \A y \in S : y <= x
<1> DEFINE R == { n - x : x \in S }
<1>1. R \in SUBSET Nat /\ R # {}
  <2>1. \A x \in S : n - x \in Nat
    OBVIOUS
  <2>2. \A z \in R : z \in Nat
    BY <2>1
  <2>3. PICK x \in S : TRUE
    OBVIOUS
  <2>4. n - x \in R
    BY <2>3
  <2> QED
    BY <2>2, <2>4
<1>2. PICK z \in R : \A y \in R : z <= y
  BY <1>1, SmallestNat
<1>3. PICK x \in S : z = n - x
  BY <1>2
<1>4. \A y \in S : n - x <= n - y
  BY <1>2, <1>3
<1> QED
  BY <1>4

\* The base and the anchor that are resolved are named by successful runs.
LEMMA AnchorPast ==
  ASSUME TypeInv, SnapInv, NEW s \in Sets, NEW d \in Datasets
  PROVE  {SetAnchor(s, d), FullAnchor(s, d)} \ {None} \subseteq Past(d)
<1> DEFINE I == { i \in SuccessIn(s, d) : runs[i].snap # None }
           F == { i \in SuccessIn(s, d) : runs[i].type = "full" }
<1>1. ASSUME NEW i \in SuccessIn(s, d), runs[i].snap # None
      PROVE  runs[i].snap \in Past(d)
  BY <1>1 DEF SuccessIn, SnapInv, RefsOf
<1>2. runs \in Seq(BackupRun)
  BY DEF TypeInv, TypeOK, RowsOK
<1>3. SuccessIn(s, d) \subseteq 1..Len(runs) /\ Len(runs) \in Nat
  BY <1>2 DEF SuccessIn
<1>4. I # {} => AnchorRun(s, d) \in I
  <2>1. I \in SUBSET (1..Len(runs))
    BY <1>3
  <2>2. I # {} => \E x \in I : \A y \in I : y <= x
    BY <1>3, <2>1, LargestIndex
  <2> QED
    BY <2>2 DEF AnchorRun, Newest
<1>5. F # {} => Oldest(F) \in F
  <2>1. F \in SUBSET Nat
    BY <1>3
  <2>2. F # {} => \E x \in F : \A y \in F : x <= y
    BY <2>1, SmallestNat
  <2> QED
    BY <2>2 DEF Oldest
<1>6. SetAnchor(s, d) # None => SetAnchor(s, d) \in Past(d)
  BY <1>1, <1>4 DEF SetAnchor
<1>7. FullAnchor(s, d) # None => FullAnchor(s, d) \in Past(d)
  BY <1>1, <1>5 DEF FullAnchor
<1> QED
  BY <1>6, <1>7

\* A step within a run, before it is settled, that writes its row.
LEMMA SnapRow ==
  ASSUME TypeInv, SnapInv, NEW g \in Groups, pc[g] \in RunStages \ Settled, pc'[g] \in RunStages,
         NEW row, Save(g, row), row.status # "success",
         row.snap \in {Row(g).snap, work[g].snap},
         pc'[g] \in Recorded => row.snap = work[g].snap,
         pc'[g] \notin {"commit", "prune"},
         snaps' = snaps, clock' = clock, job'[g].item = job[g].item,
         work'[g].run = work[g].run, work'[g].snap = work[g].snap,
         work'[g].base = work[g].base, work'[g].anchor = work[g].anchor
  PROVE  SnapStep(g)
<1>1. SnapsMoved(g) /\ Successes(g)
  BY PoolStill, NoNewSuccess
<1>2. SnapOK(g)
  BY DEF SnapInv
<1>3. PICK d \in Datasets : d = CurDataset(g)
  BY CurTypes
<1>4. /\ CurDataset(g)' = d /\ Past(d)' = Past(d)
      /\ Row(g)' = row \/ (Row(g)' = Row(g) /\ Row(g).status = "deleted")
  BY <1>3, SavedRow DEF CurDataset, Past, Row
<1>5. Referenced(d)' \subseteq Referenced(d)
  <2>1. \A i \in DOMAIN runs' : runs'[i].status = "success" => i \in DOMAIN runs /\ runs'[i] = runs[i]
    BY SavedRow DEF Row
  <2> QED
    BY <2>1, ReferencedShrinks
<1>6. SnapOK(g)'
  BY <1>2, <1>3, <1>4, <1>5 DEF SnapOK
<1> QED
  BY <1>1, <1>6 DEF SnapStep

\* The run takes the name of a second, whether the snapshot is made or not.
LEMMA SnapNamed ==
  ASSUME TypeInv, SnapInv, NEW g \in Groups, pc[g] = "snapshot", pc'[g] \in {"record", "collide"},
         NEW t \in {clock, clock + 1}, clock' = t, runs' = runs, job' = job,
         work' = [work EXCEPT ![g].snap = t],
         \/ snaps' = snaps
         \/ snaps' = [snaps EXCEPT ![CurDataset(g)] = @ \cup {t}]
  PROVE  SnapStep(g)
<1>1. PICK d \in Datasets : d = CurDataset(g)
  BY CurTypes DEF Stages, SetStages, DiskStages, RunStages
<1>2. clock \in Nat /\ t \in Nat /\ clock <= t /\ snaps \in [Datasets -> SUBSET Nat] /\ work[g] \in Work
      /\ work \in [Groups -> Work]
  BY DEF TypeInv, TypeOK, StoreOK, WorkerOK, Seconds
<1>3. pc[g] \in RunStages \ Settled /\ pc'[g] \in RunStages \ (Settled \cup Recorded)
  BY DEF Stages, SetStages, DiskStages, RunStages, Settled, Recorded
<1>4. SnapOK(g)
  BY DEF SnapInv
<1>5. /\ CurDataset(g)' = d /\ Row(g)' = Row(g)
      /\ work'[g].snap = t /\ work'[g].base = work[g].base /\ work'[g].anchor = work[g].anchor
  BY <1>1, <1>2 DEF CurDataset, Row, Work
<1>6. Referenced(d)' = Referenced(d)
  BY DEF Referenced, IsSuccess
<1>7. /\ \A e \in Datasets \ {d} : snaps'[e] = snaps[e]
      /\ snaps[d] \subseteq snaps'[d]
  BY <1>1, <1>2
<1>8. Past(d) \subseteq Past(d)'
  BY <1>2, <1>7 DEF Past
<1>9. t \notin Referenced(d)
  BY <1>2, ReferencedPast DEF Past
<1>10. SnapsMoved(g) /\ Successes(g)
  BY <1>1, <1>2, <1>3, <1>7 DEF SnapsMoved, Successes
<1>11. SnapOK(g)'
  BY <1>1, <1>2, <1>3, <1>4, <1>5, <1>6, <1>8, <1>9 DEF SnapOK
<1> QED
  BY <1>10, <1>11 DEF SnapStep

LEMMA WritingSnaps ==
  ASSUME TypeInv, TypeInv', RunInv, SnapInv, NEW g \in Groups, Writing(g)
  PROVE  SnapStep(g)
<1>1. /\ pc \in [Groups -> Stages] /\ work \in [Groups -> Work] /\ job \in [Groups -> Job]
      /\ work[g] \in Work /\ job[g] \in Job /\ clock' \in Nat
  BY DEF TypeInv, TypeOK, WorkerOK, StoreOK
<1>2. /\ runs \in Seq(BackupRun)
      /\ pc[g] \in RunStages =>
           CurDataset(g) \in Datasets /\ work[g].run \in DOMAIN runs /\ Row(g) \in BackupRun
  BY CurTypes DEF TypeInv, TypeOK, RowsOK
<1>3. CASE MountForRun(g)
  BY <1>1, <1>3, SnapStill DEF MountForRun, Goto, disks, Work, Stages, SetStages, DiskStages, RunStages, Settled, Recorded
<1>4. CASE ResolveAnchor(g)
  <2>1. PICK d \in Datasets : d = CurDataset(g)
    BY <1>2, <1>4 DEF ResolveAnchor, Stages, SetStages, DiskStages, RunStages, Settled, Recorded
  <2>2. /\ pc[g] \in RunStages \ Settled /\ pc'[g] = "snapshot"
        /\ runs' = runs /\ snaps' = snaps /\ clock' = clock /\ job' = job
        /\ work'[g].run = work[g].run /\ work'[g].snap = work[g].snap
    BY <1>1, <1>4 DEF ResolveAnchor, Goto, disks, Work, Stages, SetStages, DiskStages, RunStages, Settled, Recorded
  <2>3. /\ work'[g].base = SetAnchor(CurSet(g), d)
        /\ work'[g].anchor \in {None, FullAnchor(CurSet(g), d)}
    BY <1>1, <1>4, <2>1 DEF ResolveAnchor, Work
  <2>4. CurSet(g) \in Sets
    BY <2>2, CurTypes DEF RunStages, DiskStages
  <2>5. {work'[g].base, work'[g].anchor} \ {None} \subseteq Past(d)
    BY <2>3, <2>4, AnchorPast
  <2>6. /\ CurDataset(g)' = d /\ Row(g)' = Row(g) /\ Past(d)' = Past(d)
        /\ Referenced(d)' = Referenced(d)
    BY <2>1, <2>2 DEF CurDataset, Row, Past, Referenced, IsSuccess
  <2>7. SnapOK(g)'
    BY <2>1, <2>2, <2>5, <2>6 DEF SnapInv, SnapOK, Recorded
  <2> QED
    BY <2>2, <2>7, PoolStill DEF SnapStep, Successes
<1>4a. CASE AnchorUnlisted(g)
  <2>1. PICK d \in Datasets : d = CurDataset(g)
    BY <1>2, <1>4a DEF AnchorUnlisted, Stages, SetStages, DiskStages, RunStages
  <2>2. /\ pc[g] \in RunStages \ Settled /\ pc'[g] = "snapshot"
        /\ runs' = runs /\ snaps' = snaps /\ clock' = clock /\ job' = job
        /\ work'[g].run = work[g].run /\ work'[g].snap = work[g].snap
        /\ work'[g].base = None /\ work'[g].anchor = None
    BY <1>1, <1>4a DEF AnchorUnlisted, Goto, disks, Work, Stages, SetStages, DiskStages, RunStages, Settled
  <2>3. /\ CurDataset(g)' = d /\ Row(g)' = Row(g) /\ Past(d)' = Past(d)
        /\ Referenced(d)' = Referenced(d)
    BY <2>1, <2>2 DEF CurDataset, Row, Past, Referenced, IsSuccess
  <2>4. SnapOK(g)'
    BY <2>1, <2>2, <2>3 DEF SnapInv, SnapOK, Recorded
  <2> QED
    BY <2>2, <2>4, PoolStill DEF SnapStep, Successes
<1>5. CASE ReuseSnapshot(g)
  BY <1>1, <1>5, SnapStill DEF ReuseSnapshot, Goto, disks, Work, Stages, SetStages, DiskStages, RunStages, Settled, Recorded
<1>6. ASSUME NEW t \in {clock, clock + 1}, TakeSnapshot(g, t)
      PROVE  SnapStep(g)
  <2>1. /\ pc[g] = "snapshot" /\ pc'[g] = "record" /\ clock' = t /\ runs' = runs /\ job' = job
        /\ snaps' = [snaps EXCEPT ![CurDataset(g)] = @ \cup {t}]
        /\ work' = [work EXCEPT ![g].snap = t]
    BY <1>1, <1>6 DEF TakeSnapshot, Goto
  <2> QED
    BY <2>1, SnapNamed
<1>7. ASSUME NEW t \in {clock, clock + 1}, SnapshotFails(g, t)
      PROVE  SnapStep(g)
  <2>1. CASE work[g].snap = None
    <3>1. /\ pc[g] = "snapshot" /\ pc'[g] = "collide" /\ clock' = t /\ runs' = runs
          /\ snaps' = snaps /\ job' = job /\ work' = [work EXCEPT ![g].snap = t]
      BY <1>1, <1>7, <2>1 DEF SnapshotFails, Goto
    <3> QED
      BY <3>1, SnapNamed
  <2>2. CASE work[g].snap # None
    <3>1. /\ pc[g] \in RunStages /\ pc'[g] = "unmount" /\ work'[g].snap = work[g].snap
          /\ Save(g, [Row(g) EXCEPT !.status = "failed"])
          /\ snaps' = snaps /\ clock' = t
      BY <1>1, <1>7, <2>2 DEF SnapshotFails, Goto, Work, Stages, SetStages, DiskStages, RunStages, Settled, Recorded
    <3>2. Successes(g)
      BY <1>2, <3>1, NoNewSuccess DEF BackupRun
    <3>3. clock \in Nat /\ clock <= clock'
      <4>1. clock \in Nat
        BY DEF TypeInv, TypeOK, StoreOK
      <4> QED
        BY <3>1, <4>1
    <3>4. SnapsMoved(g)
      BY <3>1, <3>3 DEF SnapsMoved
    <3> QED
      BY <1>1, <3>1, <3>2, <3>4, SnapSettles
  <2> QED
    BY <2>1, <2>2
<1>8. CASE DiscardFailedName(g)
  <2>1. /\ pc[g] \in RunStages /\ pc'[g] = "unmount" /\ work'[g].snap = work[g].snap
        /\ Save(g, [Row(g) EXCEPT !.status = "failed"])
    BY <1>1, <1>8 DEF DiscardFailedName, Goto, Work, Stages, SetStages, DiskStages, RunStages, Settled, Recorded
  <2>2. Successes(g)
    BY <1>2, <2>1, NoNewSuccess DEF BackupRun
  <2>3. SnapsMoved(g)
    <3>1. {work[g].snap} \cap Referenced(CurDataset(g)) = {}
      BY <1>8, <2>1 DEF DiscardFailedName, SnapInv, SnapOK, Settled
    <3> QED
      BY <1>8, <2>1, <3>1, DestroyKeeps DEF DiscardFailedName
  <2> QED
    BY <1>1, <2>1, <2>2, <2>3, SnapSettles
<1>9. CASE RecordSnapshot(g)
  <2> DEFINE row == [Row(g) EXCEPT !.snap = work[g].snap, !.type = work[g].type]
  <2>1. /\ pc[g] \in RunStages \ Settled /\ pc'[g] \in {"diff", "capacity"} /\ Save(g, row)
        /\ snaps' = snaps /\ clock' = clock /\ job'[g].item = job[g].item
        /\ work'[g].run = work[g].run /\ work'[g].snap = work[g].snap
        /\ work'[g].base = work[g].base /\ work'[g].anchor = work[g].anchor
    BY <1>1, <1>9 DEF RecordSnapshot, Goto, disks, Work, Stages, SetStages, DiskStages, RunStages, Settled, Recorded
  <2>2. /\ row.status # "success"
        /\ row.snap \in {Row(g).snap, work[g].snap}
        /\ pc'[g] \in Recorded => row.snap = work[g].snap
    BY <1>2, <2>1 DEF BackupRun, RunInv, RunOK
  <2>3. pc'[g] \in RunStages /\ pc'[g] \notin {"commit", "prune"}
    BY <2>1 DEF Stages, SetStages, DiskStages, RunStages, Settled, Recorded
  <2> HIDE DEF row
  <2> QED
    BY <2>1, <2>2, <2>3, SnapRow
<1>10. CASE Changed(g)
  BY <1>1, <1>10, SnapStill DEF Changed, Goto, disks, Work, Stages, SetStages, DiskStages, RunStages, Settled, Recorded
<1>11. CASE Unchanged(g)
  <2> DEFINE row == [Row(g) EXCEPT !.status = "skipped", !.base = work[g].base,
                                   !.anchor = work[g].anchor]
  <2>1. /\ pc[g] \in RunStages \ Settled /\ pc'[g] \in {"dropskipped"} /\ Save(g, row)
        /\ snaps' = snaps /\ clock' = clock /\ job'[g].item = job[g].item
        /\ work'[g].run = work[g].run /\ work'[g].snap = work[g].snap
        /\ work'[g].base = work[g].base /\ work'[g].anchor = work[g].anchor
    BY <1>1, <1>11 DEF Unchanged, Goto, disks, Work, Stages, SetStages, DiskStages, RunStages, Settled, Recorded
  <2>2. /\ row.status # "success"
        /\ row.snap \in {Row(g).snap, work[g].snap}
        /\ pc'[g] \in Recorded => row.snap = work[g].snap
    BY <1>2, <2>1 DEF BackupRun, RunInv, RunOK, Recorded
  <2>3. pc'[g] \in RunStages /\ pc'[g] \notin {"commit", "prune"}
    BY <2>1 DEF Stages, SetStages, DiskStages, RunStages, Settled, Recorded
  <2> HIDE DEF row
  <2> QED
    BY <2>1, <2>2, <2>3, SnapRow
<1>12. CASE DropSkipped(g)
  <2>1. /\ pc[g] \in RunStages \ Settled /\ pc'[g] = "unmount" /\ work'[g].snap = work[g].snap
        /\ runs' = runs /\ clock' = clock /\ Destroy(CurDataset(g), {work[g].snap})
    BY <1>1, <1>12 DEF DropSkipped, Goto, Work, Stages, SetStages, DiskStages, RunStages, Settled, Recorded
  <2>2. {work[g].snap} \cap Referenced(CurDataset(g)) = {}
    BY <2>1 DEF SnapInv, SnapOK
  <2>3. SnapsMoved(g) /\ Successes(g)
    BY <2>1, <2>2, DestroyKeeps DEF Successes
  <2> QED
    BY <1>1, <2>1, <2>3, SnapSettles
<1>13. CASE Fits(g)
  BY <1>1, <1>13, SnapStill DEF Fits, Goto, disks, Work, Stages, SetStages, DiskStages, RunStages, Settled, Recorded
<1>14. CASE NeedsSpace(g)
  <2> DEFINE row == [Row(g) EXCEPT !.status = "failed"]
  <2>1. /\ pc[g] = "capacity" /\ pc[g] \in RunStages \ Settled /\ Save(g, row)
        /\ snaps' = snaps /\ clock' = clock
    BY <1>14 DEF NeedsSpace, disks, Stages, SetStages, DiskStages, RunStages, Settled, Recorded
  <2>2. row.status # "success" /\ row.snap = Row(g).snap
    BY <1>2, <2>1 DEF BackupRun
  <2> HIDE DEF row
  <2>3. Successes(g)
    BY <2>1, <2>2, NoNewSuccess
  <2>4. CASE pc' = [pc EXCEPT ![g] = "full"] /\ job' = job /\ work' = work
    <3>1. pc'[g] = "full" /\ pc'[g] \in RunStages /\ pc'[g] \notin Recorded
      BY <1>1, <2>4 DEF Stages, SetStages, DiskStages, RunStages, Settled, Recorded
    <3> QED
      BY <2>1, <2>2, <2>4, <3>1, SnapRow
  <2>5. CASE \E stage \in {"dataset", "blocked"} : pc' = [pc EXCEPT ![g] = stage]
    <3>1. pc'[g] \notin RunStages
      BY <1>1, <2>5 DEF Stages, SetStages, DiskStages, RunStages, Settled, Recorded
    <3> QED
      BY <2>1, <2>3, <3>1, SnapOut
  <2>6. work[g].retry \in {"no", "advanced", "recycled"}
    BY <1>1 DEF Work
  <2> QED
    BY <1>14, <2>4, <2>5, <2>6 DEF NeedsSpace, Count, Block, Goto
<1>15. CASE SendDone(g)
  <2>1. PICK d \in Datasets : d = CurDataset(g)
    BY <1>2, <1>15 DEF SendDone, Stages, SetStages, DiskStages, RunStages, Settled, Recorded
  <2>2. /\ pc[g] \in RunStages \ Settled /\ pc[g] \in Recorded /\ pc'[g] = "commit"
        /\ runs' = runs /\ snaps' = snaps /\ clock' = clock + 1 /\ job' = job /\ work' = work
        /\ {work[g].snap} \ {None} \subseteq snaps[d]
    BY <1>1, <1>15, <2>1 DEF SendDone, Goto, disks, Stages, SetStages, DiskStages, RunStages, Settled, Recorded
  <2>3. clock \in Nat /\ snaps[d] \subseteq Nat
    BY DEF TypeInv, TypeOK, StoreOK, Seconds
  <2>4. /\ CurDataset(g)' = d /\ Row(g)' = Row(g) /\ Past(d) \subseteq Past(d)'
        /\ Referenced(d)' = Referenced(d)
    BY <2>1, <2>2, <2>3 DEF CurDataset, Row, Past, Referenced, IsSuccess
  <2>5. SnapOK(g)
    BY DEF SnapInv
  <2>6. work[g].snap # None => work[g].snap <= clock + 1 /\ work[g].snap \in Past(d)'
    BY <2>2, <2>3, <2>5 DEF SnapOK, Past
  <2>7. SnapOK(g)'
    BY <2>1, <2>2, <2>4, <2>5, <2>6 DEF SnapOK
  <2> QED
    BY <2>2, <2>3, <2>7 DEF SnapStep, SnapsMoved, Successes
<1>16. CASE SendFails(g)
  BY <1>1, <1>16, SnapStill DEF SendFails, Goto, disks, Work, Stages, SetStages, DiskStages, RunStages, Settled, Recorded
<1>17. CASE DropFailed(g)
  <2>1. /\ pc[g] \in RunStages /\ pc'[g] = "unmount" /\ work'[g].snap = work[g].snap
        /\ Save(g, [Row(g) EXCEPT !.status = "failed"])
    BY <1>1, <1>17 DEF DropFailed, Goto, Work, Stages, SetStages, DiskStages, RunStages, Settled, Recorded
  <2>2. Successes(g)
    BY <1>2, <2>1, NoNewSuccess DEF BackupRun
  <2>3. SnapsMoved(g)
    <3>1. {work[g].snap} \cap Referenced(CurDataset(g)) = {}
      BY <1>17, <2>1 DEF DropFailed, SnapInv, SnapOK, Settled
    <3> QED
      BY <1>17, <2>1, <3>1, DestroyKeeps DEF DropFailed
  <2> QED
    BY <1>1, <2>1, <2>2, <2>3, SnapSettles
<1>18. CASE CommitRun(g)
  <2> DEFINE row == [Row(g) EXCEPT !.status = "success", !.base = work[g].base,
                                   !.anchor = work[g].anchor]
  <2>1. PICK d \in Datasets : d = CurDataset(g)
    BY <1>2, <1>18 DEF CommitRun, Stages, SetStages, DiskStages, RunStages, Settled, Recorded
  <2>2. /\ pc[g] = "commit" /\ pc[g] \in RunStages \ Settled /\ pc[g] \in Recorded /\ pc'[g] = "list"
        /\ snaps' = snaps /\ clock' = clock /\ job' = job /\ work' = work /\ Save(g, row)
    BY <1>1, <1>18 DEF CommitRun, Goto, disks, Stages, SetStages, DiskStages, RunStages, Settled, Recorded
  <2>3. Row(g).ds = d /\ SnapOK(g)
    BY <2>1, <2>2 DEF RunInv, RunOK, SnapInv
  <2>4. Row(g).status # "deleted" => RefsOf(row) \subseteq Past(d) /\ row.ds = d
    BY <1>2, <2>1, <2>2, <2>3 DEF SnapOK, RefsOf, BackupRun
  <2>5. Past(d)' = Past(d) /\ Row(g) = runs[work[g].run]
    BY <2>2 DEF Past, Row
  <2> HIDE DEF row
  <2>6. /\ DOMAIN runs' = DOMAIN runs
        /\ \A i \in DOMAIN runs : i # work[g].run => runs'[i] = runs[i]
        /\ IF Row(g).status = "deleted" THEN runs'[work[g].run] = Row(g)
           ELSE runs'[work[g].run] = row
    BY <2>2, SavedRow
  <2>7. Successes(g)
    <3>1. ASSUME NEW i \in DOMAIN runs', runs'[i] # runs[i]
          PROVE  /\ pc[g] \in RunStages /\ runs'[i].ds = CurDataset(g)
                 /\ \A e \in Datasets : e = CurDataset(g) => RefsOf(runs'[i]) \subseteq Past(e)'
      BY <2>1, <2>2, <2>4, <2>5, <2>6, <3>1
    <3> QED
      BY <2>6, <3>1 DEF Successes
  <2>8. SnapOK(g)'
    BY <2>2, <2>3 DEF SnapOK, Settled, Recorded
  <2> QED
    BY <2>2, <2>7, <2>8, PoolStill DEF SnapStep
<1> QED
  BY <1>3, <1>4, <1>4a, <1>5, <1>6, <1>7, <1>8, <1>9, <1>10, <1>11, <1>12, <1>13, <1>14, <1>15, <1>16, <1>17, <1>18 DEF Writing

LEMMA SettlingSnaps ==
  ASSUME TypeInv, TypeInv', RunInv, SnapInv, NEW g \in Groups, Settling(g)
  PROVE  SnapStep(g)
<1>1. /\ pc \in [Groups -> Stages] /\ work \in [Groups -> Work] /\ job \in [Groups -> Job]
      /\ work[g] \in Work /\ job[g] \in Job /\ clock' \in Nat
  BY DEF TypeInv, TypeOK, WorkerOK, StoreOK
<1>2. /\ runs \in Seq(BackupRun)
      /\ pc[g] \in RunStages =>
           CurDataset(g) \in Datasets /\ work[g].run \in DOMAIN runs /\ Row(g) \in BackupRun
  BY CurTypes DEF TypeInv, TypeOK, RowsOK
<1>3. CASE PruneList(g)
  <2>1. PICK d \in Datasets : d = CurDataset(g)
    BY <1>2, <1>3 DEF PruneList, Stages, SetStages, DiskStages, RunStages, Settled, Recorded
  <2>2. /\ pc[g] \in RunStages /\ pc'[g] = "prune" /\ runs' = runs /\ snaps' = snaps
        /\ clock' = clock /\ job' = job /\ work'[g].snap = work[g].snap
    BY <1>1, <1>3 DEF PruneList, Goto, disks, Work, Stages, SetStages, DiskStages, RunStages, Settled, Recorded
  <2>3. work'[g].doomed \cap Referenced(d) = {}
    BY <1>1, <1>3, <2>1 DEF PruneList, Work
  <2>4. CurDataset(g)' = d /\ Referenced(d)' = Referenced(d)
    BY <2>1, <2>2 DEF CurDataset, Referenced, IsSuccess
  <2>5. SnapOK(g)'
    BY <2>2, <2>3, <2>4 DEF SnapInv, SnapOK, Settled, Recorded
  <2> QED
    BY <2>2, <2>5, PoolStill DEF SnapStep, Successes
<1>4. ASSUME NEW t \in work[g].doomed, PruneOne(g, t)
      PROVE  SnapStep(g)
  <2>1. PICK d \in Datasets : d = CurDataset(g)
    BY <1>2, <1>4 DEF PruneOne, Stages, SetStages, DiskStages, RunStages, Settled, Recorded
  <2>2. /\ pc[g] = "prune" /\ pc[g] \in RunStages /\ pc'[g] = "prune" /\ runs' = runs
        /\ clock' = clock /\ job' = job /\ work'[g].snap = work[g].snap
        /\ work'[g].doomed = work[g].doomed \ {t} /\ Destroy(CurDataset(g), {t})
    BY <1>1, <1>4 DEF PruneOne, Work, Stages, SetStages, DiskStages, RunStages, Settled, Recorded
  <2>3. SnapOK(g)
    BY DEF SnapInv
  <2>4. work[g].doomed \cap Referenced(d) = {}
    BY <2>1, <2>2, <2>3 DEF SnapOK
  <2>5. CurDataset(g)' = d /\ Referenced(d)' = Referenced(d)
    BY <2>1, <2>2 DEF CurDataset, Referenced, IsSuccess
  <2>6. SnapsMoved(g)
    <3>1. {t} \cap Referenced(CurDataset(g)) = {}
      BY <2>1, <2>4
    <3> QED
      BY <2>2, <3>1, DestroyKeeps
  <2>7. SnapOK(g)'
    BY <2>2, <2>3, <2>4, <2>5 DEF SnapOK, Settled, Recorded
  <2> QED
    BY <2>2, <2>6, <2>7 DEF SnapStep, Successes
<1>5. CASE PruneDone(g) \/ PruneSkipped(g)
  BY <1>1, <1>5, SnapStill DEF PruneDone, PruneSkipped, Goto, disks, Work, Stages, SetStages, DiskStages, RunStages, Settled, Recorded
<1>6. CASE RecordManifest(g)
  BY <1>1, <1>6, SnapStill DEF RecordManifest, Goto, disks, Work, Stages, SetStages, DiskStages, RunStages, Settled, Recorded
<1>7. CASE ManifestFails(g)
  BY <1>1, <1>7, SnapStill DEF ManifestFails, Goto, disks, Work, Stages, SetStages, DiskStages, RunStages, Settled, Recorded
<1>8. CASE RunErrs(g)
  <2>1. /\ pc[g] \in RunStages /\ pc'[g] = "unmount" /\ work'[g].snap = work[g].snap
        /\ Save(g, [Row(g) EXCEPT !.status = "failed"])
    BY <1>1, <1>8 DEF RunErrs, Goto, Work, Stages, SetStages, DiskStages, RunStages, Settled, Recorded
  <2>2. Successes(g)
    BY <1>2, <2>1, NoNewSuccess DEF BackupRun
  <2>3. SnapsMoved(g)
    BY <1>8, PoolStill DEF RunErrs, disks
  <2> QED
    BY <1>1, <2>1, <2>2, <2>3, SnapSettles
<1>9. CASE Unmount(g)
  BY <1>1, <1>9, SnapOut DEF Unmount, Successes, Goto, disks, Count, Stages, SetStages, DiskStages, RunStages, Settled, Recorded
<1> QED
  BY <1>3, <1>4, <1>5, <1>6, <1>7, <1>8, <1>9 DEF Settling

LEMMA MakingSnaps ==
  ASSUME TypeInv, TypeInv', RunInv, SnapInv, NEW g \in Groups, Making(g)
  PROVE  SnapStep(g)
<1>1. /\ pc \in [Groups -> Stages] /\ work \in [Groups -> Work] /\ job \in [Groups -> Job]
      /\ work[g] \in Work /\ job[g] \in Job /\ clock' \in Nat
  BY DEF TypeInv, TypeOK, WorkerOK, StoreOK
<1>2. /\ runs \in Seq(BackupRun)
      /\ pc[g] \in RunStages =>
           CurDataset(g) \in Datasets /\ work[g].run \in DOMAIN runs /\ Row(g) \in BackupRun
  BY CurTypes DEF TypeInv, TypeOK, RowsOK
<1>3. CASE PutAwayFull(g)
  BY <1>1, <1>3, SnapStill DEF PutAwayFull, Goto, disks, Work, Stages, SetStages, DiskStages, RunStages, Settled, Recorded
<1>4. ASSUME NEW k, AdvanceTo(g, k)
      PROVE  SnapStep(g)
  <2> DEFINE row == Retarget(Row(g), k)
  <2>1. /\ pc[g] \in RunStages \ Settled /\ pc'[g] \in {"mount"} /\ Save(g, row)
        /\ snaps' = snaps /\ clock' = clock /\ job'[g].item = job[g].item
        /\ work'[g].run = work[g].run /\ work'[g].snap = work[g].snap
        /\ work'[g].base = work[g].base /\ work'[g].anchor = work[g].anchor
    BY <1>1, <1>4 DEF AdvanceTo, Goto, disks, Work, Retarget, Stages, SetStages, DiskStages, RunStages, Settled, Recorded
  <2>2. /\ row.status # "success"
        /\ row.snap \in {Row(g).snap, work[g].snap}
        /\ pc'[g] \in Recorded => row.snap = work[g].snap
    BY <1>2, <2>1 DEF BackupRun, RunInv, RunOK, Recorded, Retarget
  <2>3. pc'[g] \in RunStages /\ pc'[g] \notin {"commit", "prune"}
    BY <2>1 DEF Stages, SetStages, DiskStages, RunStages, Settled, Recorded
  <2> HIDE DEF row
  <2> QED
    BY <2>1, <2>2, <2>3, SnapRow
<1>5. CASE NoRoomInSet(g)
  <2>1. /\ pc[g] = "advance" /\ runs' = runs /\ snaps' = snaps /\ clock' = clock
        /\ job' = job /\ work' = work /\ pc'[g] \in {"wipe", "blocked"}
    BY <1>1, <1>5 DEF NoRoomInSet, Block, Goto, disks
  <2>2. CASE pc'[g] = "wipe"
    BY <2>1, <2>2, SnapStill DEF Stages, SetStages, DiskStages, RunStages, Settled, Recorded
  <2>3. CASE pc'[g] = "blocked"
    BY <2>1, <2>3, SnapOut DEF Successes, Stages, SetStages, DiskStages, RunStages, Settled, Recorded
  <2> QED
    BY <2>1, <2>2, <2>3
<1>6. CASE Wipe(g)
  BY <1>1, <1>6, SnapStill DEF Wipe, Goto, disks, Work, Stages, SetStages, DiskStages, RunStages, Settled, Recorded
<1>7. CASE RecycleFails(g)
  BY <1>1, <1>7, SnapOut DEF RecycleFails, Successes, Goto, disks, Block, Stages, SetStages, DiskStages, RunStages, Settled, Recorded
<1>8. CASE Reformatted(g)
  <2>1. PICK d \in Datasets : d = CurDataset(g)
    BY <1>2, <1>8 DEF Reformatted, Stages, SetStages, DiskStages, RunStages, Settled, Recorded
  <2>2. /\ pc[g] \in RunStages \ Settled /\ pc'[g] = "mount" /\ snaps' = snaps
        /\ clock' = clock /\ job' = job /\ work'[g].run = work[g].run
        /\ work'[g].snap = work[g].snap /\ work'[g].base = work[g].base
        /\ work'[g].anchor = work[g].anchor
    BY <1>1, <1>8 DEF Reformatted, Goto, disks, Work, Stages, SetStages, DiskStages, RunStages, Settled, Recorded
  <2>3. \A i \in DOMAIN runs' : /\ i \in DOMAIN runs
                                /\ runs'[i] \in {runs[i], [runs[i] EXCEPT !.status = "deleted"]}
    BY <1>8 DEF Reformatted
  <2>4. \A i \in DOMAIN runs' : runs'[i].status = "success" => runs'[i] = runs[i]
    <3>1. \A i \in DOMAIN runs : runs[i] \in BackupRun
      BY <1>2
    <3> QED
      BY <2>3, <3>1 DEF BackupRun
  <2>5. Referenced(d)' \subseteq Referenced(d)
    BY <2>3, <2>4, ReferencedShrinks
  <2>6. Row(g)'.snap = Row(g).snap
    <3>1. Row(g)' \in {Row(g), [Row(g) EXCEPT !.status = "deleted"]}
      BY <1>2, <1>8, <2>2 DEF Reformatted, Row
    <3> QED
      BY <1>2, <2>2, <3>1 DEF BackupRun
  <2>7. CurDataset(g)' = d /\ Past(d)' = Past(d)
    BY <2>1, <2>2 DEF CurDataset, Past
  <2>8. SnapOK(g)'
    BY <2>1, <2>2, <2>5, <2>6, <2>7 DEF SnapInv, SnapOK, Recorded
  <2> QED
    BY <2>2, <2>3, <2>4, <2>8, PoolStill DEF SnapStep, Successes
<1> QED
  BY <1>3, <1>4, <1>5, <1>6, <1>7, <1>8 DEF Making

LEMMA ChoosingSnaps ==
  ASSUME TypeInv, TypeInv', RunInv, SnapInv, NEW g \in Groups, Choosing(g)
  PROVE  SnapStep(g)
<1>1. /\ pc \in [Groups -> Stages] /\ work \in [Groups -> Work] /\ job \in [Groups -> Job]
      /\ work[g] \in Work /\ job[g] \in Job /\ clock' \in Nat
  BY DEF TypeInv, TypeOK, WorkerOK, StoreOK
<1>2. /\ runs \in Seq(BackupRun)
      /\ pc[g] \in RunStages =>
           CurDataset(g) \in Datasets /\ work[g].run \in DOMAIN runs /\ Row(g) \in BackupRun
  BY CurTypes DEF TypeInv, TypeOK, RowsOK
<1>3. CASE Resolve(g)
  BY <1>1, <1>3, SnapOut DEF Resolve, Successes, Goto, disks, Stages, SetStages, DiskStages, RunStages, Settled, Recorded
<1>4. ASSUME NEW k, ChooseDisk(g, k)
      PROVE  SnapStep(g)
  BY <1>1, <1>4, SnapOut DEF ChooseDisk, Successes, Goto, disks, Stages, SetStages, DiskStages, RunStages, Settled, Recorded
<1>5. CASE NoUsableDisk(g)
  BY <1>1, <1>5, SnapOut DEF NoUsableDisk, Successes, Goto, disks, Block, Stages, SetStages, DiskStages, RunStages, Settled, Recorded
<1>6. CASE DatasetMissing(g)
  <2>1. /\ snaps' = snaps /\ clock' = clock /\ pc'[g] \notin RunStages
        /\ Insert(g, job[g].targets[1], "full", "failed")
    BY <1>1, <1>6 DEF DatasetMissing, Count, Goto, disks, Stages, SetStages, DiskStages, RunStages, Settled, Recorded
  <2>2. Successes(g)
    BY <1>2, <2>1 DEF Insert, Successes
  <2> QED
    BY <2>1, <2>2, SnapOut
<1>7. CASE NewRun(g)
  <2>1. /\ snaps' = snaps /\ clock' = clock /\ pc[g] \notin RunStages /\ pc'[g] = "mount"
        /\ \E type : Insert(g, CurSet(g), type, "running")
        /\ work'[g].run = Len(runs) + 1 /\ work'[g].snap = None /\ work'[g].base = None
        /\ work'[g].anchor = None
    BY <1>1, <1>7 DEF NewRun, NoWork, Goto, disks, Stages, SetStages, DiskStages, RunStages, Settled, Recorded
  <2>2. Successes(g) /\ runs'[Len(runs) + 1].snap = None
    BY <1>2, <2>1 DEF Insert, Successes
  <2>3. Row(g)'.snap = None
    BY <2>1, <2>2 DEF Row
  <2>4. PICK d : d = CurDataset(g)'
    OBVIOUS
  <2>5. None \notin Referenced(d)'
    BY DEF Referenced, RefsOf
  <2>6. SnapOK(g)'
    BY <2>1, <2>3, <2>4, <2>5 DEF SnapOK, Recorded
  <2> QED
    BY <2>1, <2>2, <2>6, PoolStill DEF SnapStep
<1>8. CASE SetWritten(g)
  BY <1>1, <1>8, SnapOut DEF SetWritten, Successes, Goto, disks, Stages, SetStages, DiskStages, RunStages, Settled, Recorded
<1> QED
  BY <1>3, <1>4, <1>5, <1>6, <1>7, <1>8 DEF Choosing

LEMMA EndingSnaps ==
  ASSUME TypeInv, TypeInv', RunInv, SnapInv, NEW g \in Groups, Ending(g)
  PROVE  SnapStep(g)
<1>1. /\ pc \in [Groups -> Stages] /\ work \in [Groups -> Work] /\ job \in [Groups -> Job]
      /\ work[g] \in Work /\ job[g] \in Job /\ clock' \in Nat
  BY DEF TypeInv, TypeOK, WorkerOK, StoreOK
<1>2. /\ runs \in Seq(BackupRun)
      /\ pc[g] \in RunStages =>
           CurDataset(g) \in Datasets /\ work[g].run \in DOMAIN runs /\ Row(g) \in BackupRun
  BY CurTypes DEF TypeInv, TypeOK, RowsOK
<1>3. CASE Rotate(g)
  BY <1>1, <1>3, SnapOut DEF Rotate, Successes, Goto, disks, Stages, SetStages, DiskStages, RunStages, Settled, Recorded
<1>4. CASE CaptureConfig(g)
  BY <1>1, <1>4, SnapOut DEF CaptureConfig, Successes, Goto, disks, Stages, SetStages, DiskStages, RunStages, Settled, Recorded
<1>5. CASE Finish(g)
  BY <1>1, <1>5, SnapOut DEF Finish, Successes, Goto, disks, Stages, SetStages, DiskStages, RunStages, Settled, Recorded
<1> QED
  BY <1>3, <1>4, <1>5 DEF Ending

\* Only a session that is under way has a worker.
LEMMA WorkerAwake ==
  ASSUME NEW g \in Groups, Worker(g)
  PROVE  pc[g] # "idle"
<1>1. CASE Choosing(g)
  BY <1>1 DEF Choosing, Resolve, ChooseDisk, NoUsableDisk, DatasetMissing, NewRun, SetWritten
<1>2. CASE Writing(g)
  BY <1>2 DEF Writing, MountForRun, ResolveAnchor, AnchorUnlisted, ReuseSnapshot, TakeSnapshot, SnapshotFails,
     DiscardFailedName, RecordSnapshot, Changed, Unchanged, DropSkipped, Fits, NeedsSpace,
     SendDone, SendFails, DropFailed, CommitRun
<1>3. CASE Settling(g)
  BY <1>3 DEF Settling, PruneList, PruneSkipped, PruneOne, PruneDone, RecordManifest, ManifestFails, RunErrs,
     Unmount
<1>4. CASE Making(g)
  BY <1>4 DEF Making, PutAwayFull, AdvanceTo, NoRoomInSet, Wipe, RecycleFails, Reformatted
<1>5. CASE Ending(g)
  BY <1>5 DEF Ending, Rotate, CaptureConfig, Finish
<1> QED
  BY <1>1, <1>2, <1>3, <1>4, <1>5 DEF Worker


LEMMA SnapInvStep ==
  ASSUME Exclusive, TypeInv, TypeInv', OutcomeInv, OutcomeInv', RunInv, RunInv', SnapInv,
         [Next]_vars
  PROVE  SnapInv'
<1>1. /\ pc \in [Groups -> Stages] /\ session \in [Groups -> SessionRow]
      /\ runs \in Seq(BackupRun) /\ snaps \in [Datasets -> SUBSET Seconds]
  BY DEF TypeInv, TypeOK, WorkerOK, RowsOK, StoreOK
<1>2. ASSUME NEW g \in Groups, NEW trigger \in Triggers, Start(g, trigger)
      PROVE  SnapInv'
  <2>1. /\ runs' = runs /\ snaps' = snaps /\ clock' = clock /\ work' = work
        /\ session[g].status # "running" /\ pc'[g] = "resolve"
        /\ \A h \in Groups \ {g} : pc'[h] = pc[h] /\ job'[h] = job[h] /\ session'[h] = session[h]
    BY <1>1, <1>2 DEF Start, Goto
  <2>2. ASSUME NEW i \in DOMAIN runs, runs[i].status = "running"
        PROVE  Leftover(i)'
    <3>1. Leftover(i)
      BY <2>2 DEF SnapInv
    <3>2. runs[i].ds \notin Ran(Members[g])
      BY <2>1, <3>1 DEF Leftover
    <3> QED
      BY <2>1, <3>1, <3>2 DEF Leftover, Referenced, IsSuccess
  <2>3. ASSUME NEW h \in Groups
        PROVE  SnapOK(h)'
    <3>1. CASE h = g
      BY <2>1, <3>1 DEF SnapOK, RunStages, DiskStages, SetStages
    <3>2. CASE h # g
      <4>1. pc'[h] = pc[h] /\ CurDataset(h)' = CurDataset(h) /\ Row(h)' = Row(h)
        BY <2>1, <3>2 DEF CurDataset, Row
      <4> QED
        BY <2>1, <4>1 DEF SnapInv, SnapOK, Referenced, IsSuccess, Past
    <3> QED
      BY <3>1, <3>2
  <2> QED
    BY <2>1, <2>2, <2>3 DEF SnapInv, IsSuccess, Past
<1>3. ASSUME NEW g \in Groups, Worker(g)
      PROVE  SnapInv'
  <2>1. MovesOn(g) /\ SettledBy(g)
    BY <1>3, WorkerMoves, WorkerSettles
  <2>2. Drives(g)
    BY <1>3, WritingDrives, SettlingDrives, MakingDrives, ChoosingDrives, EndingDrives DEF Worker
  <2>3. SnapStep(g)
    BY <1>3, WritingSnaps, SettlingSnaps, MakingSnaps, ChoosingSnaps, EndingSnaps DEF Worker
  <2>4. pc[g] # "idle"
    BY <1>3, WorkerAwake
  <2> QED
    BY <2>1, <2>2, <2>3, <2>4, WorkerSnaps
<1>4. ASSUME NEW g \in Groups, WorkerDies(g)
      PROVE  SnapInv'
  <2>1. /\ runs' = runs /\ snaps' = snaps /\ clock' = clock /\ session' = session /\ pc'[g] = "idle"
        /\ \A h \in Groups \ {g} : pc'[h] = pc[h] /\ job'[h] = job[h] /\ work'[h] = work[h]
    BY <1>1, <1>4 DEF WorkerDies, Goto, disks, TypeInv, TypeOK, WorkerOK
  <2>2. ASSUME NEW i \in DOMAIN runs, runs[i].status = "running"
        PROVE  Leftover(i)'
    BY <2>1, <2>2 DEF SnapInv, Leftover, Referenced, IsSuccess
  <2>3. ASSUME NEW h \in Groups
        PROVE  SnapOK(h)'
    <3>1. CASE h = g
      BY <2>1, <3>1 DEF SnapOK, RunStages, DiskStages, SetStages
    <3>2. CASE h # g
      <4>1. /\ pc'[h] = pc[h] /\ CurDataset(h)' = CurDataset(h) /\ Row(h)' = Row(h)
            /\ work'[h] = work[h]
        BY <2>1, <3>2 DEF CurDataset, Row
      <4> QED
        BY <2>1, <4>1 DEF SnapInv, SnapOK, Referenced, IsSuccess, Past
    <3> QED
      BY <3>1, <3>2
  <2> QED
    BY <2>1, <2>2, <2>3 DEF SnapInv, IsSuccess, Past
<1>5. CASE Crash
  <2>1. /\ runs' = runs /\ snaps' = snaps /\ clock' = clock /\ session' = session
        /\ \A h \in Groups : pc'[h] = "idle"
    BY <1>5 DEF Crash
  <2> QED
    BY <2>1 DEF SnapInv, SnapOK, Leftover, Referenced, IsSuccess, Past, RunStages, DiskStages, SetStages
<1>6. CASE Recovery
  <2>1. \A h \in Groups : pc'[h] = "idle" /\ pc[h] = "idle"
    BY <1>6 DEF Recovery, RecoverRun, Restart, OutcomeInv, OutcomeOK
  <2>2. \A h \in Groups : SnapOK(h)'
    BY <2>1 DEF SnapOK, RunStages, DiskStages, SetStages
  <2>3. ASSUME NEW i \in DOMAIN runs, RecoverRun(i)
        PROVE  SnapInv'
    <3>1. /\ runs' = runs /\ clock' = clock /\ session' = session /\ pc' = pc /\ work' = work
          /\ runs[i].status = "running" /\ runs[i].ds \in Datasets
          /\ snaps' = [snaps EXCEPT ![runs[i].ds] = @ \ {runs[i].snap}]
      <4>1. runs[i] \in BackupRun
        BY <1>1
      <4> QED
        BY <2>3, <4>1 DEF RecoverRun, OrphanRun, disks, BackupRun
    <3>2. runs[i].snap \notin Referenced(runs[i].ds)
      BY <3>1 DEF SnapInv, Leftover
    <3>3. ASSUME NEW j \in DOMAIN runs, IsSuccess(j)
          PROVE  RefsOf(runs[j]) \subseteq Past(runs[j].ds)'
      <4>1. RefsOf(runs[j]) \subseteq Past(runs[j].ds) \cap Referenced(runs[j].ds)
        BY <3>3, ReferencedMember DEF SnapInv
      <4>2. runs[j].ds \in Datasets
        <5>1. runs[j] \in BackupRun
          BY <1>1
        <5> QED
          BY <5>1 DEF BackupRun
      <4>3. RefsOf(runs[j]) \subseteq snaps'[runs[j].ds]
        BY <1>1, <3>1, <3>2, <4>1, <4>2 DEF Past
      <4> QED
        BY <3>1, <4>1, <4>3 DEF Past
    <3>4. \A j \in DOMAIN runs : runs[j].status = "running" => Leftover(j)'
      BY <3>1 DEF SnapInv, Leftover, Referenced, IsSuccess
    <3> QED
      BY <2>2, <3>1, <3>3, <3>4 DEF SnapInv, IsSuccess
  <2>4. CASE Restart
    <3>1. snaps' = snaps /\ clock' = clock /\ DOMAIN runs' = DOMAIN runs
      BY <2>4 DEF Restart, disks
    <3>2. \A i \in DOMAIN runs : runs'[i].status # "running"
      BY <1>1, <2>4 DEF Restart, OrphanRun, BackupRun
    <3>3. \A i \in DOMAIN runs : runs'[i].status = "success" => runs'[i] = runs[i]
      BY <1>1, <2>4 DEF Restart, OrphanRun, BackupRun
    <3> QED
      BY <2>2, <3>1, <3>2, <3>3 DEF SnapInv, IsSuccess, Past
  <2> QED
    BY <1>6, <2>3, <2>4 DEF Recovery
<1>7. CASE (\E k \in Disks : OperatorUnmounts(k)) \/ UNCHANGED vars
  <2>1. /\ runs' = runs /\ snaps' = snaps /\ clock' = clock /\ session' = session
        /\ pc' = pc /\ job' = job /\ work' = work
    BY <1>7 DEF OperatorUnmounts, vars, disks
  <2>2. \A h \in Groups : CurDataset(h)' = CurDataset(h) /\ Row(h)' = Row(h)
    BY <2>1 DEF CurDataset, Row
  <2> QED
    BY <2>1, <2>2 DEF SnapInv, SnapOK, Leftover, Referenced, IsSuccess, Past
<1> QED
  BY <1>2, <1>3, <1>4, <1>5, <1>6, <1>7 DEF Next

\* Where no dataset belongs to two groups, the pool keeps every snapshot a
\* successful run names, under every interleaving of the sessions, with
\* recycled disks, discarded and skipped runs, pruning, dying workers, crashes
\* and the recovery that destroys the snapshots of interrupted runs.
THEOREM ReferencedKeptCorrect ==
  ASSUME Exclusive
  PROVE  Spec => []ReferencedKept
<1>1. Init => SnapInv
  BY DEF Init, SnapInv, SnapOK, RunStages, DiskStages, SetStages
<1>2. /\ TypeInv /\ TypeInv' /\ OutcomeInv /\ OutcomeInv' /\ RunInv /\ RunInv' /\ SnapInv
      /\ [Next]_vars
      => SnapInv'
  BY SnapInvStep
<1>3. SnapInv => ReferencedKept
  BY DEF SnapInv, ReferencedKept, Past
<1> QED
  BY <1>1, <1>2, <1>3, RunInvariant, PTL DEF Spec

-----------------------------------------------------------------------------
(* Streams that rows promise *)

\* The stream that a row stands for, listed in the index or not.
Holds(f, r) == f.ds = r.ds /\ f.snap = r.snap /\ f.type = r.type /\ f.base = r.base

\* The row names the disk the worker writes to and, once recorded, the stream;
\* at the commit that stream is there.
FileOK(g) ==
  pc[g] \in RunStages =>
    /\ Row(g).disk = job[g].disk
    /\ pc[g] \in Recorded => Row(g).snap = work[g].snap /\ Row(g).type = work[g].type
    /\ pc[g] = "commit" =>
         \E f \in media[job[g].disk] :
           Holds(f, [Row(g) EXCEPT !.base = work[g].base, !.anchor = work[g].anchor])

FileInv ==
  /\ \A i \in DOMAIN runs : runs[i].status # "deleted"
  /\ \A i \in DOMAIN runs : IsSuccess(i) => \E f \in media[runs[i].disk] : Holds(f, runs[i])
  /\ \A g \in Groups : FileOK(g)

\* A step of the worker of g, where no disk is recycled: no stream is lost, no
\* row deleted, and a success has its stream.
FileStep(g) ==
  /\ \A k \in Disks : \A f \in media[k] : \E e \in media'[k] : \A r \in BackupRun :
       Holds(f, r) => Holds(e, r)
  /\ \A i \in DOMAIN runs' :
       /\ runs'[i].status # "deleted"
       /\ runs'[i].status = "success" =>
            \/ i \in DOMAIN runs /\ runs'[i] = runs[i]
            \/ \E f \in media'[runs'[i].disk] : Holds(f, runs'[i])
  /\ FileOK(g)'

LEMMA WorkerFiles ==
  ASSUME TypeInv, TypeInv', RunInv, FileInv, NEW g \in Groups, MovesOn(g), FileStep(g)
  PROVE  FileInv'
<1>1. runs \in Seq(BackupRun)
  BY DEF TypeInv, TypeOK, RowsOK
<1>2. ASSUME NEW i \in DOMAIN runs', runs'[i].status = "success"
      PROVE  \E f \in media'[runs'[i].disk] : Holds(f, runs'[i])
  <2>1. CASE i \in DOMAIN runs /\ runs'[i] = runs[i]
    <3>1. runs[i] \in BackupRun /\ runs[i].disk \in Disks
      <4>1. runs[i] \in BackupRun
        BY <1>1, <2>1
      <4> QED
        BY <4>1 DEF BackupRun
    <3>2. PICK f \in media[runs[i].disk] : Holds(f, runs[i])
      BY <1>2, <2>1 DEF FileInv, IsSuccess
    <3> QED
      BY <2>1, <3>1, <3>2 DEF FileStep
  <2> QED
    BY <1>2, <2>1 DEF FileStep
<1>3. ASSUME NEW h \in Groups, h # g
      PROVE  FileOK(h)'
  <2>1. SUFFICES ASSUME pc[h] \in RunStages
                 PROVE  FileOK(h)'
    BY <1>3 DEF MovesOn, OthersKept, FileOK
  <2>2. /\ pc'[h] = pc[h] /\ job'[h] = job[h] /\ work'[h] = work[h]
        /\ work[h].run \in DOMAIN runs /\ Row(h) \in BackupRun /\ job[h].disk \in Disks
    BY <1>3, <2>1, CurTypes DEF MovesOn, OthersKept, RunStages
  <2>3. Row(h)' = Row(h)
    <3>1. ~(pc[g] \in RunStages /\ work[h].run = work[g].run)
      BY <1>3, <2>1 DEF RunInv, OwnRuns
    <3>2. runs'[work[h].run] = Row(h) \/ runs'[work[h].run] = [Row(h) EXCEPT !.status = "deleted"]
      BY <2>2, <3>1 DEF MovesOn, RowsMoved, Row
    <3>3. runs'[work[h].run].status # "deleted"
      BY <2>2 DEF MovesOn, RowsMoved, FileStep
    <3> QED
      BY <2>2, <3>2, <3>3 DEF Row, BackupRun
  <2>4. FileOK(h)
    BY DEF FileInv
  <2>5. CASE pc[h] = "commit"
    <3> DEFINE r == [Row(h) EXCEPT !.base = work[h].base, !.anchor = work[h].anchor]
    <3>1. r \in BackupRun
      BY <2>2 DEF TypeInv, TypeOK, WorkerOK, Work, BackupRun
    <3>2. PICK f \in media[job[h].disk] : Holds(f, r)
      BY <2>1, <2>4, <2>5 DEF FileOK
    <3>3. PICK e \in media'[job[h].disk] : Holds(e, r)
      BY <2>2, <3>1, <3>2 DEF FileStep
    <3> QED
      BY <2>1, <2>2, <2>3, <2>4, <3>3 DEF FileOK
  <2>6. CASE pc[h] # "commit"
    BY <2>1, <2>2, <2>3, <2>4, <2>6 DEF FileOK
  <2> QED
    BY <2>5, <2>6
<1> QED
  BY <1>2, <1>3 DEF FileStep, FileInv, IsSuccess

\* Steps that write nothing, that write the row of the run, that leave it.
LEMMA FileKept ==
  ASSUME TypeInv, FileInv, NEW g \in Groups, pc[g] \in RunStages, pc'[g] \in RunStages,
         runs' = runs, media' = media, job'[g].disk = job[g].disk, work'[g].run = work[g].run,
         pc'[g] \in Recorded =>
           pc[g] \in Recorded /\ work'[g].snap = work[g].snap /\ work'[g].type = work[g].type,
         pc'[g] # "commit"
  PROVE  FileStep(g)
<1>1. Row(g)' = Row(g) /\ FileOK(g)
  BY DEF Row, FileInv
<1> QED
  BY <1>1 DEF FileStep, FileInv, FileOK

LEMMA FileSaved ==
  ASSUME TypeInv, FileInv, NEW g \in Groups, pc[g] \in RunStages, pc'[g] \in RunStages,
         NEW row, Save(g, row), row.status \notin {"success", "deleted"},
         row.disk = job'[g].disk, work'[g].run = work[g].run, media' = media,
         pc'[g] \in Recorded => row.snap = work'[g].snap /\ row.type = work'[g].type,
         pc'[g] # "commit"
  PROVE  FileStep(g)
<1>1. /\ DOMAIN runs' = DOMAIN runs
      /\ \A i \in DOMAIN runs : i # work[g].run => runs'[i] = runs[i]
      /\ runs'[work[g].run] = row /\ Row(g)' = row
  BY SavedRow, CurTypes DEF FileInv, Row
<1> QED
  BY <1>1 DEF FileStep, FileInv, FileOK

LEMMA FileOut ==
  ASSUME TypeInv, FileInv, NEW g \in Groups, pc'[g] \notin RunStages, media' = media,
         \A i \in DOMAIN runs' :
           \/ i \in DOMAIN runs /\ runs'[i] = runs[i]
           \/ runs'[i].status \notin {"success", "deleted"}
  PROVE  FileStep(g)
BY DEF FileStep, FileInv, FileOK

LEMMA WritingFiles ==
  ASSUME Recycling = {}, TypeInv, OutcomeInv, RunInv, FileInv, NEW g \in Groups, Writing(g)
  PROVE  FileStep(g)
<1>1. /\ pc \in [Groups -> Stages] /\ work \in [Groups -> Work] /\ job \in [Groups -> Job]
      /\ work[g] \in Work /\ job[g] \in Job /\ pc[g] \notin {"wipe", "reformat"}
  BY DEF TypeInv, TypeOK, WorkerOK, OutcomeInv, OutcomeOK
<1>2. /\ runs \in Seq(BackupRun) /\ FileOK(g)
      /\ pc[g] \in RunStages =>
           CurDataset(g) \in Datasets /\ work[g].run \in DOMAIN runs /\ Row(g) \in BackupRun
  BY CurTypes DEF TypeInv, TypeOK, RowsOK, FileInv
<1>3. CASE MountForRun(g)
  BY <1>1, <1>3, FileKept DEF MountForRun, Goto, disks, Work, Stages, SetStages, DiskStages, RunStages, Settled, Recorded
<1>4. CASE ResolveAnchor(g) \/ AnchorUnlisted(g)
  BY <1>1, <1>4, FileKept DEF ResolveAnchor, AnchorUnlisted, Goto, disks, Work, Stages, SetStages, DiskStages, RunStages, Settled, Recorded
<1>5. CASE ReuseSnapshot(g)
  BY <1>1, <1>5, FileKept DEF ReuseSnapshot, Goto, disks, Work, Stages, SetStages, DiskStages, RunStages, Settled, Recorded
<1>6. ASSUME NEW t, TakeSnapshot(g, t)
      PROVE  FileStep(g)
  BY <1>1, <1>6, FileKept DEF TakeSnapshot, Goto, disks, Work, Stages, SetStages, DiskStages, RunStages, Settled, Recorded
<1>7. ASSUME NEW t, SnapshotFails(g, t)
      PROVE  FileStep(g)
  <2>1. CASE work[g].snap = None
    BY <1>1, <1>7, <2>1, FileKept DEF SnapshotFails, Goto, disks, Work, Stages, SetStages, DiskStages, RunStages, Settled, Recorded
  <2>2. CASE work[g].snap # None
    <3> DEFINE row == [Row(g) EXCEPT !.status = "failed"]
    <3>1. /\ pc[g] \in RunStages /\ pc'[g] = "unmount" /\ Save(g, row)
          /\ media' = media /\ work'[g].run = work[g].run /\ job' = job
      BY <1>1, <1>7, <2>2 DEF SnapshotFails, Goto, disks, Work, Stages, SetStages, DiskStages, RunStages, Settled, Recorded
    <3>2. row.status \notin {"success", "deleted"} /\ row.disk = job'[g].disk
      BY <1>2, <3>1 DEF FileOK, BackupRun
    <3> HIDE DEF row
    <3> QED
      BY <3>1, <3>2, FileSaved DEF Stages, SetStages, DiskStages, RunStages, Settled, Recorded
  <2> QED
    BY <2>1, <2>2
<1>8. CASE DiscardFailedName(g)
  <2> DEFINE row == [Row(g) EXCEPT !.status = "failed"]
  <2>1. /\ pc[g] \in RunStages /\ pc'[g] \in RunStages \ {"commit"} /\ Save(g, row)
        /\ media' = media /\ work'[g].run = work[g].run
    BY <1>1, <1>8 DEF DiscardFailedName, Goto, disks, Work, Stages, SetStages, DiskStages, RunStages, Settled, Recorded
  <2>2. row.status \notin {"success", "deleted"} /\ row.disk = job'[g].disk
    BY <1>1, <1>2, <1>8, <2>1 DEF DiscardFailedName, FileInv, FileOK, BackupRun, Row, Job
  <2>3. pc'[g] \in Recorded => row.snap = work'[g].snap /\ row.type = work'[g].type
    BY <1>1, <1>2, <1>8, <2>1 DEF DiscardFailedName, Goto, Recorded, BackupRun
  <2> HIDE DEF row
  <2> QED
    BY <2>1, <2>2, <2>3, FileSaved
<1>9. CASE RecordSnapshot(g)
  <2> DEFINE row == [Row(g) EXCEPT !.snap = work[g].snap, !.type = work[g].type]
  <2>1. /\ pc[g] \in RunStages /\ pc'[g] \in RunStages \ {"commit"} /\ Save(g, row)
        /\ media' = media /\ work'[g].run = work[g].run
    BY <1>1, <1>9 DEF RecordSnapshot, Goto, disks, Work, Stages, SetStages, DiskStages, RunStages, Settled, Recorded
  <2>2. row.status \notin {"success", "deleted"} /\ row.disk = job'[g].disk
    <3>1. Row(g).status # "deleted"
      BY <1>2, <2>1 DEF FileInv, Row
    <3>2. Row(g).status # "success"
      BY <1>9, <2>1 DEF RecordSnapshot, RunInv, RunOK, Settled
    <3>3. job' = job
      BY <1>9 DEF RecordSnapshot
    <3> QED
      BY <1>2, <2>1, <3>1, <3>2, <3>3 DEF FileOK, BackupRun
  <2>3. pc'[g] \in Recorded => row.snap = work'[g].snap /\ row.type = work'[g].type
    BY <1>1, <1>2, <1>9, <2>1 DEF RecordSnapshot, Goto, Recorded, BackupRun
  <2> HIDE DEF row
  <2> QED
    BY <2>1, <2>2, <2>3, FileSaved
<1>10. CASE Changed(g)
  BY <1>1, <1>10, FileKept DEF Changed, Goto, disks, Work, Stages, SetStages, DiskStages, RunStages, Settled, Recorded
<1>11. CASE Unchanged(g)
  <2> DEFINE row == [Row(g) EXCEPT !.status = "skipped", !.base = work[g].base,
                                   !.anchor = work[g].anchor]
  <2>1. /\ pc[g] \in RunStages /\ pc'[g] \in RunStages \ {"commit"} /\ Save(g, row)
        /\ media' = media /\ work'[g].run = work[g].run
    BY <1>1, <1>11 DEF Unchanged, Goto, disks, Work, Stages, SetStages, DiskStages, RunStages, Settled, Recorded
  <2>2. row.status \notin {"success", "deleted"} /\ row.disk = job'[g].disk
    BY <1>1, <1>2, <1>11, <2>1 DEF Unchanged, FileInv, FileOK, BackupRun, Row, Job
  <2>3. pc'[g] \in Recorded => row.snap = work'[g].snap /\ row.type = work'[g].type
    BY <1>1, <1>2, <1>11, <2>1 DEF Unchanged, Goto, Recorded, BackupRun
  <2> HIDE DEF row
  <2> QED
    BY <2>1, <2>2, <2>3, FileSaved
<1>12. CASE DropSkipped(g)
  BY <1>1, <1>12, FileKept DEF DropSkipped, Goto, disks, Work, Stages, SetStages, DiskStages, RunStages, Settled, Recorded
<1>13. CASE Fits(g)
  BY <1>1, <1>13, FileKept DEF Fits, Goto, disks, Work, Stages, SetStages, DiskStages, RunStages, Settled, Recorded
<1>14. CASE NeedsSpace(g)
  <2> DEFINE row == [Row(g) EXCEPT !.status = "failed"]
  <2>1. pc[g] = "capacity" /\ pc[g] \in RunStages /\ Save(g, row) /\ media' = media
    BY <1>14 DEF NeedsSpace, disks, Stages, SetStages, DiskStages, RunStages, Settled, Recorded
  <2>2. row.status \notin {"success", "deleted"} /\ row.disk = job[g].disk
    BY <1>2, <2>1 DEF FileOK, BackupRun
  <2> HIDE DEF row
  <2>3. CASE pc' = [pc EXCEPT ![g] = "full"] /\ job' = job /\ work' = work
    <3>1. pc'[g] = "full" /\ pc'[g] \in RunStages /\ pc'[g] \notin Recorded
      BY <1>1, <2>3 DEF Stages, SetStages, DiskStages, RunStages, Settled, Recorded
    <3> QED
      BY <2>1, <2>2, <2>3, <3>1, FileSaved
  <2>4. CASE \E stage \in {"dataset", "blocked"} : pc' = [pc EXCEPT ![g] = stage]
    <3>1. pc'[g] \notin RunStages
      BY <1>1, <2>4 DEF Stages, SetStages, DiskStages, RunStages, Settled, Recorded
    <3>2. \A i \in DOMAIN runs' :
            \/ i \in DOMAIN runs /\ runs'[i] = runs[i]
            \/ runs'[i].status \notin {"success", "deleted"}
      BY <2>1, <2>2, SavedRow DEF Row
    <3> QED
      BY <2>1, <3>1, <3>2, FileOut
  <2>5. work[g].retry \in {"no", "advanced", "recycled"}
    BY <1>1 DEF Work
  <2> QED
    BY <1>14, <2>3, <2>4, <2>5 DEF NeedsSpace, Count, Block, Goto
<1>15. CASE SendDone(g)
  <2> DEFINE file == [ds |-> CurDataset(g), type |-> work[g].type, snap |-> work[g].snap,
                      base |-> work[g].base, by |-> session[g].id, listed |-> FALSE]
             r == [Row(g) EXCEPT !.base = work[g].base, !.anchor = work[g].anchor]
  <2>1. /\ pc[g] \in RunStages /\ pc[g] \in Recorded /\ pc'[g] = "commit"
        /\ runs' = runs /\ job' = job /\ work' = work
        /\ media' = [media EXCEPT ![job[g].disk] = @ \cup {file}]
    BY <1>1, <1>15 DEF SendDone, Goto, Stages, SetStages, DiskStages, RunStages, Settled, Recorded
  <2>2. media \in [Disks -> SUBSET Stream] /\ job[g].disk \in Disks
    BY <2>1, CurTypes DEF TypeInv, TypeOK, StoreOK, RunStages
  <2>3. Holds(file, r)
    BY <1>2, <2>1 DEF Holds, FileOK, RunInv, RunOK, BackupRun
  <2>4. Row(g)' = Row(g)
    BY <2>1 DEF Row
  <2>5. /\ \A k \in Disks : media[k] \subseteq media'[k]
        /\ file \in media'[job[g].disk]
    BY <2>1, <2>2
  <2>6. FileOK(g)'
    BY <1>2, <2>1, <2>3, <2>4, <2>5 DEF FileOK
  <2> HIDE DEF file
  <2> QED
    BY <2>1, <2>5, <2>6 DEF FileStep, FileInv
<1>16. CASE SendFails(g)
  BY <1>1, <1>16, FileKept DEF SendFails, Goto, disks, Work, Stages, SetStages, DiskStages, RunStages, Settled, Recorded
<1>17. CASE DropFailed(g)
  <2> DEFINE row == [Row(g) EXCEPT !.status = "failed"]
  <2>1. /\ pc[g] \in RunStages /\ pc'[g] \in RunStages \ {"commit"} /\ Save(g, row)
        /\ media' = media /\ work'[g].run = work[g].run
    BY <1>1, <1>17 DEF DropFailed, Goto, disks, Work, Stages, SetStages, DiskStages, RunStages, Settled, Recorded
  <2>2. row.status \notin {"success", "deleted"} /\ row.disk = job'[g].disk
    BY <1>1, <1>2, <1>17, <2>1 DEF DropFailed, FileInv, FileOK, BackupRun, Row, Job
  <2>3. pc'[g] \in Recorded => row.snap = work'[g].snap /\ row.type = work'[g].type
    BY <1>1, <1>2, <1>17, <2>1 DEF DropFailed, Goto, Recorded, BackupRun
  <2> HIDE DEF row
  <2> QED
    BY <2>1, <2>2, <2>3, FileSaved
<1>18. CASE CommitRun(g)
  <2> DEFINE row == [Row(g) EXCEPT !.status = "success", !.base = work[g].base,
                                   !.anchor = work[g].anchor]
  <2>1. /\ pc[g] = "commit" /\ pc[g] \in RunStages /\ pc'[g] = "list"
        /\ media' = media /\ job' = job /\ work' = work /\ Save(g, row)
    BY <1>1, <1>18 DEF CommitRun, Goto, disks, Stages, SetStages, DiskStages, RunStages, Settled, Recorded
  <2>2. \E f \in media[row.disk] : Holds(f, row)
    BY <1>2, <2>1 DEF FileOK, Holds, BackupRun
  <2>3. row.status = "success" /\ row.disk = job[g].disk
    BY <1>2, <2>1 DEF FileOK, BackupRun
  <2> HIDE DEF row
  <2>4. /\ DOMAIN runs' = DOMAIN runs
        /\ \A i \in DOMAIN runs : i # work[g].run => runs'[i] = runs[i]
        /\ runs'[work[g].run] = row /\ Row(g)' = row
    BY <1>2, <2>1, SavedRow DEF FileInv, Row
  <2>5. FileOK(g)'
    BY <2>1, <2>3, <2>4 DEF FileOK, Recorded
  <2> QED
    BY <2>1, <2>2, <2>3, <2>4, <2>5 DEF FileStep, FileInv
<1> QED
  BY <1>3, <1>4, <1>5, <1>6, <1>7, <1>8, <1>9, <1>10, <1>11, <1>12, <1>13, <1>14, <1>15, <1>16, <1>17, <1>18 DEF Writing

LEMMA SettlingFiles ==
  ASSUME Recycling = {}, TypeInv, OutcomeInv, FileInv, NEW g \in Groups, Settling(g)
  PROVE  FileStep(g)
<1>1. /\ pc \in [Groups -> Stages] /\ work \in [Groups -> Work] /\ job \in [Groups -> Job]
      /\ work[g] \in Work /\ job[g] \in Job /\ pc[g] \notin {"wipe", "reformat"}
  BY DEF TypeInv, TypeOK, WorkerOK, OutcomeInv, OutcomeOK
<1>2. /\ runs \in Seq(BackupRun) /\ FileOK(g)
      /\ pc[g] \in RunStages =>
           CurDataset(g) \in Datasets /\ work[g].run \in DOMAIN runs /\ Row(g) \in BackupRun
  BY CurTypes DEF TypeInv, TypeOK, RowsOK, FileInv
<1>3. CASE PruneList(g)
  BY <1>1, <1>3, FileKept DEF PruneList, Goto, disks, Work, Stages, SetStages, DiskStages, RunStages, Settled, Recorded
<1>4. ASSUME NEW t, PruneOne(g, t)
      PROVE  FileStep(g)
  BY <1>1, <1>4, FileKept DEF PruneOne, Goto, disks, Work, Stages, SetStages, DiskStages, RunStages, Settled, Recorded
<1>5. CASE PruneDone(g) \/ PruneSkipped(g)
  BY <1>1, <1>5, FileKept DEF PruneDone, PruneSkipped, Goto, disks, Work, Stages, SetStages, DiskStages, RunStages, Settled, Recorded
<1>6. CASE RecordManifest(g)
  <2> DEFINE mine == { f \in media[job[g].disk] : f.ds = CurDataset(g) /\ f.snap = work[g].snap }
  <2>1. /\ pc[g] = "manifest" /\ pc[g] \in RunStages /\ pc'[g] = "unmount" /\ runs' = runs
        /\ job' = job /\ work'[g].run = work[g].run
        /\ media' = [media EXCEPT ![job[g].disk] =
             (@ \ mine) \cup { [f EXCEPT !.listed = TRUE] : f \in mine }]
    BY <1>1, <1>6 DEF RecordManifest, Goto, Work, Stages, SetStages, DiskStages, RunStages, Settled, Recorded
  <2>2. media \in [Disks -> SUBSET Stream] /\ job[g].disk \in Disks
    BY <2>1, CurTypes DEF TypeInv, TypeOK, StoreOK, RunStages
  <2> HIDE DEF mine
  <2>3. ASSUME NEW k \in Disks, NEW f \in media[k]
        PROVE  \E e \in media'[k] : \A r \in BackupRun : Holds(f, r) => Holds(e, r)
    <3>1. f \in Stream
      BY <2>2, <2>3
    <3>2. CASE f \in media'[k]
      BY <3>2
    <3>3. CASE f \notin media'[k]
      <4>1. [f EXCEPT !.listed = TRUE] \in media'[k]
        BY <2>1, <2>2, <2>3, <3>3
      <4>2. \A r \in BackupRun : Holds(f, r) => Holds([f EXCEPT !.listed = TRUE], r)
        BY <3>1 DEF Holds, Stream
      <4> QED
        BY <4>1, <4>2
    <3> QED
      BY <3>2, <3>3
  <2>4. FileOK(g)'
    <3>1. Row(g)' = Row(g)
      BY <2>1 DEF Row
    <3> QED
      BY <1>2, <2>1, <3>1 DEF FileOK, Recorded
  <2> QED
    BY <2>1, <2>3, <2>4 DEF FileStep, FileInv
<1>7. CASE ManifestFails(g)
  BY <1>1, <1>7, FileKept DEF ManifestFails, Goto, disks, Work, Stages, SetStages, DiskStages, RunStages, Settled, Recorded
<1>8. CASE RunErrs(g)
  <2> DEFINE row == [Row(g) EXCEPT !.status = "failed"]
  <2>1. /\ pc[g] \in RunStages /\ pc'[g] \in RunStages \ {"commit"} /\ Save(g, row)
        /\ media' = media /\ work'[g].run = work[g].run
    BY <1>1, <1>8 DEF RunErrs, Goto, disks, Work, Stages, SetStages, DiskStages, RunStages, Settled, Recorded
  <2>2. row.status \notin {"success", "deleted"} /\ row.disk = job'[g].disk
    BY <1>1, <1>2, <1>8, <2>1 DEF RunErrs, FileInv, FileOK, BackupRun, Row, Job
  <2>3. pc'[g] \in Recorded => row.snap = work'[g].snap /\ row.type = work'[g].type
    BY <1>1, <1>2, <1>8, <2>1 DEF RunErrs, Goto, Recorded, BackupRun
  <2> HIDE DEF row
  <2> QED
    BY <2>1, <2>2, <2>3, FileSaved
<1>9. CASE Unmount(g)
  BY <1>1, <1>9, FileOut DEF Unmount, Goto, disks, Count, Stages, SetStages, DiskStages, RunStages, Settled, Recorded
<1> QED
  BY <1>3, <1>4, <1>5, <1>6, <1>7, <1>8, <1>9 DEF Settling

LEMMA MakingFiles ==
  ASSUME Recycling = {}, TypeInv, OutcomeInv, FileInv, NEW g \in Groups, Making(g)
  PROVE  FileStep(g)
<1>1. /\ pc \in [Groups -> Stages] /\ work \in [Groups -> Work] /\ job \in [Groups -> Job]
      /\ work[g] \in Work /\ job[g] \in Job /\ pc[g] \notin {"wipe", "reformat"}
  BY DEF TypeInv, TypeOK, WorkerOK, OutcomeInv, OutcomeOK
<1>2. /\ runs \in Seq(BackupRun) /\ FileOK(g)
      /\ pc[g] \in RunStages =>
           CurDataset(g) \in Datasets /\ work[g].run \in DOMAIN runs /\ Row(g) \in BackupRun
  BY CurTypes DEF TypeInv, TypeOK, RowsOK, FileInv
<1>3. CASE PutAwayFull(g)
  BY <1>1, <1>3, FileKept DEF PutAwayFull, Goto, disks, Work, Stages, SetStages, DiskStages, RunStages, Settled, Recorded
<1>4. ASSUME NEW k \in Disks, AdvanceTo(g, k)
      PROVE  FileStep(g)
  <2> DEFINE row == Retarget(Row(g), k)
  <2>1. /\ pc[g] \in RunStages /\ pc'[g] = "mount" /\ Save(g, row)
        /\ media' = media /\ work'[g].run = work[g].run /\ job'[g].disk = k
    BY <1>1, <1>4 DEF AdvanceTo, Goto, Work, Job, Stages, SetStages, DiskStages, RunStages, Settled, Recorded
  <2>2. row.status = "running" /\ row.disk = k
    BY <1>2, <2>1 DEF Retarget, BackupRun
  <2> HIDE DEF row
  <2> QED
    BY <2>1, <2>2, FileSaved DEF Stages, SetStages, DiskStages, RunStages, Settled, Recorded
<1>5. CASE NoRoomInSet(g)
  <2>1. pc'[g] = "blocked" /\ media' = media /\ runs' = runs
    BY <1>1, <1>5 DEF NoRoomInSet, Block, Goto, disks
  <2> QED
    BY <2>1, FileOut DEF Stages, SetStages, DiskStages, RunStages, Settled, Recorded
<1>6. CASE Wipe(g)
  BY <1>1, <1>6 DEF Wipe
<1>7. CASE RecycleFails(g)
  BY <1>1, <1>7 DEF RecycleFails
<1>8. CASE Reformatted(g)
  BY <1>1, <1>8 DEF Reformatted
<1> QED
  BY <1>3, <1>4, <1>5, <1>6, <1>7, <1>8 DEF Making

LEMMA ChoosingFiles ==
  ASSUME Recycling = {}, TypeInv, OutcomeInv, FileInv, NEW g \in Groups, Choosing(g)
  PROVE  FileStep(g)
<1>1. /\ pc \in [Groups -> Stages] /\ work \in [Groups -> Work] /\ job \in [Groups -> Job]
      /\ work[g] \in Work /\ job[g] \in Job /\ pc[g] \notin {"wipe", "reformat"}
  BY DEF TypeInv, TypeOK, WorkerOK, OutcomeInv, OutcomeOK
<1>2. /\ runs \in Seq(BackupRun) /\ FileOK(g)
      /\ pc[g] \in RunStages =>
           CurDataset(g) \in Datasets /\ work[g].run \in DOMAIN runs /\ Row(g) \in BackupRun
  BY CurTypes DEF TypeInv, TypeOK, RowsOK, FileInv
<1>3. CASE Resolve(g)
  BY <1>1, <1>3, FileOut DEF Resolve, Goto, disks, Stages, SetStages, DiskStages, RunStages, Settled, Recorded
<1>4. ASSUME NEW k, ChooseDisk(g, k)
      PROVE  FileStep(g)
  BY <1>1, <1>4, FileOut DEF ChooseDisk, Goto, disks, Stages, SetStages, DiskStages, RunStages, Settled, Recorded
<1>5. CASE NoUsableDisk(g)
  BY <1>1, <1>5, FileOut DEF NoUsableDisk, Goto, disks, Block, Stages, SetStages, DiskStages, RunStages, Settled, Recorded
<1>6. CASE DatasetMissing(g)
  <2>1. /\ media' = media /\ pc'[g] \notin RunStages
        /\ Insert(g, job[g].targets[1], "full", "failed")
    BY <1>1, <1>6 DEF DatasetMissing, Count, Goto, disks, Stages, SetStages, DiskStages, RunStages, Settled, Recorded
  <2>2. \A i \in DOMAIN runs' :
          \/ i \in DOMAIN runs /\ runs'[i] = runs[i]
          \/ runs'[i].status \notin {"success", "deleted"}
    BY <1>2, <2>1 DEF Insert
  <2> QED
    BY <2>1, <2>2, FileOut
<1>7. CASE NewRun(g)
  <2>1. /\ media' = media /\ pc'[g] = "mount" /\ job' = job
        /\ work'[g].run = Len(runs) + 1
        /\ \E type : Insert(g, CurSet(g), type, "running")
    BY <1>1, <1>7 DEF NewRun, Goto, disks
  <2>2. /\ \A i \in DOMAIN runs' :
              \/ i \in DOMAIN runs /\ runs'[i] = runs[i]
              \/ runs'[i].status \notin {"success", "deleted"}
        /\ runs'[Len(runs) + 1].disk = job[g].disk
    BY <1>2, <2>1 DEF Insert
  <2>3. FileOK(g)'
    BY <2>1, <2>2 DEF FileOK, Row, Recorded
  <2> QED
    BY <2>1, <2>2, <2>3 DEF FileStep, FileInv
<1>8. CASE SetWritten(g)
  BY <1>1, <1>8, FileOut DEF SetWritten, Goto, disks, Stages, SetStages, DiskStages, RunStages, Settled, Recorded
<1> QED
  BY <1>3, <1>4, <1>5, <1>6, <1>7, <1>8 DEF Choosing

LEMMA EndingFiles ==
  ASSUME Recycling = {}, TypeInv, OutcomeInv, FileInv, NEW g \in Groups, Ending(g)
  PROVE  FileStep(g)
<1>1. /\ pc \in [Groups -> Stages] /\ work \in [Groups -> Work] /\ job \in [Groups -> Job]
      /\ work[g] \in Work /\ job[g] \in Job /\ pc[g] \notin {"wipe", "reformat"}
  BY DEF TypeInv, TypeOK, WorkerOK, OutcomeInv, OutcomeOK
<1>2. /\ runs \in Seq(BackupRun) /\ FileOK(g)
      /\ pc[g] \in RunStages =>
           CurDataset(g) \in Datasets /\ work[g].run \in DOMAIN runs /\ Row(g) \in BackupRun
  BY CurTypes DEF TypeInv, TypeOK, RowsOK, FileInv
<1>3. CASE Rotate(g)
  BY <1>1, <1>3, FileOut DEF Rotate, Goto, disks, Stages, SetStages, DiskStages, RunStages, Settled, Recorded
<1>4. CASE CaptureConfig(g)
  BY <1>1, <1>4, FileOut DEF CaptureConfig, Goto, disks, Stages, SetStages, DiskStages, RunStages, Settled, Recorded
<1>5. CASE Finish(g)
  BY <1>1, <1>5, FileOut DEF Finish, Goto, disks, Stages, SetStages, DiskStages, RunStages, Settled, Recorded
<1> QED
  BY <1>3, <1>4, <1>5 DEF Ending

LEMMA FilesStay ==
  ASSUME FileInv, media' = media, runs' = runs,
         \A g \in Groups : pc'[g] \in RunStages =>
           pc'[g] = pc[g] /\ job'[g] = job[g] /\ work'[g] = work[g]
  PROVE  FileInv'
BY DEF FileInv, FileOK, Row, IsSuccess

LEMMA FileInvStep ==
  ASSUME Recycling = {}, TypeInv, TypeInv', OutcomeInv, RunInv, FileInv, [Next]_vars
  PROVE  FileInv'
<1>1. /\ pc \in [Groups -> Stages] /\ work \in [Groups -> Work] /\ job \in [Groups -> Job]
      /\ runs \in Seq(BackupRun)
  BY DEF TypeInv, TypeOK, WorkerOK, RowsOK
<1>2. ASSUME NEW g \in Groups, NEW trigger \in Triggers, Start(g, trigger)
      PROVE  FileInv'
  BY <1>1, <1>2, FilesStay DEF Start, Goto, disks, RunStages, DiskStages, SetStages
<1>3. ASSUME NEW g \in Groups, Worker(g)
      PROVE  FileInv'
  <2>1. FileStep(g)
    BY <1>3, WritingFiles, SettlingFiles, MakingFiles, ChoosingFiles, EndingFiles DEF Worker
  <2> QED
    BY <1>3, <2>1, WorkerMoves, WorkerFiles
<1>4. ASSUME NEW g \in Groups, WorkerDies(g)
      PROVE  FileInv'
  BY <1>1, <1>4, FilesStay DEF WorkerDies, Goto, disks, RunStages, DiskStages, SetStages
<1>5. CASE Crash
  BY <1>5, FilesStay DEF Crash, RunStages, DiskStages, SetStages
<1>6. CASE Recovery
  <2>1. \A h \in Groups : pc'[h] = "idle" /\ FileOK(h)'
    BY <1>6 DEF Recovery, RecoverRun, Restart, OutcomeInv, OutcomeOK, FileOK, RunStages,
       DiskStages, SetStages
  <2>2. ASSUME NEW i \in DOMAIN runs, RecoverRun(i)
        PROVE  FileInv'
    BY <2>1, <2>2, FilesStay DEF RecoverRun, disks, RunStages, DiskStages, SetStages
  <2>3. CASE Restart
    <3>1. media' = media /\ DOMAIN runs' = DOMAIN runs
      BY <2>3 DEF Restart, disks
    <3>2. \A i \in DOMAIN runs : runs'[i] = runs[i] \/ runs'[i].status = "failed"
      BY <1>1, <2>3 DEF Restart, BackupRun
    <3> QED
      BY <2>1, <3>1, <3>2 DEF FileInv, IsSuccess
  <2> QED
    BY <1>6, <2>2, <2>3 DEF Recovery
<1>7. ASSUME NEW k \in Disks, OperatorUnmounts(k)
      PROVE  FileInv'
  BY <1>7, FilesStay DEF OperatorUnmounts
<1>8. CASE UNCHANGED vars
  BY <1>8, FilesStay DEF vars, disks
<1> QED
  BY <1>2, <1>3, <1>4, <1>5, <1>6, <1>7, <1>8 DEF Next

\* Where no group recycles its disks, a row that says success is backed by a
\* complete stream on the disk it names, although the row is written after the
\* stream, moves with its run from a full disk to another, and may be failed
\* again by a later error.
THEOREM StoredOnMediumCorrect ==
  ASSUME Recycling = {}
  PROVE  Spec => []StoredOnMedium
<1>1. Init => FileInv
  BY DEF Init, FileInv, FileOK, RunStages, DiskStages, SetStages
<1>2. TypeInv /\ TypeInv' /\ OutcomeInv /\ RunInv /\ FileInv /\ [Next]_vars => FileInv'
  BY FileInvStep
<1>3. FileInv => StoredOnMedium
  BY DEF FileInv, StoredOnMedium, Stored, Holds
<1> QED
  BY <1>1, <1>2, <1>3, RunInvariant, PTL DEF Spec

-----------------------------------------------------------------------------
(* The rotation *)

\* Places of a cycle of n, counted on from its end.
Wrap(n, x) == IF x <= n THEN x ELSE x - n
Turn(n, x) == IF x < n THEN x ELSE x - n

LEMMA Modulo ==
  ASSUME NEW n \in Nat \ {0}, NEW a \in 0..(n - 1), NEW b \in 0..n
  PROVE  (a + b) % n = IF a + b < n THEN a + b ELSE a + b - n
BY Z3

LEMMA WrapIsModulo ==
  ASSUME NEW n \in Nat \ {0}, NEW p \in 1..n, NEW i \in 0..n
  PROVE  ((p + i - 1) % n) + 1 = Wrap(n, p + i) /\ Wrap(n, p + i) \in 1..n
<1> DEFINE a == p - 1
           r == (a + i) % n
<1>1. a \in 0..(n - 1) /\ p + i - 1 = a + i
  OBVIOUS
<1>2. r = IF a + i < n THEN a + i ELSE a + i - n
  BY <1>1, Modulo
<1>3. (p + i - 1) % n = r
  BY <1>1
<1> HIDE DEF r
<1> QED
  BY <1>2, <1>3 DEF Wrap

LEMMA WrapInjective ==
  ASSUME NEW n \in Nat \ {0}, NEW p \in 1..n, NEW i \in 0..(n - 1), NEW j \in 0..(n - 1),
         Wrap(n, p + i) = Wrap(n, p + j)
  PROVE  i = j
BY DEF Wrap

LEMMA PlaceOf ==
  ASSUME NEW g \in Groups
  PROVE  /\ Len(Cycle[g]) \in Nat \ {0} /\ DOMAIN Cycle[g] = 1..Len(Cycle[g])
         /\ \A s \in Ran(Cycle[g]) :
              PositionOf(g, s) \in DOMAIN Cycle[g] /\ Cycle[g][PositionOf(g, s)] = s
         /\ \A i \in DOMAIN Cycle[g] : PositionOf(g, Cycle[g][i]) = i
<1>1. Len(Cycle[g]) \in Nat \ {0} /\ DOMAIN Cycle[g] = 1..Len(Cycle[g])
  BY TopologyAssumption
<1>2. \A s \in Ran(Cycle[g]) :
        PositionOf(g, s) \in DOMAIN Cycle[g] /\ Cycle[g][PositionOf(g, s)] = s
  BY DEF PositionOf, Ran
<1>3. ASSUME NEW i \in DOMAIN Cycle[g]
      PROVE  PositionOf(g, Cycle[g][i]) = i
  <2>1. Cycle[g][i] \in Ran(Cycle[g])
    BY DEF Ran
  <2> QED
    BY <1>2, <2>1, TopologyAssumption
<1> QED
  BY <1>1, <1>2, <1>3

\* The cycle of g has n places.
Places(g, n) == n = Len(Cycle[g])

\* The set i places after s.
LEMMA AfterPlace ==
  ASSUME NEW g \in Groups, NEW s \in Ran(Cycle[g]),
         NEW n \in Nat \ {0}, Places(g, n), NEW i \in 0..n
  PROVE  /\ Wrap(n, PositionOf(g, s) + i) \in DOMAIN Cycle[g]
         /\ After(g, s, i) = Cycle[g][Wrap(n, PositionOf(g, s) + i)]
<1>1. DOMAIN Cycle[g] = 1..n /\ PositionOf(g, s) \in 1..n
  BY PlaceOf DEF Places
<1>2. /\ ((PositionOf(g, s) + i - 1) % n) + 1 = Wrap(n, PositionOf(g, s) + i)
      /\ Wrap(n, PositionOf(g, s) + i) \in 1..n
  BY <1>1, WrapIsModulo
<1>3. After(g, s, i) = Cycle[g][((PositionOf(g, s) + i - 1) % n) + 1]
  BY DEF After, Places
<1> QED
  BY <1>1, <1>2, <1>3

LEMMA AfterInjective ==
  ASSUME NEW g \in Groups, NEW s \in Ran(Cycle[g]), NEW n \in Nat \ {0}, Places(g, n),
         NEW i \in 0..(n - 1), NEW j \in 0..(n - 1), After(g, s, i) = After(g, s, j)
  PROVE  i = j
<1>1. PICK p \in 1..n : p = PositionOf(g, s)
  BY PlaceOf DEF Places
<1>2. i \in 0..n /\ j \in 0..n
  OBVIOUS
<1>3. /\ Wrap(n, p + i) \in DOMAIN Cycle[g] /\ After(g, s, i) = Cycle[g][Wrap(n, p + i)]
      /\ Wrap(n, p + j) \in DOMAIN Cycle[g] /\ After(g, s, j) = Cycle[g][Wrap(n, p + j)]
  BY <1>1, <1>2, AfterPlace
<1>4. Wrap(n, p + i) = Wrap(n, p + j)
  BY <1>3, TopologyAssumption
<1> QED
  BY <1>4, WrapInjective

\* Counting from m places on.
LEMMA AfterTurned ==
  ASSUME NEW g \in Groups, NEW s \in Ran(Cycle[g]),
         NEW n \in Nat \ {0}, Places(g, n),
         NEW m \in 1..n, NEW i \in 0..(n - 1)
  PROVE  After(g, After(g, s, m), i) = After(g, s, Turn(n, m + i))
<1>1. PICK p \in 1..n : p = PositionOf(g, s)
  BY PlaceOf DEF Places
<1>0. PICK k \in 0..(n - 1) : k = Turn(n, m + i)
  <2>1. Turn(n, m + i) \in 0..(n - 1)
    BY DEF Turn
  <2> QED
    BY <2>1
<1>2. m \in 0..n /\ i \in 0..n /\ k \in 0..n
  OBVIOUS
<1>3. PICK q \in 1..n : q = Wrap(n, p + m)
  BY <1>2, WrapIsModulo
<1>4. Wrap(n, q + i) = Wrap(n, p + k)
  BY <1>0, <1>3 DEF Wrap, Turn
<1>5. After(g, s, m) = Cycle[g][q]
  BY <1>1, <1>2, <1>3, AfterPlace
<1>6. PositionOf(g, After(g, s, m)) = q /\ After(g, s, m) \in Ran(Cycle[g])
  BY <1>5, PlaceOf DEF Ran, Places
<1>7. After(g, After(g, s, m), i) = Cycle[g][Wrap(n, q + i)]
  BY <1>2, <1>6, AfterPlace
<1>8. After(g, s, k) = Cycle[g][Wrap(n, p + k)]
  BY <1>1, <1>2, AfterPlace
<1> QED
  BY <1>0, <1>4, <1>7, <1>8

\* Stages from the choice of the target sets to the rotation.
Turning == Stages \ {"idle", "resolve", "capture"}

\* The sets a session will rotate past are those from the active one on, and no
\* set of a group was used after its newest session.
RotationInv ==
  /\ RotationIsLRU
  /\ \A g \in Groups :
       /\ session[g].id <= sessions
       /\ \A s \in Ran(Cycle[g]) : lastUsed[s] <= session[g].id
       /\ pc[g] \in Turning => job[g].targets = TargetSets(g)

\* Neither sessions nor targets are begun, and nothing is rotated.
Still ==
  /\ activeSet' = activeSet /\ lastUsed' = lastUsed /\ sessions' = sessions
  /\ \A h \in Groups :
       /\ session'[h].id = session[h].id
       /\ pc'[h] \in Turning => pc[h] \in Turning /\ job'[h].targets = job[h].targets

LEMMA StillKeeps ==
  ASSUME RotationInv, Still
  PROVE  RotationInv'
BY DEF RotationInv, Still, RotationIsLRU, TargetSets

LEMMA ChoosingStays ==
  ASSUME TypeInv, NEW g \in Groups, Choosing(g), ~Resolve(g)
  PROVE  Still
<1>1. pc \in [Groups -> Stages] /\ job \in [Groups -> Job] /\ session \in [Groups -> SessionRow]
  BY DEF TypeInv, TypeOK, WorkerOK, RowsOK
<1>2. ASSUME NEW k, ChooseDisk(g, k)
      PROVE  Still
  BY <1>1, <1>2 DEF ChooseDisk, Goto, proc, Turning, Still
<1>3. CASE NoUsableDisk(g)
  BY <1>1, <1>3 DEF NoUsableDisk, Block, Goto, proc, Turning, Still
<1>4. CASE DatasetMissing(g)
  BY <1>1, <1>4 DEF DatasetMissing, Count, Insert, Goto, rows, proc, Turning, Still
<1>5. CASE NewRun(g)
  BY <1>1, <1>5 DEF NewRun, Goto, Insert, rows, proc, Turning, Still
<1>6. CASE SetWritten(g)
  BY <1>1, <1>6 DEF SetWritten, Goto, rows, proc, Turning, Still
<1> QED
  BY <1>2, <1>3, <1>4, <1>5, <1>6 DEF Choosing

LEMMA WritingStays ==
  ASSUME TypeInv, NEW g \in Groups, Writing(g)
  PROVE  Still
<1>1. pc \in [Groups -> Stages] /\ job \in [Groups -> Job] /\ session \in [Groups -> SessionRow]
  BY DEF TypeInv, TypeOK, WorkerOK, RowsOK
<1>2. CASE MountForRun(g)
  BY <1>1, <1>2 DEF MountForRun, Goto, rows, proc, Turning, Still
<1>3. CASE ResolveAnchor(g) \/ AnchorUnlisted(g)
  BY <1>1, <1>3 DEF ResolveAnchor, AnchorUnlisted, Goto, rows, proc, Turning, Still
<1>4. CASE ReuseSnapshot(g)
  BY <1>1, <1>4 DEF ReuseSnapshot, Goto, rows, proc, Turning, Still
<1>5. ASSUME NEW t, TakeSnapshot(g, t)
      PROVE  Still
  BY <1>1, <1>5 DEF TakeSnapshot, Goto, rows, proc, Turning, Still
<1>6. ASSUME NEW t, SnapshotFails(g, t)
      PROVE  Still
  BY <1>1, <1>6 DEF SnapshotFails, Goto, Save, rows, proc, Turning, Still
<1>7. CASE DiscardFailedName(g)
  BY <1>1, <1>7 DEF DiscardFailedName, Goto, Save, rows, proc, Turning, Still
<1>8. CASE RecordSnapshot(g)
  BY <1>1, <1>8 DEF RecordSnapshot, Goto, Save, rows, proc, Turning, Still
<1>9. CASE Changed(g)
  BY <1>1, <1>9 DEF Changed, Goto, rows, proc, Turning, Still
<1>10. CASE Unchanged(g)
  BY <1>1, <1>10 DEF Unchanged, Goto, Save, rows, proc, Turning, Still
<1>11. CASE DropSkipped(g)
  BY <1>1, <1>11 DEF DropSkipped, Goto, rows, proc, Turning, Still
<1>12. CASE Fits(g)
  BY <1>1, <1>12 DEF Fits, Goto, rows, proc, Turning, Still
<1>13. CASE NeedsSpace(g)
  <2>1. pc[g] = "capacity" /\ activeSet' = activeSet /\ lastUsed' = lastUsed
    <3>1. work[g].retry \in {"no", "advanced", "recycled"}
      BY DEF TypeInv, TypeOK, WorkerOK, Work
    <3> QED
      BY <1>13, <3>1 DEF NeedsSpace, Block
  <2>2. /\ sessions' = sessions /\ session' = session
        /\ job' = job \/ Count(g, "failed")
        /\ \E t \in Stages : Goto(g, t)
    <3>1. work[g].retry \in {"no", "advanced", "recycled"}
      BY DEF TypeInv, TypeOK, WorkerOK, Work
    <3> QED
      BY <1>13, <3>1 DEF NeedsSpace, Block, Count, Stages
  <2>3. \A h \in Groups : job'[h].targets = job[h].targets
    BY <1>1, <2>2 DEF Count, Job
  <2>4. \A h \in Groups \ {g} : pc'[h] = pc[h]
    BY <1>1, <2>2 DEF Goto
  <2> QED
    BY <2>1, <2>2, <2>3, <2>4 DEF Turning, Stages, Still
<1>14. CASE SendDone(g)
  BY <1>1, <1>14 DEF SendDone, Goto, rows, proc, Turning, Still
<1>15. CASE SendFails(g)
  BY <1>1, <1>15 DEF SendFails, Goto, rows, proc, Turning, Still
<1>16. CASE DropFailed(g)
  BY <1>1, <1>16 DEF DropFailed, Goto, Save, rows, proc, Turning, Still
<1>17. CASE CommitRun(g)
  BY <1>1, <1>17 DEF CommitRun, Goto, Save, rows, proc, Turning, Still
<1> QED
  BY <1>2, <1>3, <1>4, <1>5, <1>6, <1>7, <1>8, <1>9, <1>10, <1>11, <1>12, <1>13, <1>14, <1>15, <1>16, <1>17 DEF Writing

LEMMA SettlingStays ==
  ASSUME TypeInv, NEW g \in Groups, Settling(g)
  PROVE  Still
<1>1. pc \in [Groups -> Stages] /\ job \in [Groups -> Job] /\ session \in [Groups -> SessionRow]
  BY DEF TypeInv, TypeOK, WorkerOK, RowsOK
<1>2. CASE PruneList(g)
  BY <1>1, <1>2 DEF PruneList, Goto, rows, proc, Turning, Still
<1>3. ASSUME NEW t, PruneOne(g, t)
      PROVE  Still
  BY <1>1, <1>3 DEF PruneOne, Goto, rows, proc, Turning, Still
<1>4. CASE PruneDone(g) \/ PruneSkipped(g)
  BY <1>1, <1>4 DEF PruneDone, PruneSkipped, Goto, rows, proc, Turning, Still
<1>5. CASE RecordManifest(g)
  BY <1>1, <1>5 DEF RecordManifest, Goto, rows, proc, Turning, Still
<1>6. CASE ManifestFails(g)
  BY <1>1, <1>6 DEF ManifestFails, Goto, rows, proc, Turning, Still
<1>7. CASE RunErrs(g)
  BY <1>1, <1>7 DEF RunErrs, Goto, Save, rows, proc, Turning, Still
<1>8. CASE Unmount(g)
  BY <1>1, <1>8 DEF Unmount, Count, Goto, rows, proc, Turning, Still
<1> QED
  BY <1>2, <1>3, <1>4, <1>5, <1>6, <1>7, <1>8 DEF Settling

LEMMA MakingStays ==
  ASSUME TypeInv, NEW g \in Groups, Making(g)
  PROVE  Still
<1>1. pc \in [Groups -> Stages] /\ job \in [Groups -> Job] /\ session \in [Groups -> SessionRow]
  BY DEF TypeInv, TypeOK, WorkerOK, RowsOK
<1>2. CASE PutAwayFull(g)
  BY <1>1, <1>2 DEF PutAwayFull, Goto, rows, proc, Turning, Still
<1>3. ASSUME NEW k, AdvanceTo(g, k)
      PROVE  Still
  BY <1>1, <1>3 DEF AdvanceTo, Goto, Save, proc, Turning, Still
<1>4. CASE NoRoomInSet(g)
  BY <1>1, <1>4 DEF NoRoomInSet, Goto, Block, proc, Turning, Still
<1>5. CASE Wipe(g)
  BY <1>1, <1>5 DEF Wipe, Goto, rows, proc, Turning, Still
<1>6. CASE RecycleFails(g)
  BY <1>1, <1>6 DEF RecycleFails, Block, Goto, proc, Turning, Still
<1>7. CASE Reformatted(g)
  BY <1>1, <1>7 DEF Reformatted, Goto, rows, proc, Turning, Still
<1> QED
  BY <1>2, <1>3, <1>4, <1>5, <1>6, <1>7 DEF Making

LEMMA EndingStays ==
  ASSUME TypeInv, NEW g \in Groups, Ending(g), ~Rotate(g)
  PROVE  Still
<1>1. pc \in [Groups -> Stages] /\ job \in [Groups -> Job] /\ session \in [Groups -> SessionRow]
  BY DEF TypeInv, TypeOK, WorkerOK, RowsOK
<1>2. CASE CaptureConfig(g)
  BY <1>1, <1>2 DEF CaptureConfig, Goto, rows, proc, Turning, Still
<1>3. CASE Finish(g)
  BY <1>1, <1>3 DEF Finish, Goto, rows, proc, Turning, Still
<1> QED
  BY <1>2, <1>3 DEF Ending

LEMMA StartRotates ==
  ASSUME TypeInv, RotationInv, NEW g \in Groups, NEW trigger \in Triggers, Start(g, trigger)
  PROVE  RotationInv'
<1>1. /\ pc \in [Groups -> Stages] /\ job \in [Groups -> Job] /\ session \in [Groups -> SessionRow]
      /\ sessions \in Nat /\ lastUsed \in [Sets -> Nat]
  BY DEF TypeInv, TypeOK, WorkerOK, RowsOK
<1>2. /\ activeSet' = activeSet /\ lastUsed' = lastUsed /\ sessions' = sessions + 1
      /\ session'[g].id = sessions + 1 /\ pc'[g] \notin Turning
      /\ \A h \in Groups \ {g} :
           session'[h] = session[h] /\ pc'[h] = pc[h] /\ job'[h] = job[h]
  BY <1>1 DEF Start, Goto, rows, Turning
<1>3. \A h \in Groups : Ran(Cycle[h]) \subseteq Sets
  BY TopologyAssumption DEF Ran
<1>4. \A h \in Groups : session[h].id \in Nat
  BY <1>1 DEF SessionRow
<1>5. ASSUME NEW h \in Groups
      PROVE  /\ session'[h].id <= sessions'
             /\ \A s \in Ran(Cycle[h]) : lastUsed'[s] <= session'[h].id
             /\ pc'[h] \in Turning => job'[h].targets = TargetSets(h)'
  BY <1>1, <1>2, <1>3, <1>4 DEF RotationInv, TargetSets
<1> QED
  BY <1>2, <1>5 DEF RotationInv, RotationIsLRU

LEMMA ResolveRotates ==
  ASSUME TypeInv, RotationInv, NEW g \in Groups, Resolve(g)
  PROVE  RotationInv'
<1>1. pc \in [Groups -> Stages] /\ job \in [Groups -> Job]
  BY DEF TypeInv, TypeOK, WorkerOK
<1>2. /\ activeSet' = activeSet /\ lastUsed' = lastUsed /\ sessions' = sessions
      /\ session' = session /\ job'[g].targets = TargetSets(g)
      /\ \A h \in Groups \ {g} : pc'[h] = pc[h] /\ job'[h] = job[h]
  BY <1>1 DEF Resolve, Goto, rows, Job
<1> QED
  BY <1>2 DEF RotationInv, RotationIsLRU, TargetSets

LEMMA RotateRotates ==
  ASSUME TypeInv, RotationInv, NEW g \in Groups, Rotate(g)
  PROVE  RotationInv'
<1> DEFINE a == activeSet[g]
           n == Len(Cycle[g])
           m == CopyCount(g)
<1>0. n \in Nat \ {0} /\ Places(g, n)
  BY PlaceOf DEF Places
<1>1. /\ pc \in [Groups -> Stages] /\ job \in [Groups -> Job] /\ session \in [Groups -> SessionRow]
      /\ lastUsed \in [Sets -> Nat] /\ activeSet \in [Groups -> Sets]
      /\ \A h \in Groups : activeSet[h] \in Ran(Cycle[h])
  BY DEF TypeInv, TypeOK, WorkerOK, RowsOK
<1>2. \A h \in Groups : Ran(Cycle[h]) \subseteq Sets
  BY TopologyAssumption DEF Ran
<1>3. n \in Nat \ {0} /\ m \in 1..n
  BY PlaceOf, TopologyAssumption DEF CopyCount
<1>4. job[g].targets = TargetSets(g)
  BY DEF Rotate, RotationInv, Turning, Stages
<1>5. /\ job[g].targets = [i \in 1..m |-> After(g, a, i - 1)]
      /\ Len(job[g].targets) = m
  BY <1>3, <1>4 DEF TargetSets
<1>6. After(g, a, 0) = a
  <2>1. 0 \in 0..n /\ PositionOf(g, a) \in 1..n /\ Cycle[g][PositionOf(g, a)] = a
    BY <1>1, <1>3, PlaceOf
  <2>2. Wrap(n, PositionOf(g, a) + 0) = PositionOf(g, a)
    BY <1>3, <2>1 DEF Wrap
  <2> QED
    BY <1>0, <1>1, <2>1, <2>2, AfterPlace
<1>7. NextSet(g) = After(g, a, m)
  BY <1>3, <1>5, <1>6 DEF NextSet
<1>8. ASSUME NEW k \in 0..(n - 1)
      PROVE  /\ After(g, a, k) \in Ran(Cycle[g])
             /\ After(g, a, k) \in Ran(job[g].targets) <=> k < m
  <2>1. After(g, a, k) \in Ran(Cycle[g])
    BY <1>1, <1>3, AfterInCycle
  <2>2. ASSUME k < m
        PROVE  After(g, a, k) \in Ran(job[g].targets)
    <3>1. k + 1 \in 1..m /\ (k + 1) - 1 = k
      BY <1>3, <2>2
    <3> QED
      BY <1>5, <3>1 DEF Ran
  <2>3. ASSUME After(g, a, k) \in Ran(job[g].targets)
        PROVE  k < m
    <3>1. PICK i \in 1..m : After(g, a, k) = After(g, a, i - 1)
      BY <1>5, <2>3 DEF Ran
    <3>2. i - 1 \in 0..(n - 1)
      BY <1>3
    <3>3. k = i - 1
      BY <1>0, <1>1, <3>1, <3>2, AfterInjective
    <3> QED
      BY <1>3, <3>3
  <2> QED
    BY <2>1, <2>2, <2>3
<1>9. Ran(job[g].targets) \subseteq Ran(Cycle[g])
  <2>1. \A i \in 1..m : i - 1 \in 0..(n - 1)
    BY <1>3
  <2> QED
    BY <1>5, <1>8, <2>1 DEF Ran
<1>10. /\ activeSet'[g] = After(g, a, m) /\ session' = session /\ sessions' = sessions
       /\ job' = job /\ pc'[g] \notin Turning
       /\ \A h \in Groups \ {g} : activeSet'[h] = activeSet[h] /\ pc'[h] = pc[h]
       /\ \A s \in Sets : lastUsed'[s] =
            IF s \in Ran(job[g].targets) THEN session[g].id ELSE lastUsed[s]
  BY <1>1, <1>7 DEF Rotate, Goto, Turning
<1>11. ASSUME NEW h \in Groups, h # g, NEW s \in Ran(Cycle[h])
       PROVE  lastUsed'[s] = lastUsed[s]
  BY <1>2, <1>9, <1>10, <1>11, TopologyAssumption
<1>12. \A h \in Groups : session[h].id \in Nat
  BY <1>1 DEF SessionRow
<1>13. ASSUME NEW h \in Groups
       PROVE  /\ session'[h].id <= sessions'
              /\ \A s \in Ran(Cycle[h]) : lastUsed'[s] <= session'[h].id
              /\ pc'[h] \in Turning => job'[h].targets = TargetSets(h)'
  <2>1. session'[h].id <= sessions'
    BY <1>10 DEF RotationInv
  <2>2. pc'[h] \in Turning => job'[h].targets = TargetSets(h)'
    BY <1>10 DEF RotationInv, TargetSets
  <2>3. \A s \in Ran(Cycle[h]) : lastUsed'[s] <= session'[h].id
    <3>1. CASE h = g
      BY <1>2, <1>10, <1>12, <3>1 DEF RotationInv
    <3>2. CASE h # g
      BY <1>10, <1>11, <3>2 DEF RotationInv
    <3> QED
      BY <3>1, <3>2
  <2> QED
    BY <2>1, <2>2, <2>3
<1>14. ASSUME NEW i \in 0..(n - 1), NEW j \in 0..(n - 1), i <= j
       PROVE  lastUsed'[After(g, activeSet'[g], i)] <= lastUsed'[After(g, activeSet'[g], j)]
  <2> DEFINE t(x) == IF m + x < n THEN m + x ELSE m + x - n
             used(k) == IF k < m THEN session[g].id ELSE lastUsed[After(g, a, k)]
  <2>1. ASSUME NEW x \in 0..(n - 1)
        PROVE  /\ t(x) \in 0..(n - 1) /\ (t(x) < m <=> m + x >= n)
               /\ lastUsed'[After(g, activeSet'[g], x)] = used(t(x))
    <3>1. t(x) \in 0..(n - 1) /\ (t(x) < m <=> m + x >= n)
      BY <1>3
    <3>2. After(g, activeSet'[g], x) = After(g, a, t(x))
      <4>1. PICK y \in 0..(n - 1) : y = t(x)
        BY <3>1
      <4>2. PICK c \in 1..n : c = m
        BY <1>3
      <4>3. y = Turn(n, c + x)
        BY <4>1, <4>2 DEF Turn
      <4>4. After(g, After(g, a, c), x) = After(g, a, y)
        BY <1>0, <1>1, <4>3, AfterTurned
      <4> QED
        BY <1>10, <4>1, <4>2, <4>4
    <3>3. After(g, a, t(x)) \in Sets /\ (After(g, a, t(x)) \in Ran(job[g].targets) <=> t(x) < m)
      BY <1>2, <1>8, <3>1
    <3> QED
      BY <1>10, <3>1, <3>2, <3>3
  <2>2. \A k \in 0..(n - 1) : lastUsed[After(g, a, k)] \in Nat /\ lastUsed[After(g, a, k)] <= session[g].id
    BY <1>1, <1>2, <1>8 DEF RotationInv
  <2>3. \A x, y \in 0..(n - 1) : x <= y => lastUsed[After(g, a, x)] <= lastUsed[After(g, a, y)]
    BY DEF RotationInv, RotationIsLRU
  <2>4. used(t(i)) <= used(t(j))
    <3>1. CASE m + i >= n
      <4>1. m + j >= n
        BY <1>3, <1>14, <3>1
      <4>2. used(t(i)) = session[g].id /\ used(t(j)) = session[g].id
        BY <2>1, <3>1, <4>1
      <4> QED
        BY <1>12, <4>2
    <3>2. CASE m + i < n /\ m + j >= n
      <4>1. used(t(i)) = lastUsed[After(g, a, t(i))] /\ used(t(j)) = session[g].id
        BY <1>3, <2>1, <3>2
      <4> QED
        BY <2>1, <2>2, <4>1
    <3>3. CASE m + i < n /\ m + j < n
      <4>1. /\ used(t(i)) = lastUsed[After(g, a, t(i))]
            /\ used(t(j)) = lastUsed[After(g, a, t(j))] /\ t(i) <= t(j)
        BY <1>3, <1>14, <2>1, <3>3
      <4> QED
        BY <2>1, <2>3, <4>1
    <3> QED
      BY <1>3, <3>1, <3>2, <3>3
  <2> QED
    BY <2>1, <2>4
<1>15. ASSUME NEW h \in Groups, h # g,
              NEW i \in 0..(Len(Cycle[h]) - 1), NEW j \in 0..(Len(Cycle[h]) - 1), i <= j
       PROVE  lastUsed'[After(h, activeSet'[h], i)] <= lastUsed'[After(h, activeSet'[h], j)]
  <2>1. activeSet'[h] = activeSet[h]
    BY <1>10, <1>15
  <2>2. Len(Cycle[h]) \in Nat
    BY PlaceOf
  <2>3. After(h, activeSet[h], i) \in Ran(Cycle[h]) /\ After(h, activeSet[h], j) \in Ran(Cycle[h])
    BY <1>1, <2>2, AfterInCycle
  <2>4. lastUsed[After(h, activeSet[h], i)] <= lastUsed[After(h, activeSet[h], j)]
    BY <1>15 DEF RotationInv, RotationIsLRU
  <2> QED
    BY <1>11, <1>15, <2>1, <2>3, <2>4
<1>16. RotationIsLRU'
  BY <1>14, <1>15 DEF RotationIsLRU
<1> QED
  BY <1>13, <1>16 DEF RotationInv

LEMMA RotationStep ==
  ASSUME TypeInv, RotationInv, [Next]_vars
  PROVE  RotationInv'
<1>1. /\ pc \in [Groups -> Stages] /\ job \in [Groups -> Job] /\ session \in [Groups -> SessionRow]
  BY DEF TypeInv, TypeOK, WorkerOK, RowsOK
<1>2. ASSUME NEW g \in Groups, Worker(g), ~Resolve(g), ~Rotate(g)
      PROVE  Still
  BY <1>2, ChoosingStays, WritingStays, SettlingStays, MakingStays, EndingStays DEF Worker
<1>3. ASSUME NEW g \in Groups, WorkerDies(g)
      PROVE  Still
  BY <1>1, <1>3 DEF WorkerDies, Goto, rows, proc, Turning, Still
<1>4. CASE Crash
  <2>1. Still
    BY <1>4 DEF Crash, rows, Turning, Still
  <2> QED
    BY <2>1, StillKeeps
<1>5. CASE Recovery
  <2>1. Still
    BY <1>1, <1>5 DEF Recovery, RecoverRun, Restart, SessionRow, rows, Still
  <2> QED
    BY <2>1, StillKeeps
<1>6. (\E k \in Disks : OperatorUnmounts(k)) \/ UNCHANGED vars => Still
  BY DEF OperatorUnmounts, vars, rows, proc, Still
<1> QED
  BY <1>2, <1>3, <1>4, <1>5, <1>6, StillKeeps, StartRotates, ResolveRotates, RotateRotates DEF Next

LEMMA RotationInit == Init => RotationInv
<1> SUFFICES ASSUME Init
             PROVE  RotationInv
  OBVIOUS
<1>1. \A g \in Groups : Ran(Cycle[g]) \subseteq Sets
  BY TopologyAssumption DEF Ran
<1>2. ASSUME NEW g \in Groups, NEW i \in 0..(Len(Cycle[g]) - 1)
      PROVE  After(g, activeSet[g], i) \in Sets
  <2>1. Len(Cycle[g]) \in Nat \ {0} /\ DOMAIN Cycle[g] = 1..Len(Cycle[g])
    BY PlaceOf
  <2>2. activeSet[g] \in Ran(Cycle[g])
    BY <2>1 DEF Init, Ran
  <2> QED
    BY <1>1, <2>1, <2>2, AfterInCycle
<1>3. RotationIsLRU
  BY <1>2 DEF Init, RotationIsLRU
<1>4. \A g \in Groups : session[g].id = 0 /\ sessions = 0 /\ pc[g] \notin Turning
  BY DEF Init, Turning
<1>5. \A s \in Sets : lastUsed[s] = 0
  BY DEF Init
<1> QED
  BY <1>1, <1>3, <1>4, <1>5 DEF RotationInv

\* The next sessions reach the least recently used sets of a group first, for any
\* cycle and any number of copies, however sessions of other groups overlap, and
\* whether sessions fail, block or are cut short.
THEOREM RotationIsLRUCorrect == Spec => []RotationIsLRU
<1>1. RotationInv => RotationIsLRU
  BY DEF RotationInv
<1>2. Init => RotationInv
  BY RotationInit
<1>3. TypeInv /\ RotationInv /\ [Next]_vars => RotationInv'
  BY RotationStep
<1> QED
  BY <1>1, <1>2, <1>3, OutcomeInvariant, PTL DEF Spec

-----------------------------------------------------------------------------
(* Chains that can be replayed *)

\* Base b, for row n of a set and dataset, is the snapshot of the newest
\* success there before it.
Follows(b, s, d, n) ==
  \E j \in SuccessIn(s, d) :
    j < n /\ runs[j].snap = b /\ \A k \in SuccessIn(s, d) : k < n => k <= j

\* Stages at which the snapshot of the run is there, at which its base is
\* resolved, and at which its set holds a copy of its dataset.
Named == {"record", "diff", "capacity", "send", "commit"}
Based == Named \cup {"snapshot"}
Holding(g) ==
  \/ pc[g] \in {"dropskipped", "list", "prune", "manifest"}
  \/ pc[g] = "unmount" /\ work[g].result # "failed"

\* The row of the run is of the set being written and the newest row of the
\* sets of its group; an incremental builds on the newest success before it,
\* and what is skipped has one.
FollowOK(g) ==
  pc[g] \in RunStages =>
    /\ Row(g).set = CurSet(g)
    /\ \A i \in DOMAIN runs : i > work[g].run => runs[i].set \notin Ran(Cycle[g])
    /\ pc[g] \in Named => work[g].snap # None
    /\ pc[g] \in Based /\ work[g].type = "incremental" =>
         Follows(work[g].base, CurSet(g), CurDataset(g), work[g].run)
    /\ pc[g] = "diff" => work[g].type = "incremental"
    /\ Holding(g) => SuccessIn(CurSet(g), CurDataset(g)) # {}

\* A success of another run than the one under way.
Copied(g, s, d) == \E j \in SuccessIn(s, d) : pc[g] \in RunStages => j # work[g].run

\* While no failure is counted, what the session has passed has a copy.
CoverOK(g) ==
  pc[g] \notin {"idle", "resolve", "blocked"} /\ ~job[g].bad =>
    /\ \A a \in DOMAIN job[g].targets, m \in DOMAIN Members[g] :
         \/ a < job[g].at
         \/ a = job[g].at /\ pc[g] # "disk" /\ m < job[g].item
         => Copied(g, job[g].targets[a], Members[g][m])
    /\ pc[g] \in {"rotate", "capture"} => job[g].at > Len(job[g].targets)

ChainOK(i) ==
  IsSuccess(i) =>
    /\ runs[i].snap # None
    /\ runs[i].type = "incremental" => Follows(runs[i].base, runs[i].set, runs[i].ds, i)

ReplayInv ==
  /\ \A i \in DOMAIN runs : ChainOK(i)
  /\ \A g \in Groups : FollowOK(g) /\ CoverOK(g)

\* A success that the worker of g commits extends the chain of its set.
Extending(g, row) ==
  row.status = "success" =>
    /\ row.snap # None
    /\ row.type = "incremental" => Follows(row.base, row.set, row.ds, work[g].run)

\* A step of the worker of g, where no disk is recycled: it writes its own row,
\* or adds one to a set of its group.
ReplayStep(g) ==
  /\ DOMAIN runs \subseteq DOMAIN runs'
  /\ \A i \in DOMAIN runs' :
       \/ i \in DOMAIN runs /\ runs'[i] = runs[i]
       \/ /\ i \in DOMAIN runs /\ pc[g] \in RunStages /\ i = work[g].run
          /\ runs'[i].set = runs[i].set /\ runs'[i].ds = runs[i].ds
          /\ Extending(g, runs'[i])
       \/ i \notin DOMAIN runs /\ runs'[i].status # "success" /\ runs'[i].set \in Ran(Cycle[g])
  /\ FollowOK(g)' /\ CoverOK(g)'

\* What a session targets, its current set included, is in the group's cycle.
LEMMA OwnSets ==
  ASSUME TypeInv, NEW g \in Groups, pc[g] \notin {"idle", "resolve", "blocked"}
  PROVE  /\ \A a \in DOMAIN job[g].targets : job[g].targets[a] \in Ran(Cycle[g])
         /\ pc[g] \in SetStages => CurSet(g) \in Ran(Cycle[g])
<1>1. \A a \in DOMAIN job[g].targets : job[g].targets[a] \in Ran(Cycle[g])
  BY DEF TypeInv, JobOK, Ran
<1>2. pc[g] \in SetStages => job[g].at \in DOMAIN job[g].targets
  BY DEF TypeInv, JobOK
<1> QED
  BY <1>1, <1>2 DEF CurSet

\* What is before a row of its sets stays what it was.
LEMMA BeforeStays ==
  ASSUME TypeInv, TypeInv', ReplayInv, NEW g \in Groups, ReplayStep(g),
         NEW s, NEW d, NEW n \in DOMAIN runs,
         pc[g] \in RunStages /\ s \in Ran(Cycle[g]) => n <= work[g].run
  PROVE  /\ \A k \in DOMAIN runs : k < n =>
              (k \in SuccessIn(s, d) <=> k \in SuccessIn(s, d)')
         /\ \A k \in SuccessIn(s, d) : k < n => runs'[k] = runs[k]
         /\ \A k \in SuccessIn(s, d)' : k < n => k \in DOMAIN runs
<1>1. runs \in Seq(BackupRun) /\ runs' \in Seq(BackupRun)
  BY DEF TypeInv, TypeOK, RowsOK
<1>2. \A k \in DOMAIN runs' : k < n => k \in DOMAIN runs
  BY <1>1
<1>3. ASSUME NEW k \in DOMAIN runs, k < n, runs[k].set = s
      PROVE  runs'[k] = runs[k]
  <2>1. k \in Nat /\ n \in Nat
    BY <1>1
  <2>2. CASE pc[g] \in RunStages /\ k = work[g].run
    <3>1. runs[k].set = CurSet(g) /\ pc[g] \in SetStages /\ pc[g] \notin {"idle", "resolve", "blocked"}
      BY <2>2 DEF ReplayInv, FollowOK, Row, RunStages, DiskStages, SetStages
    <3>2. s \in Ran(Cycle[g])
      BY <1>3, <3>1, OwnSets
    <3> QED
      BY <1>3, <2>1, <2>2, <3>2
  <2>3. CASE ~(pc[g] \in RunStages /\ k = work[g].run)
    BY <2>3 DEF ReplayStep
  <2> QED
    BY <2>2, <2>3
<1>4. ASSUME NEW k \in DOMAIN runs, k < n, runs'[k].set = s
      PROVE  runs[k].set = s
  BY <1>4 DEF ReplayStep
<1> QED
  BY <1>2, <1>3, <1>4 DEF SuccessIn, IsSuccess, ReplayStep

LEMMA FollowsStay ==
  ASSUME TypeInv, TypeInv', ReplayInv, NEW g \in Groups, ReplayStep(g),
         NEW b, NEW s, NEW d, NEW n \in DOMAIN runs,
         pc[g] \in RunStages /\ s \in Ran(Cycle[g]) => n <= work[g].run,
         Follows(b, s, d, n)
  PROVE  Follows(b, s, d, n)'
<1>1. PICK j \in SuccessIn(s, d) :
        j < n /\ runs[j].snap = b /\ \A k \in SuccessIn(s, d) : k < n => k <= j
  BY DEF Follows
<1>2. j \in DOMAIN runs
  BY DEF SuccessIn
<1>3. j \in SuccessIn(s, d)' /\ runs'[j] = runs[j]
  BY <1>1, <1>2, BeforeStays
<1>4. \A k \in SuccessIn(s, d)' : k < n => k \in SuccessIn(s, d)
  BY BeforeStays
<1> QED
  BY <1>1, <1>3, <1>4 DEF Follows

\* The sets of another group hold what they held.
LEMMA OtherSets ==
  ASSUME TypeInv, TypeInv', ReplayInv, NEW g \in Groups, ReplayStep(g),
         NEW s, s \notin Ran(Cycle[g]), NEW d
  PROVE  /\ SuccessIn(s, d)' = SuccessIn(s, d)
         /\ \A i \in DOMAIN runs : runs[i].set = s => runs'[i] = runs[i]
<1>1. ASSUME NEW i \in DOMAIN runs', i \notin DOMAIN runs \/ runs'[i] # runs[i]
      PROVE  /\ runs'[i].set \in Ran(Cycle[g])
             /\ i \in DOMAIN runs => runs[i].set \in Ran(Cycle[g])
  <2>1. CASE i \notin DOMAIN runs
    BY <1>1, <2>1 DEF ReplayStep
  <2>2. CASE i \in DOMAIN runs
    <3>1. pc[g] \in RunStages /\ i = work[g].run /\ runs'[i].set = runs[i].set
      BY <1>1, <2>2 DEF ReplayStep
    <3>2. runs[i].set = CurSet(g) /\ pc[g] \in SetStages /\ pc[g] \notin {"idle", "resolve", "blocked"}
      BY <3>1 DEF ReplayInv, FollowOK, Row, RunStages, DiskStages, SetStages
    <3> QED
      BY <3>1, <3>2, OwnSets
  <2> QED
    BY <2>1, <2>2
<1>2. DOMAIN runs \subseteq DOMAIN runs'
  BY DEF ReplayStep
<1> QED
  BY <1>1, <1>2 DEF SuccessIn, IsSuccess

LEMMA WorkerReplays ==
  ASSUME TypeInv, TypeInv', ReplayInv, NEW g \in Groups, OthersKept(g), ReplayStep(g)
  PROVE  ReplayInv'
<1>1. runs \in Seq(BackupRun) /\ runs' \in Seq(BackupRun)
  BY DEF TypeInv, TypeOK, RowsOK
<1>2. ASSUME NEW i \in DOMAIN runs', runs'[i].status = "success"
      PROVE  ChainOK(i)'
  <2>1. PICK s, d, b : s = runs'[i].set /\ d = runs'[i].ds /\ b = runs'[i].base
    OBVIOUS
  <2>2. i \in DOMAIN runs /\ runs[i].set = s /\ runs[i].ds = d
    BY <1>2, <2>1 DEF ReplayStep
  <2>3. runs'[i].snap # None /\ (runs'[i].type = "incremental" => Follows(b, s, d, i))
    BY <1>2, <2>1, <2>2 DEF ReplayStep, Extending, ReplayInv, ChainOK, IsSuccess
  <2>4. pc[g] \in RunStages /\ s \in Ran(Cycle[g]) => i <= work[g].run
    <3>1. pc[g] \in RunStages => work[g].run \in Nat /\ i \in Nat
      BY <1>1, <2>2, CurTypes
    <3> QED
      BY <2>2, <3>1 DEF ReplayInv, FollowOK
  <2>5. runs'[i].type = "incremental" => Follows(b, s, d, i)'
    BY <2>2, <2>3, <2>4, FollowsStay
  <2> QED
    BY <2>1, <2>3, <2>5 DEF ChainOK
<1>3. ASSUME NEW h \in Groups, h # g
      PROVE  FollowOK(h)' /\ CoverOK(h)'
  <2>1. /\ pc'[h] = pc[h] /\ job'[h] = job[h] /\ work'[h] = work[h]
        /\ CurSet(h)' = CurSet(h) /\ CurDataset(h)' = CurDataset(h) /\ FollowOK(h) /\ CoverOK(h)
    BY <1>3 DEF OthersKept, CurSet, CurDataset, ReplayInv
  <2>2. ASSUME pc[h] \notin {"idle", "resolve", "blocked"}
        PROVE  /\ \A a \in DOMAIN job[h].targets : job[h].targets[a] \notin Ran(Cycle[g])
               /\ pc[h] \in SetStages => CurSet(h) \notin Ran(Cycle[g])
               /\ Ran(Cycle[h]) \cap Ran(Cycle[g]) = {}
    <3>1. Ran(Cycle[g]) \cap Ran(Cycle[h]) = {}
      BY <1>3, TopologyAssumption
    <3>2. /\ \A a \in DOMAIN job[h].targets : job[h].targets[a] \in Ran(Cycle[h])
          /\ pc[h] \in SetStages => CurSet(h) \in Ran(Cycle[h])
      BY <2>2, OwnSets
    <3> QED
      BY <3>1, <3>2
  <2>3. CoverOK(h)'
    <3>1. SUFFICES ASSUME pc[h] \notin {"idle", "resolve", "blocked"}, ~job[h].bad,
                          NEW a \in DOMAIN job[h].targets, NEW m \in DOMAIN Members[h],
                          Copied(h, job[h].targets[a], Members[h][m])
                   PROVE  Copied(h, job[h].targets[a], Members[h][m])'
      BY <2>1 DEF CoverOK
    <3>2. PICK s, d : s = job[h].targets[a] /\ d = Members[h][m]
      OBVIOUS
    <3>3. SuccessIn(s, d)' = SuccessIn(s, d)
      BY <2>2, <3>1, <3>2, OtherSets
    <3> QED
      BY <2>1, <3>1, <3>2, <3>3 DEF Copied
  <2>4. FollowOK(h)'
    <3>1. SUFFICES ASSUME pc[h] \in RunStages
                   PROVE  FollowOK(h)'
      BY <2>1 DEF FollowOK
    <3>2. /\ pc[h] \in SetStages /\ pc[h] \notin {"idle", "resolve", "blocked"}
          /\ work[h].run \in DOMAIN runs /\ Row(h).set = CurSet(h)
      BY <2>1, <3>1, CurTypes DEF FollowOK, RunStages, DiskStages, SetStages
    <3>3. PICK s, d, b, n :
            s = CurSet(h) /\ d = CurDataset(h) /\ b = work[h].base /\ n = work[h].run
      OBVIOUS
    <3>4. s \notin Ran(Cycle[g]) /\ Ran(Cycle[h]) \cap Ran(Cycle[g]) = {}
      BY <2>2, <3>2, <3>3
    <3>5. SuccessIn(s, d)' = SuccessIn(s, d) /\ Row(h)' = Row(h)
      BY <2>1, <3>2, <3>3, <3>4, OtherSets DEF Row
    <3>6. \A i \in DOMAIN runs' : i > work[h].run => runs'[i].set \notin Ran(Cycle[h])
      BY <2>1, <3>1, <3>4 DEF FollowOK, ReplayStep
    <3>7. Follows(b, s, d, n) => Follows(b, s, d, n)'
      BY <3>2, <3>3, <3>4, FollowsStay
    <3> QED
      BY <2>1, <3>1, <3>3, <3>5, <3>6, <3>7 DEF FollowOK, Holding
  <2> QED
    BY <2>3, <2>4
<1> QED
  BY <1>2, <1>3 DEF ReplayStep, ReplayInv, ChainOK, IsSuccess

\* A step within a run, that may write its row.
LEMMA ReplayRow ==
  ASSUME TypeInv, RunInv, ReplayInv, NEW g \in Groups,
         pc[g] \in RunStages, pc'[g] \in RunStages, work'[g].run = work[g].run,
         job'[g].targets = job[g].targets, job'[g].at = job[g].at,
         job'[g].item = job[g].item, job'[g].bad = job[g].bad,
         NEW row, row.set = Row(g).set, row.ds = Row(g).ds,
         DOMAIN runs' = DOMAIN runs, runs'[work[g].run] = row,
         \A i \in DOMAIN runs : i # work[g].run => runs'[i] = runs[i],
         row = Row(g) \/ Extending(g, row),
         pc'[g] \in Named => work'[g].snap # None,
         pc'[g] \in Based /\ work'[g].type = "incremental" =>
           Follows(work'[g].base, CurSet(g), CurDataset(g), work[g].run),
         pc'[g] = "diff" => work'[g].type = "incremental",
         Holding(g)' => \/ row.status = "success"
                        \/ \E j \in SuccessIn(CurSet(g), CurDataset(g)) : j # work[g].run
  PROVE  ReplayStep(g)
<1>1. /\ work[g].run \in DOMAIN runs /\ Row(g) = runs[work[g].run] /\ FollowOK(g) /\ CoverOK(g)
      /\ CurSet(g)' = CurSet(g) /\ CurDataset(g)' = CurDataset(g)
      /\ row.set = CurSet(g) /\ row.ds = CurDataset(g) /\ Row(g)' = row
  BY CurTypes DEF Row, ReplayInv, CurSet, CurDataset, FollowOK, RunInv, RunOK
<1>2. PICK s, d, n, b : s = CurSet(g) /\ d = CurDataset(g) /\ n = work[g].run /\ b = work'[g].base
  OBVIOUS
<1>3. \A e, f : \A j \in SuccessIn(e, f) : j # n => j \in SuccessIn(e, f)'
  BY <1>1, <1>2 DEF SuccessIn, IsSuccess
<1>4. Holding(g)' => SuccessIn(s, d)' # {}
  <2>1. row.status = "success" => n \in SuccessIn(s, d)'
    BY <1>1, <1>2 DEF SuccessIn, IsSuccess
  <2> QED
    BY <1>2, <1>3, <2>1
<1>5. Follows(b, s, d, n) => Follows(b, s, d, n)'
  <2>1. SUFFICES ASSUME NEW j \in SuccessIn(s, d), j < n, runs[j].snap = b,
                        \A k \in SuccessIn(s, d) : k < n => k <= j
                 PROVE  Follows(b, s, d, n)'
    BY DEF Follows
  <2>2. /\ n \in Nat /\ DOMAIN runs \subseteq Nat /\ j \in DOMAIN runs
    BY <1>1, <1>2 DEF SuccessIn, TypeInv, TypeOK, RowsOK
  <2>3. j \in SuccessIn(s, d)' /\ runs'[j] = runs[j]
    BY <1>2, <1>3, <2>1, <2>2
  <2>4. \A k \in SuccessIn(s, d)' : k < n => k \in SuccessIn(s, d)
    BY <1>1, <1>2, <2>2 DEF SuccessIn, IsSuccess
  <2> QED
    BY <2>1, <2>3, <2>4 DEF Follows
<1>6. FollowOK(g)'
  BY <1>1, <1>2, <1>4, <1>5 DEF FollowOK
<1>7. CoverOK(g)'
  <2>1. SUFFICES ASSUME ~job[g].bad, NEW a \in DOMAIN job[g].targets, NEW m \in DOMAIN Members[g],
                        a < job[g].at \/ (a = job[g].at /\ m < job[g].item)
                 PROVE  Copied(g, job[g].targets[a], Members[g][m])'
    BY DEF CoverOK, RunStages, DiskStages, SetStages
  <2>2. Copied(g, job[g].targets[a], Members[g][m])
    BY <1>1, <2>1 DEF CoverOK, RunStages, DiskStages, SetStages
  <2>3. PICK e, f : e = job[g].targets[a] /\ f = Members[g][m]
    OBVIOUS
  <2> QED
    BY <1>2, <1>3, <2>2, <2>3 DEF Copied
<1> QED
  BY <1>1, <1>6, <1>7 DEF ReplayStep

\* Steps within a run that write nothing, and that write its row.
LEMMA ReplayKept ==
  ASSUME TypeInv, RunInv, ReplayInv, NEW g \in Groups, runs' = runs,
         pc[g] \in RunStages, pc'[g] \in RunStages, work'[g].run = work[g].run, job' = job,
         pc'[g] \in Named => work'[g].snap # None,
         pc'[g] \in Based /\ work'[g].type = "incremental" =>
           Follows(work'[g].base, CurSet(g), CurDataset(g), work[g].run),
         pc'[g] = "diff" => work'[g].type = "incremental",
         Holding(g)' => SuccessIn(CurSet(g), CurDataset(g)) # {}
  PROVE  ReplayStep(g)
<1>1. PICK row : row = Row(g)
  OBVIOUS
<1>2. runs'[work[g].run] = row
  BY <1>1 DEF Row
<1>3. Holding(g)' => \/ row.status = "success"
                     \/ \E j \in SuccessIn(CurSet(g), CurDataset(g)) : j # work[g].run
  BY <1>1 DEF Row, SuccessIn, IsSuccess
<1> QED
  BY <1>1, <1>2, <1>3, ReplayRow

LEMMA ReplaySaved ==
  ASSUME TypeInv, RunInv, FileInv, ReplayInv, NEW g \in Groups,
         pc[g] \in RunStages, pc'[g] \in RunStages, work'[g].run = work[g].run,
         job'[g].targets = job[g].targets, job'[g].at = job[g].at,
         job'[g].item = job[g].item, job'[g].bad = job[g].bad,
         NEW row, Save(g, row), row.set = Row(g).set, row.ds = Row(g).ds,
         Extending(g, row),
         pc'[g] \in Named => work'[g].snap # None,
         pc'[g] \in Based /\ work'[g].type = "incremental" =>
           Follows(work'[g].base, CurSet(g), CurDataset(g), work[g].run),
         pc'[g] = "diff" => work'[g].type = "incremental",
         Holding(g)' => \/ row.status = "success"
                        \/ \E j \in SuccessIn(CurSet(g), CurDataset(g)) : j # work[g].run
  PROVE  ReplayStep(g)
<1>1. Row(g).status # "deleted"
  BY CurTypes DEF FileInv, Row
<1>2. /\ DOMAIN runs' = DOMAIN runs /\ runs'[work[g].run] = row
      /\ \A i \in DOMAIN runs : i # work[g].run => runs'[i] = runs[i]
  BY <1>1, SavedRow
<1> QED
  BY <1>2, ReplayRow

\* A step that leaves the run, or happens outside one.
LEMMA ReplayOut ==
  ASSUME TypeInv, ReplayInv, NEW g \in Groups, pc'[g] \notin RunStages,
         runs' = runs, CoverOK(g)'
  PROVE  ReplayStep(g)
BY DEF ReplayStep, FollowOK

\* The base that is resolved is the snapshot of the newest success.
LEMMA AnchorFollows ==
  ASSUME TypeInv, RunInv, ReplayInv, NEW g \in Groups, pc[g] = "anchor",
         SetAnchor(CurSet(g), CurDataset(g)) # None
  PROVE  Follows(SetAnchor(CurSet(g), CurDataset(g)), CurSet(g), CurDataset(g), work[g].run)
<1> DEFINE S == SuccessIn(CurSet(g), CurDataset(g))
           I == { i \in S : runs[i].snap # None }
           a == AnchorRun(CurSet(g), CurDataset(g))
<1>1. runs \in Seq(BackupRun) /\ pc[g] \in RunStages /\ pc[g] \notin Settled
      /\ pc[g] \notin {"idle", "resolve", "blocked"}
  BY DEF TypeInv, TypeOK, RowsOK, Stages, RunStages, DiskStages, SetStages, Settled
<1>2. /\ work[g].run \in DOMAIN runs /\ Row(g).status # "success" /\ CurSet(g) \in Ran(Cycle[g])
  BY <1>1, CurTypes, OwnSets DEF RunInv, RunOK, RunStages, DiskStages
<1>3. S \subseteq 1..Len(runs) /\ Len(runs) \in Nat /\ DOMAIN runs = 1..Len(runs)
  BY <1>1 DEF SuccessIn
<1>4. I = S
  BY DEF SuccessIn, ReplayInv, ChainOK
<1>5. S # {} /\ SetAnchor(CurSet(g), CurDataset(g)) = runs[a].snap
  BY DEF SetAnchor
<1>6. a \in S /\ \A k \in S : k <= a
  <2>1. \E x \in S : \A y \in S : y <= x
    BY <1>3, <1>5, LargestIndex
  <2>2. a = CHOOSE x \in S : \A y \in S : y <= x
    BY <1>4 DEF AnchorRun, Newest
  <2> HIDE DEF S, a
  <2> QED
    BY <2>1, <2>2
<1>7. a < work[g].run
  <2>1. a # work[g].run
    BY <1>2, <1>6 DEF SuccessIn, IsSuccess, Row
  <2>2. ~(a > work[g].run)
    BY <1>1, <1>2, <1>6 DEF ReplayInv, FollowOK, SuccessIn
  <2> QED
    BY <1>2, <1>3, <1>6, <2>1, <2>2
<1> HIDE DEF a
<1> QED
  BY <1>5, <1>6, <1>7 DEF Follows

LEMMA WritingReplays ==
  ASSUME Recycling = {}, TypeInv, OutcomeInv, RunInv, FileInv, ReplayInv,
         NEW g \in Groups, Writing(g)
  PROVE  ReplayStep(g)
<1>1. /\ pc \in [Groups -> Stages] /\ work \in [Groups -> Work] /\ job \in [Groups -> Job]
      /\ work[g] \in Work /\ job[g] \in Job /\ pc[g] \notin {"wipe", "reformat"}
  BY DEF TypeInv, TypeOK, WorkerOK, OutcomeInv, OutcomeOK
<1>2. /\ runs \in Seq(BackupRun) /\ FollowOK(g) /\ CoverOK(g)
      /\ pc[g] \in RunStages =>
           CurDataset(g) \in Datasets /\ work[g].run \in DOMAIN runs /\ Row(g) \in BackupRun
  BY CurTypes DEF TypeInv, TypeOK, RowsOK, ReplayInv
<1>3. CASE MountForRun(g)
  <2>1. /\ pc[g] \in RunStages /\ pc'[g] \in RunStages \cap {"anchor", "snapshot"}
        /\ pc'[g] = "snapshot" => work'[g].type # "incremental"
        /\ runs' = runs /\ work' = work /\ job' = job
    BY <1>1, <1>3 DEF MountForRun, Goto, disks, Stages, SetStages, DiskStages, RunStages
  <2> QED
    BY <2>1, ReplayKept DEF Holding, Named, Based
<1>4. CASE ResolveAnchor(g)
  <2>1. /\ pc[g] = "anchor" /\ pc[g] \in RunStages /\ pc'[g] = "snapshot" /\ pc'[g] \in RunStages
        /\ runs' = runs /\ job' = job /\ work'[g].run = work[g].run
        /\ work'[g].base = SetAnchor(CurSet(g), CurDataset(g))
        /\ work'[g].base = None => work'[g].type = "full"
    BY <1>1, <1>4 DEF ResolveAnchor, Goto, disks, Work, Stages, SetStages, DiskStages, RunStages
  <2>2. work'[g].type = "incremental" =>
          Follows(work'[g].base, CurSet(g), CurDataset(g), work[g].run)
    BY <2>1, AnchorFollows
  <2> QED
    BY <2>1, <2>2, ReplayKept DEF Holding, Named
<1>4a. CASE AnchorUnlisted(g)
  <2>1. /\ pc[g] = "anchor" /\ pc[g] \in RunStages /\ pc'[g] = "snapshot" /\ pc'[g] \in RunStages
        /\ runs' = runs /\ job' = job /\ work'[g].run = work[g].run /\ work'[g].type = "full"
    BY <1>1, <1>4a DEF AnchorUnlisted, Goto, disks, Work, Stages, SetStages, DiskStages, RunStages
  <2> QED
    BY <2>1, ReplayKept DEF Holding, Named
<1>5. CASE ReuseSnapshot(g)
  BY <1>1, <1>2, <1>5, ReplayKept DEF ReuseSnapshot, FollowOK, Holding, Goto, disks, Work, Stages, SetStages, DiskStages, RunStages, Settled, Named, Based
<1>6. ASSUME NEW t \in Nat, TakeSnapshot(g, t)
      PROVE  ReplayStep(g)
  <2>1. t # None
    BY BoundAssumption
  <2> QED
    BY <1>1, <1>2, <1>6, <2>1, ReplayKept DEF TakeSnapshot, FollowOK, Holding, Goto, disks, Work,
       Stages, SetStages, DiskStages, RunStages, Settled, Named, Based
<1>7. ASSUME NEW t, SnapshotFails(g, t)
      PROVE  ReplayStep(g)
  <2>1. CASE work[g].snap = None
    <3>1. /\ pc[g] \in RunStages /\ pc'[g] = "collide" /\ pc'[g] \in RunStages
          /\ runs' = runs /\ work'[g].run = work[g].run /\ job' = job
      BY <1>1, <1>7, <2>1 DEF SnapshotFails, Goto, disks, Work, Stages, SetStages, DiskStages, RunStages
    <3> QED
      BY <3>1, ReplayKept DEF Holding, Named, Based
  <2>2. CASE work[g].snap # None
    <3> DEFINE row == [Row(g) EXCEPT !.status = "failed"]
    <3>1. /\ pc[g] \in RunStages /\ pc'[g] = "unmount" /\ pc'[g] \in RunStages /\ Save(g, row)
          /\ work'[g].run = work[g].run /\ work'[g].result = "failed" /\ job' = job
      BY <1>1, <1>7, <2>2 DEF SnapshotFails, Goto, disks, Work, Stages, SetStages, DiskStages, RunStages, Settled, Named, Based
    <3>2. row.set = Row(g).set /\ row.ds = Row(g).ds /\ Extending(g, row)
      BY <1>2, <3>1 DEF Extending, BackupRun
    <3> HIDE DEF row
    <3> QED
      BY <3>1, <3>2, ReplaySaved DEF Holding, Named, Based
  <2> QED
    BY <2>1, <2>2
<1>8. CASE DiscardFailedName(g)
  <2> DEFINE row == [Row(g) EXCEPT !.status = "failed"]
  <2>1. /\ pc[g] \in RunStages /\ pc'[g] \in RunStages /\ Save(g, row)
        /\ work'[g].run = work[g].run /\ job' = job
    BY <1>1, <1>8 DEF DiscardFailedName, Goto, disks, Work, Stages, SetStages, DiskStages, RunStages, Settled, Named, Based
  <2>2. row.set = Row(g).set /\ row.ds = Row(g).ds /\ Extending(g, row)
    BY <1>1, <1>2, <1>8, <2>1 DEF Extending, BackupRun, Named
  <2>3. /\ pc'[g] \in Named => work'[g].snap # None
        /\ pc'[g] \in Based /\ work'[g].type = "incremental" =>
             Follows(work'[g].base, CurSet(g), CurDataset(g), work[g].run)
        /\ pc'[g] = "diff" => work'[g].type = "incremental"
    BY <1>1, <1>2, <1>8 DEF DiscardFailedName, Goto, FollowOK, Work, Stages, SetStages, DiskStages, RunStages, Settled, Named, Based
  <2>4. Holding(g)' => \/ row.status = "success"
                       \/ \E j \in SuccessIn(CurSet(g), CurDataset(g)) : j # work[g].run
    BY <1>1, <1>2, <1>8 DEF DiscardFailedName, Goto, Holding, Work
  <2> HIDE DEF row
  <2> QED
    BY <2>1, <2>2, <2>3, <2>4, ReplaySaved
<1>9. CASE RecordSnapshot(g)
  <2> DEFINE row == [Row(g) EXCEPT !.snap = work[g].snap, !.type = work[g].type]
  <2>1. /\ pc[g] \in RunStages /\ pc'[g] \in RunStages /\ Save(g, row)
        /\ work'[g].run = work[g].run /\ job' = job
    BY <1>1, <1>9 DEF RecordSnapshot, Goto, disks, Work, Stages, SetStages, DiskStages, RunStages, Settled, Named, Based
  <2>2. row.set = Row(g).set /\ row.ds = Row(g).ds /\ Extending(g, row)
    BY <1>1, <1>2, <1>9, <2>1 DEF Extending, BackupRun, Named, RecordSnapshot, RunInv, RunOK, Settled
  <2>3. /\ pc'[g] \in Named => work'[g].snap # None
        /\ pc'[g] \in Based /\ work'[g].type = "incremental" =>
             Follows(work'[g].base, CurSet(g), CurDataset(g), work[g].run)
        /\ pc'[g] = "diff" => work'[g].type = "incremental"
    BY <1>1, <1>2, <1>9 DEF RecordSnapshot, Goto, FollowOK, Work, Stages, SetStages, DiskStages, RunStages, Settled, Named, Based
  <2>4. Holding(g)' => \/ row.status = "success"
                       \/ \E j \in SuccessIn(CurSet(g), CurDataset(g)) : j # work[g].run
    BY <1>1, <1>2, <1>9 DEF RecordSnapshot, Goto, Holding, Work
  <2> HIDE DEF row
  <2> QED
    BY <2>1, <2>2, <2>3, <2>4, ReplaySaved
<1>10. CASE Changed(g)
  BY <1>1, <1>2, <1>10, ReplayKept DEF Changed, FollowOK, Holding, Goto, disks, Work, Stages, SetStages, DiskStages, RunStages, Settled, Named, Based
<1>11. CASE Unchanged(g)
  <2> DEFINE row == [Row(g) EXCEPT !.status = "skipped", !.base = work[g].base,
                                   !.anchor = work[g].anchor]
  <2>1. /\ pc[g] = "diff" /\ pc[g] \in RunStages
        /\ pc'[g] = "dropskipped" /\ pc'[g] \in RunStages /\ Save(g, row)
        /\ work' = work /\ job' = job
    BY <1>1, <1>11 DEF Unchanged, Goto, disks, Stages, SetStages, DiskStages, RunStages, Settled, Named, Based
  <2>2. row.set = Row(g).set /\ row.ds = Row(g).ds /\ Extending(g, row)
    BY <1>2, <2>1 DEF Extending, BackupRun
  <2>3. \E j \in SuccessIn(CurSet(g), CurDataset(g)) : j # work[g].run
    <3>1. PICK j \in SuccessIn(CurSet(g), CurDataset(g)) : j < work[g].run
      BY <1>2, <2>1 DEF FollowOK, Follows, Based, Named
    <3>2. j # work[g].run
      BY <1>2, <2>1, <3>1
    <3> QED
      BY <3>2
  <2> HIDE DEF row
  <2> QED
    BY <2>1, <2>2, <2>3, ReplaySaved DEF Named, Based
<1>12. CASE DropSkipped(g)
  BY <1>1, <1>2, <1>12, ReplayKept DEF DropSkipped, FollowOK, Holding, Goto, disks, Work, Stages, SetStages, DiskStages, RunStages, Settled, Named, Based
<1>13. CASE Fits(g)
  BY <1>1, <1>2, <1>13, ReplayKept DEF Fits, FollowOK, Holding, Goto, disks, Work, Stages, SetStages, DiskStages, RunStages, Settled, Named, Based
<1>14. CASE NeedsSpace(g)
  <2> DEFINE row == [Row(g) EXCEPT !.status = "failed"]
  <2>1. pc[g] = "capacity" /\ pc[g] \in RunStages /\ Save(g, row)
    BY <1>14 DEF NeedsSpace, disks, Stages, SetStages, DiskStages, RunStages, Settled, Named, Based
  <2>2. row.set = Row(g).set /\ row.ds = Row(g).ds /\ row.status = "failed"
    BY <1>2, <2>1 DEF BackupRun
  <2> HIDE DEF row
  <2>3. CASE pc' = [pc EXCEPT ![g] = "full"] /\ job' = job /\ work' = work
    <3>1. pc'[g] = "full" /\ pc'[g] \in RunStages
      BY <1>1, <2>3 DEF Stages, SetStages, DiskStages, RunStages, Settled, Named, Based
    <3> QED
      BY <2>1, <2>2, <2>3, <3>1, ReplaySaved DEF Extending, Holding, Named, Based
  <2>4. CASE \/ pc' = [pc EXCEPT ![g] = "dataset"] /\ job'[g].bad
             \/ pc' = [pc EXCEPT ![g] = "blocked"]
    <3>1. pc'[g] \notin RunStages /\ CoverOK(g)'
      BY <1>1, <2>4 DEF CoverOK, Stages, SetStages, DiskStages, RunStages, Settled, Named, Based
    <3>2. /\ DOMAIN runs' = DOMAIN runs
          /\ \A i \in DOMAIN runs : i # work[g].run => runs'[i] = runs[i]
          /\ runs'[work[g].run] \in {row, Row(g)}
      BY <2>1, SavedRow
    <3> QED
      BY <2>1, <2>2, <3>1, <3>2 DEF ReplayStep, FollowOK, Extending, Row
  <2>5. work[g].retry \in {"no", "advanced", "recycled"}
    BY <1>1 DEF Work
  <2>6. job' = [job EXCEPT ![g].ok = job[g].ok, ![g].bad = TRUE, ![g].item = job[g].item + 1]
        => job'[g].bad
    BY <1>1 DEF Job
  <2> QED
    BY <1>1, <1>14, <2>3, <2>4, <2>5, <2>6 DEF NeedsSpace, Count, Block, Goto, Job
<1>15. CASE SendDone(g)
  BY <1>1, <1>2, <1>15, ReplayKept DEF SendDone, FollowOK, Holding, Goto, disks, Work, Stages, SetStages, DiskStages, RunStages, Settled, Named, Based
<1>16. CASE SendFails(g)
  BY <1>1, <1>2, <1>16, ReplayKept DEF SendFails, FollowOK, Holding, Goto, disks, Work, Stages, SetStages, DiskStages, RunStages, Settled, Named, Based
<1>17. CASE DropFailed(g)
  <2> DEFINE row == [Row(g) EXCEPT !.status = "failed"]
  <2>1. /\ pc[g] \in RunStages /\ pc'[g] \in RunStages /\ Save(g, row)
        /\ work'[g].run = work[g].run /\ job' = job
    BY <1>1, <1>17 DEF DropFailed, Goto, disks, Work, Stages, SetStages, DiskStages, RunStages, Settled, Named, Based
  <2>2. row.set = Row(g).set /\ row.ds = Row(g).ds /\ Extending(g, row)
    BY <1>1, <1>2, <1>17, <2>1 DEF Extending, BackupRun, Named
  <2>3. /\ pc'[g] \in Named => work'[g].snap # None
        /\ pc'[g] \in Based /\ work'[g].type = "incremental" =>
             Follows(work'[g].base, CurSet(g), CurDataset(g), work[g].run)
        /\ pc'[g] = "diff" => work'[g].type = "incremental"
    BY <1>1, <1>2, <1>17 DEF DropFailed, Goto, FollowOK, Work, Stages, SetStages, DiskStages, RunStages, Settled, Named, Based
  <2>4. Holding(g)' => \/ row.status = "success"
                       \/ \E j \in SuccessIn(CurSet(g), CurDataset(g)) : j # work[g].run
    BY <1>1, <1>2, <1>17 DEF DropFailed, Goto, Holding, Work
  <2> HIDE DEF row
  <2> QED
    BY <2>1, <2>2, <2>3, <2>4, ReplaySaved
<1>18. CASE CommitRun(g)
  <2> DEFINE row == [Row(g) EXCEPT !.status = "success", !.base = work[g].base,
                                   !.anchor = work[g].anchor]
  <2>1. /\ pc[g] = "commit" /\ pc[g] \in RunStages /\ pc'[g] = "list" /\ pc'[g] \in RunStages
        /\ Save(g, row) /\ work' = work /\ job' = job
    BY <1>1, <1>18 DEF CommitRun, Goto, disks, Stages, SetStages, DiskStages, RunStages, Settled, Named, Based
  <2>2. /\ row.set = Row(g).set /\ row.ds = Row(g).ds /\ row.status = "success"
        /\ row.snap = Row(g).snap /\ row.type = Row(g).type /\ row.base = work[g].base
    BY <1>2, <2>1 DEF BackupRun
  <2>3. Row(g).snap = work[g].snap /\ Row(g).type = work[g].type /\ work[g].snap # None
        /\ Row(g).set = CurSet(g) /\ Row(g).ds = CurDataset(g)
    BY <1>2, <2>1 DEF FileInv, FileOK, Recorded, FollowOK, RunInv, RunOK, Named
  <2>4. Extending(g, row)
    BY <1>2, <2>1, <2>2, <2>3 DEF Extending, FollowOK, Based, Named
  <2> HIDE DEF row
  <2> QED
    BY <2>1, <2>2, <2>4, ReplaySaved DEF Named, Based
<1> QED
  BY <1>3, <1>4, <1>4a, <1>5, <1>6, <1>7, <1>8, <1>9, <1>10, <1>11, <1>12, <1>13, <1>14, <1>15, <1>16,
     <1>17, <1>18 DEF Writing, TypeInv, TypeOK, StoreOK

LEMMA SettlingReplays ==
  ASSUME Recycling = {}, TypeInv, OutcomeInv, RunInv, FileInv, ReplayInv,
         NEW g \in Groups, Settling(g)
  PROVE  ReplayStep(g)
<1>1. /\ pc \in [Groups -> Stages] /\ work \in [Groups -> Work] /\ job \in [Groups -> Job]
      /\ work[g] \in Work /\ job[g] \in Job /\ pc[g] \notin {"wipe", "reformat"}
  BY DEF TypeInv, TypeOK, WorkerOK, OutcomeInv, OutcomeOK
<1>2. /\ runs \in Seq(BackupRun) /\ FollowOK(g) /\ CoverOK(g)
      /\ pc[g] \in RunStages =>
           CurDataset(g) \in Datasets /\ work[g].run \in DOMAIN runs /\ Row(g) \in BackupRun
  BY CurTypes DEF TypeInv, TypeOK, RowsOK, ReplayInv
<1>3. CASE PruneList(g)
  <2>1. /\ pc[g] = "list" /\ pc[g] \in RunStages /\ pc'[g] = "prune" /\ pc'[g] \in RunStages
        /\ runs' = runs /\ work'[g].run = work[g].run /\ job' = job
    BY <1>1, <1>3 DEF PruneList, Goto, disks, Work, Stages, SetStages, DiskStages, RunStages
  <2>2. SuccessIn(CurSet(g), CurDataset(g)) # {}
    BY <1>2, <2>1 DEF FollowOK, Holding
  <2> QED
    BY <2>1, <2>2, ReplayKept DEF Named, Based
<1>4. ASSUME NEW t, PruneOne(g, t)
      PROVE  ReplayStep(g)
  <2>1. /\ pc[g] = "prune" /\ pc[g] \in RunStages /\ pc'[g] = "prune" /\ pc'[g] \in RunStages
        /\ runs' = runs /\ work'[g].run = work[g].run /\ job' = job
    BY <1>1, <1>4 DEF PruneOne, Goto, disks, Work, Stages, SetStages, DiskStages, RunStages
  <2>2. SuccessIn(CurSet(g), CurDataset(g)) # {}
    BY <1>2, <2>1 DEF FollowOK, Holding
  <2> QED
    BY <2>1, <2>2, ReplayKept DEF Named, Based
<1>3a. CASE PruneSkipped(g)
  <2>1. /\ pc[g] = "list" /\ pc[g] \in RunStages /\ pc'[g] = "manifest" /\ pc'[g] \in RunStages
        /\ runs' = runs /\ work'[g].run = work[g].run /\ job' = job
    BY <1>1, <1>3a DEF PruneSkipped, Goto, disks, Work, Stages, SetStages, DiskStages, RunStages
  <2>2. SuccessIn(CurSet(g), CurDataset(g)) # {}
    BY <1>2, <2>1 DEF FollowOK, Holding
  <2> QED
    BY <2>1, <2>2, ReplayKept DEF Named, Based
<1>5. CASE PruneDone(g)
  <2>1. /\ pc[g] = "prune" /\ pc[g] \in RunStages /\ pc'[g] = "manifest" /\ pc'[g] \in RunStages
        /\ runs' = runs /\ work'[g].run = work[g].run /\ job' = job
    BY <1>1, <1>5 DEF PruneDone, Goto, disks, Work, Stages, SetStages, DiskStages, RunStages
  <2>2. SuccessIn(CurSet(g), CurDataset(g)) # {}
    BY <1>2, <2>1 DEF FollowOK, Holding
  <2> QED
    BY <2>1, <2>2, ReplayKept DEF Named, Based
<1>6. CASE RecordManifest(g)
  <2>1. /\ pc[g] = "manifest" /\ pc[g] \in RunStages /\ pc'[g] = "unmount" /\ pc'[g] \in RunStages
        /\ runs' = runs /\ work'[g].run = work[g].run /\ job' = job
    BY <1>1, <1>6 DEF RecordManifest, Goto, disks, Work, Stages, SetStages, DiskStages, RunStages
  <2>2. SuccessIn(CurSet(g), CurDataset(g)) # {}
    BY <1>2, <2>1 DEF FollowOK, Holding
  <2> QED
    BY <2>1, <2>2, ReplayKept DEF Named, Based
<1>7. CASE ManifestFails(g)
  <2>1. /\ pc[g] = "manifest" /\ pc[g] \in RunStages /\ pc'[g] = "unmount" /\ pc'[g] \in RunStages
        /\ runs' = runs /\ work'[g].run = work[g].run /\ job' = job
    BY <1>1, <1>7 DEF ManifestFails, Goto, disks, Work, Stages, SetStages, DiskStages, RunStages
  <2>2. SuccessIn(CurSet(g), CurDataset(g)) # {}
    BY <1>2, <2>1 DEF FollowOK, Holding
  <2> QED
    BY <2>1, <2>2, ReplayKept DEF Named, Based
<1>8. CASE RunErrs(g)
  <2> DEFINE row == [Row(g) EXCEPT !.status = "failed"]
  <2>1. /\ pc[g] \in RunStages /\ pc'[g] = "unmount" /\ pc'[g] \in RunStages /\ Save(g, row)
        /\ work'[g].run = work[g].run /\ work'[g].result = "failed" /\ job' = job
    BY <1>1, <1>8 DEF RunErrs, Goto, disks, Work, Stages, SetStages, DiskStages, RunStages
  <2>2. row.set = Row(g).set /\ row.ds = Row(g).ds /\ Extending(g, row)
    BY <1>2, <2>1 DEF Extending, BackupRun
  <2> HIDE DEF row
  <2> QED
    BY <2>1, <2>2, ReplaySaved DEF Holding, Named, Based
<1>9. CASE Unmount(g)
  <2>1. /\ pc[g] = "unmount" /\ pc[g] \in RunStages /\ pc'[g] = "dataset" /\ pc'[g] \notin RunStages
        /\ pc'[g] \notin {"rotate", "capture", "disk"}
        /\ runs' = runs
    BY <1>1, <1>9 DEF Unmount, Count, Goto, disks, Stages, SetStages, DiskStages, RunStages
  <2>2. /\ job'[g].targets = job[g].targets /\ job'[g].at = job[g].at
        /\ job'[g].item = job[g].item + 1
        /\ job'[g].bad = (job[g].bad \/ work[g].result = "failed")
    BY <1>1, <1>9 DEF Unmount, Count, Job
  <2>3. CoverOK(g)'
    <3>1. SUFFICES ASSUME ~job[g].bad, work[g].result # "failed",
                          NEW a \in DOMAIN job[g].targets, NEW m \in DOMAIN Members[g],
                          a < job[g].at \/ (a = job[g].at /\ m < job[g].item + 1)
                   PROVE  Copied(g, job[g].targets[a], Members[g][m])'
      BY <2>1, <2>2 DEF CoverOK
    <3>2. SuccessIn(job[g].targets[a], Members[g][m]) # {}
      <4>1. CASE a < job[g].at \/ (a = job[g].at /\ m < job[g].item)
        BY <1>2, <2>1, <3>1, <4>1 DEF CoverOK, Copied
      <4>2. CASE a = job[g].at /\ m = job[g].item
        BY <1>2, <2>1, <3>1, <4>2 DEF FollowOK, Holding, CurSet, CurDataset
      <4>3. m \in Nat /\ job[g].item \in Nat
        BY <1>1, TopologyAssumption DEF Job
      <4> QED
        BY <3>1, <4>1, <4>2, <4>3
    <3>3. PICK e, f : e = job[g].targets[a] /\ f = Members[g][m]
      OBVIOUS
    <3>4. SuccessIn(e, f)' = SuccessIn(e, f)
      BY <2>1 DEF SuccessIn, IsSuccess
    <3>5. PICK j \in SuccessIn(e, f) : TRUE
      BY <3>2, <3>3
    <3> QED
      BY <2>1, <2>2, <3>3, <3>4, <3>5 DEF Copied
  <2> QED
    BY <2>1, <2>3, ReplayOut
<1> QED
  BY <1>3, <1>3a, <1>4, <1>5, <1>6, <1>7, <1>8, <1>9 DEF Settling

LEMMA MakingReplays ==
  ASSUME Recycling = {}, TypeInv, OutcomeInv, RunInv, FileInv, ReplayInv,
         NEW g \in Groups, Making(g)
  PROVE  ReplayStep(g)
<1>1. /\ pc \in [Groups -> Stages] /\ work \in [Groups -> Work] /\ job \in [Groups -> Job]
      /\ work[g] \in Work /\ job[g] \in Job /\ pc[g] \notin {"wipe", "reformat"}
  BY DEF TypeInv, TypeOK, WorkerOK, OutcomeInv, OutcomeOK
<1>2. /\ runs \in Seq(BackupRun) /\ FollowOK(g) /\ CoverOK(g)
      /\ pc[g] \in RunStages =>
           CurDataset(g) \in Datasets /\ work[g].run \in DOMAIN runs /\ Row(g) \in BackupRun
  BY CurTypes DEF TypeInv, TypeOK, RowsOK, ReplayInv
<1>3. CASE PutAwayFull(g)
  <2>1. /\ pc[g] = "full" /\ pc[g] \in RunStages /\ pc'[g] = "advance" /\ pc'[g] \in RunStages
        /\ runs' = runs /\ work' = work /\ job' = job
    BY <1>1, <1>3 DEF PutAwayFull, Goto, disks, Stages, SetStages, DiskStages, RunStages
  <2> QED
    BY <2>1, ReplayKept DEF Holding, Named, Based
<1>4. ASSUME NEW k \in Disks, AdvanceTo(g, k)
      PROVE  ReplayStep(g)
  <2> DEFINE row == Retarget(Row(g), k)
  <2>1. /\ pc[g] \in RunStages /\ pc'[g] = "mount" /\ pc'[g] \in RunStages /\ Save(g, row)
        /\ work'[g].run = work[g].run
        /\ job'[g].targets = job[g].targets /\ job'[g].at = job[g].at
        /\ job'[g].item = job[g].item /\ job'[g].bad = job[g].bad
    BY <1>1, <1>4 DEF AdvanceTo, Goto, Work, Job, Stages, SetStages, DiskStages, RunStages
  <2>2. row.set = Row(g).set /\ row.ds = Row(g).ds /\ Extending(g, row)
    BY <1>2, <2>1 DEF Extending, Retarget, BackupRun
  <2> HIDE DEF row
  <2> QED
    BY <2>1, <2>2, ReplaySaved DEF Holding, Named, Based
<1>5. CASE NoRoomInSet(g)
  <2>1. pc'[g] = "blocked" /\ pc'[g] \notin RunStages /\ runs' = runs
    BY <1>1, <1>5 DEF NoRoomInSet, Block, Goto, disks, Stages, SetStages, DiskStages, RunStages
  <2> QED
    BY <2>1, ReplayOut DEF CoverOK
<1>6. CASE Wipe(g)
  BY <1>1, <1>6 DEF Wipe
<1>7. CASE RecycleFails(g)
  BY <1>1, <1>7 DEF RecycleFails
<1>8. CASE Reformatted(g)
  BY <1>1, <1>8 DEF Reformatted
<1> QED
  BY <1>3, <1>4, <1>5, <1>6, <1>7, <1>8 DEF Making

\* Outside a run, what is covered stays covered.
LEMMA CoverStays ==
  ASSUME runs' = runs, NEW g \in Groups, NEW s, NEW d, Copied(g, s, d),
         pc[g] \notin RunStages, pc'[g] \notin RunStages
  PROVE  Copied(g, s, d)'
BY DEF Copied, SuccessIn, IsSuccess

LEMMA ChoosingReplays ==
  ASSUME Recycling = {}, TypeInv, OutcomeInv, RunInv, FileInv, ReplayInv,
         NEW g \in Groups, Choosing(g)
  PROVE  ReplayStep(g)
<1>1. /\ pc \in [Groups -> Stages] /\ work \in [Groups -> Work] /\ job \in [Groups -> Job]
      /\ work[g] \in Work /\ job[g] \in Job /\ pc[g] \notin {"wipe", "reformat"}
  BY DEF TypeInv, TypeOK, WorkerOK, OutcomeInv, OutcomeOK
<1>2. /\ runs \in Seq(BackupRun) /\ FollowOK(g) /\ CoverOK(g)
      /\ pc[g] \in RunStages =>
           CurDataset(g) \in Datasets /\ work[g].run \in DOMAIN runs /\ Row(g) \in BackupRun
  BY CurTypes DEF TypeInv, TypeOK, RowsOK, ReplayInv
<1>3. CASE Resolve(g)
  <2>1. /\ pc'[g] = "disk" /\ pc'[g] \notin RunStages /\ runs' = runs /\ job'[g].at = 1
        /\ job'[g].targets = TargetSets(g)
    BY <1>1, <1>3 DEF Resolve, Goto, disks, Job, Stages, SetStages, DiskStages, RunStages
  <2>2. \A a \in DOMAIN TargetSets(g) : ~(a < 1)
    BY TopologyAssumption DEF TargetSets, CopyCount
  <2>3. CoverOK(g)'
    BY <2>1, <2>2 DEF CoverOK
  <2> QED
    BY <2>1, <2>3, ReplayOut
<1>4. ASSUME NEW k, ChooseDisk(g, k)
      PROVE  ReplayStep(g)
  <2>1. /\ pc[g] = "disk" /\ pc'[g] = "dataset" /\ pc[g] \notin RunStages /\ pc'[g] \notin RunStages
        /\ runs' = runs /\ job'[g].item = 1
        /\ job'[g].targets = job[g].targets /\ job'[g].at = job[g].at /\ job'[g].bad = job[g].bad
    BY <1>1, <1>4 DEF ChooseDisk, Goto, Job, Stages, SetStages, DiskStages, RunStages
  <2>2. \A m \in DOMAIN Members[g] : ~(m < 1)
    BY TopologyAssumption
  <2>3. ASSUME ~job[g].bad, NEW a \in DOMAIN job[g].targets, NEW m \in DOMAIN Members[g], a < job[g].at
        PROVE  Copied(g, job[g].targets[a], Members[g][m])'
    <3>1. PICK e, f : e = job[g].targets[a] /\ f = Members[g][m]
      OBVIOUS
    <3>2. Copied(g, e, f)
      BY <1>2, <2>1, <2>3, <3>1 DEF CoverOK
    <3>3. Copied(g, e, f)'
      BY <2>1, <3>2, CoverStays
    <3> QED
      BY <2>1, <3>1, <3>3 DEF Copied
  <2>4. CoverOK(g)'
    BY <2>1, <2>2, <2>3 DEF CoverOK
  <2> QED
    BY <2>1, <2>4, ReplayOut
<1>5. CASE NoUsableDisk(g)
  <2>1. pc'[g] = "blocked" /\ pc'[g] \notin RunStages /\ runs' = runs
    BY <1>1, <1>5 DEF NoUsableDisk, Block, Goto, disks, Stages, SetStages, DiskStages, RunStages
  <2> QED
    BY <2>1, ReplayOut DEF CoverOK
<1>6. CASE DatasetMissing(g)
  <2>1. /\ pc[g] = "dataset" /\ pc'[g] = "dataset" /\ pc'[g] \notin RunStages /\ job'[g].bad
        /\ Insert(g, job[g].targets[1], "full", "failed")
    BY <1>1, <1>6 DEF DatasetMissing, Count, Goto, Job, Stages, SetStages, DiskStages, RunStages
  <2>2. job[g].targets[1] \in Ran(Cycle[g])
    <3>1. job[g].targets # << >> /\ job[g].targets \in Seq(Sets)
      BY <1>1, <2>1 DEF TypeInv, JobOK, Job
    <3> QED
      BY <2>1, <3>1, OwnSets
  <2>3. /\ DOMAIN runs \subseteq DOMAIN runs'
        /\ \A i \in DOMAIN runs' :
             \/ i \in DOMAIN runs /\ runs'[i] = runs[i]
             \/ /\ i \notin DOMAIN runs /\ runs'[i].status = "failed"
                /\ runs'[i].set = job[g].targets[1]
    BY <1>2, <2>1 DEF Insert
  <2> QED
    BY <2>1, <2>2, <2>3 DEF ReplayStep, FollowOK, CoverOK
<1>7. CASE NewRun(g)
  <2>1. /\ pc[g] = "dataset" /\ pc[g] \in SetStages /\ pc[g] \notin RunStages
        /\ pc'[g] = "mount" /\ pc'[g] \in RunStages /\ job' = job
        /\ work'[g].run = Len(runs) + 1
        /\ \E type : Insert(g, CurSet(g), type, "running")
    BY <1>1, <1>7 DEF NewRun, Goto, disks, Stages, SetStages, DiskStages, RunStages
  <2>2. CurSet(g) \in Ran(Cycle[g])
    BY <2>1, OwnSets
  <2>3. /\ DOMAIN runs \subseteq DOMAIN runs' /\ Len(runs) \in Nat
        /\ DOMAIN runs = 1..Len(runs) /\ DOMAIN runs' = 1..(Len(runs) + 1)
        /\ \A i \in DOMAIN runs : runs'[i] = runs[i]
        /\ runs'[Len(runs) + 1].status = "running" /\ runs'[Len(runs) + 1].set = CurSet(g)
    BY <1>2, <2>1 DEF Insert
  <2>4. FollowOK(g)'
    <3>1. Row(g)'.set = CurSet(g)'
      BY <2>1, <2>3 DEF Row, CurSet
    <3>2. \A i \in DOMAIN runs' : ~(i > work'[g].run)
      BY <2>1, <2>3
    <3> QED
      BY <2>1, <3>1, <3>2 DEF FollowOK, Holding, Named, Based
  <2>5. CoverOK(g)'
    <3>1. SUFFICES ASSUME ~job[g].bad, NEW a \in DOMAIN job[g].targets, NEW m \in DOMAIN Members[g],
                          a < job[g].at \/ (a = job[g].at /\ m < job[g].item)
                   PROVE  Copied(g, job[g].targets[a], Members[g][m])'
      BY <2>1 DEF CoverOK
    <3>2. PICK e, f : e = job[g].targets[a] /\ f = Members[g][m]
      OBVIOUS
    <3>3. PICK j \in SuccessIn(e, f) : TRUE
      BY <1>2, <2>1, <3>1, <3>2 DEF CoverOK, Copied
    <3>4. j \in SuccessIn(e, f)' /\ j # work'[g].run
      BY <2>1, <2>3, <3>3 DEF SuccessIn, IsSuccess
    <3> QED
      BY <2>1, <3>2, <3>4 DEF Copied
  <2>6. \A i \in DOMAIN runs' : i \notin DOMAIN runs => i = Len(runs) + 1
    BY <2>3
  <2> QED
    BY <2>2, <2>3, <2>4, <2>5, <2>6 DEF ReplayStep
<1>8. CASE SetWritten(g)
  <2>1. /\ pc[g] = "dataset" /\ pc'[g] \in {"disk", "rotate"} /\ runs' = runs
        /\ pc[g] \notin RunStages /\ pc'[g] \notin RunStages /\ pc[g] \in SetStages
        /\ pc'[g] = "rotate" => ~(job[g].at < Len(job[g].targets))
        /\ job[g].item > Len(Members[g]) /\ job'[g].at = job[g].at + 1
        /\ job'[g].targets = job[g].targets /\ job'[g].bad = job[g].bad
    BY <1>1, <1>8 DEF SetWritten, Goto, disks, Job, Stages, SetStages, DiskStages, RunStages
  <2>2. /\ job[g].targets \in Seq(Sets) /\ job[g].at \in Nat /\ job[g].item \in Nat
        /\ Members[g] \in Seq(Datasets)
    BY <1>1, TopologyAssumption DEF Job
  <2>3. ASSUME ~job[g].bad, NEW a \in DOMAIN job[g].targets, NEW m \in DOMAIN Members[g],
               a < job[g].at + 1
        PROVE  Copied(g, job[g].targets[a], Members[g][m])'
    <3>1. a < job[g].at \/ (a = job[g].at /\ m < job[g].item)
      BY <2>1, <2>2, <2>3
    <3>2. PICK e, f : e = job[g].targets[a] /\ f = Members[g][m]
      OBVIOUS
    <3>3. Copied(g, e, f)
      BY <1>2, <2>1, <2>3, <3>1, <3>2 DEF CoverOK
    <3>4. Copied(g, e, f)'
      BY <2>1, <3>3, CoverStays
    <3> QED
      BY <2>1, <3>2, <3>4 DEF Copied
  <2>4. pc'[g] = "rotate" => job'[g].at > Len(job'[g].targets)
    BY <2>1, <2>2
  <2>5. CoverOK(g)'
    <3>1. \A a \in DOMAIN job[g].targets, m \in DOMAIN Members[g] :
            ~(a = job'[g].at /\ pc'[g] # "disk")
      BY <2>1, <2>2, <2>4
    <3> QED
      BY <2>1, <2>3, <2>4, <3>1 DEF CoverOK
  <2> QED
    BY <2>1, <2>5, ReplayOut
<1> QED
  BY <1>3, <1>4, <1>5, <1>6, <1>7, <1>8 DEF Choosing

LEMMA EndingReplays ==
  ASSUME Recycling = {}, TypeInv, OutcomeInv, RunInv, FileInv, ReplayInv,
         NEW g \in Groups, Ending(g)
  PROVE  ReplayStep(g)
<1>1. /\ pc \in [Groups -> Stages] /\ work \in [Groups -> Work] /\ job \in [Groups -> Job]
      /\ work[g] \in Work /\ job[g] \in Job /\ pc[g] \notin {"wipe", "reformat"}
  BY DEF TypeInv, TypeOK, WorkerOK, OutcomeInv, OutcomeOK
<1>2. /\ runs \in Seq(BackupRun) /\ FollowOK(g) /\ CoverOK(g)
      /\ pc[g] \in RunStages =>
           CurDataset(g) \in Datasets /\ work[g].run \in DOMAIN runs /\ Row(g) \in BackupRun
  BY CurTypes DEF TypeInv, TypeOK, RowsOK, ReplayInv
<1>3. CASE Rotate(g) \/ CaptureConfig(g)
  <2>1. /\ pc[g] \in {"rotate", "capture"} /\ pc'[g] = "capture" /\ runs' = runs
        /\ pc[g] \notin RunStages /\ pc'[g] \notin RunStages
        /\ job'[g].targets = job[g].targets /\ job'[g].at = job[g].at
        /\ job'[g].item = job[g].item /\ job'[g].bad = job[g].bad
    BY <1>1, <1>3 DEF Rotate, CaptureConfig, Goto, Job, Stages, SetStages, DiskStages, RunStages
  <2>2. ASSUME ~job[g].bad, NEW a \in DOMAIN job[g].targets, NEW m \in DOMAIN Members[g],
               a < job[g].at \/ (a = job[g].at /\ m < job[g].item)
        PROVE  Copied(g, job[g].targets[a], Members[g][m])'
    <3>1. PICK e, f : e = job[g].targets[a] /\ f = Members[g][m]
      OBVIOUS
    <3>2. Copied(g, e, f)
      BY <1>2, <2>1, <2>2, <3>1 DEF CoverOK
    <3>3. Copied(g, e, f)'
      BY <2>1, <3>2, CoverStays
    <3> QED
      BY <2>1, <3>1, <3>3 DEF Copied
  <2>3. CoverOK(g)'
    BY <1>2, <2>1, <2>2 DEF CoverOK
  <2> QED
    BY <2>1, <2>3, ReplayOut
<1>4. CASE Finish(g)
  <2>1. pc'[g] = "idle" /\ pc'[g] \notin RunStages /\ runs' = runs
    BY <1>1, <1>4 DEF Finish, Goto, disks, Stages, SetStages, DiskStages, RunStages
  <2> QED
    BY <2>1, ReplayOut DEF CoverOK
<1> QED
  BY <1>3, <1>4 DEF Ending

\* A step that starts, kills or recovers: the runs that go on are as they were.
LEMMA ReplaysStay ==
  ASSUME ReplayInv, runs' = runs,
         \A g \in Groups :
           \/ pc'[g] \in {"idle", "resolve"}
           \/ pc'[g] = pc[g] /\ job'[g] = job[g] /\ work'[g] = work[g]
  PROVE  ReplayInv'
<1>1. /\ \A s, d : SuccessIn(s, d)' = SuccessIn(s, d)
      /\ \A b, s, d, n : Follows(b, s, d, n)' = Follows(b, s, d, n)
  BY DEF SuccessIn, IsSuccess, Follows
<1>2. \A i \in DOMAIN runs : ChainOK(i)'
  BY DEF ReplayInv, ChainOK, SuccessIn, IsSuccess, Follows
<1>3. ASSUME NEW g \in Groups
      PROVE  FollowOK(g)' /\ CoverOK(g)'
  <2>1. CASE pc'[g] \in {"idle", "resolve"}
    BY <2>1 DEF FollowOK, CoverOK, RunStages, DiskStages, SetStages
  <2>2. CASE pc'[g] = pc[g] /\ job'[g] = job[g] /\ work'[g] = work[g]
    <3>1. FollowOK(g) /\ CoverOK(g) /\ CurSet(g)' = CurSet(g) /\ CurDataset(g)' = CurDataset(g)
          /\ Row(g)' = Row(g)
      BY <2>2 DEF ReplayInv, CurSet, CurDataset, Row
    <3>2. FollowOK(g)'
      BY <2>2, <3>1 DEF FollowOK, Holding, Follows, SuccessIn, IsSuccess
    <3>3. CoverOK(g)'
      BY <2>2, <3>1 DEF CoverOK, Copied, SuccessIn, IsSuccess
    <3> QED
      BY <3>2, <3>3
  <2> QED
    BY <2>1, <2>2
<1> QED
  BY <1>2, <1>3 DEF ReplayInv

LEMMA ReplayInvStep ==
  ASSUME Recycling = {}, TypeInv, TypeInv', OutcomeInv, RunInv, FileInv, ReplayInv, [Next]_vars
  PROVE  ReplayInv'
<1>1. /\ pc \in [Groups -> Stages] /\ work \in [Groups -> Work] /\ job \in [Groups -> Job]
      /\ runs \in Seq(BackupRun)
  BY DEF TypeInv, TypeOK, WorkerOK, RowsOK
<1>2. ASSUME NEW g \in Groups, NEW trigger \in Triggers, Start(g, trigger)
      PROVE  ReplayInv'
  BY <1>1, <1>2, ReplaysStay DEF Start, Goto
<1>3. ASSUME NEW g \in Groups, Worker(g)
      PROVE  ReplayInv'
  <2>1. ReplayStep(g)
    BY <1>3, WritingReplays, SettlingReplays, MakingReplays, ChoosingReplays, EndingReplays DEF Worker
  <2>2. OthersKept(g)
    BY <1>3, WorkerMoves DEF MovesOn
  <2> QED
    BY <2>1, <2>2, WorkerReplays
<1>4. ASSUME NEW g \in Groups, WorkerDies(g)
      PROVE  ReplayInv'
  BY <1>1, <1>4, ReplaysStay DEF WorkerDies, Goto
<1>5. CASE Crash
  BY <1>5, ReplaysStay DEF Crash
<1>6. CASE Recovery
  <2>1. \A h \in Groups : pc'[h] = "idle"
    BY <1>6 DEF Recovery, RecoverRun, Restart, OutcomeInv, OutcomeOK
  <2>2. ASSUME NEW i \in DOMAIN runs, RecoverRun(i)
        PROVE  ReplayInv'
    BY <2>1, <2>2, ReplaysStay DEF RecoverRun
  <2>3. CASE Restart
    <3>1. DOMAIN runs' = DOMAIN runs
      BY <2>3 DEF Restart
    <3>2. \A i \in DOMAIN runs :
            \/ runs'[i] = runs[i]
            \/ runs[i].status # "success" /\ runs'[i].status # "success"
      BY <1>1, <2>3 DEF Restart, OrphanRun, BackupRun
    <3>3. ASSUME NEW i \in DOMAIN runs
          PROVE  ChainOK(i)'
      BY <3>1, <3>2 DEF ReplayInv, ChainOK, Follows, SuccessIn, IsSuccess
    <3>4. \A h \in Groups : FollowOK(h)' /\ CoverOK(h)'
      BY <2>1 DEF FollowOK, CoverOK, RunStages, DiskStages, SetStages
    <3> QED
      BY <3>1, <3>3, <3>4 DEF ReplayInv
  <2> QED
    BY <1>6, <2>2, <2>3 DEF Recovery
<1>7. ASSUME NEW k \in Disks, OperatorUnmounts(k)
      PROVE  ReplayInv'
  BY <1>7, ReplaysStay DEF OperatorUnmounts
<1>8. CASE UNCHANGED vars
  BY <1>8, ReplaysStay DEF vars
<1> QED
  BY <1>2, <1>3, <1>4, <1>5, <1>6, <1>7, <1>8 DEF Next

\* The oldest success of a set is a full, and what is newer than its newest
\* full builds on the success before it.
LEMMA ChainRestorable ==
  ASSUME TypeInv, FileInv, ReplayInv, NEW s, NEW d, SuccessIn(s, d) # {}
  PROVE  Restorable(s, d)
<1> DEFINE S == SuccessIn(s, d)
           F == { i \in S : runs[i].type = "full" }
<1>1. /\ runs \in Seq(BackupRun) /\ Len(runs) \in Nat /\ S \subseteq 1..Len(runs)
      /\ \A i \in S : i \in DOMAIN runs /\ runs[i] \in BackupRun /\ IsSuccess(i)
                      /\ runs[i].set = s /\ runs[i].ds = d
  BY DEF TypeInv, TypeOK, RowsOK, SuccessIn
<1>2. ASSUME NEW i \in S, runs[i].type # "full"
      PROVE  Follows(runs[i].base, s, d, i)
  BY <1>1, <1>2 DEF ReplayInv, ChainOK, BackupRun, Triggers
<1>3. F # {}
  <2>1. S \in SUBSET Nat
    BY <1>1
  <2>2. PICK i \in S : \A j \in S : i <= j
    BY <2>1, SmallestNat
  <2>3. ~Follows(runs[i].base, s, d, i)
    <3>1. \A j \in S : ~(j < i)
      BY <2>1, <2>2
    <3> QED
      BY <3>1 DEF Follows
  <2> QED
    BY <1>2, <2>3
<1>4. Newest(F) \in F /\ \A j \in F : j <= Newest(F)
  <2>1. F \in SUBSET (1..Len(runs))
    BY <1>1
  <2>2. \E x \in F : \A y \in F : y <= x
    BY <1>1, <1>3, <2>1, LargestIndex
  <2> HIDE DEF F
  <2> QED
    BY <2>2 DEF Newest
<1>5. ASSUME NEW i \in S
      PROVE  Stored(i)
  BY <1>1 DEF FileInv, Holds, Stored
<1>6. ASSUME NEW i \in S, i > Newest(F)
      PROVE  Extends(i)
  <2>1. runs[i].type # "full"
    <3>1. i \in F => i <= Newest(F)
      BY <1>4
    <3>2. i \in Nat /\ Newest(F) \in Nat
      BY <1>1, <1>4
    <3> QED
      BY <1>6, <3>1, <3>2
  <2>2. PICK j \in S : j < i /\ runs[j].snap = runs[i].base /\ \A k \in S : k < i => k <= j
    BY <1>2, <2>1 DEF Follows
  <2>3. Before(i) = { k \in S : k < i }
    BY <1>1 DEF Before
  <2>4. j \in Before(i) /\ \A k \in Before(i) : k <= j
    BY <2>2, <2>3
  <2>5. Newest(Before(i)) = j
    <3>1. \A x \in Before(i) : (\A y \in Before(i) : y <= x) => x = j
      BY <1>1, <2>3, <2>4
    <3> QED
      BY <2>4, <3>1 DEF Newest
  <2> QED
    BY <2>2, <2>4, <2>5 DEF Extends
<1> HIDE DEF S
<1> QED
  BY <1>3, <1>5, <1>6 DEF Restorable, S

\* Where no group recycles its disks, a session that ends with no failure
\* counted leaves every dataset of its group restorable from every set it
\* targeted: from the newest full on, every stream is on the disk its row names
\* and builds on the one before it, whatever was promoted, skipped, retried on
\* another disk, failed, interrupted or pruned on the way.
THEOREM SuccessMeansRestorableCorrect ==
  ASSUME Recycling = {}
  PROVE  Spec => []SuccessMeansRestorable
<1>1. Init => FileInv /\ ReplayInv
  BY DEF Init, FileInv, FileOK, ReplayInv, FollowOK, CoverOK, RunStages, DiskStages, SetStages
<1>2. TypeInv /\ TypeInv' /\ OutcomeInv /\ RunInv /\ FileInv /\ ReplayInv /\ [Next]_vars
      => FileInv' /\ ReplayInv'
  BY FileInvStep, ReplayInvStep
<1>3. TypeInv /\ FileInv /\ ReplayInv => SuccessMeansRestorable
  <2>1. SUFFICES ASSUME TypeInv, FileInv, ReplayInv, NEW g \in Groups, pc[g] = "capture", ~job[g].bad,
                        NEW a \in DOMAIN job[g].targets, NEW m \in DOMAIN Members[g]
                 PROVE  Restorable(job[g].targets[a], Members[g][m])
    BY DEF SuccessMeansRestorable, Ran
  <2>2. job[g].targets \in Seq(Sets) /\ job[g].at \in Nat
    BY <2>1 DEF TypeInv, TypeOK, WorkerOK, Job
  <2>3. job[g].at > Len(job[g].targets)
    BY <2>1 DEF ReplayInv, CoverOK
  <2>4. a < job[g].at
    BY <2>2, <2>3
  <2>5. SuccessIn(job[g].targets[a], Members[g][m]) # {}
    BY <2>1, <2>4 DEF ReplayInv, CoverOK, Copied
  <2> QED
    BY <2>1, <2>5, ChainRestorable
<1> QED
  BY <1>1, <1>2, <1>3, RunInvariant, PTL DEF Spec

-----------------------------------------------------------------------------
(* The rows of a set keep its chain *)

\* The logs and the pool that SetChain is instantiated with.
Logs == [s \in Sets |-> [d \in Datasets |-> Streams(s, d)]]

\* What is written as a full is sent from nothing: a base is only looked up for an
\* incremental.
FullOK(g) ==
  /\ work[g].type = "full" => work[g].base = None
  /\ pc[g] = "anchor" => work[g].type # "full"

FullInv == \A g \in Groups : FullOK(g)

\* The successful rows stay what they are.
RowsSame ==
  \A i : \/ i \in DOMAIN runs /\ IsSuccess(i)
         \/ i \in DOMAIN runs' /\ runs'[i].status = "success"
         => i \in DOMAIN runs /\ i \in DOMAIN runs' /\ runs'[i] = runs[i]

\* A snapshot is taken, or one that no successful run names is destroyed.
PoolStep ==
  \/ snaps' = snaps
  \/ \E d \in Datasets, t \in Seconds :
       \/ t \notin snaps[d] /\ snaps' = [snaps EXCEPT ![d] = @ \cup {t}]
       \/ t \in snaps[d] /\ t \notin Referenced(d) /\ snaps' = [snaps EXCEPT ![d] = @ \ {t}]

LEMMA LogStays ==
  ASSUME RowsSame
  PROVE  Logs' = Logs
<1>1. \A s, d : SuccessIn(s, d)' = SuccessIn(s, d)
  BY DEF RowsSame, SuccessIn, IsSuccess
<1>2. \A s, d : Streams(s, d)' = Streams(s, d)
  BY <1>1 DEF RowsSame, Streams, SuccessIn, IsSuccess
<1> QED
  BY <1>2 DEF Logs

LEMMA LogNeeds ==
  ASSUME NEW d \in Datasets, NEW t \in Seconds, t \notin Referenced(d)
  PROVE  ~Chains!Needed(d, t)
<1>1. SUFFICES ASSUME NEW s \in Sets, NEW i \in DOMAIN Logs[s][d],
                      t \in {Logs[s][d][i].snap, Logs[s][d][i].base}
               PROVE  FALSE
  BY DEF Chains!Needed, Logs
<1>2. Logs[s][d] = Streams(s, d)
  BY DEF Logs
<1>3. i \in SuccessIn(s, d) /\ t \in {runs[i].snap, runs[i].base}
  BY <1>1, <1>2 DEF Streams
<1>4. t # None
  BY BoundAssumption DEF Seconds
<1> QED
  BY <1>3, <1>4, ReferencedMember DEF SuccessIn, RefsOf

LEMMA PoolStepChains ==
  ASSUME RowsSame, PoolStep, TypeInv
  PROVE  [Chains!Next]_(Chains!vars)
<1>1. Logs' = Logs
  BY LogStays
<1>2. CASE snaps' = snaps
  BY <1>1, <1>2 DEF Chains!vars, Logs
<1>3. ASSUME NEW d \in Datasets, NEW t \in Seconds, t \notin snaps[d],
             snaps' = [snaps EXCEPT ![d] = @ \cup {t}]
      PROVE  Chains!Next
  <2>1. snaps \in [Datasets -> SUBSET Seconds]
    BY DEF TypeInv, TypeOK, StoreOK
  <2>2. t \in snaps'[d]
    BY <1>3, <2>1
  <2>3. Chains!Snapshot(d, t)
    BY <1>1, <1>3 DEF Chains!Snapshot, Logs
  <2> QED
    BY <2>2, <2>3 DEF Chains!Next
<1>4. ASSUME NEW d \in Datasets, NEW t \in Seconds, t \in snaps[d], t \notin Referenced(d),
             snaps' = [snaps EXCEPT ![d] = @ \ {t}]
      PROVE  Chains!Next
  <2>1. ~Chains!Needed(d, t)
    BY <1>4, LogNeeds
  <2>2. Chains!Destroy(d, t)
    BY <1>1, <1>4, <2>1 DEF Chains!Destroy, Logs
  <2> QED
    BY <1>4, <2>2 DEF Chains!Next
<1> QED
  BY <1>2, <1>3, <1>4 DEF PoolStep

\* Steps of a worker: its own row, which is no success, is written; a row is added;
\* a snapshot that no success names is destroyed.
LEMMA SavedSame ==
  ASSUME TypeInv, NEW g \in Groups, pc[g] \in RunStages, Row(g).status # "success",
         NEW row, row.status # "success", Save(g, row)
  PROVE  RowsSame
BY SavedRow, CurTypes DEF RowsSame, Row, IsSuccess

LEMMA InsertSame ==
  ASSUME TypeInv, NEW g \in Groups, NEW s, NEW type, NEW status, status # "success",
         Insert(g, s, type, status)
  PROVE  RowsSame
<1>1. PICK row : row.status = status /\ runs' = Append(runs, row)
  BY DEF Insert
<1>2. /\ runs \in Seq(BackupRun) /\ Len(runs) \in Nat /\ DOMAIN runs = 1..Len(runs)
  BY DEF TypeInv, TypeOK, RowsOK
<1>3. /\ DOMAIN runs' = 1..(Len(runs) + 1) /\ runs'[Len(runs) + 1] = row
      /\ \A i \in DOMAIN runs : runs'[i] = runs[i]
  BY <1>1, <1>2
<1> QED
  BY <1>1, <1>2, <1>3 DEF RowsSame, IsSuccess

LEMMA DestroyStep ==
  ASSUME TypeInv, NEW d \in Datasets, NEW t \in Second, t \notin Referenced(d), Destroy(d, {t})
  PROVE  PoolStep
<1>1. snaps \in [Datasets -> SUBSET Seconds] /\ t \in Seconds \cup {None}
  BY DEF TypeInv, TypeOK, StoreOK, Second, Seconds
<1>2. CASE t \in Held(d) \/ t \notin snaps[d] \/ snaps' = snaps
  <2>1. snaps' = snaps \/ snaps' = [snaps EXCEPT ![d] = @ \ ({t} \ Held(d))]
    BY DEF Destroy
  <2>2. snaps[d] \ ({t} \ Held(d)) = snaps[d] \/ snaps' = snaps
    BY <1>2
  <2>3. snaps' = snaps
    BY <1>1, <2>1, <2>2
  <2> QED
    BY <2>3 DEF PoolStep
<1>3. CASE t \notin Held(d) /\ t \in snaps[d] /\ snaps' # snaps
  <2>1. {t} \ Held(d) = {t} /\ t \in Seconds
    BY <1>1, <1>3
  <2>2. snaps' = [snaps EXCEPT ![d] = @ \ {t}]
    BY <1>3, <2>1 DEF Destroy
  <2> QED
    BY <1>3, <2>1, <2>2 DEF PoolStep
<1> QED
  BY <1>2, <1>3

\* The row under way is newer than any success of its set and dataset.
LEMMA RowIsNewest ==
  ASSUME TypeInv, RunInv, ReplayInv, NEW g \in Groups, pc[g] \in RunStages
  PROVE  /\ \A i \in SuccessIn(CurSet(g), CurDataset(g)) : i <= work[g].run
         /\ work[g].run \in Nat /\ SuccessIn(CurSet(g), CurDataset(g)) \subseteq Nat
         /\ CurSet(g) \in Sets /\ CurDataset(g) \in Datasets
         /\ Row(g).set = CurSet(g) /\ Row(g).ds = CurDataset(g) /\ Row(g) = runs[work[g].run]
<1>1. /\ runs \in Seq(BackupRun) /\ work[g].run \in DOMAIN runs
      /\ CurSet(g) \in Sets /\ CurDataset(g) \in Datasets
  BY CurTypes DEF TypeInv, TypeOK, RowsOK, RunStages, DiskStages
<1>2. DOMAIN runs \subseteq Nat
  BY <1>1
<1>3. CurSet(g) \in Ran(Cycle[g])
  BY OwnSets DEF RunStages, DiskStages, SetStages
<1>4. \A i \in SuccessIn(CurSet(g), CurDataset(g)) : ~(i > work[g].run)
  BY <1>3 DEF ReplayInv, FollowOK, SuccessIn
<1>5. SuccessIn(CurSet(g), CurDataset(g)) \subseteq Nat
  BY <1>2 DEF SuccessIn
<1>6. work[g].run \in Nat
  BY <1>1, <1>2
<1> QED
  BY <1>1, <1>4, <1>5, <1>6 DEF ReplayInv, FollowOK, RunInv, RunOK, Row

\* Of the logs only that of set s and dataset d becomes another.
LogPut(s, d, L) == Logs' = [Logs EXCEPT ![s][d] = L]

\* What becomes of the logs when one row of (s, d) becomes a success, or none.
LEMMA LogMoves ==
  ASSUME NEW s \in Sets, NEW d \in Datasets, NEW n \in DOMAIN runs,
         runs[n].set = s, runs[n].ds = d, runs'[n].set = s, runs'[n].ds = d,
         DOMAIN runs' = DOMAIN runs,
         \A i \in DOMAIN runs : i # n => runs'[i] = runs[i]
  PROVE  /\ \E L : L = Streams(s, d)' /\ LogPut(s, d, L)
         /\ SuccessIn(s, d)' = (SuccessIn(s, d) \ {n}) \cup (IF runs'[n].status = "success" THEN {n} ELSE {})
<1>1. \A u, v : u # s \/ v # d => SuccessIn(u, v)' = SuccessIn(u, v)
  BY DEF SuccessIn, IsSuccess
<1>2. \A u, v : u # s \/ v # d => \A i \in SuccessIn(u, v) : runs'[i] = runs[i]
  BY DEF SuccessIn
<1>3. \A u, v : u # s \/ v # d => Streams(u, v)' = Streams(u, v)
  BY <1>1, <1>2 DEF Streams
<1>4. ASSUME NEW L, L = Streams(s, d)'
      PROVE  LogPut(s, d, L)
  <2>1. ASSUME NEW u \in Sets, u # s
        PROVE  [v \in Datasets |-> Streams(u, v)'] = [v \in Datasets |-> Streams(u, v)]
    BY <1>3, <2>1
  <2>2. [v \in Datasets |-> Streams(s, v)']
        = [[v \in Datasets |-> Streams(s, v)] EXCEPT ![d] = L]
    BY <1>3, <1>4
  <2> QED
    BY <2>1, <2>2 DEF Logs, LogPut
<1>5. SuccessIn(s, d)' = (SuccessIn(s, d) \ {n}) \cup (IF runs'[n].status = "success" THEN {n} ELSE {})
  BY DEF SuccessIn, IsSuccess
<1> QED
  BY <1>4, <1>5

\* The commit of a run appends to the log of its set: a full sent from nothing, or
\* an incremental sent from the newest stream there.
LEMMA CommitStores ==
  ASSUME TypeInv, RunInv, SnapInv, FileInv, ReplayInv, FullInv, NEW g \in Groups, CommitRun(g)
  PROVE  Chains!Next
<1>1. PICK s, d, n, t, b :
        s = CurSet(g) /\ d = CurDataset(g) /\ n = work[g].run /\ t = work[g].snap /\ b = work[g].base
  OBVIOUS
<1>2. /\ pc[g] \in RunStages /\ pc[g] = "commit" /\ pc[g] \notin Settled /\ pc[g] \in Recorded
      /\ pc[g] \in Named /\ pc[g] \in Based /\ snaps' = snaps
  BY DEF CommitRun, RunStages, DiskStages, SetStages, Stages, Settled, Recorded, Named, Based
<1>3. /\ \A i \in SuccessIn(s, d) : i <= n
      /\ n \in Nat /\ SuccessIn(s, d) \subseteq Nat /\ s \in Sets /\ d \in Datasets
      /\ Row(g).set = s /\ Row(g).ds = d /\ Row(g) = runs[n]
  BY <1>1, <1>2, RowIsNewest
<1>4. n \in DOMAIN runs /\ Row(g) \in BackupRun
  BY <1>1, <1>2, CurTypes
<1>5. Row(g).status # "success" /\ Row(g).status # "deleted" /\ Row(g).snap = t
  <2>1. RunOK(g) /\ FileOK(g)
    BY DEF RunInv, FileInv
  <2> QED
    BY <1>1, <1>2, <1>3, <1>4, <2>1 DEF RunOK, FileOK, FileInv
<1>6. /\ DOMAIN runs' = DOMAIN runs
      /\ \A i \in DOMAIN runs : i # n => runs'[i] = runs[i]
      /\ runs'[n] = [runs[n] EXCEPT !.status = "success", !.base = b, !.anchor = work[g].anchor]
  <2>1. Save(g, [Row(g) EXCEPT !.status = "success", !.base = work[g].base, !.anchor = work[g].anchor])
    BY DEF CommitRun
  <2> QED
    BY <1>1, <1>2, <1>3, <1>5, <2>1, SavedRow
<1>7. /\ runs'[n].set = s /\ runs'[n].ds = d /\ runs'[n].status = "success"
      /\ runs'[n].snap = t /\ runs'[n].base = b /\ runs[n].set = s /\ runs[n].ds = d
  BY <1>3, <1>4, <1>5, <1>6 DEF BackupRun
<1>8. n \notin SuccessIn(s, d)
  BY <1>3, <1>5 DEF SuccessIn, IsSuccess
<1>9. \A i \in SuccessIn(s, d) : i < n
  BY <1>3, <1>8
<1>10. /\ \E L : L = Streams(s, d)' /\ LogPut(s, d, L)
       /\ SuccessIn(s, d)' = (SuccessIn(s, d) \ {n}) \cup (IF runs'[n].status = "success" THEN {n} ELSE {})
  <2>1. /\ s \in Sets /\ d \in Datasets /\ n \in DOMAIN runs
        /\ runs[n].set = s /\ runs[n].ds = d /\ runs'[n].set = s /\ runs'[n].ds = d
        /\ DOMAIN runs' = DOMAIN runs /\ \A i \in DOMAIN runs : i # n => runs'[i] = runs[i]
    BY <1>3, <1>4, <1>6, <1>7
  <2> QED
    BY <2>1, LogMoves
<1>11. PICK L : L = Streams(s, d)' /\ LogPut(s, d, L) /\ SuccessIn(s, d)' = SuccessIn(s, d) \cup {n}
  BY <1>7, <1>8, <1>10
<1>12. Logs[s][d] = Streams(s, d) /\ DOMAIN Streams(s, d) = SuccessIn(s, d)
  BY <1>3 DEF Logs, Streams
<1>13. L = [i \in SuccessIn(s, d) \cup {n} |->
              IF i = n THEN [snap |-> t, base |-> b] ELSE Streams(s, d)[i]]
  <2>1. L = [i \in SuccessIn(s, d) \cup {n} |-> [snap |-> runs'[i].snap, base |-> runs'[i].base]]
    BY <1>11 DEF Streams
  <2>2. \A i \in SuccessIn(s, d) : runs'[i] = runs[i]
    BY <1>6, <1>8 DEF SuccessIn
  <2>3. \A i \in SuccessIn(s, d) : Streams(s, d)[i] = [snap |-> runs'[i].snap, base |-> runs'[i].base]
    BY <2>2 DEF Streams
  <2> QED
    BY <1>7, <1>8, <2>1, <2>3
<1>14. t \in snaps[d] /\ {t, b} \ {None} \subseteq snaps[d]
  <2>1. SnapOK(g) /\ FollowOK(g)
    BY DEF SnapInv, ReplayInv
  <2>2. t # None /\ {t} \ {None} \subseteq Past(d) /\ {b} \ {None} \subseteq Past(d)
    BY <1>1, <1>2, <2>1 DEF SnapOK, FollowOK
  <2> QED
    BY <2>2 DEF Past
<1>15. b \in Chains!Bases(Logs[s][d])
  <2>1. CASE work[g].type = "full"
    BY <1>1, <2>1 DEF FullInv, FullOK, Chains!Bases
  <2>2. CASE work[g].type = "incremental"
    <3>1. Follows(b, s, d, n)
      BY <1>1, <1>2, <2>2 DEF ReplayInv, FollowOK
    <3>2. PICK j \in SuccessIn(s, d) : runs[j].snap = b /\ \A k \in SuccessIn(s, d) : k < n => k <= j
      BY <3>1 DEF Follows
    <3>3. Chains!IsLast(Logs[s][d], j) /\ Logs[s][d][j].snap = b
      BY <1>9, <1>12, <3>2 DEF Chains!IsLast, Streams
    <3> QED
      BY <1>12, <3>2, <3>3 DEF Chains!Bases
  <2> QED
    BY <2>1, <2>2 DEF TypeInv, TypeOK, WorkerOK, Work, Triggers
<1>16. Chains!Store(s, d, n, t, b)
  <2>1. \A i \in DOMAIN Logs[s][d] : i < n
    BY <1>9, <1>12
  <2>2. L = [i \in DOMAIN Logs[s][d] \cup {n} |->
              IF i = n THEN [snap |-> t, base |-> b] ELSE Logs[s][d][i]]
    BY <1>12, <1>13
  <2> QED
    BY <1>2, <1>3, <1>11, <1>14, <2>1, <2>2 DEF Chains!Store, Logs, LogPut
<1>17. n \in DOMAIN Logs'[s][d]
  <2>1. Logs'[s][d] = L
    BY <1>3, <1>11 DEF Logs, LogPut
  <2> QED
    BY <1>13, <2>1
<1> QED
  BY <1>3, <1>14, <1>15, <1>16, <1>17 DEF Chains!Next, Logs

\* An error after the commit takes the newest stream of the log back.
LEMMA ErrorTakesBack ==
  ASSUME TypeInv, RunInv, FileInv, ReplayInv, NEW g \in Groups, RunErrs(g), Row(g).status = "success"
  PROVE  Chains!Next
<1>1. PICK s, d, n : s = CurSet(g) /\ d = CurDataset(g) /\ n = work[g].run
  OBVIOUS
<1>2. pc[g] \in RunStages /\ snaps' = snaps
  BY DEF RunErrs, RunStages, DiskStages, SetStages, Stages
<1>3. /\ \A i \in SuccessIn(s, d) : i <= n
      /\ n \in Nat /\ SuccessIn(s, d) \subseteq Nat /\ s \in Sets /\ d \in Datasets
      /\ Row(g).set = s /\ Row(g).ds = d /\ Row(g) = runs[n]
  BY <1>1, <1>2, RowIsNewest
<1>4. n \in DOMAIN runs /\ Row(g) \in BackupRun
  BY <1>1, <1>2, CurTypes
<1>5. /\ DOMAIN runs' = DOMAIN runs
      /\ \A i \in DOMAIN runs : i # n => runs'[i] = runs[i]
      /\ runs'[n] = [runs[n] EXCEPT !.status = "failed"]
  <2>1. Save(g, [Row(g) EXCEPT !.status = "failed"])
    BY DEF RunErrs
  <2> QED
    BY <1>1, <1>2, <1>3, <2>1, SavedRow
<1>6. /\ runs'[n].set = s /\ runs'[n].ds = d /\ runs'[n].status # "success"
      /\ runs[n].set = s /\ runs[n].ds = d
  BY <1>3, <1>4, <1>5 DEF BackupRun
<1>7. n \in SuccessIn(s, d)
  BY <1>3, <1>4 DEF SuccessIn, IsSuccess
<1>8. /\ \E L : L = Streams(s, d)' /\ LogPut(s, d, L)
      /\ SuccessIn(s, d)' = (SuccessIn(s, d) \ {n}) \cup (IF runs'[n].status = "success" THEN {n} ELSE {})
  <2>1. /\ s \in Sets /\ d \in Datasets /\ n \in DOMAIN runs
        /\ runs[n].set = s /\ runs[n].ds = d /\ runs'[n].set = s /\ runs'[n].ds = d
        /\ DOMAIN runs' = DOMAIN runs /\ \A i \in DOMAIN runs : i # n => runs'[i] = runs[i]
    BY <1>3, <1>4, <1>5, <1>6
  <2> QED
    BY <2>1, LogMoves
<1>9. PICK L : L = Streams(s, d)' /\ LogPut(s, d, L) /\ SuccessIn(s, d)' = SuccessIn(s, d) \ {n}
  BY <1>6, <1>8
<1>10. Logs[s][d] = Streams(s, d) /\ DOMAIN Streams(s, d) = SuccessIn(s, d)
  BY <1>3 DEF Logs, Streams
<1>11. L = [i \in SuccessIn(s, d) \ {n} |-> Streams(s, d)[i]]
  <2>1. L = [i \in SuccessIn(s, d) \ {n} |-> [snap |-> runs'[i].snap, base |-> runs'[i].base]]
    BY <1>9 DEF Streams
  <2>2. \A i \in SuccessIn(s, d) \ {n} : runs'[i] = runs[i]
    BY <1>5 DEF SuccessIn
  <2>3. \A i \in SuccessIn(s, d) \ {n} :
          Streams(s, d)[i] = [snap |-> runs'[i].snap, base |-> runs'[i].base]
    BY <2>2 DEF Streams
  <2> QED
    BY <2>1, <2>3
<1>12. Chains!TakeBack(s, d, n)
  <2>1. Chains!IsLast(Logs[s][d], n)
    BY <1>3, <1>7, <1>10 DEF Chains!IsLast
  <2>2. L = [i \in DOMAIN Logs[s][d] \ {n} |-> Logs[s][d][i]]
    BY <1>10, <1>11
  <2> QED
    BY <1>2, <1>3, <1>9, <2>1, <2>2 DEF Chains!TakeBack, Logs, LogPut
<1> QED
  BY <1>3, <1>7, <1>10, <1>12 DEF Chains!Next, Logs

\* What a step of a worker does to chains and pool.
Chaining(g) == (RowsSame /\ PoolStep) \/ Chains!Next

LEMMA WritingChains ==
  ASSUME TypeInv, RunInv, SnapInv, FileInv, ReplayInv, FullInv, NEW g \in Groups, Writing(g)
  PROVE  Chaining(g)
<1>1. /\ pc[g] \in RunStages => CurDataset(g) \in Datasets
      /\ work[g].snap \in Second /\ clock \in Nat
      /\ pc[g] \in RunStages /\ pc[g] \notin Settled => Row(g).status # "success"
      /\ pc[g] \in RunStages /\ pc[g] \notin Settled => work[g].snap \notin Referenced(CurDataset(g))
  BY CurTypes DEF TypeInv, TypeOK, WorkerOK, StoreOK, Work, RunInv, RunOK, SnapInv, SnapOK
<1>2. ASSUME runs' = runs
      PROVE  RowsSame
  BY <1>2 DEF RowsSame, IsSuccess
<1>3. ASSUME snaps' = snaps
      PROVE  PoolStep
  BY <1>3 DEF PoolStep
<1> USE DEF RunStages, DiskStages, SetStages, Stages, Settled
<1>4. CASE MountForRun(g) \/ ResolveAnchor(g) \/ AnchorUnlisted(g) \/ ReuseSnapshot(g)
  BY <1>2, <1>3, <1>4 DEF MountForRun, ResolveAnchor, AnchorUnlisted, ReuseSnapshot, Chaining
<1>5. ASSUME NEW t \in {clock, clock + 1}, TakeSnapshot(g, t)
      PROVE  Chaining(g)
  <2>1. t \in Seconds /\ CurDataset(g) \in Datasets
    BY <1>1, <1>5 DEF TakeSnapshot, Seconds
  <2>2. PoolStep
    BY <1>5, <2>1 DEF TakeSnapshot, PoolStep
  <2> QED
    BY <1>2, <1>5, <2>2 DEF TakeSnapshot, Chaining
<1>6. ASSUME NEW t \in {clock, clock + 1}, SnapshotFails(g, t)
      PROVE  Chaining(g)
  <2>1. CASE runs' = runs
    BY <1>2, <1>3, <1>6, <2>1 DEF SnapshotFails, Chaining
  <2>2. CASE Save(g, [Row(g) EXCEPT !.status = "failed"])
    <3>1. Row(g) \in BackupRun
      BY <1>6, CurTypes DEF SnapshotFails
    <3>2. [Row(g) EXCEPT !.status = "failed"].status # "success"
      BY <3>1 DEF BackupRun
    <3>3. RowsSame
      BY <1>1, <1>6, <2>2, <3>2, SavedSame DEF SnapshotFails
    <3> QED
      BY <1>3, <1>6, <3>3 DEF SnapshotFails, Chaining
  <2> QED
    BY <1>6, <2>1, <2>2 DEF SnapshotFails
<1>7. CASE DiscardFailedName(g)
  <2>1. RowsSame
    BY <1>1, <1>7, SavedSame, CurTypes DEF DiscardFailedName, BackupRun
  <2>2. PoolStep
    BY <1>1, <1>7, DestroyStep DEF DiscardFailedName
  <2> QED
    BY <2>1, <2>2 DEF Chaining
<1>8. CASE RecordSnapshot(g)
  <2>1. RowsSame
    BY <1>1, <1>8, SavedSame, CurTypes DEF RecordSnapshot, BackupRun
  <2> QED
    BY <1>3, <1>8, <2>1 DEF RecordSnapshot, Chaining
<1>9. CASE Changed(g) \/ Fits(g) \/ SendDone(g) \/ SendFails(g)
  BY <1>2, <1>3, <1>9 DEF Changed, Fits, SendDone, SendFails, Chaining
<1>10. CASE Unchanged(g)
  <2>1. RowsSame
    BY <1>1, <1>10, SavedSame, CurTypes DEF Unchanged, BackupRun
  <2> QED
    BY <1>3, <1>10, <2>1 DEF Unchanged, Chaining
<1>11. CASE DropSkipped(g)
  BY <1>1, <1>2, <1>11, DestroyStep DEF DropSkipped, Chaining
<1>12. CASE NeedsSpace(g)
  <2>1. RowsSame
    BY <1>1, <1>12, SavedSame, CurTypes DEF NeedsSpace, BackupRun
  <2> QED
    BY <1>3, <1>12, <2>1 DEF NeedsSpace, Chaining
<1>13. CASE DropFailed(g)
  <2>1. RowsSame
    BY <1>1, <1>13, SavedSame, CurTypes DEF DropFailed, BackupRun
  <2>2. PoolStep
    BY <1>1, <1>13, DestroyStep DEF DropFailed
  <2> QED
    BY <2>1, <2>2 DEF Chaining
<1>14. CASE CommitRun(g)
  BY <1>14, CommitStores DEF Chaining
<1> QED
  BY <1>4, <1>5, <1>6, <1>7, <1>8, <1>9, <1>10, <1>11, <1>12, <1>13, <1>14 DEF Writing

LEMMA OutsideChains ==
  ASSUME Recycling = {}, TypeInv, OutcomeInv, RunInv, SnapInv, FileInv, ReplayInv,
         NEW g \in Groups, Settling(g) \/ Making(g) \/ Choosing(g) \/ Ending(g)
  PROVE  Chaining(g)
<1>1. /\ pc[g] \in RunStages => CurDataset(g) \in Datasets /\ Row(g) \in BackupRun
      /\ work[g] \in Work /\ work[g].doomed \subseteq Second
      /\ pc[g] \in RunStages /\ pc[g] \notin Settled => Row(g).status # "success"
      /\ pc[g] = "prune" => work[g].doomed \cap Referenced(CurDataset(g)) = {}
  BY CurTypes
  DEF TypeInv, TypeOK, WorkerOK, Work, Second, Seconds, RunInv, RunOK, SnapInv, SnapOK, RunStages,
      DiskStages, SetStages, Stages
<1>2. ASSUME runs' = runs
      PROVE  RowsSame
  BY <1>2 DEF RowsSame, IsSuccess
<1>3. ASSUME snaps' = snaps
      PROVE  PoolStep
  BY <1>3 DEF PoolStep
<1>4. CASE runs' = runs /\ snaps' = snaps
  BY <1>2, <1>3, <1>4 DEF Chaining
<1>5. ASSUME NEW t \in work[g].doomed, PruneOne(g, t)
      PROVE  Chaining(g)
  <2>1. /\ pc[g] \in RunStages /\ pc[g] = "prune" /\ runs' = runs
        /\ Destroy(CurDataset(g), {t})
    BY <1>5 DEF PruneOne, RunStages, DiskStages, SetStages, Stages
  <2>2. t \notin Referenced(CurDataset(g)) /\ t \in Second
    BY <1>1, <2>1
  <2> QED
    BY <1>1, <1>2, <2>1, <2>2, DestroyStep DEF Chaining
<1>6. CASE RunErrs(g)
  <2>1. CASE Row(g).status = "success"
    BY <1>6, <2>1, ErrorTakesBack DEF Chaining
  <2>2. CASE Row(g).status # "success"
    <3>1. pc[g] \in RunStages /\ snaps' = snaps /\ Save(g, [Row(g) EXCEPT !.status = "failed"])
      BY <1>6 DEF RunErrs, RunStages, DiskStages, SetStages, Stages
    <3>2. [Row(g) EXCEPT !.status = "failed"].status # "success"
      BY <1>1, <3>1 DEF BackupRun
    <3> QED
      BY <1>3, <2>2, <3>1, <3>2, SavedSame DEF Chaining
  <2> QED
    BY <2>1, <2>2
<1>7. CASE Settling(g)
  BY <1>4, <1>5, <1>6, <1>7
  DEF Settling, PruneList, PruneSkipped, PruneDone, RecordManifest, ManifestFails, Unmount
<1>8. ASSUME NEW k \in Disks, AdvanceTo(g, k)
      PROVE  Chaining(g)
  <2>1. pc[g] \in RunStages /\ pc[g] \notin Settled /\ snaps' = snaps /\ Save(g, Retarget(Row(g), k))
    BY <1>8 DEF AdvanceTo, RunStages, DiskStages, SetStages, Stages, Settled
  <2>2. Retarget(Row(g), k).status # "success"
    BY <1>1, <2>1 DEF Retarget, BackupRun
  <2> QED
    BY <1>1, <1>3, <2>1, <2>2, SavedSame DEF Chaining
<1>9. CASE Making(g)
  <2>1. pc[g] # "reformat"
    BY DEF OutcomeInv, OutcomeOK
  <2> QED
    BY <1>4, <1>8, <1>9, <2>1 DEF Making, PutAwayFull, NoRoomInSet, Wipe, RecycleFails, Reformatted
<1>10. CASE DatasetMissing(g)
  BY <1>3, <1>10, InsertSame DEF DatasetMissing, Chaining
<1>11. CASE NewRun(g)
  BY <1>3, <1>11, InsertSame DEF NewRun, Chaining
<1>12. CASE Choosing(g)
  BY <1>4, <1>10, <1>11, <1>12 DEF Choosing, Resolve, ChooseDisk, NoUsableDisk, SetWritten
<1>13. CASE Ending(g)
  BY <1>4, <1>13 DEF Ending, Rotate, CaptureConfig, Finish
<1> QED
  BY <1>7, <1>9, <1>12, <1>13

\* Only the resolution of an anchor sets a base, and with none it makes a full.
LEMMA FullStep ==
  ASSUME TypeInv, FullInv, [Next]_vars
  PROVE  FullInv'
<1>1. /\ work \in [Groups -> Work] /\ pc \in [Groups -> Stages]
      /\ \A g \in Groups : work[g] \in Work
  BY DEF TypeInv, TypeOK, WorkerOK
<1>2. NoWork.base = None
  BY DEF NoWork
\* The others keep their locals, and the one that moves does so in one of three ways.
<1>3. ASSUME NEW g \in Groups, \A h \in Groups \ {g} : work'[h] = work[h] /\ pc'[h] = pc[h], FullOK(g)'
      PROVE  FullInv'
  BY <1>3 DEF FullInv, FullOK
<1>4. ASSUME NEW g \in Groups, NEW stage, stage # "anchor", pc' = [pc EXCEPT ![g] = stage],
             work' = [work EXCEPT ![g] = NoWork]
      PROVE  FullInv'
  <2>1. FullOK(g)'
    BY <1>1, <1>2, <1>4 DEF FullOK
  <2> QED
    BY <1>1, <1>3, <1>4, <2>1
<1>5. ASSUME NEW g \in Groups, NEW stage, pc' = [pc EXCEPT ![g] = stage] \/ pc' = pc,
             stage = "anchor" => work[g].type # "full",
             \A h \in Groups \ {g} : work'[h] = work[h],
             work'[g].type = work[g].type, work'[g].base = work[g].base
      PROVE  FullInv'
  <2>1. \A h \in Groups \ {g} : pc'[h] = pc[h]
    BY <1>1, <1>5
  <2>2. pc'[g] = pc[g] \/ pc'[g] = stage
    BY <1>1, <1>5
  <2>3. FullOK(g)'
    BY <1>5, <2>2 DEF FullInv, FullOK
  <2> QED
    BY <1>3, <1>5, <2>1, <2>3
<1>6. ASSUME NEW g \in Groups, NEW stage, pc' = [pc EXCEPT ![g] = stage] \/ pc' = pc,
             stage = "anchor" => work[g].type # "full", work' = work
      PROVE  FullInv'
  BY <1>5, <1>6
<1>7. ASSUME NEW g \in Groups, Choosing(g)
      PROVE  FullInv'
  <2>1. CASE NewRun(g)
    <3>1. PICK type : /\ work' = [work EXCEPT ![g] = [NoWork EXCEPT !.run = Len(runs) + 1, !.type = type]]
                      /\ pc' = [pc EXCEPT ![g] = "mount"]
      BY <2>1 DEF NewRun, Goto
    <3>2. work'[g].base = None /\ \A h \in Groups \ {g} : work'[h] = work[h] /\ pc'[h] = pc[h]
      BY <1>1, <3>1 DEF NoWork
    <3>3. pc'[g] = "mount"
      BY <1>1, <3>1
    <3> QED
      BY <1>3, <3>2, <3>3 DEF FullOK
  <2>2. CASE DatasetMissing(g)
    BY <1>4, <2>2 DEF DatasetMissing, Count, Goto
  <2>3. CASE Resolve(g)
    BY <1>6, <2>3 DEF Resolve, Goto
  <2>4. ASSUME NEW k \in Disks, ChooseDisk(g, k)
        PROVE  FullInv'
    BY <1>6, <2>4 DEF ChooseDisk, Goto
  <2>5. CASE NoUsableDisk(g)
    BY <1>6, <2>5 DEF NoUsableDisk, Block, Goto
  <2>6. CASE SetWritten(g)
    BY <1>6, <2>6 DEF SetWritten, Goto
  <2> QED
    BY <1>7, <2>1, <2>2, <2>3, <2>4, <2>5, <2>6 DEF Choosing
<1>8. ASSUME NEW g \in Groups, ResolveAnchor(g)
      PROVE  FullInv'
  <2>1. PICK base, a : work' = [work EXCEPT ![g].base = base, ![g].anchor = a,
                                           ![g].type = IF base = None THEN "full" ELSE @]
    BY <1>8 DEF ResolveAnchor
  <2>2. /\ work'[g].base = base /\ work'[g].type = (IF base = None THEN "full" ELSE work[g].type)
        /\ \A h \in Groups \ {g} : work'[h] = work[h]
    BY <1>1, <2>1 DEF Work
  <2>3. pc[g] = "anchor" /\ pc'[g] = "snapshot" /\ \A h \in Groups \ {g} : pc'[h] = pc[h]
    BY <1>1, <1>8 DEF ResolveAnchor, Goto
  <2>4. FullOK(g)'
    BY <2>2, <2>3 DEF FullInv, FullOK
  <2> QED
    BY <1>3, <2>2, <2>3, <2>4
<1>8a. ASSUME NEW g \in Groups, AnchorUnlisted(g)
       PROVE  FullInv'
  <2>1. /\ work'[g].base = None /\ \A h \in Groups \ {g} : work'[h] = work[h] /\ pc'[h] = pc[h]
        /\ pc'[g] = "snapshot"
    BY <1>1, <1>8a DEF AnchorUnlisted, Goto, Work
  <2>2. FullOK(g)'
    BY <2>1 DEF FullOK
  <2> QED
    BY <1>3, <2>1, <2>2
<1>9. ASSUME NEW g \in Groups, Writing(g) \/ Settling(g) \/ Making(g) \/ Ending(g)
      PROVE  FullInv'
  <2>1. CASE MountForRun(g)
    BY <1>6, <2>1 DEF MountForRun, Goto
  <2>2. CASE ReuseSnapshot(g) \/ RecordSnapshot(g) \/ Changed(g) \/ Unchanged(g) \/ Fits(g)
    BY <1>6, <2>2 DEF ReuseSnapshot, RecordSnapshot, Changed, Unchanged, Fits, Goto
  <2>3. CASE SendDone(g) \/ SendFails(g) \/ CommitRun(g) \/ PruneDone(g) \/ PruneSkipped(g)
    BY <1>6, <2>3 DEF SendDone, SendFails, CommitRun, PruneDone, PruneSkipped, Goto
  <2>4. ASSUME NEW t \in {clock, clock + 1}, TakeSnapshot(g, t) \/ SnapshotFails(g, t)
        PROVE  FullInv'
    <3>1. /\ \A h \in Groups \ {g} : work'[h] = work[h]
          /\ work'[g].type = work[g].type /\ work'[g].base = work[g].base
      BY <1>1, <2>4 DEF TakeSnapshot, SnapshotFails, Work
    <3>2. PICK stage : pc' = [pc EXCEPT ![g] = stage] /\ stage # "anchor"
      BY <2>4 DEF TakeSnapshot, SnapshotFails, Goto
    <3> QED
      BY <1>5, <3>1, <3>2
  <2>5. CASE DiscardFailedName(g) \/ DropSkipped(g) \/ DropFailed(g) \/ RunErrs(g)
    <3>1. work' = [work EXCEPT ![g].result = "failed"] \/ work' = [work EXCEPT ![g].result = "skipped"]
      BY <2>5 DEF DiscardFailedName, DropSkipped, DropFailed, RunErrs
    <3>2. /\ \A h \in Groups \ {g} : work'[h] = work[h]
          /\ work'[g].type = work[g].type /\ work'[g].base = work[g].base
      BY <1>1, <3>1 DEF Work
    <3>3. pc' = [pc EXCEPT ![g] = "unmount"]
      BY <2>5 DEF DiscardFailedName, DropSkipped, DropFailed, RunErrs, Goto
    <3> QED
      BY <1>5, <3>2, <3>3
  <2>6. CASE NeedsSpace(g)
    <3>1. PICK stage : /\ stage # "anchor" /\ pc' = [pc EXCEPT ![g] = stage]
                       /\ work' = work \/ work' = [work EXCEPT ![g] = NoWork]
      <4>1. CASE work[g].retry = "no"
        BY <2>6, <4>1 DEF NeedsSpace, Goto
      <4>2. CASE work[g].retry = "advanced"
        BY <2>6, <4>2 DEF NeedsSpace, Count, Goto
      <4>3. CASE work[g].retry = "recycled"
        BY <2>6, <4>3 DEF NeedsSpace, Block, Goto
      <4> QED
        BY <1>1, <4>1, <4>2, <4>3 DEF Work
    <3> QED
      BY <1>4, <1>6, <3>1
  <2>7. CASE PruneList(g) \/ RecordManifest(g) \/ ManifestFails(g)
    <3>1. /\ \A h \in Groups \ {g} : work'[h] = work[h]
          /\ work'[g].type = work[g].type /\ work'[g].base = work[g].base
      BY <1>1, <2>7 DEF PruneList, RecordManifest, ManifestFails, Work
    <3>2. PICK stage : pc' = [pc EXCEPT ![g] = stage] /\ stage # "anchor"
      BY <2>7 DEF PruneList, RecordManifest, ManifestFails, Goto
    <3> QED
      BY <1>5, <3>1, <3>2
  <2>8. ASSUME NEW t \in work[g].doomed, PruneOne(g, t)
        PROVE  FullInv'
    <3>1. /\ \A h \in Groups \ {g} : work'[h] = work[h]
          /\ work'[g].type = work[g].type /\ work'[g].base = work[g].base /\ pc' = pc
      BY <1>1, <2>8 DEF PruneOne, Work
    <3> QED
      BY <1>3, <3>1 DEF FullInv, FullOK
  <2>9. CASE Unmount(g)
    BY <1>4, <2>9 DEF Unmount, Count, Goto
  <2>10. CASE PutAwayFull(g) \/ NoRoomInSet(g) \/ Wipe(g) \/ RecycleFails(g)
    BY <1>6, <2>10 DEF PutAwayFull, NoRoomInSet, Wipe, RecycleFails, Block, Goto
  <2>11. ASSUME (\E k \in Disks : AdvanceTo(g, k)) \/ Reformatted(g)
         PROVE  FullInv'
    <3>1. /\ \A h \in Groups \ {g} : work'[h] = work[h]
          /\ work'[g].type = work[g].type /\ work'[g].base = work[g].base
          /\ pc' = [pc EXCEPT ![g] = "mount"]
      BY <1>1, <2>11 DEF AdvanceTo, Reformatted, Work, Goto
    <3> QED
      BY <1>5, <3>1
  <2>12. CASE Rotate(g)
    BY <1>6, <2>12 DEF Rotate, Goto
  <2>13. CASE CaptureConfig(g)
    BY <2>13 DEF CaptureConfig, FullInv, FullOK
  <2>14. CASE Finish(g)
    BY <1>4, <2>14 DEF Finish, Goto
  <2> QED
    BY <1>8, <1>8a, <1>9, <2>1, <2>2, <2>3, <2>4, <2>5, <2>6, <2>7, <2>8, <2>9, <2>10, <2>11, <2>12, <2>13,
       <2>14 DEF Writing, Settling, Making, Ending
<1>10. ASSUME NEW g \in Groups, WorkerDies(g)
       PROVE  FullInv'
  BY <1>4, <1>10 DEF WorkerDies, Goto
<1>11. ASSUME NEW g \in Groups, NEW trigger \in Triggers, Start(g, trigger)
       PROVE  FullInv'
  BY <1>6, <1>11 DEF Start, Goto
<1>12. CASE Crash
  BY <1>2, <1>12 DEF Crash, FullInv, FullOK
<1>13. ASSUME Recovery \/ (\E k \in Disks : OperatorUnmounts(k)) \/ UNCHANGED vars
       PROVE  FullInv'
  BY <1>13 DEF Recovery, RecoverRun, Restart, OperatorUnmounts, vars, FullInv, FullOK
<1> QED
  BY <1>7, <1>9, <1>10, <1>11, <1>12, <1>13 DEF Next, Worker

LEMMA ChainStep ==
  ASSUME Recycling = {}, TypeInv, OutcomeInv, RunInv, SnapInv, FileInv, ReplayInv, FullInv,
         [Next]_vars
  PROVE  [Chains!Next]_(Chains!vars)
<1>1. ASSUME RowsSame, snaps' = snaps
      PROVE  [Chains!Next]_(Chains!vars)
  BY <1>1, PoolStepChains DEF PoolStep
<1>2. ASSUME runs' = runs
      PROVE  RowsSame
  BY <1>2 DEF RowsSame, IsSuccess
<1>3. ASSUME NEW g \in Groups, Worker(g)
      PROVE  [Chains!Next]_(Chains!vars)
  <2>1. Chaining(g)
    BY <1>3, WritingChains, OutsideChains DEF Worker
  <2> QED
    BY <2>1, PoolStepChains DEF Chaining
<1>4. ASSUME NEW g \in Groups, WorkerDies(g) \/ \E trigger \in Triggers : Start(g, trigger)
      PROVE  [Chains!Next]_(Chains!vars)
  BY <1>1, <1>2, <1>4 DEF WorkerDies, Start
<1>5. ASSUME Crash \/ (\E k \in Disks : OperatorUnmounts(k)) \/ UNCHANGED vars
      PROVE  [Chains!Next]_(Chains!vars)
  BY <1>1, <1>2, <1>5 DEF Crash, OperatorUnmounts, vars
<1>6. ASSUME NEW i \in DOMAIN runs, RecoverRun(i)
      PROVE  [Chains!Next]_(Chains!vars)
  <2>1. PICK d, t : d = runs[i].ds /\ t = runs[i].snap
    OBVIOUS
  <2>2. /\ d \in Datasets /\ snaps \in [Datasets -> SUBSET Seconds]
    <3>1. runs[i] \in BackupRun
      BY DEF TypeInv, TypeOK, RowsOK
    <3>2. snaps \in [Datasets -> SUBSET Seconds]
      BY DEF TypeInv, TypeOK, StoreOK
    <3> QED
      BY <2>1, <3>1, <3>2 DEF BackupRun
  <2>3. /\ t \in snaps[d] /\ snaps' = [snaps EXCEPT ![d] = @ \ {t}] /\ runs' = runs
        /\ runs[i].status = "running"
    BY <1>6, <2>1 DEF RecoverRun, OrphanRun
  <2>4. t \notin Referenced(d)
    BY <2>1, <2>3 DEF SnapInv, Leftover
  <2>5. t \in Seconds
    BY <2>2, <2>3
  <2>6. PoolStep
    BY <2>2, <2>3, <2>4, <2>5 DEF PoolStep
  <2> QED
    BY <1>2, <2>3, <2>6, PoolStepChains
<1>7. CASE Restart
  <2>1. runs \in Seq(BackupRun)
    BY DEF TypeInv, TypeOK, RowsOK
  <2>2. /\ DOMAIN runs' = DOMAIN runs /\ snaps' = snaps
        /\ \A i \in DOMAIN runs :
             runs'[i] = runs[i] \/ (runs[i].status # "success" /\ runs'[i].status # "success")
    BY <1>7, <2>1 DEF Restart, OrphanRun, BackupRun
  <2>3. RowsSame
    BY <2>2 DEF RowsSame, IsSuccess
  <2> QED
    BY <1>1, <2>2, <2>3
<1> QED
  BY <1>3, <1>4, <1>5, <1>6, <1>7 DEF Next, Recovery

LEMMA ChainInit == Init => Chains!Init
<1> SUFFICES ASSUME Init PROVE Chains!Init
  OBVIOUS
<1>1. \A s, d : Streams(s, d) = [i \in {} |-> None]
  BY DEF Init, Streams, SuccessIn
<1> QED
  BY <1>1 DEF Init, Chains!Init

\* Where no group recycles and no dataset is in two groups, sessions implement what
\* SetChain says of sets: only what builds on the newest stream is added, only the
\* newest is taken back, and no snapshot is destroyed that a stream is vouched for
\* with, in every interleaving of sessions, errors, crashes and recoveries.
THEOREM SetsKeepChainsCorrect ==
  ASSUME Exclusive, Recycling = {}
  PROVE  Spec => SetsKeepChains
<1>1. Init => SnapInv /\ FileInv /\ ReplayInv /\ FullInv
  BY DEF Init, SnapInv, SnapOK, FileInv, FileOK, ReplayInv, FollowOK, CoverOK, FullInv, FullOK, NoWork,
     RunStages, DiskStages, SetStages
<1>2. /\ TypeInv /\ TypeInv' /\ OutcomeInv /\ OutcomeInv' /\ RunInv /\ RunInv'
      /\ SnapInv /\ FileInv /\ ReplayInv /\ FullInv /\ [Next]_vars
      => SnapInv' /\ FileInv' /\ ReplayInv' /\ FullInv'
  BY SnapInvStep, FileInvStep, ReplayInvStep, FullStep
<1>3. /\ TypeInv /\ OutcomeInv /\ RunInv /\ SnapInv /\ FileInv /\ ReplayInv /\ FullInv /\ [Next]_vars
      => [Chains!Next]_(Chains!vars)
  BY ChainStep
<1> QED
  BY <1>1, <1>2, <1>3, ChainInit, RunInvariant, PTL DEF Spec, SetsKeepChains, Chains!Spec

-----------------------------------------------------------------------------
(* What pruning leaves *)

\* The snapshot of a run is the newest of its dataset.  The one that pruning spares
\* although nothing names it is another, and there is one at most: of the newest two,
\* the snapshot of the run is named by its row.
LeftOK(g) ==
  LET d == CurDataset(g)
  IN pc[g] \in RunStages =>
       /\ work[g].snap # None => \A t \in snaps[d] : t <= work[g].snap
       /\ pc[g] \in Named \cup {"list"} => work[g].snap # None
       /\ pc[g] = "list" => IsSuccess(work[g].run) /\ Row(g).snap = work[g].snap
       /\ pc[g] = "prune" =>
            \A t, u \in snaps[d] \ (Referenced(d) \cup work[g].doomed) : t = u

\* No snapshot is named after a second to come.
ClockOK == \A d \in Datasets : \A t \in snaps[d] : t <= clock

LeftInv == ClockOK /\ \A g \in Groups : LeftOK(g)

\* A step that makes no snapshot.
Shrinks == clock <= clock' /\ \A d \in Datasets : snaps'[d] \subseteq snaps[d]

LEMMA ShrinksClock ==
  ASSUME TypeInv, TypeInv', ClockOK, Shrinks
  PROVE  ClockOK'
<1>1. /\ clock \in Nat /\ clock' \in Nat /\ clock <= clock'
      /\ \A d \in Datasets : snaps[d] \subseteq Nat
  BY DEF TypeInv, TypeOK, StoreOK, Seconds, Shrinks
<1> QED
  BY <1>1 DEF ClockOK, Shrinks

LEMMA SameShrinks ==
  ASSUME TypeInv, snaps' = snaps, clock' \in {clock, clock + 1}
  PROVE  Shrinks
<1>1. clock \in Nat
  BY DEF TypeInv, TypeOK, StoreOK
<1> QED
  BY <1>1 DEF Shrinks

LEMMA DestroyShrinks ==
  ASSUME TypeInv, clock' = clock, NEW d \in Datasets, NEW T, Destroy(d, T)
  PROVE  Shrinks
<1>1. clock \in Nat /\ snaps \in [Datasets -> SUBSET Seconds]
  BY DEF TypeInv, TypeOK, StoreOK
<1> QED
  BY <1>1 DEF Shrinks, Destroy

\* Steps of a run that do not end in pruning, and that leave it.
LEMMA LeftStill ==
  ASSUME TypeInv, LeftInv, NEW g \in Groups, Shrinks,
         pc[g] \in RunStages, pc'[g] \notin {"list", "prune"},
         pc'[g] \in Named => pc[g] \in Named,
         work'[g].snap = work[g].snap, job'[g].item = job[g].item
  PROVE  LeftOK(g)'
<1>1. CurDataset(g)' = CurDataset(g) /\ CurDataset(g) \in Datasets
  BY CurTypes DEF CurDataset
<1> QED
  BY <1>1 DEF LeftInv, LeftOK, Shrinks

LEMMA LeftOut ==
  ASSUME NEW g \in Groups, pc'[g] \notin RunStages
  PROVE  LeftOK(g)'
BY DEF LeftOK

\* Of two snapshots that are older than a third one is not among the newest two.
LEMMA NewestTwoOfThree ==
  ASSUME TypeInv, ClockOK, NEW d \in Datasets,
         NEW t \in snaps[d], NEW u \in snaps[d], NEW w \in snaps[d], t < u, u < w
  PROVE  t \notin NewestTwo(d)
<1> DEFINE U == { x \in snaps[d] : x > t }
<1>1. clock \in Nat /\ snaps[d] \subseteq Nat
  BY DEF TypeInv, TypeOK, StoreOK, Seconds
<1>2. U \in SUBSET (0..clock)
  BY <1>1 DEF ClockOK
<1>3. IsFiniteSet(U)
  <2>1. IsFiniteSet(0..clock)
    BY <1>1, FS_Interval
  <2> HIDE DEF U
  <2> QED
    BY <1>2, <2>1, FS_Subset
<1>4. u \in U /\ w \in U /\ u # w
  BY <1>1
<1>5. {u} \in SUBSET U /\ {u} # U
  BY <1>4
<1>6. Cardinality({u}) = 1
  BY FS_Singleton
<1>7. Cardinality({u}) <= Cardinality(U) /\ Cardinality({u}) # Cardinality(U)
  BY <1>3, <1>5, FS_Subset
<1>8. Cardinality(U) \in Nat
  BY <1>3, FS_CardinalityType
<1>9. ~(Cardinality(U) < 2)
  BY <1>6, <1>7, <1>8
<1> QED
  BY <1>9 DEF NewestTwo

LEMMA WritingLeaves ==
  ASSUME TypeInv, RunInv, FileInv, LeftInv, NEW g \in Groups, Writing(g)
  PROVE  LeftOK(g)' /\ (Shrinks \/ ClockOK')
<1>1. /\ pc \in [Groups -> Stages] /\ work \in [Groups -> Work] /\ job \in [Groups -> Job]
      /\ work[g] \in Work /\ job[g] \in Job /\ clock \in Nat /\ snaps \in [Datasets -> SUBSET Nat]
  BY DEF TypeInv, TypeOK, WorkerOK, StoreOK, Seconds
<1>2. pc[g] \in RunStages =>
        CurDataset(g) \in Datasets /\ work[g].run \in DOMAIN runs /\ Row(g) \in BackupRun
  BY CurTypes
<1>3. CASE MountForRun(g) \/ ResolveAnchor(g) \/ AnchorUnlisted(g) \/ Changed(g) \/ Unchanged(g)
           \/ Fits(g) \/ RecordSnapshot(g) \/ SendFails(g)
  <2>1. /\ pc[g] \in RunStages /\ pc'[g] \notin {"list", "prune"}
        /\ pc'[g] \in Named => pc[g] \in Named
    BY <1>1, <1>3 DEF MountForRun, ResolveAnchor, AnchorUnlisted, Changed, Unchanged, Fits, RecordSnapshot,
       SendFails, Goto, Named, Stages, SetStages, DiskStages, RunStages
  <2>2. work'[g].snap = work[g].snap /\ job'[g].item = job[g].item
    BY <1>1, <1>3 DEF MountForRun, ResolveAnchor, AnchorUnlisted, Changed, Unchanged, Fits, RecordSnapshot,
       SendFails, Work
  <2>3. Shrinks
    BY <1>3, SameShrinks DEF MountForRun, ResolveAnchor, AnchorUnlisted, Changed, Unchanged, Fits,
       RecordSnapshot, SendFails, disks
  <2> QED
    BY <2>1, <2>2, <2>3, LeftStill
<1>4. CASE ReuseSnapshot(g)
  <2>1. Shrinks
    BY <1>4, SameShrinks DEF ReuseSnapshot, disks
  <2>2. /\ pc[g] \in RunStages /\ pc'[g] = "record" /\ work' = work /\ snaps' = snaps
        /\ CurDataset(g)' = CurDataset(g) /\ work[g].snap # None
    BY <1>1, <1>4 DEF ReuseSnapshot, Goto, CurDataset, Stages, SetStages, DiskStages, RunStages
  <2>3. LeftOK(g)'
    BY <2>2 DEF LeftInv, LeftOK
  <2> QED
    BY <2>1, <2>3
<1>5. ASSUME NEW t \in {clock, clock + 1}, TakeSnapshot(g, t)
      PROVE  LeftOK(g)' /\ ClockOK'
  <2>1. PICK d \in Datasets : d = CurDataset(g)
    BY <1>2, <1>5 DEF TakeSnapshot, Stages, SetStages, DiskStages, RunStages
  <2>2. /\ pc'[g] = "record" /\ clock' = t /\ CurDataset(g)' = d /\ work'[g].snap = t
        /\ snaps' = [snaps EXCEPT ![d] = @ \cup {t}]
    BY <1>1, <1>5, <2>1 DEF TakeSnapshot, Goto, CurDataset, Work
  <2>3. ClockOK'
    BY <1>1, <2>2 DEF LeftInv, ClockOK
  <2>4. t # None
    BY <1>1, BoundAssumption
  <2>5. LeftOK(g)'
    BY <2>1, <2>2, <2>3, <2>4 DEF LeftOK, ClockOK
  <2> QED
    BY <2>3, <2>5
<1>6. ASSUME NEW t \in {clock, clock + 1}, SnapshotFails(g, t)
      PROVE  LeftOK(g)' /\ Shrinks
  <2>1. Shrinks
    BY <1>6, SameShrinks DEF SnapshotFails, disks
  <2>2. CASE work[g].snap = None
    <3>1. PICK d \in Datasets : d = CurDataset(g)
      BY <1>2, <1>6 DEF SnapshotFails, Stages, SetStages, DiskStages, RunStages
    <3>2. /\ pc'[g] = "collide" /\ CurDataset(g)' = d /\ work'[g].snap = t /\ snaps' = snaps
      BY <1>1, <1>6, <2>2, <3>1 DEF SnapshotFails, Goto, CurDataset, Work, disks
    <3>3. \A x \in snaps[d] : x <= t
      BY <1>1 DEF LeftInv, ClockOK
    <3>4. LeftOK(g)'
      BY <3>2, <3>3 DEF LeftOK, Named
    <3> QED
      BY <2>1, <3>4
  <2>3. CASE work[g].snap # None
    <3>1. /\ pc[g] \in RunStages /\ pc'[g] = "unmount" /\ work'[g].snap = work[g].snap /\ job' = job
      BY <1>1, <1>6, <2>3 DEF SnapshotFails, Goto, Work, Stages, SetStages, DiskStages, RunStages
    <3> QED
      BY <2>1, <3>1, LeftStill DEF Named
  <2> QED
    BY <2>2, <2>3
<1>7. CASE DiscardFailedName(g) \/ DropSkipped(g) \/ DropFailed(g)
  <2>1. /\ pc[g] \in RunStages /\ pc'[g] = "unmount" /\ work'[g].snap = work[g].snap /\ job' = job
    BY <1>1, <1>7 DEF DiscardFailedName, DropSkipped, DropFailed, Goto, Work, Stages, SetStages,
       DiskStages, RunStages
  <2>2. Destroy(CurDataset(g), {work[g].snap}) /\ clock' = clock /\ CurDataset(g) \in Datasets
    BY <1>2, <1>7, <2>1 DEF DiscardFailedName, DropSkipped, DropFailed
  <2>3. Shrinks
    BY <2>2, DestroyShrinks
  <2> QED
    BY <2>1, <2>3, LeftStill DEF Named
<1>8. CASE NeedsSpace(g)
  <2>1. Shrinks
    BY <1>8, SameShrinks DEF NeedsSpace, disks
  <2>2. CASE work[g].retry = "no"
    <3>1. pc[g] \in RunStages /\ pc'[g] = "full" /\ work' = work /\ job' = job
      BY <1>1, <1>8, <2>2 DEF NeedsSpace, Goto, Stages, SetStages, DiskStages, RunStages
    <3> QED
      BY <2>1, <3>1, LeftStill DEF Named
  <2>3. CASE work[g].retry = "advanced"
    <3>1. pc'[g] = "dataset"
      BY <1>1, <1>8, <2>3 DEF NeedsSpace, Count, Goto
    <3> QED
      BY <2>1, <3>1, LeftOut DEF RunStages
  <2>4. CASE work[g].retry = "recycled"
    <3>1. pc'[g] = "blocked"
      BY <1>1, <1>8, <2>4 DEF NeedsSpace, Block, Goto
    <3> QED
      BY <2>1, <3>1, LeftOut DEF RunStages, DiskStages, SetStages
  <2> QED
    BY <1>1, <2>2, <2>3, <2>4 DEF Work
<1>9. CASE SendDone(g)
  <2>1. /\ pc[g] = "send" /\ pc[g] \in RunStages /\ pc'[g] = "commit" /\ work' = work /\ job' = job
        /\ snaps' = snaps /\ clock' = clock + 1
    BY <1>1, <1>9 DEF SendDone, Goto, Stages, SetStages, DiskStages, RunStages
  <2> QED
    BY <2>1, SameShrinks, LeftStill DEF Named
<1>10. CASE CommitRun(g)
  <2> DEFINE row == [Row(g) EXCEPT !.status = "success", !.base = work[g].base, !.anchor = work[g].anchor]
  <2>1. PICK d \in Datasets : d = CurDataset(g)
    BY <1>2, <1>10 DEF CommitRun, Stages, SetStages, DiskStages, RunStages
  <2>2. /\ pc[g] = "commit" /\ pc[g] \in RunStages /\ pc'[g] = "list" /\ work' = work
        /\ snaps' = snaps /\ clock' = clock /\ CurDataset(g)' = d /\ Save(g, row)
    BY <1>1, <1>10, <2>1 DEF CommitRun, Goto, CurDataset, disks, Stages, SetStages, DiskStages, RunStages
  <2>3. Row(g).status # "deleted" /\ Row(g).snap = work[g].snap
    BY <1>2, <2>2 DEF FileInv, FileOK, Recorded, Row
  <2>4. runs'[work[g].run] = row
    BY <2>2, <2>3, SavedRow
  <2>5. row.status = "success" /\ row.snap = work[g].snap
    BY <1>2, <2>2, <2>3 DEF BackupRun
  <2>6. IsSuccess(work[g].run)' /\ Row(g)'.snap = work[g].snap
    BY <2>2, <2>4, <2>5 DEF IsSuccess, Row
  <2>7. LeftOK(g)
    BY DEF LeftInv
  <2>8. LeftOK(g)'
    BY <2>1, <2>2, <2>6, <2>7 DEF LeftOK, Named
  <2>9. Shrinks
    BY <2>2, SameShrinks
  <2> QED
    BY <2>8, <2>9
<1> QED
  BY <1>3, <1>4, <1>5, <1>6, <1>7, <1>8, <1>9, <1>10 DEF Writing

LEMMA SettlingLeaves ==
  ASSUME Exclusive, "busy" \notin Faults, TypeInv, RunInv, SnapInv, LeftInv,
         NEW g \in Groups, Settling(g)
  PROVE  LeftOK(g)' /\ Shrinks
<1>1. /\ pc \in [Groups -> Stages] /\ work \in [Groups -> Work] /\ job \in [Groups -> Job]
      /\ work[g] \in Work /\ job[g] \in Job /\ clock \in Nat /\ snaps \in [Datasets -> SUBSET Nat]
  BY DEF TypeInv, TypeOK, WorkerOK, StoreOK, Seconds
<1>2. pc[g] \in RunStages =>
        CurDataset(g) \in Datasets /\ work[g].run \in DOMAIN runs /\ Row(g) \in BackupRun
  BY CurTypes
<1>3. LeftOK(g) /\ ClockOK
  BY DEF LeftInv
<1>4. CASE PruneList(g)
  <2>1. PICK d \in Datasets : d = CurDataset(g)
    BY <1>2, <1>4 DEF PruneList, Stages, SetStages, DiskStages, RunStages
  <2>2. PICK w : w = work[g].snap
    OBVIOUS
  <2>3. /\ pc[g] = "list" /\ pc[g] \in RunStages /\ pc'[g] = "prune" /\ runs' = runs
        /\ snaps' = snaps /\ clock' = clock /\ CurDataset(g)' = d /\ work'[g].snap = w
        /\ work'[g].doomed = snaps[d] \ (NewestTwo(d) \cup {w} \cup Referenced(d))
    BY <1>1, <1>4, <2>1, <2>2 DEF PruneList, Goto, CurDataset, disks, Work, Stages, SetStages,
       DiskStages, RunStages
  <2>4. /\ w # None /\ IsSuccess(work[g].run) /\ Row(g).snap = w /\ Row(g).ds = d
        /\ work[g].run \in DOMAIN runs /\ \A t \in snaps[d] : t <= w
    BY <1>2, <1>3, <2>1, <2>2, <2>3 DEF LeftOK, RunInv, RunOK
  <2>5. w \in Referenced(d)
    BY <2>4, ReferencedMember DEF Row, RefsOf
  <2>6. w \in snaps[d]
    BY <2>5, ReferencedPast DEF Past
  <2>7. ASSUME NEW t \in snaps[d] \ (Referenced(d) \cup work'[g].doomed),
               NEW u \in snaps[d] \ (Referenced(d) \cup work'[g].doomed), t < u
        PROVE  FALSE
    <3>1. t \in NewestTwo(d)
      BY <2>3, <2>5, <2>7
    <3>2. t \in Nat /\ u \in Nat /\ w \in Nat /\ u # w /\ u <= w
      BY <1>1, <2>4, <2>5, <2>6
    <3>3. u < w
      BY <3>2
    <3> QED
      BY <1>3, <2>6, <2>7, <3>1, <3>3, NewestTwoOfThree
  <2>8. \A t, u \in snaps[d] \ (Referenced(d) \cup work'[g].doomed) : t = u
    <3>1. \A t, u \in snaps[d] : t < u \/ u < t \/ t = u
      BY <1>1
    <3> QED
      BY <2>7, <3>1
  <2>9. Referenced(d)' = Referenced(d)
    BY <2>3 DEF Referenced, IsSuccess
  <2>10. LeftOK(g)'
    BY <2>3, <2>4, <2>8, <2>9 DEF LeftOK, Named
  <2> QED
    BY <2>3, <2>10, SameShrinks
<1>5. ASSUME NEW t \in work[g].doomed, PruneOne(g, t)
      PROVE  LeftOK(g)' /\ Shrinks
  <2>1. PICK d \in Datasets : d = CurDataset(g)
    BY <1>2, <1>5 DEF PruneOne, Stages, SetStages, DiskStages, RunStages
  <2>2. /\ pc[g] = "prune" /\ pc[g] \in RunStages /\ pc' = pc /\ runs' = runs
        /\ clock' = clock /\ CurDataset(g)' = d /\ work'[g].snap = work[g].snap
        /\ work'[g].doomed = work[g].doomed \ {t} /\ Destroy(d, {t})
    BY <1>1, <1>5, <2>1 DEF PruneOne, CurDataset, Work, Stages, SetStages, DiskStages, RunStages
  <2>3. Held(d) = {}
    <3>1. \A h \in Groups : ~(pc[h] = "send" /\ CurDataset(h) = d)
      <4>1. ASSUME NEW h \in Groups, pc[h] = "send", CurDataset(h) = d
            PROVE  FALSE
        <5>1. pc[h] \in RunStages
          BY <4>1 DEF Stages, SetStages, DiskStages, RunStages
        <5>2. d \in Ran(Members[h])
          BY <4>1, <5>1, OwnDataset
        <5>3. h = g
          BY <2>1, <2>2, <5>2, OwnDataset
        <5> QED
          BY <2>2, <4>1, <5>3
      <4> QED
        BY <4>1
    <3> QED
      BY <3>1 DEF Held
  <2>4. snaps' = [snaps EXCEPT ![d] = @ \ {t}]
    <3>1. {t} \ Held(d) = {t}
      BY <2>3
    <3> QED
      BY <2>2, <3>1 DEF Destroy
  <2>5. snaps'[d] = snaps[d] \ {t}
    BY <1>1, <2>4
  <2>6. Referenced(d)' = Referenced(d)
    BY <2>2 DEF Referenced, IsSuccess
  <2>7. snaps'[d] \ (Referenced(d) \cup work'[g].doomed) \subseteq snaps[d] \ (Referenced(d) \cup work[g].doomed)
    BY <2>2, <2>5
  <2>8. LeftOK(g)'
    BY <1>3, <2>1, <2>2, <2>5, <2>6, <2>7 DEF LeftOK, Named
  <2> QED
    BY <2>2, <2>8, DestroyShrinks
<1>7. CASE PruneDone(g) \/ PruneSkipped(g) \/ RecordManifest(g) \/ ManifestFails(g) \/ RunErrs(g)
  <2>1. /\ pc[g] \in RunStages /\ pc'[g] \in {"manifest", "unmount"}
        /\ work'[g].snap = work[g].snap /\ job' = job
    BY <1>1, <1>7 DEF PruneDone, PruneSkipped, RecordManifest, ManifestFails, RunErrs, Goto, Work,
       Stages, SetStages, DiskStages, RunStages
  <2>2. Shrinks
    BY <1>7, SameShrinks DEF PruneDone, PruneSkipped, RecordManifest, ManifestFails, RunErrs, disks
  <2> QED
    BY <2>1, <2>2, LeftStill DEF Named
<1>8. CASE Unmount(g)
  <2>1. pc'[g] = "dataset"
    BY <1>1, <1>8 DEF Unmount, Count, Goto
  <2> QED
    BY <1>8, <2>1, LeftOut, SameShrinks DEF Unmount, RunStages
<1> QED
  BY <1>4, <1>5, <1>7, <1>8 DEF Settling

LEMMA OutsideLeaves ==
  ASSUME TypeInv, LeftInv, NEW g \in Groups, Choosing(g) \/ Making(g) \/ Ending(g)
  PROVE  LeftOK(g)' /\ Shrinks
<1>1. /\ pc \in [Groups -> Stages] /\ work \in [Groups -> Work] /\ job \in [Groups -> Job]
      /\ work[g] \in Work /\ job[g] \in Job
  BY DEF TypeInv, TypeOK, WorkerOK
<1>2. CASE Choosing(g)
  <2>1. Shrinks
    BY <1>2, SameShrinks DEF Choosing, Resolve, ChooseDisk, NoUsableDisk, DatasetMissing, NewRun,
       SetWritten, disks
  <2>2. CASE NewRun(g)
    <3>1. pc'[g] = "mount" /\ work'[g].snap = None
      BY <1>1, <2>2 DEF NewRun, Goto, NoWork
    <3> QED
      BY <2>1, <3>1 DEF LeftOK, Named
  <2>3. CASE ~NewRun(g)
    <3>1. pc'[g] \in {"disk", "dataset", "blocked", "rotate"}
      BY <1>1, <1>2, <2>3 DEF Choosing, Resolve, ChooseDisk, NoUsableDisk, DatasetMissing, Count,
         Block, SetWritten, Goto
    <3> QED
      BY <2>1, <3>1, LeftOut DEF RunStages, DiskStages, SetStages
  <2> QED
    BY <2>2, <2>3
<1>3. CASE Making(g)
  <2>1. Shrinks
    BY <1>3, SameShrinks DEF Making, PutAwayFull, AdvanceTo, NoRoomInSet, Wipe, RecycleFails,
       Reformatted, disks
  <2>2. /\ pc[g] \in RunStages /\ pc'[g] \in {"advance", "mount", "wipe", "reformat", "blocked"}
    BY <1>1, <1>3 DEF Making, PutAwayFull, AdvanceTo, NoRoomInSet, Wipe, RecycleFails,
       Reformatted, Block, Goto, Stages, SetStages, DiskStages, RunStages
  <2>3. work'[g].snap = work[g].snap /\ job'[g].item = job[g].item
    BY <1>1, <1>3 DEF Making, PutAwayFull, AdvanceTo, NoRoomInSet, Wipe, RecycleFails,
       Reformatted, Work, Job
  <2> QED
    BY <2>1, <2>2, <2>3, LeftStill DEF Named
<1>4. CASE Ending(g)
  <2>1. Shrinks
    BY <1>4, SameShrinks DEF Ending, Rotate, CaptureConfig, Finish, disks
  <2>2. pc'[g] \in {"capture", "idle"}
    BY <1>1, <1>4 DEF Ending, Rotate, CaptureConfig, Finish, Goto
  <2> QED
    BY <2>1, <2>2, LeftOut DEF RunStages, DiskStages, SetStages
<1> QED
  BY <1>2, <1>3, <1>4

\* A step that keeps the locals of a worker, its snapshots and the successes of its dataset.
LEMMA LeftKept ==
  ASSUME TypeInv, LeftInv, NEW h \in Groups,
         pc'[h] = pc[h], job'[h] = job[h], work'[h] = work[h],
         pc[h] \in RunStages => snaps'[CurDataset(h)] \subseteq snaps[CurDataset(h)],
         pc[h] \in RunStages =>
           \A i \in DOMAIN runs : IsSuccess(i) /\ runs[i].ds = CurDataset(h) =>
             i \in DOMAIN runs' /\ runs'[i] = runs[i],
         pc[h] = "list" => Row(h).ds = CurDataset(h)
  PROVE  LeftOK(h)'
<1>1. SUFFICES ASSUME pc[h] \in RunStages
               PROVE  LeftOK(h)'
  BY DEF LeftOK
<1>2. PICK d \in Datasets : d = CurDataset(h)
  BY <1>1, CurTypes
<1>3. CurDataset(h)' = d /\ work[h].run \in DOMAIN runs
  BY <1>1, <1>2, CurTypes DEF CurDataset
<1>4. Referenced(d) \subseteq Referenced(d)'
  BY <1>1, <1>2 DEF Referenced, IsSuccess
<1>5. LeftOK(h)
  BY DEF LeftInv
<1>6. pc[h] = "list" => IsSuccess(work[h].run)' /\ Row(h)'.snap = work[h].snap
  BY <1>1, <1>2, <1>3, <1>5 DEF LeftOK, IsSuccess, Row
<1> QED
  BY <1>1, <1>2, <1>3, <1>4, <1>5, <1>6 DEF LeftOK

\* Under Exclusive another worker neither takes nor makes a snapshot of the dataset,
\* and where nothing is recycled it leaves the successes of the dataset alone.
LEMMA WorkerLeaves ==
  ASSUME Exclusive, TypeInv, TypeInv', RunInv, FileInv', LeftInv, NEW g \in Groups,
         MovesOn(g), SnapStep(g), LeftOK(g)', Shrinks \/ ClockOK'
  PROVE  LeftInv'
<1>1. ASSUME NEW h \in Groups, h # g
      PROVE  LeftOK(h)'
  <2>1. pc'[h] = pc[h] /\ job'[h] = job[h] /\ work'[h] = work[h]
    BY <1>1 DEF MovesOn, OthersKept
  <2>2. SUFFICES ASSUME pc[h] \in RunStages
                 PROVE  LeftOK(h)'
    BY <2>1 DEF LeftOK
  <2>3. PICK d \in Datasets : d = CurDataset(h)
    BY <2>2, CurTypes
  <2>4. ~(pc[g] \in RunStages /\ CurDataset(g) = d)
    BY <1>1, <2>2, <2>3, OwnDataset
  <2>5. snaps'[d] = snaps[d]
    BY <2>4 DEF SnapStep, SnapsMoved
  <2>6. ASSUME NEW i \in DOMAIN runs, IsSuccess(i), runs[i].ds = d
        PROVE  i \in DOMAIN runs' /\ runs'[i] = runs[i]
    <3>1. i \in DOMAIN runs'
      BY DEF MovesOn, RowsMoved
    <3>2. ~(pc[g] \in RunStages /\ i = work[g].run)
      BY <2>4, <2>6 DEF RunInv, RunOK, Row
    <3>3. runs'[i] = runs[i] \/ runs'[i] = [runs[i] EXCEPT !.status = "deleted"]
      BY <3>2 DEF MovesOn, RowsMoved
    <3>4. runs[i] \in BackupRun
      BY DEF TypeInv, TypeOK, RowsOK
    <3>5. runs'[i].status # "deleted"
      BY <3>1 DEF FileInv
    <3> QED
      BY <3>1, <3>3, <3>4, <3>5 DEF BackupRun
  <2>7. Row(h).ds = CurDataset(h)
    BY <2>2 DEF RunInv, RunOK
  <2> QED
    BY <2>1, <2>3, <2>5, <2>6, <2>7, LeftKept
<1>2. ClockOK'
  BY ShrinksClock DEF LeftInv
<1> QED
  BY <1>1, <1>2 DEF LeftInv

LEMMA LeftStep ==
  ASSUME Exclusive, Recycling = {}, "busy" \notin Faults, TypeInv, TypeInv', OutcomeInv, RunInv,
         SnapInv, FileInv, FileInv', LeftInv, [Next]_vars
  PROVE  LeftInv'
<1>1. /\ pc \in [Groups -> Stages] /\ work \in [Groups -> Work] /\ job \in [Groups -> Job]
      /\ runs \in Seq(BackupRun) /\ snaps \in [Datasets -> SUBSET Nat] /\ clock \in Nat
  BY DEF TypeInv, TypeOK, WorkerOK, RowsOK, StoreOK, Seconds
<1>2. ASSUME NEW g \in Groups, Worker(g)
      PROVE  LeftInv'
  <2>1. MovesOn(g)
    BY <1>2, WorkerMoves
  <2>2. SnapStep(g)
    BY <1>2, WritingSnaps, SettlingSnaps, MakingSnaps, ChoosingSnaps, EndingSnaps DEF Worker
  <2>3. LeftOK(g)' /\ (Shrinks \/ ClockOK')
    BY <1>2, WritingLeaves, SettlingLeaves, OutsideLeaves DEF Worker
  <2> QED
    BY <2>1, <2>2, <2>3, WorkerLeaves
\* No other step writes a success, makes a snapshot or moves a worker within a run.
<1>3. ASSUME snaps' = snaps, runs' = runs, clock' = clock,
             \A h \in Groups : \/ pc'[h] = pc[h] /\ job'[h] = job[h] /\ work'[h] = work[h]
                               \/ pc'[h] \notin RunStages
      PROVE  LeftInv'
  <2>1. ClockOK'
    BY <1>3 DEF LeftInv, ClockOK
  <2>2. ASSUME NEW h \in Groups
        PROVE  LeftOK(h)'
    <3>1. CurDataset(h)' = Members[h][job'[h].item]
      BY DEF CurDataset
    <3>2. \A d : Referenced(d)' = Referenced(d)
      BY <1>3 DEF Referenced, IsSuccess
    <3> QED
      BY <1>3, <2>2, <3>1, <3>2 DEF LeftInv, LeftOK, CurDataset, IsSuccess, Row
  <2> QED
    BY <2>1, <2>2 DEF LeftInv
<1>4. ASSUME NEW g \in Groups, WorkerDies(g) \/ \E trigger \in Triggers : Start(g, trigger)
      PROVE  LeftInv'
  <2>1. PICK stage : stage \in {"idle", "resolve"} /\ pc' = [pc EXCEPT ![g] = stage]
    BY <1>4 DEF WorkerDies, Start, Goto
  <2>2. /\ snaps' = snaps /\ runs' = runs /\ clock' = clock
        /\ \A h \in Groups \ {g} : job'[h] = job[h] /\ work'[h] = work[h]
    BY <1>1, <1>4 DEF WorkerDies, Start
  <2>3. pc'[g] \notin RunStages /\ \A h \in Groups \ {g} : pc'[h] = pc[h]
    BY <1>1, <2>1 DEF RunStages, DiskStages, SetStages
  <2> QED
    BY <1>3, <2>2, <2>3
<1>5. CASE Crash
  <2>1. \A h \in Groups : pc'[h] \notin RunStages
    BY <1>5 DEF Crash, RunStages, DiskStages, SetStages
  <2> QED
    BY <1>3, <1>5, <2>1 DEF Crash
<1>6. ASSUME (\E k \in Disks : OperatorUnmounts(k)) \/ UNCHANGED vars
      PROVE  LeftInv'
  BY <1>3, <1>6 DEF OperatorUnmounts, vars
<1>7. CASE Recovery
  <2>1. \A h \in Groups : pc'[h] = "idle"
    BY <1>7 DEF Recovery, RecoverRun, Restart, OutcomeInv, OutcomeOK
  <2>2. \A h \in Groups : LeftOK(h)'
    BY <2>1, LeftOut DEF RunStages, DiskStages, SetStages
  <2>3. Shrinks
    <3>1. clock' = clock /\ \A d \in Datasets : snaps'[d] \subseteq snaps[d]
      BY <1>1, <1>7 DEF Recovery, RecoverRun, Restart, disks
    <3> QED
      BY <1>1, <3>1 DEF Shrinks
  <2>4. ClockOK'
    BY <2>3, ShrinksClock DEF LeftInv
  <2> QED
    BY <2>2, <2>4 DEF LeftInv
<1> QED
  BY <1>2, <1>4, <1>5, <1>6, <1>7 DEF Next

\* A pruning that could list the pool leaves at most one snapshot of its dataset that no
\* successful run names, whatever failures, crashes, ended workers and prunings that could
\* not list it left behind before: where nothing is recycled, no dataset is in two groups
\* and zfs destroy works.
THEOREM LeftoversPrunedCorrect ==
  ASSUME Exclusive, Recycling = {}, "busy" \notin Faults
  PROVE  Spec => []LeftoversPruned
<1>1. Init => SnapInv /\ FileInv /\ LeftInv
  BY DEF Init, SnapInv, SnapOK, FileInv, FileOK, LeftInv, LeftOK, ClockOK, RunStages, DiskStages,
     SetStages
<1>2. /\ TypeInv /\ TypeInv' /\ OutcomeInv /\ OutcomeInv' /\ RunInv /\ RunInv'
      /\ SnapInv /\ FileInv /\ LeftInv /\ [Next]_vars
      => SnapInv' /\ FileInv' /\ LeftInv'
  BY SnapInvStep, FileInvStep, LeftStep
<1>3. TypeInv /\ LeftInv => LeftoversPruned
  <2> SUFFICES ASSUME TypeInv, LeftInv, NEW g \in Groups, pc[g] = "prune", work[g].doomed = {}
               PROVE  Cardinality(snaps[CurDataset(g)] \ Referenced(CurDataset(g))) <= 1
    BY DEF LeftoversPruned
  <2> DEFINE L == snaps[CurDataset(g)] \ Referenced(CurDataset(g))
  <2>1. \A t, u \in L : t = u
    BY DEF LeftInv, LeftOK, Stages, SetStages, DiskStages, RunStages
  <2>2. CASE L = {}
    BY <2>2, FS_EmptySet
  <2>3. CASE L # {}
    <3>1. PICK t \in L : TRUE
      BY <2>3
    <3>2. L = {t}
      BY <2>1, <3>1
    <3> HIDE DEF L
    <3>3. Cardinality(L) = 1
      BY <3>2, FS_Singleton
    <3> QED
      BY <3>3 DEF L
  <2> QED
    BY <2>2, <2>3
<1> QED
  BY <1>1, <1>2, <1>3, RunInvariant, PTL DEF Spec

=============================================================================
