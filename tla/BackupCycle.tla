---------------------------- MODULE BackupCycle ----------------------------
(***************************************************************************)
(* The backup cycle of NAZMan: a session of a backup group writes every    *)
(* dataset of the group to the disks of its active set, one ZFS stream     *)
(* each, and then moves the group to the next set.                         *)
(*   services/backup_group_service.py  start_session .. _finish, recovery  *)
(*   managers/zfs_backup_manager.py    backup_dataset, recycle_disk, ...   *)
(*                                                                         *)
(* Every session is a coroutine on one event loop, so what happens between *)
(* two awaits that suspend (a zfs, mount or mkfs command) is one step, and *)
(* pc[g] names the await the session of group g is suspended in.  The      *)
(* groups, sets and disks are constants here.  Space, the outcome of every *)
(* command and the moment of a crash are left to chance; sizes, paths,     *)
(* labels, notes and alerts are left out.                                  *)
(***************************************************************************)
EXTENDS Naturals, Sequences, FiniteSets

CONSTANTS
  Groups, Sets, Disks, Datasets,
  Cycle,         \* Cycle[g]: the sets of g in position order
  Members,       \* Members[g]: the datasets of g in declaration order
  DisksOf,       \* DisksOf[s]: the disks filed in s
  Copies,        \* Copies[g]: BackupGroup.copies
  Recycling,     \* groups with recycle_full_disks
  StaysMounted,  \* disks with unmount_after_backup cleared
  Faults,        \* the faults of the environment a behaviour may contain
  MaxSessions,   \* bound: sessions started
  MaxCrashes,    \* bound: crashes
  None

Ran(q) == { q[i] : i \in DOMAIN q }

ASSUME TopologyAssumption ==
  /\ Cycle \in [Groups -> Seq(Sets)]
  /\ Members \in [Groups -> Seq(Datasets)]
  /\ DisksOf \in [Sets -> SUBSET Disks]
  /\ Copies \in [Groups -> Nat \ {0}]
  /\ \A g \in Groups : Cycle[g] # << >> /\ Members[g] # << >>
  /\ \A g \in Groups : \A i, j \in DOMAIN Cycle[g] : Cycle[g][i] = Cycle[g][j] => i = j
  /\ \A g, h \in Groups : g # h => Ran(Cycle[g]) \cap Ran(Cycle[h]) = {}
  /\ \A s, t \in Sets : s # t => DisksOf[s] \cap DisksOf[t] = {}

ASSUME BoundAssumption ==
  /\ Recycling \subseteq Groups
  /\ StaysMounted \subseteq Disks
  /\ Faults \subseteq {"crash", "death", "unmount", "busy", "list"}
  /\ MaxSessions \in Nat /\ MaxCrashes \in Nat
  /\ None \notin Nat /\ None \notin Disks

VARIABLES
  activeSet,   \* BackupGroup.active_set_id
  needsDisk,   \* BackupGroup.needs_disk
  lastUsed,    \* BackupSet.last_used_at: the session that last completed on it, 0 if none
  activeDisk,  \* BackupSet.active_disk_id
  session,     \* the newest BackupSession row of each group
  sessions,    \* number of BackupSession rows inserted
  runs,        \* BackupRun rows by id; a row that was deleted stays as "deleted"
  snaps,       \* snaps[d]: the backup-<second> snapshots of d in the pool
  media,       \* media[k]: the complete streams on the filesystem of k
  mounted,     \* disks whose mount point is a mount
  stray,       \* disks under whose mount point a file was put while unmounted
  clock,       \* the second the next snapshot may be named after
  pc,          \* the await a group's session is suspended in
  job,         \* locals of _execute_session and _write_one_set
  work,        \* locals of backup_dataset, and the in-memory BackupRun
  up,          \* the process serves
  crashes

rows == <<activeSet, needsDisk, lastUsed, activeDisk>>
disks == <<media, mounted, stray>>
proc == <<up, crashes>>
vars == <<rows, session, sessions, runs, snaps, disks, clock, pc, job, work, proc>>

-----------------------------------------------------------------------------
(* Records *)

Triggers == {"full", "incremental"}
Seconds == Nat
Second == Nat \cup {None}

SessionRow ==
  [id : Nat, status : {"none", "running", "success", "partial", "failed", "needs_disk"}]

BackupRun ==
  [session : Nat, set : Sets, disk : Disks, ds : Datasets, type : Triggers,
   snap : Second, base : Second, anchor : Second,
   status : {"running", "success", "failed", "skipped", "deleted"}]

Stream ==
  [ds : Datasets, type : Triggers, snap : Second, base : Second, by : Nat, listed : BOOLEAN]

Stages ==
  {"idle", "resolve", "disk", "dataset", "mount", "anchor", "snapshot", "record",
   "collide", "diff", "dropskipped", "capacity", "send", "dropfailed", "commit",
   "list", "prune", "manifest", "unmount", "full", "advance", "wipe", "reformat",
   "rotate", "capture", "blocked"}

Job ==
  [trigger : Triggers, targets : Seq(Sets), at : Nat, item : Nat,
   disk : Disks \cup {None}, written : Seq(Disks), ok : BOOLEAN, bad : BOOLEAN]

Work ==
  [run : Nat, type : Triggers, snap : Second, base : Second, anchor : Second,
   retry : {"no", "advanced", "recycled"}, doomed : SUBSET Seconds,
   result : {"none", "success", "skipped", "failed"}]

NoJob ==
  [trigger |-> "full", targets |-> << >>, at |-> 0, item |-> 0, disk |-> None,
   written |-> << >>, ok |-> FALSE, bad |-> FALSE]

NoWork ==
  [run |-> 0, type |-> "full", snap |-> None, base |-> None, anchor |-> None,
   retry |-> "no", doomed |-> {}, result |-> "none"]

-----------------------------------------------------------------------------
(* What the code reads *)

\* The set a session is writing, the dataset it is at, and the row of its run.
CurSet(g) == job[g].targets[job[g].at]
CurDataset(g) == Members[g][job[g].item]
Row(g) == runs[work[g].run]

IsSuccess(i) == runs[i].status = "success"

\* The rows of the successful runs of dataset d in set s.
SuccessIn(s, d) == { i \in DOMAIN runs : runs[i].set = s /\ runs[i].ds = d /\ IsSuccess(i) }

\* _target_sets: the `copies` consecutive sets from the active one.
PositionOf(g, s) == CHOOSE i \in DOMAIN Cycle[g] : Cycle[g][i] = s
After(g, s, n) == Cycle[g][((PositionOf(g, s) + n - 1) % Len(Cycle[g])) + 1]
CopyCount(g) == IF Copies[g] < Len(Cycle[g]) THEN Copies[g] ELSE Len(Cycle[g])
TargetSets(g) == [i \in 1..CopyCount(g) |-> After(g, activeSet[g], i - 1)]

Newest(I) == CHOOSE i \in I : \A j \in I : j <= i
Oldest(I) == CHOOSE i \in I : \A j \in I : i <= j

\* Mutant of AnchorRun: the rows are sorted the other way round.
AnchorRunOldest(s, d) == Oldest({ i \in SuccessIn(s, d) : runs[i].snap # None })

\* set_anchor: the snapshot of the newest successful run of the set, if the
\* pool still has it.
AnchorRun(s, d) == Newest({ i \in SuccessIn(s, d) : runs[i].snap # None })
SetAnchor(s, d) ==
  IF /\ \E i \in SuccessIn(s, d) : runs[i].snap # None
     /\ runs[AnchorRun(s, d)].snap \in snaps[d]
  THEN runs[AnchorRun(s, d)].snap
  ELSE None

\* chain_full_anchor: the snapshot of the oldest successful full of the set.
FullAnchor(s, d) ==
  LET fulls == { i \in SuccessIn(s, d) : runs[i].type = "full" }
  IN IF fulls = {} THEN None ELSE runs[Oldest(fulls)].snap

\* Mutant of Referenced: only what the newest run of the dataset needs.
ReferencedByLatest(d) ==
  UNION { {runs[i].snap, runs[i].base} :
            i \in { j \in DOMAIN runs : /\ runs[j].ds = d /\ IsSuccess(j)
                                        /\ \A k \in DOMAIN runs :
                                             runs[k].ds = d /\ IsSuccess(k) => k <= j } }

\* Snapshots a successful run names: what _prune_old_anchors calls referenced.
RefsOf(r) == {r.snap, r.base, r.anchor} \ {None}
Referenced(d) == UNION { RefsOf(runs[i]) : i \in { j \in DOMAIN runs : runs[j].ds = d /\ IsSuccess(j) } }

\* Mutant of NewestTwo: one more is spared.
NewestThree(d) == { t \in snaps[d] : Cardinality({ u \in snaps[d] : u > t }) < 3 }

\* snaps[-2:], the newest two backup snapshots of the dataset.
NewestTwo(d) == { t \in snaps[d] : Cardinality({ u \in snaps[d] : u > t }) < 2 }

\* A send holds its snapshot and its base: destroying them fails with EBUSY.
Held(d) ==
  UNION { {work[g].snap, work[g].base} :
            g \in { h \in Groups : pc[h] = "send" /\ CurDataset(h) = d } }

\* _disk_written_this_session
WrittenThisSession(g) ==
  \E i \in DOMAIN runs : /\ runs[i].session = session[g].id
                         /\ runs[i].disk = job[g].disk
                         /\ IsSuccess(i)

-----------------------------------------------------------------------------
(* What the steps are made of *)

Goto(g, stage) == pc' = [pc EXCEPT ![g] = stage]

\* A commit of the in-memory run.  recycle_disk deletes the row of the run
\* that is being retried and the ORM detaches the object, so from then on a
\* commit writes nothing.
Save(g, row) ==
  runs' = IF Row(g).status = "deleted" THEN runs ELSE [runs EXCEPT ![work[g].run] = row]

\* zfs destroy: its exit status is ignored, so a busy one changes nothing.
Destroy(d, T) ==
  \/ snaps' = [snaps EXCEPT ![d] = @ \ (T \ Held(d))]
  \/ "busy" \in Faults /\ UNCHANGED snaps

\* Mutant of Count: a dataset that failed counts as one that was skipped.
CountForgiving(g, result) ==
  /\ job' = [job EXCEPT ![g].ok = TRUE, ![g].item = @ + 1]
  /\ work' = [work EXCEPT ![g] = NoWork]
  /\ Goto(g, "dataset")

\* The caller's bookkeeping once backup_dataset has returned.
Count(g, result) ==
  /\ job' = [job EXCEPT ![g].ok = @ \/ result \in {"success", "skipped"},
                        ![g].bad = @ \/ result = "failed",
                        ![g].item = @ + 1]
  /\ work' = [work EXCEPT ![g] = NoWork]
  /\ Goto(g, "dataset")

\* The set has no disk to write to: the group is blocked until it gets one.
Block(g) ==
  /\ needsDisk' = [needsDisk EXCEPT ![g] = TRUE]
  /\ Goto(g, "blocked")
  /\ UNCHANGED <<activeSet, lastUsed>>

-----------------------------------------------------------------------------
(* A session: choosing the set and the disk *)

\* start_session: the check, the insert and create_task happen in one go.
Start(g, trigger) ==
  /\ up /\ session[g].status # "running"
  /\ sessions < MaxSessions
  /\ sessions' = sessions + 1
  /\ session' = [session EXCEPT ![g] = [id |-> sessions + 1, status |-> "running"]]
  /\ job' = [job EXCEPT ![g] = [NoJob EXCEPT !.trigger = trigger]]
  /\ Goto(g, "resolve")
  /\ UNCHANGED <<rows, runs, snaps, disks, clock, work, proc>>

\* _execute_session up to the first await.
Resolve(g) ==
  /\ pc[g] = "resolve"
  /\ job' = [job EXCEPT ![g].targets = TargetSets(g), ![g].at = 1]
  /\ Goto(g, "disk")
  /\ UNCHANGED <<rows, session, sessions, runs, snaps, disks, clock, work, proc>>

\* _active_disk: the disks are tried from the active one on, and the first
\* that mounts is taken; any disk of the set may be the first.
ChooseDisk(g, k) ==
  /\ pc[g] = "disk"
  /\ k \in DisksOf[CurSet(g)]
  /\ mounted' = mounted \cup {k}
  /\ activeDisk' = [activeDisk EXCEPT ![CurSet(g)] = k]
  /\ job' = [job EXCEPT ![g].disk = k, ![g].item = 1]
  /\ Goto(g, "dataset")
  /\ UNCHANGED <<activeSet, needsDisk, lastUsed, session, sessions, runs, snaps,
                 media, stray, clock, work, proc>>

NoUsableDisk(g) ==
  /\ pc[g] = "disk"
  /\ Block(g)
  /\ UNCHANGED <<activeDisk, session, sessions, runs, snaps, disks, clock, job, work, proc>>

\* _new_run: a row for the current dataset, written under the set given.
Insert(g, set, type, status) ==
  runs' = Append(runs, [session |-> session[g].id, set |-> set, disk |-> job[g].disk,
                        ds |-> CurDataset(g), type |-> type, snap |-> None,
                        base |-> None, anchor |-> None, status |-> status])

\* _dataset_exists is false: a failed run, recorded under the session's set.
DatasetMissing(g) ==
  /\ pc[g] = "dataset" /\ job[g].item <= Len(Members[g])
  /\ Insert(g, job[g].targets[1], "full", "failed")
  /\ Count(g, "failed")
  /\ UNCHANGED <<rows, session, sessions, snaps, disks, clock, proc>>

\* The first visit of a set writes fulls whatever triggered the session.
NewRun(g) ==
  LET type == IF lastUsed[CurSet(g)] = 0 THEN "full" ELSE job[g].trigger
  IN /\ pc[g] = "dataset" /\ job[g].item <= Len(Members[g])
     /\ Insert(g, CurSet(g), type, "running")
     /\ work' = [work EXCEPT ![g] = [NoWork EXCEPT !.run = Len(runs) + 1, !.type = type]]
     /\ Goto(g, "mount")
     /\ UNCHANGED <<rows, session, sessions, snaps, disks, clock, job, proc>>

\* Every dataset was tried: on to the next target set, or to the rotation.
SetWritten(g) ==
  /\ pc[g] = "dataset" /\ job[g].item > Len(Members[g])
  /\ job' = [job EXCEPT ![g].written = Append(@, job[g].disk), ![g].at = @ + 1]
  /\ Goto(g, IF job[g].at < Len(job[g].targets) THEN "disk" ELSE "rotate")
  /\ UNCHANGED <<rows, session, sessions, runs, snaps, disks, clock, work, proc>>

-----------------------------------------------------------------------------
(* backup_dataset *)

MountForRun(g) ==
  /\ pc[g] = "mount"
  /\ mounted' = mounted \cup {job[g].disk}
  /\ Goto(g, IF work[g].type = "incremental" THEN "anchor" ELSE "snapshot")
  /\ UNCHANGED <<rows, session, sessions, runs, snaps, media, stray, clock, job, work, proc>>

\* The base is resolved before the snapshot is taken; with none the run is
\* promoted to a full.
ResolveAnchor(g) ==
  LET base == SetAnchor(CurSet(g), CurDataset(g))
  IN /\ pc[g] = "anchor"
     /\ work' = [work EXCEPT
          ![g].base = base,
          ![g].anchor = IF base = None THEN None ELSE FullAnchor(CurSet(g), CurDataset(g)),
          ![g].type = IF base = None THEN "full" ELSE @]
     /\ Goto(g, "snapshot")
     /\ UNCHANGED <<rows, session, sessions, runs, snaps, disks, clock, job, proc>>

\* zfs list fails, which reads as an anchor the pool has lost: the run is promoted.
AnchorUnlisted(g) ==
  /\ "list" \in Faults /\ pc[g] = "anchor"
  /\ work' = [work EXCEPT ![g].base = None, ![g].anchor = None, ![g].type = "full"]
  /\ Goto(g, "snapshot")
  /\ UNCHANGED <<rows, session, sessions, runs, snaps, disks, clock, job, proc>>

\* _snapshot_exists answers no: a retry needs a snapshot of its own when the pool
\* lost the first one, and also when zfs list fails.
NothingToReuse(g) ==
  work[g].snap = None \/ work[g].snap \notin snaps[CurDataset(g)] \/ "list" \in Faults

\* A retry reuses the snapshot of the refused write if the pool still has it.
ReuseSnapshot(g) ==
  /\ pc[g] = "snapshot"
  /\ work[g].snap # None /\ work[g].snap \in snaps[CurDataset(g)]
  /\ Goto(g, "record")
  /\ UNCHANGED <<rows, session, sessions, runs, snaps, disks, clock, job, work, proc>>

\* zfs snapshot names the snapshot after the current second.
TakeSnapshot(g, t) ==
  /\ pc[g] = "snapshot" /\ NothingToReuse(g)
  /\ t \in {clock, clock + 1} /\ t \notin snaps[CurDataset(g)]
  /\ clock' = t
  /\ snaps' = [snaps EXCEPT ![CurDataset(g)] = @ \cup {t}]
  /\ work' = [work EXCEPT ![g].snap = t]
  /\ Goto(g, "record")
  /\ UNCHANGED <<rows, session, sessions, runs, disks, job, proc>>

\* The command fails, always so when the second's name is taken.  The handler
\* discards the name it asked for unless the row already carries a snapshot.
SnapshotFails(g, t) ==
  /\ pc[g] = "snapshot" /\ NothingToReuse(g)
  /\ t \in {clock, clock + 1}
  /\ clock' = t
  /\ IF work[g].snap = None
     THEN /\ work' = [work EXCEPT ![g].snap = t]
          /\ Goto(g, "collide")
          /\ UNCHANGED runs
     ELSE /\ work' = [work EXCEPT ![g].result = "failed"]
          /\ Save(g, [Row(g) EXCEPT !.status = "failed"])
          /\ Goto(g, "unmount")
  /\ UNCHANGED <<rows, session, sessions, snaps, disks, job, proc>>

DiscardFailedName(g) ==
  /\ pc[g] = "collide"
  /\ Destroy(CurDataset(g), {work[g].snap})
  /\ Save(g, [Row(g) EXCEPT !.status = "failed"])
  /\ work' = [work EXCEPT ![g].result = "failed"]
  /\ Goto(g, "unmount")
  /\ UNCHANGED <<rows, session, sessions, disks, clock, job, proc>>

\* The row learns the snapshot (and a promotion) once the command returned.
RecordSnapshot(g) ==
  /\ pc[g] = "record"
  /\ Save(g, [Row(g) EXCEPT !.snap = work[g].snap, !.type = work[g].type])
  /\ Goto(g, IF work[g].type = "incremental" THEN "diff" ELSE "capacity")
  /\ UNCHANGED <<rows, session, sessions, snaps, disks, clock, job, work, proc>>

\* zfs diff shows a change, or could not tell.
Changed(g) ==
  /\ pc[g] = "diff"
  /\ Goto(g, "capacity")
  /\ UNCHANGED <<rows, session, sessions, runs, snaps, disks, clock, job, work, proc>>

Unchanged(g) ==
  /\ pc[g] = "diff"
  /\ Save(g, [Row(g) EXCEPT !.status = "skipped", !.base = work[g].base,
                            !.anchor = work[g].anchor])
  /\ Goto(g, "dropskipped")
  /\ UNCHANGED <<rows, session, sessions, snaps, disks, clock, job, work, proc>>

DropSkipped(g) ==
  /\ pc[g] = "dropskipped"
  /\ Destroy(CurDataset(g), {work[g].snap})
  /\ work' = [work EXCEPT ![g].result = "skipped"]
  /\ Goto(g, "unmount")
  /\ UNCHANGED <<rows, session, sessions, runs, disks, clock, job, proc>>

Fits(g) ==
  /\ pc[g] = "capacity" /\ job[g].disk \in mounted
  /\ Goto(g, "send")
  /\ UNCHANGED <<rows, session, sessions, runs, snaps, disks, clock, job, work, proc>>

\* No room.  The disk stays mounted.  What follows is the caller's reaction:
\* look for another disk the first time, count a failure after an advance,
\* block the group after a recycling.
NeedsSpace(g) ==
  /\ pc[g] = "capacity" /\ job[g].disk \in mounted
  /\ Save(g, [Row(g) EXCEPT !.status = "failed"])
  /\ CASE work[g].retry = "no" ->
            Goto(g, "full") /\ UNCHANGED <<activeSet, needsDisk, lastUsed, job, work>>
       [] work[g].retry = "advanced" ->
            Count(g, "failed") /\ UNCHANGED <<activeSet, needsDisk, lastUsed>>
       [] work[g].retry = "recycled" ->
            Block(g) /\ UNCHANGED <<job, work>>
  /\ UNCHANGED <<activeDisk, session, sessions, snaps, disks, clock, proc>>

\* The pipeline ends well.  It is polled every three seconds, so the clock
\* has moved on; the send needed its snapshot and its base in the pool.
SendDone(g) ==
  LET file == [ds |-> CurDataset(g), type |-> work[g].type, snap |-> work[g].snap,
               base |-> work[g].base, by |-> session[g].id, listed |-> FALSE]
  IN /\ pc[g] = "send"
     /\ {work[g].snap, work[g].base} \ {None} \subseteq snaps[CurDataset(g)]
     /\ media' = [media EXCEPT ![job[g].disk] = @ \cup {file}]
     /\ clock' = clock + 1
     /\ Goto(g, "commit")
     /\ UNCHANGED <<rows, session, sessions, runs, snaps, mounted, stray, job, work, proc>>

\* The pipeline ends with an error: the file is unlinked, the snapshot dropped.
SendFails(g) ==
  /\ pc[g] = "send"
  /\ Goto(g, "dropfailed")
  /\ UNCHANGED <<rows, session, sessions, runs, snaps, disks, clock, job, work, proc>>

DropFailed(g) ==
  /\ pc[g] = "dropfailed"
  /\ Destroy(CurDataset(g), {work[g].snap})
  /\ Save(g, [Row(g) EXCEPT !.status = "failed"])
  /\ work' = [work EXCEPT ![g].result = "failed"]
  /\ Goto(g, "unmount")
  /\ UNCHANGED <<rows, session, sessions, disks, clock, job, proc>>

CommitRun(g) ==
  /\ pc[g] = "commit"
  /\ Save(g, [Row(g) EXCEPT !.status = "success", !.base = work[g].base,
                            !.anchor = work[g].anchor])
  /\ Goto(g, "list")
  /\ UNCHANGED <<rows, session, sessions, snaps, disks, clock, job, work, proc>>

\* _prune_old_anchors lists the pool, reads the rows and then destroys the
\* snapshots that are neither exempt nor referenced, one command each.
PruneList(g) ==
  LET d == CurDataset(g)
  IN /\ pc[g] = "list"
     /\ work' = [work EXCEPT ![g].doomed =
          snaps[d] \ (NewestTwo(d) \cup {work[g].snap} \cup Referenced(d))]
     /\ Goto(g, "prune")
     /\ UNCHANGED <<rows, session, sessions, runs, snaps, disks, clock, job, proc>>

\* zfs list fails, which reads as a pool without snapshots: nothing is pruned.
PruneSkipped(g) ==
  /\ "list" \in Faults /\ pc[g] = "list"
  /\ Goto(g, "manifest")
  /\ UNCHANGED <<rows, session, sessions, runs, snaps, disks, clock, job, work, proc>>

PruneOne(g, t) ==
  /\ pc[g] = "prune" /\ t \in work[g].doomed
  /\ Destroy(CurDataset(g), {t})
  /\ work' = [work EXCEPT ![g].doomed = @ \ {t}]
  /\ UNCHANGED <<rows, session, sessions, runs, disks, clock, pc, job, proc>>

PruneDone(g) ==
  /\ pc[g] = "prune" /\ work[g].doomed = {}
  /\ Goto(g, "manifest")
  /\ UNCHANGED <<rows, session, sessions, runs, snaps, disks, clock, job, work, proc>>

\* _record_manifest lists the stream in the sidecar and the volume's index;
\* any error is logged and the run stays a success.
RecordManifest(g) ==
  LET mine == { f \in media[job[g].disk] : f.ds = CurDataset(g) /\ f.snap = work[g].snap }
  IN /\ pc[g] = "manifest" /\ job[g].disk \in mounted
     /\ media' = [media EXCEPT ![job[g].disk] =
          (@ \ mine) \cup { [f EXCEPT !.listed = TRUE] : f \in mine }]
     /\ work' = [work EXCEPT ![g].result = "success"]
     /\ Goto(g, "unmount")
     /\ UNCHANGED <<rows, session, sessions, runs, snaps, mounted, stray, clock, job, proc>>

ManifestFails(g) ==
  /\ pc[g] = "manifest"
  /\ stray' = IF job[g].disk \in mounted THEN stray ELSE stray \cup {job[g].disk}
  /\ work' = [work EXCEPT ![g].result = "success"]
  /\ Goto(g, "unmount")
  /\ UNCHANGED <<rows, session, sessions, runs, snaps, media, mounted, clock, job, proc>>

\* Any other exception inside the try, a command timeout included: the run is
\* marked failed, even one that has just been committed as a success.
RunErrs(g) ==
  /\ pc[g] \in {"mount", "anchor", "capacity", "dropskipped", "send", "dropfailed",
                "list", "prune"}
  /\ Save(g, [Row(g) EXCEPT !.status = "failed"])
  /\ work' = [work EXCEPT ![g].result = "failed"]
  /\ Goto(g, "unmount")
  /\ UNCHANGED <<rows, session, sessions, snaps, disks, clock, job, proc>>

\* umount's exit status is ignored; a busy mount point stays mounted.
IdleMounts(k) ==
  IF k \in StaysMounted THEN {mounted}
  ELSE {mounted \ {k}} \cup (IF "busy" \in Faults THEN {mounted} ELSE {})

\* finally: the disk goes back to its idle state and the caller counts.
Unmount(g) ==
  /\ pc[g] = "unmount"
  /\ mounted' \in IdleMounts(job[g].disk)
  /\ Count(g, work[g].result)
  /\ UNCHANGED <<rows, session, sessions, runs, snaps, media, stray, clock, proc>>

-----------------------------------------------------------------------------
(* A full disk: advance within the set, recycle, or block *)

PutAwayFull(g) ==
  /\ pc[g] = "full"
  /\ mounted' \in IdleMounts(job[g].disk)
  /\ Goto(g, "advance")
  /\ UNCHANGED <<rows, session, sessions, runs, snaps, media, stray, clock, job, work, proc>>

\* Mutant of Retarget: the row keeps naming the full disk.
RetargetStatusOnly(row, k) == [row EXCEPT !.status = "running"]

Retarget(row, k) == [row EXCEPT !.disk = k, !.status = "running"]

\* Another disk of the set mounts and has room: same run, same snapshot.
AdvanceTo(g, k) ==
  /\ pc[g] = "advance"
  /\ k \in DisksOf[CurSet(g)] \ {job[g].disk}
  /\ mounted' = mounted \cup {k}
  /\ activeDisk' = [activeDisk EXCEPT ![CurSet(g)] = k]
  /\ job' = [job EXCEPT ![g].disk = k]
  /\ Save(g, Retarget(Row(g), k))
  /\ work' = [work EXCEPT ![g].retry = "advanced"]
  /\ Goto(g, "mount")
  /\ UNCHANGED <<activeSet, needsDisk, lastUsed, session, sessions, snaps, media, stray,
                 clock, proc>>

\* None has: the disk may be wiped if the group recycles and this session has
\* not stored a stream on it, otherwise the group blocks.
NoRoomInSet(g) ==
  /\ pc[g] = "advance"
  /\ IF g \in Recycling /\ ~WrittenThisSession(g)
     THEN Goto(g, "wipe") /\ UNCHANGED <<activeSet, needsDisk, lastUsed>>
     ELSE Block(g)
  /\ UNCHANGED <<activeDisk, session, sessions, runs, snaps, disks, clock, job, work, proc>>

\* recycle_disk: unmount, wipefs and mkfs; the rows follow.
Wipe(g) ==
  /\ pc[g] = "wipe"
  /\ media' = [media EXCEPT ![job[g].disk] = {}]
  /\ mounted' = mounted \ {job[g].disk}
  /\ Goto(g, "reformat")
  /\ UNCHANGED <<rows, session, sessions, runs, snaps, stray, clock, job, work, proc>>

\* Offline, busy, or a format that fails after the wipe.
RecycleFails(g) ==
  /\ pc[g] \in {"wipe", "reformat"}
  /\ Block(g)
  /\ UNCHANGED <<activeDisk, session, sessions, runs, snaps, disks, clock, job, work, proc>>

\* Every row of the disk is deleted, the row of the current run among them.
Reformatted(g) ==
  /\ pc[g] = "reformat"
  /\ runs' = [i \in DOMAIN runs |->
       IF runs[i].disk = job[g].disk THEN [runs[i] EXCEPT !.status = "deleted"] ELSE runs[i]]
  /\ work' = [work EXCEPT ![g].retry = "recycled"]
  /\ Goto(g, "mount")
  /\ UNCHANGED <<rows, session, sessions, snaps, disks, clock, job, proc>>

-----------------------------------------------------------------------------
(* The end of a session *)

\* Mutants of NextSet: one set on whatever was written; off the end of the cycle.
NextSetByOne(g) == After(g, job[g].targets[1], 1)
NextSetNoWrap(g) ==
  LET i == PositionOf(g, job[g].targets[1]) + Len(job[g].targets)
  IN IF i \in DOMAIN Cycle[g] THEN Cycle[g][i] ELSE None

\* _rotate
NextSet(g) == After(g, job[g].targets[1], Len(job[g].targets))

\* Success and partial move the group past the sets written.
Rotate(g) ==
  /\ pc[g] = "rotate" /\ (job[g].ok \/ ~job[g].bad)
  /\ lastUsed' = [s \in Sets |-> IF s \in Ran(job[g].targets) THEN session[g].id ELSE lastUsed[s]]
  /\ activeSet' = [activeSet EXCEPT ![g] = NextSet(g)]
  /\ needsDisk' = [needsDisk EXCEPT ![g] = FALSE]
  /\ Goto(g, "capture")
  /\ UNCHANGED <<activeDisk, session, sessions, runs, snaps, disks, clock, job, work, proc>>

\* _capture_config writes the bundle below the mount point of each disk used.
CaptureConfig(g) ==
  LET k == Head(job[g].written)
  IN /\ pc[g] = "capture" /\ job[g].written # << >>
     /\ stray' = IF k \in mounted THEN stray ELSE stray \cup {k}
     /\ job' = [job EXCEPT ![g].written = Tail(@)]
     /\ UNCHANGED <<rows, session, sessions, runs, snaps, media, mounted, clock, pc, work, proc>>

\* _finish: the row gets its outcome and the worker returns.
Finish(g) ==
  /\ \/ pc[g] = "rotate" /\ job[g].bad /\ ~job[g].ok
     \/ pc[g] = "capture" /\ job[g].written = << >>
     \/ pc[g] = "blocked"
  /\ session' = [session EXCEPT ![g].status =
       CASE pc[g] = "blocked" -> "needs_disk"
         [] pc[g] = "rotate"  -> "failed"
         [] pc[g] = "capture" -> IF job[g].bad THEN "partial" ELSE "success"]
  /\ job' = [job EXCEPT ![g] = NoJob]
  /\ work' = [work EXCEPT ![g] = NoWork]
  /\ Goto(g, "idle")
  /\ UNCHANGED <<rows, sessions, runs, snaps, disks, clock, proc>>

-----------------------------------------------------------------------------
(* Faults, restart and recovery *)

\* A command timeout outside the try of backup_dataset, or inside its handler
\* or its finally, leaves _execute_session: _session_worker logs it and the
\* session row stays as it is.
WorkerDies(g) ==
  /\ "death" \in Faults
  /\ pc[g] \in {"dataset", "collide", "unmount", "full"}
  /\ pc[g] = "dataset" => job[g].item <= Len(Members[g])
  /\ job' = [job EXCEPT ![g] = NoJob]
  /\ work' = [work EXCEPT ![g] = NoWork]
  /\ Goto(g, "idle")
  /\ UNCHANGED <<rows, session, sessions, runs, snaps, disks, clock, proc>>

\* The process dies, perhaps with the host: rows, pool and media survive,
\* mounts survive if the host does.
Crash ==
  /\ "crash" \in Faults /\ up /\ crashes < MaxCrashes
  /\ up' = FALSE /\ crashes' = crashes + 1
  /\ mounted' \in {mounted, {}}
  /\ pc' = [g \in Groups |-> "idle"]
  /\ job' = [g \in Groups |-> NoJob]
  /\ work' = [g \in Groups |-> NoWork]
  /\ UNCHANGED <<rows, session, sessions, runs, snaps, media, stray, clock>>

\* Mutants of OrphanRun and OrphanSession: every run of an interrupted session;
\* no run; no session.
OrphanOfSession(i) ==
  \E g \in Groups : session[g].status = "running" /\ runs[i].session = session[g].id
NoOrphanRun(i) == FALSE
NoOrphanSession(g) == FALSE

OrphanRun(i) == runs[i].status = "running"
OrphanSession(g) == session[g].status = "running"

\* recover_orphaned_backups, before anything is served: the snapshot of every
\* run left running is destroyed ...
RecoverRun(i) ==
  /\ ~up /\ OrphanRun(i)
  /\ runs[i].snap \in snaps[runs[i].ds]
  /\ snaps' = [snaps EXCEPT ![runs[i].ds] = @ \ {runs[i].snap}]
  /\ UNCHANGED <<rows, session, sessions, runs, disks, clock, pc, job, work, proc>>

\* ... and then the runs and the sessions left running are failed.
Restart ==
  /\ ~up
  /\ "busy" \in Faults
       \/ \A i \in DOMAIN runs : OrphanRun(i) => runs[i].snap \notin snaps[runs[i].ds]
  /\ runs' = [i \in DOMAIN runs |->
       IF OrphanRun(i) THEN [runs[i] EXCEPT !.status = "failed"] ELSE runs[i]]
  /\ session' = [g \in Groups |->
       IF OrphanSession(g) THEN [session[g] EXCEPT !.status = "failed"] ELSE session[g]]
  /\ up' = TRUE
  /\ UNCHANGED <<rows, sessions, snaps, disks, clock, pc, job, work, crashes>>

\* The Unmount button of a disk does not ask whether a session uses it; only
\* the open file of a running send keeps it mounted.
OperatorUnmounts(k) ==
  /\ "unmount" \in Faults /\ up /\ k \in mounted
  /\ \A g \in Groups : pc[g] = "send" => job[g].disk # k
  /\ mounted' = mounted \ {k}
  /\ UNCHANGED <<rows, session, sessions, runs, snaps, media, stray, clock, pc, job, work, proc>>

-----------------------------------------------------------------------------
(* The specification *)

Init ==
  /\ activeSet = [g \in Groups |-> Cycle[g][1]]
  /\ needsDisk = [g \in Groups |-> FALSE]
  /\ lastUsed = [s \in Sets |-> 0]
  /\ activeDisk = [s \in Sets |->
       IF DisksOf[s] = {} THEN None ELSE CHOOSE k \in DisksOf[s] : TRUE]
  /\ session = [g \in Groups |-> [id |-> 0, status |-> "none"]]
  /\ sessions = 0
  /\ runs = << >>
  /\ snaps = [d \in Datasets |-> {}]
  /\ media = [k \in Disks |-> {}]
  /\ mounted = {}
  /\ stray = {}
  /\ clock = 0
  /\ pc = [g \in Groups |-> "idle"]
  /\ job = [g \in Groups |-> NoJob]
  /\ work = [g \in Groups |-> NoWork]
  /\ up = TRUE
  /\ crashes = 0

Choosing(g) ==
  \/ Resolve(g)
  \/ \E k \in Disks : ChooseDisk(g, k)
  \/ NoUsableDisk(g)
  \/ DatasetMissing(g) \/ NewRun(g) \/ SetWritten(g)

Writing(g) ==
  \/ MountForRun(g) \/ ResolveAnchor(g) \/ AnchorUnlisted(g) \/ ReuseSnapshot(g)
  \/ \E t \in {clock, clock + 1} : TakeSnapshot(g, t) \/ SnapshotFails(g, t)
  \/ DiscardFailedName(g) \/ RecordSnapshot(g)
  \/ Changed(g) \/ Unchanged(g) \/ DropSkipped(g)
  \/ Fits(g) \/ NeedsSpace(g)
  \/ SendDone(g) \/ SendFails(g) \/ DropFailed(g) \/ CommitRun(g)

Settling(g) ==
  \/ PruneList(g) \/ PruneSkipped(g)
  \/ \E t \in work[g].doomed : PruneOne(g, t)
  \/ PruneDone(g) \/ RecordManifest(g) \/ ManifestFails(g)
  \/ RunErrs(g) \/ Unmount(g)

Making(g) ==
  \/ PutAwayFull(g)
  \/ \E k \in Disks : AdvanceTo(g, k)
  \/ NoRoomInSet(g) \/ Wipe(g) \/ RecycleFails(g) \/ Reformatted(g)

Ending(g) == Rotate(g) \/ CaptureConfig(g) \/ Finish(g)

\* What the worker of a session does next; it never waits for another actor.
Worker(g) == Choosing(g) \/ Writing(g) \/ Settling(g) \/ Making(g) \/ Ending(g)

Recovery == (\E i \in DOMAIN runs : RecoverRun(i)) \/ Restart

Next ==
  \/ \E g \in Groups, trigger \in Triggers : Start(g, trigger)
  \/ \E g \in Groups : Worker(g) \/ WorkerDies(g)
  \/ Crash \/ Recovery
  \/ \E k \in Disks : OperatorUnmounts(k)

Spec == Init /\ [][Next]_vars

\* The event loop keeps running the coroutines it has, every command ends or
\* times out, and systemd restarts the service after a crash.
FairSpec == Spec /\ (\A g \in Groups : WF_vars(Worker(g))) /\ WF_vars(Recovery)

-----------------------------------------------------------------------------
(* Properties *)

RowsOK ==
  /\ activeSet \in [Groups -> Sets]
  /\ needsDisk \in [Groups -> BOOLEAN]
  /\ lastUsed \in [Sets -> Nat]
  /\ activeDisk \in [Sets -> Disks \cup {None}]
  /\ session \in [Groups -> SessionRow]
  /\ sessions \in Nat
  /\ runs \in Seq(BackupRun)

StoreOK ==
  /\ snaps \in [Datasets -> SUBSET Seconds]
  /\ media \in [Disks -> SUBSET Stream]
  /\ mounted \subseteq Disks /\ stray \subseteq Disks
  /\ clock \in Nat
  /\ up \in BOOLEAN /\ crashes \in Nat

WorkerOK ==
  /\ pc \in [Groups -> Stages]
  /\ job \in [Groups -> Job]
  /\ work \in [Groups -> Work]

\* Every variable stays in its domain: the rows, the pool and the volumes, and
\* the locals of the workers.
TypeOK == RowsOK /\ StoreOK /\ WorkerOK

\* No dataset belongs to two groups.  Nothing in the code enforces it, and
\* what depends on it says so.
Exclusive ==
  \A g, h \in Groups : g # h => Ran(Members[g]) \cap Ran(Members[h]) = {}

\* The pool keeps every snapshot a successful run names: the one it sent, the
\* one it built on and the start of its chain.  It takes pruning, discarding,
\* the skip of an unchanged dataset and the recovery after a crash together,
\* none of which may take a snapshot the next incremental would be sent from.
ReferencedKept ==
  \A i \in DOMAIN runs : IsSuccess(i) => RefsOf(runs[i]) \subseteq snaps[runs[i].ds]

\* The successful run of the same set and dataset that row i follows.
Before(i) == { j \in SuccessIn(runs[i].set, runs[i].ds) : j < i }

Extends(i) == Before(i) # {} /\ runs[Newest(Before(i))].snap = runs[i].base

Stored(i) ==
  \E f \in media[runs[i].disk] :
     /\ f.ds = runs[i].ds /\ f.snap = runs[i].snap
     /\ f.type = runs[i].type /\ f.base = runs[i].base

\* A row that says success is backed by a complete stream on the disk it names.
StoredOnMedium == \A i \in DOMAIN runs : IsSuccess(i) => Stored(i)

\* What the rows of a set hold of a dataset can be replayed: from the newest
\* full on, every stream is there and builds on the one before it.
Restorable(s, d) ==
  LET fulls == { i \in SuccessIn(s, d) : runs[i].type = "full" }
  IN /\ fulls # {}
     /\ \A i \in SuccessIn(s, d) : i >= Newest(fulls) =>
          Stored(i) /\ (i > Newest(fulls) => Extends(i))

\* A session that ends with no failure counted leaves every dataset of its
\* group restorable from every set it targeted.
SuccessMeansRestorable ==
  \A g \in Groups : pc[g] = "capture" /\ ~job[g].bad =>
    \A s \in Ran(job[g].targets), d \in Ran(Members[g]) : Restorable(s, d)

\* From the active set on, the cycle of a group is in the order of last use:
\* the next sessions reach the least recently used sets first, however many
\* copies each session writes and however sessions end.
RotationIsLRU ==
  \A g \in Groups : \A i, j \in 0..(Len(Cycle[g]) - 1) : i <= j =>
    lastUsed[After(g, activeSet[g], i)] <= lastUsed[After(g, activeSet[g], j)]

\* While the process serves, a session row says running exactly when a worker
\* drives it, and a run row says running only while a worker is writing it.
RunningIsDriven ==
  up => /\ \A g \in Groups : session[g].status = "running" <=> pc[g] # "idle"
        /\ \A i \in DOMAIN runs : runs[i].status = "running" =>
             \E g \in Groups : pc[g] # "idle" /\ work[g].run = i

\* Once its worker has moved on, a finished run keeps its outcome: a later
\* session, a crash or the recovery never rewrites it, only a recycling of the
\* disk it is stored on removes it.
FinishedRunsKept ==
  [][\A i \in DOMAIN runs :
       runs[i].status # "running" /\ (\A g \in Groups : work[g].run # i)
         => \/ runs'[i] = runs[i]
            \/ \E g \in Recycling : pc[g] = "reformat" /\ runs[i].disk = job[g].disk]_vars

\* Pruning catches up: once a run has destroyed what it found to prune, at most one
\* snapshot of its dataset is named by no successful run, however many earlier runs
\* failed or could not list the pool and so left theirs behind.
LeftoversPruned ==
  \A g \in Groups : pc[g] = "prune" /\ work[g].doomed = {} =>
    Cardinality(snaps[CurDataset(g)] \ Referenced(CurDataset(g))) <= 1

\* What a set holds of a dataset: the streams its successful runs wrote.
Streams(s, d) == [i \in SuccessIn(s, d) |-> [snap |-> runs[i].snap, base |-> runs[i].base]]

Chains == INSTANCE SetChain WITH
  pool <- snaps,
  log <- [s \in Sets |-> [d \in Datasets |-> Streams(s, d)]]

\* Sessions implement the promise of a set: rows of successful runs are appended in
\* the order of their chain, each sent from the one before; nothing but the newest
\* is ever taken back, whatever fails, is retried elsewhere or is recovered after a
\* crash; and pruning leaves the pool what the rows name.
SetsKeepChains == Chains!Spec

\* A session that runs ends, even across a crash.
SessionEnds == \A g \in Groups : session[g].status = "running" ~> session[g].status # "running"

=============================================================================
