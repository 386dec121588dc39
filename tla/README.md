# NAZMan: a verification development

NAZMan manages ZFS pools on a NAS: pools, datasets, snapshots, shares, disks, and
backups of datasets to removable disks.  It is one FastAPI process on one asyncio
event loop over a SQLite database; everything that touches the system is a command
(`zfs`, `zpool`, `mount`, `mkfs`, ...) that a coroutine awaits.  This directory holds
TLA+ models of the parts with logic of their own, the TLC configurations that check
them, and TLAPS proofs.

## 1. Inventory

| component | state it keeps | operations | interacts with | what makes it correct |
|---|---|---|---|---|
| backup sessions and rotation (`services/backup_group_service.py`) | session rows, active set, needs-disk flag, last use of a set; worker tasks and a lock per group | start a session, write each target set, advance / recycle / block, rotate, finish, recover at startup | backup engine, registry, scheduler, alerts, notifications | a session ends; the rotation is least-recently-used; finished rows are final; a set stays restorable |
| backup engine (`managers/zfs_backup_manager.py`) | run rows, snapshots in the pool, stream files, mounts | backup one dataset, choose a base, prune snapshots, recycle a disk, declare and mount disks, receive a stream | pool, disks, manifest | every incremental builds on the stream before it; no needed snapshot is destroyed; rows match media |
| registry of groups, sets, disks (same two files, `models/backup_zfs.py`) | group, set and disk rows, two pointers without a foreign key | create, update, delete, activate, declare, attach, detach, deregister | sessions read and write the same rows | pointers name rows that exist; requests never pull a row from under a session |
| cron reconciliation and scheduler (`managers/scheduler.py`, `main.py`) | task rows and history, jobs in memory | reconcile after every change of a group and at startup, create / update / delete a task, fire a job | groups, sessions | what groups want is scheduled, and nothing else |
| volume manifest (`utils/backup_manifest.py`), configuration bundles (`managers/backup_manager.py`) | an index and sidecars on each volume, bundle directories | scan, build, upsert, save, rebuild, capture, prune | backup engine, declaration, restore | what was recorded is found again; the newest bundle stays |
| system restore (`services/system_restore.py`) | the restore job, scratch mounts | discover, merge, choose chains, plan a pool, restore, adopt media | volumes, pools, disks | what is reported as restored holds the whole chain; what fails has a cause; no disk is planned twice |
| disks (`managers/disk_manager.py`, `utils/devices.py`) | disk rows, the map from by-id paths to kernel names, pending declarations | scan, write rows, wipe, partition, drop, mark dead | backup engine, pools | nothing in use is overwritten; the disk asked for is the disk wiped |
| pools and datasets (`managers/zfs_manager.py`) | the pool rows; the rest is ZFS's own | create, export, import, list | disks, shares, destruction | as above |
| shares (`managers/nfs_manager.py`, `managers/smb_manager.py`) | `sharenfs`, the managed region of `smb.conf`, what smbd loaded | export, share, pause, delete, reload | datasets, destruction | what is served is what is configured |
| destruction (`services/destruction.py`) | none | look for obstacles, remove shares, unmount, destroy | shares, pools | a destroyed pool takes its shares along |
| alerts (`managers/alert_manager.py`), notification journal | cooldown table, ring of entries | poll, notify, deliver, add, read, clear, trim | pools, scheduler | lasting trouble is reported; the newest entries are kept |
| metrics (`managers/metrics_manager.py`, `managers/metrics_store.py`) | buffer and rows of samples, pools with logging | sample, record, flush, prune | pools, lifespan | a recorded sample is not lost silently |
| task status, command runner | none of their own | read other components' jobs; run a subprocess | everything | outcomes of commands are the choices of the models |
| HTTP API, authentication, wiring, UI, shell scripts | none | | | inputs of the above |

Hard behaviours, in order of weight: coroutines interleave at every awaited command; a
session lasts hours, works on rows it read at its start, and meets requests that change
them; a crash, a command that times out, or an exception can fall between any two
commits; the outcome of `zfs destroy` and `umount` is ignored; transactions that follow
one another are not one transaction; what a scan saw is used several commands later;
snapshot names have a resolution of one second.  `PROJECT.json` lists each hazard at its
line with the properties that would catch it.

## 2. Modules

| module | models |
|---|---|
| `BackupCycle` | a session from trigger to end, with the backup engine inside it, over fixed groups, sets and disks |
| `SetChain` | abstract: what a set promises of a dataset; `BackupCycle` implements it |
| `BackupGroups` | the registry: every request on groups, sets and disks, next to what sessions read and write of it |
| `VolumeManifest` | index, sidecars and bundles of one volume, under a writer, rebuilds, reads and crashes |
| `SystemRestore`, `PoolMapping` | restores of datasets from the attached volumes; the plan that maps a recorded pool onto attached disks |
| `Schedules` | groups' crons, task rows, jobs, sessions they start, startup |
| `DiskClaims` | who takes a disk: scans, declarations, wipes, mounts, adoption, pools |
| `PoolShares` | a pool, its datasets and shares, from creation to destruction |
| `Monitoring` | alert poll, cooldown, journal, metrics buffer, boot and orderly stop |
| `MC...` | one per model (but `SetChain`, which `BackupCycle` instantiates, and `PoolMapping`, which `SystemRestore` extends): instances for TLC |
| `BackupCycle_proofs` | types of `BackupCycle`; what sessions and runs leave behind: rows, snapshots, streams |
| `BackupGroups_proofs` | a session's plan stays intact; a cycle keeps its order; a set keeps its active disk while that is filed and is realigned when it goes |
| `PoolShares_proofs` | smbd serves what is configured unless a failure cut a change short; a destroyed pool takes its shares along |
| `SystemRestore_proofs` | what a restore reports as restored or failed; the plan of a pool |
| `VolumeManifest_proofs`, `Schedules_proofs`, `DiskClaims_proofs`, `Monitoring_proofs` | all safety properties that the runs check of these modules |

In all of them an action is what a coroutine does between two awaits that suspend it.
The outcome of a command (ends, fails, times out) is chosen where the code looks at it.
A history variable (marked so in its declaration) is read by properties only, or by no
guard of the code's.

### BackupCycle

`pc[g]` names the await at which the worker of group `g` is suspended; what the code
does between two awaits is one step.  `job[g]` holds the locals of `_execute_session`
and `_write_one_set`, `work[g]` those of `backup_dataset`.  The rows are `activeSet`,
`needsDisk`, `lastUsed`, `activeDisk`, `session`, `runs`; `snaps` is the pool, `media`
the complete streams on each volume, `mounted` and `stray` the mount points.

- `Start`, `Resolve`, `ChooseDisk`, `NoUsableDisk`: the trigger, the target sets, the
  first disk of the set that mounts.
- `DatasetMissing`, `NewRun`, then per dataset `MountForRun`, `ResolveAnchor`,
  `ReuseSnapshot` / `TakeSnapshot` / `SnapshotFails`, `RecordSnapshot`, `Changed` /
  `Unchanged`, `Fits` / `NeedsSpace`, `SendDone` / `SendFails`, `CommitRun`,
  `PruneList`, `PruneOne`, `RecordManifest`, `Unmount`; `RunErrs` is the handler's
  `except`, from any await inside the `try`.
- `PutAwayFull`, `AdvanceTo`, `NoRoomInSet`, `Wipe`, `Reformatted`: a full disk.
- `SetWritten`, `Rotate`, `CaptureConfig`, `Finish`: the end.
- `WorkerDies`, `Crash`, `RecoverRun`, `Restart`, `OperatorUnmounts`: faults.
- `AnchorUnlisted`, `PruneSkipped`, and the last case of `NothingToReuse`: a `zfs list` that
  fails.  `_list_backup_snapshots` answers it with an empty list and `_snapshot_exists` with
  no, so that an incremental is promoted, a pruning is passed over and a retry takes a
  snapshot of its own.

Left to chance: whether a disk mounts, has room, a command fails, a snapshot falls in
the same second as another.  The environment's faults (a crash, a dying worker,
an operator's umount, a busy destroy or umount, a failing list) are switched by the constant
`Faults`.  A snapshot is identified by its second and never reused by a later one
except in the second it was taken.  A row removed by recycling stays in `runs` as
"deleted", so that ids stay indexes.

### BackupGroups

A request without a suspending await is one action, even when it commits twice: what
its first transaction did stays when its second fails.  `_renumber` may fail: SQLAlchemy
flushes the moved rows in the order of their ids, and SQLite checks
UNIQUE(group_id, position) row by row, so a move onto a place a higher id still holds
raises and rolls back that transaction (`RenumberFails`).  Ids of deleted sets are reused
as SQLite reuses them (`NextId`).  Deregistering a disk (`BeginDeregister`,
`EndDeregister`) and mounting one for a session (`TryDisks`, `DiskMounted`) await a command
between reading and writing, so they are two actions each.  A worker that dies shows as
a session that takes no more steps until `Restart`.

`Aimed` says that a set's pointer names one of its disks, or nothing when it has none.  Three
steps of the code break it, and `Unaligned` names them: `detach_disk` clears the membership
before it deregisters; a disk moved while its deregistration waits for the umount leaves
its new set unaligned; and a session makes a disk active that was moved away while it was
being mounted.  `RealignedOnLoss` says that no other step does.

### SetChain

For each set and dataset a log of streams by the number of the run that stored them, each a
full or sent from the one before, and for each dataset the snapshots in the pool.  A step
takes or destroys a snapshot (never one that what is vouched for needs), stores a stream
with a number greater than any in the log, or takes the newest one back.
`SetsKeepChains == Chains!Spec` in `BackupCycle` maps the log to the successful runs of the
set and dataset (`Streams`) and the pool to `snaps`.  It holds where nothing is recycled: a
recycling deletes every row of a disk.

### VolumeManifest

`store` keeps two places apart: a path below the mount point is on the volume while that
is mounted, on the system disk otherwise.  The writer is the session at work
on the volume: `BeginRun`, `BeginRecord` and `EndRecord` are a run and `_record_manifest`;
`BeginCapture`, `ScanCapture`, `EndCapture` are `capture_config_bundle`.  `EndRecord` and
`EndCapture` choose how many of their files were written before an error or a crash.
`BeginRebuild`/`EndRebuild` and `BeginRead`/`EndRead` are API requests that take no lock.

### SystemRestore and PoolMapping

The history of runs is fixed at the start, any that writers could have left (`Legal`); a run
on no volume is one whose manifest entry was never written.  `Ask` and `Register` are the
two halves of `start_restore`; `Begin`, `Plan`, `Mount`, `GiveUp`, `Choose`, `Locate`,
`Receive`, `ReceiveFails`, `NotConnected`, `Restored`, `Finish` are the worker.  `Scan` is
every other request that looks at the volumes and unmounts what it passes; `PlanPool` is
the one of them that plans a pool.  `excuse` remembers that something disturbed a restore,
so that `FailureHasCause` can say that nothing else makes one fail.  `PoolMapping` is a
function of the disk table and the recorded devices, folded over the devices in order.

### Schedules

No await of `sync_scheduled_tasks` suspends, so a change of a group and the reconciliation
after it are one step, in which the first commit stays when the second raises.
`Reconciled` brings rows in line, `Rescheduled` jobs, `Removals` deletes what nobody wants,
up to the first deletion the foreign key of `TaskHistory` refuses.  Adding or removing a
dataset reconciles nothing (`ChangeDatasets`); `touched` holds the groups of which that is
true until the next reconciliation, and the properties are about the others.  `Boot`, `Booted` and
`Retry` are the lifespan, which does not come up when its reconciliation raises.

### DiskClaims

`port` is where the kernel has a disk now, `path` where the last scan saw it.  `Check`,
`Erase`, `Format`, `Register`, `Finish` are the commands of a declaration; a wipe or a new
partition table is the first two.  `Check` records in `sure` whether the map was current
when the path was taken.  Pools and mounts hold a disk, and the kernel refuses to open
what is held (`Held`); nothing else protects it.

### PoolShares

`conf` is the managed region of `smb.conf`, `served` what smbd made of it at its last
reload.  A share is written and reloaded in two steps; `destroy_pool` goes through
unexport, unshare, reload, unmount and destroy, each of which may fail, and a dataset's
destruction through two.  `Rewrites` is `_rewrite_region`.  It writes in place, so that a write
that fails (`WriteFails`) may leave a part of the region, in general without its end marker:
then (`torn`) no managed share is found any more, and later changes only add to what is
there.  A failed write ends its request; in `unshare_pool` those before it stay written and
are not reloaded.  `Crash` ends every request where it stands.  `loaded` remembers that none
of these came after the last reload that succeeded.  `since` remembers datasets that are new, or newly shared, to a
destruction under way.

### Monitoring

The poll (`PollState`, `PollNotify`, `PollCapacity`, `PollEnds`), a scheduled task that
fails (`TaskFails`), deliveries that end later (`Delivered`), the journal, the recorder
(`Sample`, `RecordSample`, `Tick`) and the lifespan (`Boot`, `Stop`, `Crash`) share a
process.  The alert that a pool's last scan ended with errors is left out: it is one
more key of the same mechanism.  `open` holds rows of a flush that failed without a rollback: the next commit on
that connection stores them.

## 3. Runs

| run | instance | shows |
|---|---|---|
| `spanning` | 1 group, 1 set of 2 disks, 1 dataset, 3 sessions, crash, dying worker | `ReferencedKept`, `StoredOnMedium`, `SuccessMeansRestorable`, and the refinement `SetsKeepChains` |
| `rotation` | 3 sets of 1 disk, 2 copies, 2 sessions, crash, dying worker, failing `zfs list` | `RotationIsLRU`, `ReferencedKept`, `LeftoversPruned` |
| `faults` | 1 set of 2 disks, recycling, one disk that stays mounted, all five faults, 2 sessions | `TypeOK`, `FinishedRunsKept` |
| `progress` | 2 groups sharing a dataset, crash, 2 sessions, fairness | `SessionEnds`, `RunningIsDriven` |
| `registry` | 2 groups (symmetric), 3 set ids, 3 disks, positions 0..2, few at a time | `TypeOK`, `PlanIntact`, `HealedInSession`, `CycleOrderKept`, `ActiveDiskKept`, `RealignedOnLoss` |
| `manifest` | 2 streams, 2 bundles of which 1 is kept, 1 rebuild or read at a time, 1 crash | `TypeOK`, `RecordedFound`, `NewestBundleKept`, `SavesListAll` |
| `restore` | every history of up to 3 runs on 2 volumes (2 sets, or 2 datasets), 1 request at a time, 2 starts, 1 disturbance, failing mounts and receives; every plan of 2 devices over every pair of disks with 2 slots, each free, a pool's, or with a volume that could or could not be read | `TypeOK`, `SuccessHoldsChain`, `FailureHasCause`, `RunningIsWorked`, `MappingIsSound` |
| `schedule` | 2 groups, a cron the trigger takes and one it refuses, 4 changes, 1 crash | `TypeOK`, `WantedIsScheduled`, `UnwantedIsGone` |
| `claims` | 2 disks, 2 kernel names, 1 pool, 2 concurrent tasks, 1 filesystem, 2 plugs, 1 crash or dead disk | `TypeOK`, `PendingIsWorked`, `HeldIsIntact`, `ScannedIsErased` |
| `shares` | a pool with a dataset under a dataset, 2 concurrent tasks, 1 failing command or write or crash, 1 client, 4 requests | `TypeOK`, `ServedIsConfigured`, `PoolTakesShares` |
| `monitor` | 1 pool, 1 usage step, 1 failing task, cooldown 1, journal of 2, flush every 2 rounds, 3 rounds, 4 entries, 4 events, 1 tick, fairness | `TypeOK`, `NoSampleLost`, `JournalKeepsNewest`, `TroubleIsReported` |
| `orphan_task` | as `schedule` | violates `GoneGroupHasNoTask` |

Why the bounds are enough.  Three sessions are a full, an incremental on it, and a third
run that meets what an interrupted one left; two are a retry after a crash, a rotation
that wraps (2 copies of 3 sets) and two groups at once.  Three set ids give a cycle in
which a renumbering fails and an id is reused; three disks are needed for a set that loses
one that is neither its active one nor its first; the constraint `FewAtATime` takes two
groups with two sets, one group with three, and one group with two sets of three disks
(the third while a session runs or a disk is being deregistered, not both) in turn, for
their product is out of reach.  Two streams and one visitor are an index saved
over a newer one; two bundles of which one is kept are a pruning.  A chain of three runs
has a first, a middle and a last to lose, and two volumes can each belong to the other's
set.  Two groups, four changes and a crash create a task, run it, and take it back twice.
Two disks and two names are enough to swap; two tasks to race; a journal of two and four
entries to wrap.  `PlanPool` is only asked for when nothing else has happened, because it
shares nothing with the rest.

Deadlock is checked in `registry`, which can always move; in the other runs it is off: once the bounds on
sessions, requests and faults are used up, the system idles.

Fairness.  `progress`: weak fairness of each session's next step, because the event loop
runs every ready coroutine and every command has a timeout; and of recovery, because the
unit file written by `build.sh` restarts the service (`Restart=always`) and recovery
precedes serving.  `WorkerDies` is off there: a worker that dies leaves its session row
running until the next restart (listed as a hazard).  `monitor`: weak fairness of `Boot`
for the same reason, of the poll, a loop of the event loop, and of `Delivered`, since a
delivery has a timeout.  No fairness is assumed of users, of successful commands, of
messages that get through, or of crashes.

### Disagreements between the code and what it says

`orphan_task` is a run: `main.py:43` promises that the reconciliation at startup removes
"a job whose group is gone".  Once a task has run, its history refers to its row without a
cascade, so `delete_task` raises after taking the job away; the row stays, the request
that deleted the group answers with an error, and the next start fails in its lifespan.

The following were met while modelling.  The models contain them as they are in the code; the
properties are stated so as not to claim what the code does not do.

| what | the code | what it says |
|---|---|---|
| Recycling is said to spare what the session wrote, but the wipe deletes the run's own row, so that the guard does not see what is written after it. | `managers/zfs_backup_manager.py:1031` | `services/backup_group_service.py:1061` |
| `full_anchor` is the oldest full of the set, not the one the chain starts from. | `managers/zfs_backup_manager.py:1346` | the same, `:1335` |
| A bundle is captured after the unmount, below the bare mount point. | `managers/backup_manager.py:41` | `docs/backup.md:42` |
| Deleting the active set leaves the pointer dangling when `_renumber` raises. | `services/backup_group_service.py:290` | `models/backup_zfs.py:22` |
| `detach_disk` clears the membership first, so that deregistering finds no set to realign; nor does it when the disk was moved while it waited for the umount. | `services/backup_group_service.py:368` | `managers/zfs_backup_manager.py:976` |
| Adding and removing datasets does not reconcile: a group that gets its first dataset has no task, and one that loses its last keeps its tasks, until some group is saved or deleted or the program starts. | `services/backup_group_service.py:214`, `:224` | the same, `:737` |
| The row of a task whose deletion failed stays without its job; enabled again with the same cron, the group does not run before the next start. | `services/backup_group_service.py:772` | the same, `:737` |
| Only media of the set whose manifest could be read, on disks no imported pool has a partition of, are kept from being offered for a pool; media of other sets never are. | `services/system_restore.py:424` | the same, `:413`, `:478` |
| `smb.conf` is opened for writing in place, so a write that fails or is cut leaves a region without its end, in which no share is found any more. | `managers/smb_manager.py:263` | the same, `:213` |
| Changing one share renders the other managed shares anew as read-write. | `managers/smb_manager.py:246` | the same, `:215` |

Promised nowhere, and only noted: a pruning whose `zfs list` fails is skipped silently, and
what it would have taken stays until a later one; the needs-disk flag says how the newest
session ended only until a request (activating or deleting a set, deregistering a disk)
changes it; a dataset of two groups breaks `ReferencedKept` when two
snapshots of it fall in the same second (the failed one's handler destroys the other's), so
`spanning` gives each dataset to one group; a destroyed pool leaves its root's own share behind; `create_pool`
takes a declared backup disk that is not mounted; two overlapping `start_restore` both get
past the test for a running job; concurrent alerts of one key are all sent; a failed flush
is not rolled back, so samples may be stored twice.

## 4. Proofs

TLAPS proves the following for all values of the constants that satisfy the modules'
assumptions.  `TopologyAssumption`: cycles are non-empty sequences of distinct sets, no set
is in two groups, no disk in two sets.  `BoundAssumption`, `RegistryAssumption`,
`ManifestAssumption`, `ScheduleAssumption`, `ClaimAssumption`, `MonitoringAssumption`, `ShareAssumption`:
bounds are naturals, finite things are finite, `None` is none of the values it stands
beside and no pool is a number.  `RestoreAssumption`: every history is one that writers
could have left, and `None` is no set of places of one.  `NoneAssumption`, `NoTaskAssumption`, `NoRowAssumption`: `None` is not a record.

- `BackupCycle_proofs!TypeCorrect`.  `TypeOK` is not inductive: `CurSet(g)` and the row of
  the current run are only defined where the locals index something, and the next set is
  only a set if the active one is in the group's cycle.  `TypeInv` adds both (`JobOK`: what
  a worker's locals index at each stage), and one lemma per action preserves it.
- `FinishedRunsCorrect`, from `TypeInv` and `OutcomeInv`: a worker past its start has the row
  of its session, and only a group that recycles gets as far as wiping a disk.  Every step of a worker leaves each
  run alone but its own and, in a recycling, those of the disk wiped.
- `PlanIntactCorrect` and `HealedCorrect`: a group with a plan is running, and a running
  group's sets can only be added to.  They rest on a lemma that the rank of a set in its
  cycle is a bijection onto the places, so that the plan is made of sets of the group.
- `RunningIsDrivenCorrect`, if no worker dies of a timeout outside the `try` of
  `backup_dataset` (`"death" \notin Faults`).  `RunInv` says where a worker stands and what
  its row says by then, and that no two workers write one row; `Driven` that a running
  row is the row of a worker inside its run.  Each action that leaves a run gives its row
  an outcome first.
- `ReferencedKeptCorrect`, where no dataset belongs to two groups (`Exclusive`; without it
  the property is false, see above).  Three kinds of destruction are separated: a run
  that destroys its own snapshot has one no success names, what pruning picks is
  outside the newest successes of every set, and the recovery destroys the snapshots of
  leftovers only.  `SnapInv` carries these facts with the base and anchor a run resolved;
  a second the clock has passed is never handed out again (`Past`).
- `StoredOnMediumCorrect`, where nothing is recycled (`Recycling = {}`; a recycling erases the
  disk one step before it deletes the rows).  `FileInv`: from the end of the transfer to the
  commit, the stream on the disk is that of the worker's row.
- `SuccessMeansRestorableCorrect`, where nothing is recycled, from `FileInv` and `ReplayInv`:
  an incremental that succeeded follows the newest success of its set and dataset before it
  (`Follows`, which a worker has from the resolution of its anchor to its commit), since the
  row under way is the newest of its group's sets; so the oldest success is a full, and from
  the newest full on each builds on the one before.  And while no failure is counted, what a
  session has passed has a copy in its set (`CoverOK`): its own, or the one a skip relied on.
- `SetsKeepChainsCorrect`, the refinement, where nothing is recycled and no dataset belongs to
  two groups.  Every step of a session is a step of `SetChain` or leaves log and pool
  alone: a commit stores (`CommitStores`: `Follows` gives the entry it builds on, and the
  run under way is the newest of its set and dataset), an error between the commit and the
  manifest takes the newest back (`ErrorTakesBack`), and what is destroyed is what `SnapInv`
  tells apart from the referenced.  `FullInv` adds that the row of a run being written has
  the type the worker decided.
- `LeftoversPrunedCorrect`, on the same two hypotheses and that `zfs destroy` is never refused
  (`"busy" \notin Faults`): the snapshot of a run is the newest of its dataset (`ClockOK`) and
  its row names it, so that of the newest two, which pruning spares, one at most is named by
  nothing; the list it works through has all the others (`LeftInv`).  No other worker
  touches the dataset meanwhile.  The property is about the end of a pruning that could list
  the pool; prunings that could not may come before it.
- `RotationIsLRUCorrect`: what a session will rotate past is what `TargetSets` gives until
  it rotates, since only a rotation moves the active set and the group lock keeps the others
  out; and no set of a group was used after its newest session (`RotationInv`).  The
  remainder of a division is unfolded once (`Modulo`), then only compared with places.
- `RealignedCorrect`, a property of steps: for each request, and each half of those that wait, a
  set that aimed at one of its disks does so afterwards, or the step is one of the three of
  `Unaligned`.  It takes the first of the disks left, so it has none only when none is left,
  and then the group's flag is set in the same transaction.
- `CycleOrderCorrect` and `ActiveDiskCorrect`, two properties of steps, from the invariant of
  the registry alone.  A set that comes before another has the lower rank (`RankOrders`), so
  that `_renumber` keeps the order of any two whether or not it fails; creating, deleting and
  moving a set hand it rows that differ from the table's in the set moved only
  (`Renumbers`), and no other step moves a set.  A realignment that finds the active disk
  among those left returns it, a declaration gives only a set without one its disk.
- `RecordedIsFound`, `NewestBundleStays`, `NoSaveForgets`: what is recorded has its sidecar
  on the volume; only the writer adds sidecars, so what it scanned covers them until it
  saves, and a rebuild holds nothing but sidecars (`HeldOK`).  No directory is newer than the
  clock (`KeptOK`), so the bundle being captured is the newest of all, and it prunes only once its sidecar is written.
- `WantedStays` and `UnwantedGoes`: `JobsOK` (a job runs by the cron of its row) and
  `RowsServed` (a row without a job is one the trigger refuses, or is `stripped`) survive
  every step; a reconciliation creates before it deletes, so that what raises comes after
  what is wanted, and leaves exactly the desired rows when nothing raises.  Between two
  reconciliations only changes of datasets disturb that, for the groups in `touched`
  (`Wanted`, `Clean`).
- `InUseIsIntact`, `OneDeclares`, `CurrentIsErased`: what is mounted has a filesystem and
  what is imported a pool (`MountedOK`), so the kernel's refusal covers both; a pending
  declaration has one task (`PendingOK`); a kernel name names one disk at a time, and a
  task that is `sure` has the name of its own (`NamesOK`).
- `SamplesStay` and `NewestStay`: the ids of the journal are the interval that its size, the
  last clear and the retention leave (`JournalInv`); a sample is recorded in the step that
  buffers it, and leaves the buffer only for the rows or with the history (`SampleInv`).
- `ServedIsConfiguredCorrect` and `PoolTakesSharesCorrect`: every write of the region is
  followed by a reload of the same request, unless it failed or a crash came between (then
  `loaded` is false), and a reload reads the file of that moment.  Only a fault leaves the
  region without its end (`Whole`), so a destruction in which nothing failed finds the shares.
  Once a destruction has dealt with the shares, what is left was created or shared since
  (`Cleared`), unless a command failed.  `PoolShares_proofs!TypeCorrect` states that datasets
  hang together; for that the root must stay as long as any dataset (`Places`), which holds
  since no request to destroy a dataset is let in for the root and what is under a child
  leaves it out (`UnderClosed`), and a request that adds a share must have found the server
  (`Asked`).
- `SuccessHoldsChainCorrect`, for any history and any number of overlapping restores: what a
  worker chose is the chain of the volumes it saw (`ChainsOK`), the runs it has yet to
  receive are the later ones of it and the target holds the others (`HandOK`), and nothing
  is missing between the snapshots of a target (`TargetsOK`), since `zfs receive` takes an
  incremental only on its base.
- `RunningIsWorkedCorrect`, also for overlapping restores: a worker takes the newest job for
  its own, so that two that were let in together may hold the same one, and the first of
  them to end ends it; before its task begins a request has none (`OwnInv`).
- `FailureHasCauseCorrect`, for one request at a time (`SoleRequest`: the code means to refuse
  a second, and of two that overlap the later to reach a dataset finds the snapshots of the
  other in its target, which makes the property false): a worker that nothing disturbed has mounted
  what holds its chain, and received all before what it waits for (`UndisturbedOK`).
- `MappingIsSoundCorrect`: a plan is characterised place by place (`PlanIs`).  That the
  recursive function of a plan is defined, and that it is that plan, is an induction over
  places, done without the library's induction theorem: a set of places where it fails
  would have a least element, and has none (`SmallestNat`, from well-foundedness).

The hypotheses that remain are needed.  With a group that recycles, TLC refutes
`StoredOnMedium` (the disk is wiped a step before its rows go, and stays wiped if the format
fails), `SuccessMeansRestorable` and `LeftoversPruned` (the row of the run being retried goes
with the others of the disk, so that a session may end in success with a copy no row names),
and `FailureHasCause` with two requests at once; a dying worker leaves a run `running`.

Every property the passing runs check has its theorem but the two of liveness (`SessionEnds`,
`TroubleIsReported`): liveness under fairness is out of the reach of the prover.

## 5. Not modelled

Task status, the command runner, the HTTP API with authentication and wiring, and the user
interface have no state that a property could be about; their inputs and outcomes are the
choices of the models.

In the components that are modelled in part, left out are: of the engine, waking disks by
software, size estimates and the deletion of streams; of bundles, their contents and the
restore of a configuration over the running database; of disks, the stopping of software
RAID before a declaration, the wipe of a recycling as a taker of disks in `DiskClaims` (it is in
`BackupCycle`), SMART and the layout of partitions; of pools, vdev changes, properties, scrubs and snapshots by hand; of shares,
directories, options, client networks and a `smb.conf` that cannot be read; of alerts, the
one on a scan that ended with errors; the command log; rates and queries of metrics;
editing a task by hand.

Nowhere: sizes, labels, paths, notes; nested datasets in a backup (a `destroy -r` of a
parent's snapshot takes a child's with it); changes of `copies`, of the dataset list or of
a disk's settings during a session; more than one process.

## 6. Plan

1. A weaker promise that a session with a recycling group keeps, with its proof.
2. Two overlapping restores, with a property that says what may still make one fail.
3. The command log and a configuration's restore.
