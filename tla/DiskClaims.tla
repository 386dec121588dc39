------------------------------ MODULE DiskClaims ------------------------------
(***************************************************************************)
(* Who takes a disk: the disk registry and its device map, declaration of  *)
(* backup disks, wiping, pools.                                            *)
(*   managers/zfs_backup_manager.py  declarations, mount, deregistration   *)
(*   managers/disk_manager.py        scan, wipe, disk rows                 *)
(*   utils/devices.py                the map from identity to kernel name  *)
(*   managers/zfs_manager.py         pool creation, import and export      *)
(*   services/system_restore.py      adoption of media                     *)
(*                                                                         *)
(* A step is what runs between two external commands: requests and the     *)
(* background declarations interleave there.  A disk stands for a whole    *)
(* disk (a declared partition slot is formatted in place, by by-id path).  *)
(***************************************************************************)
EXTENDS Naturals, FiniteSets

CONSTANTS
  Disks,     \* by-id identities
  Paths,     \* kernel names (/dev/sdX)
  Pools,     \* pool names
  Tasks,     \* bound: concurrent requests and background tasks
  MaxFs,     \* bound: filesystems made
  MaxPlugs,  \* bound: times a disk is unplugged or plugged in
  MaxEvents, \* bound: crashes, and disks marked dead
  None

ASSUME ClaimAssumption ==
  /\ MaxFs \in Nat /\ MaxPlugs \in Nat /\ MaxEvents \in Nat
  /\ None \notin Paths \cup Pools \cup Nat \cup {"pending", "failed"}
  /\ Pools \cap Nat = {}

VARIABLES
  port,      \* port[d]: the kernel name of the disk now, None if it is absent
  on,        \* on[d]: a filesystem, the pool it is a member of, or None
  mounted,   \* disks mounted at the mount point of their filesystem
  live,      \* imported pools
  path,      \* _device_map: path[d] as of the last scan
  listed,    \* status of the Disk row, "none" without one
  declared,  \* declared[d]: fs_uuid of the BackupDisk row, 0 without one
  pending,   \* _pending_declares: None, "pending" or "failed"
  task,      \* task[t]: a running request or declaration, or None
  scan,      \* disks seen by a scan that has not been written, or None
  current,   \* history: nothing moved since the last scan
  plugs, made, events

kernel == <<port, on, mounted, live>>
rows == <<listed, declared>>
vars == <<kernel, path, rows, pending, task, scan, current, plugs, made, events>>

Present(d) == port[d] # None
At(q) == { d \in Disks : port[d] = q /\ q # None }
\* The kernel refuses to open what a mount or an imported pool holds.
Held(d) == d \in mounted \/ on[d] \in live

-----------------------------------------------------------------------------
(* Scans: sync_disks_to_database *)

\* Mutant of Refreshed: the map is updated, not rebuilt.
RefreshedMerged(P, M) == [d \in Disks |-> IF P[d] = None THEN M[d] ELSE P[d]]

\* refresh_device_map: the map is rebuilt from what lsblk showed.
Refreshed(P, M) == P

ScanRead ==
  /\ path' = Refreshed(port, path)
  /\ scan' = { d \in Disks : Present(d) }
  /\ current' = TRUE
  /\ UNCHANGED <<kernel, rows, pending, task, plugs, made, events>>

\* Mutant of Unseen: rows of vanished disks are deleted.
UnseenDeleted(s) == "none"

\* A row whose disk was not seen is kept, dead or not.
Unseen(s) == IF s = "none" THEN "none" ELSE "removed"

\* _sync_write; what is not seen is removed, if anything is seen.
ScanWrite ==
  /\ scan # None /\ scan' = None
  /\ listed' = [d \in Disks |->
       IF d \in scan THEN IF listed[d] = "dead" THEN "dead" ELSE "active"
       ELSE IF scan # {} THEN Unseen(listed[d]) ELSE listed[d]]
  /\ UNCHANGED <<kernel, path, declared, pending, task, current, plugs, made, events>>

\* update_disk and resurrect_disk.
MarkDead(d) ==
  /\ listed[d] # "none" /\ events < MaxEvents /\ events' = events + 1
  /\ listed' = [listed EXCEPT ![d] = "dead"]
  /\ UNCHANGED <<kernel, path, declared, pending, task, scan, current, plugs, made>>

Resurrect(d) ==
  /\ listed[d] = "dead"
  /\ listed' = [listed EXCEPT ![d] = "active"]
  /\ UNCHANGED <<kernel, path, declared, pending, task, scan, current, plugs, made, events>>

\* drop_disk: not while the map has it, nor (foreign key) while it is declared.
DropDisk(d) ==
  /\ listed[d] # "none" /\ path[d] = None /\ declared[d] = 0
  /\ listed' = [listed EXCEPT ![d] = "none"]
  /\ UNCHANGED <<kernel, path, declared, pending, task, scan, current, plugs, made, events>>

-----------------------------------------------------------------------------
(* Declaration and wipe *)

\* sure: the map was current when the path was taken, and nothing moved since.
TaskRow == [kind : {"declare", "wipe"}, disk : Disks,
            step : {"new", "checked", "erased", "formatted", "registered"},
            path : Paths \cup {None}, sure : BOOLEAN, fs : 0..MaxFs]
ASSUME NoTaskAssumption == None \notin TaskRow

NewTask(k, d) == [kind |-> k, disk |-> d, step |-> "new", path |-> None,
                  sure |-> TRUE, fs |-> 0]
Step(t, k, s) == task[t] # None /\ task[t].kind \in k /\ task[t].step = s

\* Mutant of Declarable: only the table is asked.
DeclarableRow(d) == listed[d] # "none" /\ declared[d] = 0

\* The guards of start_declare_backup_disk.
Declarable(d) == listed[d] # "none" /\ declared[d] = 0 /\ pending[d] # "pending"

StartDeclare(t, d) ==
  /\ task[t] = None /\ Declarable(d)
  /\ pending' = [pending EXCEPT ![d] = "pending"]
  /\ task' = [task EXCEPT ![t] = NewTask("declare", d)]
  /\ UNCHANGED <<kernel, path, rows, scan, current, plugs, made, events>>

\* wipe_disk, partition_disk, recreate_partition_layout.
StartWipe(t, d) ==
  /\ task[t] = None /\ listed[d] # "none"
  /\ task' = [task EXCEPT ![t] = NewTask("wipe", d)]
  /\ UNCHANGED <<kernel, path, rows, pending, scan, current, plugs, made, events>>

\* _run_declare reports; a request answers with an error.
Fail(t) ==
  /\ task' = [task EXCEPT ![t] = None]
  /\ pending' = IF task[t].kind = "declare" /\ pending[task[t].disk] # None
                THEN [pending EXCEPT ![task[t].disk] = "failed"] ELSE pending

\* get_pool_members: the disks with a part in an imported pool, by by-id path.
PoolMembers == { d \in Disks : on[d] \in live }

\* pool_member_for_by_id: the disk or one of its partitions is in the map.
MemberOf(M, d) == d \in M

\* The pool check, then the path of the map.  When the pools cannot be read the
\* map of members is empty, and the check passes.
Check(t) ==
  LET d == task[t].disk IN
  /\ Step(t, {"declare", "wipe"}, "new")
  /\ \/ Fail(t)
     \/ /\ \E M \in {PoolMembers, {}} : ~MemberOf(M, d)
        /\ path[d] # None
        /\ task[t].kind = "declare" => declared[d] = 0
        /\ task' = [task EXCEPT ![t].step = "checked", ![t].path = path[d],
                                ![t].sure = current]
        /\ UNCHANGED pending
  /\ UNCHANGED <<kernel, path, rows, scan, current, plugs, made, events>>

\* Mutant of Erasable: wipefs is forced.
ErasableForced(D) == D # {}

\* wipefs and parted fail on what is held; so does _ensure_unused before them.
Erasable(D) == D # {} /\ \A d \in D : ~Held(d)

\* Whatever is at the kernel name by now is wiped.
Erase(t) ==
  LET D == At(task[t].path) IN
  /\ Step(t, {"declare", "wipe"}, "checked")
  /\ \/ Fail(t) /\ UNCHANGED on
     \/ /\ Erasable(D)
        /\ on' = [d \in Disks |-> IF d \in D THEN None ELSE on[d]]
        /\ task' = [task EXCEPT ![t] = IF @.kind = "wipe" THEN None
                                       ELSE [@ EXCEPT !.step = "erased"]]
        /\ UNCHANGED pending
  /\ UNCHANGED <<port, mounted, live, path, rows, scan, current, plugs, made, events>>

\* mkfs and blkid go by the by-id path of the first partition.
Format(t) ==
  LET d == task[t].disk IN
  /\ Step(t, {"declare"}, "erased")
  /\ \/ Fail(t) /\ UNCHANGED <<on, made>>
     \/ /\ Present(d) /\ ~Held(d) /\ made < MaxFs
        /\ on[d] # None \/ port[d] = task[t].path
        /\ made' = made + 1
        /\ on' = [on EXCEPT ![d] = made']
        /\ task' = [task EXCEPT ![t].step = "formatted", ![t].fs = made']
        /\ UNCHANGED pending
  /\ UNCHANGED <<port, mounted, live, path, rows, scan, current, plugs, events>>

\* The mount is not checked; the row is unique per disk and needs the Disk row.
Register(t) ==
  LET d == task[t].disk IN
  /\ Step(t, {"declare"}, "formatted")
  /\ mounted' = IF Present(d) /\ on[d] = task[t].fs THEN mounted \cup {d} ELSE mounted
  /\ IF declared[d] # 0 \/ listed[d] = "none"
     THEN Fail(t) /\ UNCHANGED declared
     ELSE /\ declared' = [declared EXCEPT ![d] = task[t].fs]
          /\ task' = [task EXCEPT ![t].step = "registered"]
          /\ UNCHANGED pending
  /\ UNCHANGED <<port, on, live, path, listed, scan, current, plugs, made, events>>

\* Seeded and unmounted; or the set is gone by now, and it is left mounted.
Finish(t) ==
  LET d == task[t].disk IN
  /\ Step(t, {"declare"}, "registered")
  /\ \/ /\ mounted' = mounted \ {d}
        /\ pending' = [pending EXCEPT ![d] = None]
        /\ task' = [task EXCEPT ![t] = None]
     \/ Fail(t) /\ UNCHANGED mounted
  /\ UNCHANGED <<port, on, live, path, rows, scan, current, plugs, made, events>>

-----------------------------------------------------------------------------
(* Declared disks *)

\* _probe_device: the disk is there, with the filesystem of its row.
Probed(d) == Present(d) /\ on[d] = declared[d]

Mount(d) ==
  /\ declared[d] # 0 /\ d \notin mounted /\ Probed(d)
  /\ mounted' = mounted \cup {d}
  /\ UNCHANGED <<port, on, live, path, rows, pending, task, scan, current, plugs, made, events>>

Unmount(d) ==
  /\ declared[d] # 0 /\ d \in mounted /\ on[d] = declared[d]
  /\ mounted' = mounted \ {d}
  /\ UNCHANGED <<port, on, live, path, rows, pending, task, scan, current, plugs, made, events>>

\* deregister_backup_disk keeps the data.
Deregister(d) ==
  /\ declared[d] # 0
  /\ declared' = [declared EXCEPT ![d] = 0]
  /\ mounted' = IF on[d] = declared[d] THEN mounted \ {d} ELSE mounted
  /\ UNCHANGED <<port, on, live, path, listed, pending, task, scan, current, plugs, made, events>>

\* adopt_media, for a volume found by scanning: it is mounted, then its row is
\* inserted, which fails if the disk is declared under another filesystem.
Adopt(d) ==
  /\ Present(d) /\ on[d] \in 1..MaxFs /\ listed[d] # "none"
  /\ declared[d] # on[d]
  /\ mounted' = mounted \cup {d}
  /\ declared' = IF declared[d] = 0 THEN [declared EXCEPT ![d] = on[d]] ELSE declared
  /\ UNCHANGED <<port, on, live, path, listed, pending, task, scan, current, plugs, made, events>>

-----------------------------------------------------------------------------
(* Pools *)

\* create_pool: by-id paths of listed disks; zpool create -f asks only the kernel.
CreatePool(p, D) ==
  /\ p \notin live
  /\ \A d \in D : listed[d] # "none" /\ Present(d) /\ ~Held(d)
  /\ on' = [d \in Disks |-> IF d \in D THEN p ELSE IF on[d] = p THEN None ELSE on[d]]
  /\ live' = live \cup {p}
  /\ UNCHANGED <<port, mounted, path, rows, pending, task, scan, current, plugs, made, events>>

ExportPool(p) ==
  /\ p \in live /\ live' = live \ {p}
  /\ UNCHANGED <<port, on, mounted, path, rows, pending, task, scan, current, plugs, made, events>>

ImportPool(p) ==
  /\ p \notin live /\ \E d \in Disks : on[d] = p
  /\ \A d \in Disks : on[d] = p => Present(d)
  /\ live' = live \cup {p}
  /\ UNCHANGED <<port, on, mounted, path, rows, pending, task, scan, current, plugs, made, events>>

-----------------------------------------------------------------------------
(* The machine *)

\* A disk that is not held is unplugged, or comes back at any free name.
Plug(d, q) ==
  /\ plugs < MaxPlugs /\ ~Held(d)
  /\ q # port[d] /\ At(q) = {} /\ (Present(d) => q = None)
  /\ port' = [port EXCEPT ![d] = q]
  /\ plugs' = plugs + 1 /\ current' = FALSE
  /\ task' = [t \in Tasks |-> IF task[t] = None THEN None ELSE [task[t] EXCEPT !.sure = FALSE]]
  /\ UNCHANGED <<on, mounted, live, path, rows, pending, scan, made, events>>

\* The process dies; mounts and pools do not.
Crash ==
  /\ events < MaxEvents /\ events' = events + 1
  /\ path' = [d \in Disks |-> None]
  /\ pending' = [d \in Disks |-> None]
  /\ task' = [t \in Tasks |-> None]
  /\ scan' = None
  /\ UNCHANGED <<kernel, rows, current, plugs, made>>

Init ==
  /\ port \in [Disks -> Paths \cup {None}]
  /\ \A d, e \in Disks : d # e /\ Present(d) => port[d] # port[e]
  /\ on = [d \in Disks |-> None] /\ mounted = {} /\ live = {}
  /\ path = port
  /\ listed = [d \in Disks |-> "active"] /\ declared = [d \in Disks |-> 0]
  /\ pending = [d \in Disks |-> None] /\ task = [t \in Tasks |-> None]
  /\ scan = None
  /\ current = TRUE /\ plugs = 0 /\ made = 0 /\ events = 0

Requests(t) == \E d \in Disks : StartDeclare(t, d) \/ StartWipe(t, d)
Work(t) == Check(t) \/ Erase(t) \/ Format(t) \/ Register(t) \/ Finish(t)

Next ==
  \/ ScanRead \/ ScanWrite \/ Crash
  \/ \E t \in Tasks : Requests(t) \/ Work(t)
  \/ \E d \in Disks :
       \/ MarkDead(d) \/ Resurrect(d) \/ DropDisk(d)
       \/ Mount(d) \/ Unmount(d) \/ Deregister(d) \/ Adopt(d)
       \/ \E q \in Paths \cup {None} : Plug(d, q)
  \/ \E p \in Pools :
       \/ \E D \in (SUBSET Disks) \ {{}} : CreatePool(p, D)
       \/ ExportPool(p) \/ ImportPool(p)

Spec == Init /\ [][Next]_vars

-----------------------------------------------------------------------------
(* Properties *)

MachineOK ==
  /\ port \in [Disks -> Paths \cup {None}]
  /\ on \in [Disks -> (1..MaxFs) \cup Pools \cup {None}]
  /\ mounted \subseteq Disks /\ live \subseteq Pools

RowsOK ==
  /\ listed \in [Disks -> {"none", "active", "removed", "dead"}]
  /\ declared \in [Disks -> 0..MaxFs]
  /\ \A d \in Disks : declared[d] # 0 => listed[d] # "none"

WorkOK ==
  /\ path \in [Disks -> Paths \cup {None}]
  /\ pending \in [Disks -> {None, "pending", "failed"}]
  /\ task \in [Tasks -> TaskRow \cup {None}]
  /\ scan \in (SUBSET Disks) \cup {None}

BoundsOK ==
  /\ current \in BOOLEAN /\ plugs \in 0..MaxPlugs
  /\ made \in 0..MaxFs /\ events \in 0..MaxEvents

\* Everything stays in its domain, and a declared disk keeps its Disk row, whatever a
\* scan sees.
TypeOK == MachineOK /\ RowsOK /\ WorkOK /\ BoundsOK

\* What a mount or an imported pool holds is never overwritten, by whichever
\* requests and declarations run at once: a check may be out of date when the
\* command runs, and the commands are run such that they fail then.
HeldIsIntact == [][\A d \in Disks : Held(d) => on'[d] = on[d]]_vars

\* A disk shown as pending has exactly one declaration at work, and no disk is
\* being formatted that is not shown.
PendingIsWorked ==
  \A d \in Disks :
    Cardinality({ t \in Tasks : task[t] # None /\ task[t].kind = "declare"
                                 /\ task[t].disk = d })
      = IF pending[d] = "pending" THEN 1 ELSE 0

Erases(t, d) ==
  Step(t, {"declare", "wipe"}, "checked") /\ task'[t] # task[t] /\ on'[d] # on[d]

\* If the last scan saw the disks as they are when a wipe takes its kernel name,
\* and none is moved before it is run, only the disk it was asked for is wiped:
\* not one that took the name of a disk that left before that scan.
ScannedIsErased ==
  [][\A t \in Tasks, d \in Disks :
       Erases(t, d) => task[t].disk = d \/ ~task[t].sure]_vars

=============================================================================
