------------------------------ MODULE PoolShares ------------------------------
(***************************************************************************)
(* A pool, its datasets and their NFS and SMB shares, from creation to     *)
(* destruction.                                                            *)
(*   services/destruction.py   destroy_pool, destroy_dataset               *)
(*   managers/zfs_manager.py   create_pool, list_pools, create_dataset     *)
(*   managers/nfs_manager.py   the sharenfs property and the exports       *)
(*   managers/smb_manager.py   the region of smb.conf, and what smbd loaded*)
(*                                                                         *)
(* Requests interleave between external commands.  sharenfs is taken per   *)
(* dataset (what a child inherits is not modelled).                        *)
(***************************************************************************)
EXTENDS Naturals, FiniteSets

CONSTANTS
  Root,       \* the pool's root dataset
  Children,   \* names of the other datasets
  Parent,     \* Parent[d] for each of Children
  Tasks,      \* bound: concurrent requests
  MaxFaults,  \* bound: commands and writes that fail, crashes
  MaxClients, \* bound: connections
  MaxAsks,    \* bound: requests about shares and destructions
  None

Datasets == {Root} \cup Children

\* A running request: locals of its handler.
TaskRow == [kind : {"share", "pool", "dataset"}, of : Datasets,
            step : {"write", "reload", "unexport", "unshare", "unmount", "destroy"},
            row : BOOLEAN, all : BOOLEAN, access : {"rw", "ro", None},
            since : SUBSET Datasets]

ASSUME ShareAssumption ==
  /\ Root \notin Children /\ IsFiniteSet(Children)
  /\ Parent \in [Children -> Datasets]
  /\ MaxFaults \in Nat /\ MaxClients \in Nat /\ MaxAsks \in Nat
  /\ None \notin TaskRow

VARIABLES
  present,   \* the servers installed: "nfs", "smb"
  exists,    \* datasets in ZFS; with the root, the pool is imported
  row,       \* there is a Pool row
  mounted,   \* mounted datasets
  nfs,       \* datasets with sharenfs set
  exported,  \* the kernel's exports
  conf,      \* conf[d]: "rw", "ro" or None in the managed region of smb.conf
  served,    \* served[d]: the same as smbd loaded it
  torn,      \* the region has no end: NAZMan finds no share in it any more
  loaded,    \* history: since the last reload that succeeded none failed, and none
             \* was left out after a write that failed, or by a crash
  clients,   \* connections: <<"nfs" or "smb", dataset>>
  task,      \* task[t]: a running request, or None
  faults, asks

zfs == <<exists, row, mounted>>
shares == <<present, nfs, exported, conf, torn, served, loaded>>
vars == <<zfs, shares, clients, task, faults, asks>>

\* d and what is under it: the datasets of every set that holds d and, with a
\* dataset, its children.
Closed(D) == \A x \in Children : Parent[x] \in D => x \in D
Under(d) == { x \in Datasets : \A D \in SUBSET Datasets : d \in D /\ Closed(D) => x \in D }

Step(t, k, s) == task[t] # None /\ task[t].kind = k /\ task[t].step = s
Goto(t, s) == task' = [task EXCEPT ![t].step = s]
End(t) == task' = [task EXCEPT ![t] = None]
Fault == faults < MaxFaults /\ faults' = faults + 1
Ask == asks < MaxAsks /\ asks' = asks + 1

NewTask(k, d, s) ==
  [kind |-> k, of |-> d, step |-> s, row |-> FALSE, all |-> FALSE,
   access |-> None, since |-> {}]

-----------------------------------------------------------------------------
(* Pools and datasets *)

\* History: d is new, or newly shared, to the pool's running destructions.
Noted(T, d) ==
  [t \in Tasks |-> IF T[t] # None /\ T[t].kind = "pool"
                   THEN [T[t] EXCEPT !.since = @ \cup {d}] ELSE T[t]]

\* create_pool: a stale row goes first.  A later zpool add that fails leaves
\* the pool without a row.
CreatePool ==
  /\ Root \notin exists
  /\ exists' = {Root} /\ mounted' = {Root}
  /\ \/ row' = TRUE /\ UNCHANGED faults
     \/ row' = FALSE /\ Fault
  /\ UNCHANGED <<shares, clients, task, asks>>

ListPools ==
  /\ Root \in exists /\ ~row
  /\ row' = TRUE
  /\ UNCHANGED <<exists, mounted, shares, clients, task, faults, asks>>

CreateDataset(d) ==
  /\ row /\ d \notin exists /\ Parent[d] \in exists
  /\ exists' = exists \cup {d} /\ mounted' = mounted \cup {d}
  /\ task' = Noted(task, d)
  /\ UNCHANGED <<row, shares, clients, faults, asks>>

-----------------------------------------------------------------------------
(* NFS *)

\* install_server of either manager; nothing is undone when a step fails.
InstallServer(s) ==
  /\ s \notin present
  /\ present' = present \cup {s}
  /\ UNCHANGED <<zfs, nfs, exported, conf, torn, served, loaded, clients, task, faults, asks>>

\* Mutant of SetExport: without asking for the server.
SetExportAbsent(d) ==
  /\ Ask
  /\ d \in exists
  /\ nfs' = nfs \cup {d} /\ exported' = exported \cup {d}
  /\ UNCHANGED <<present, zfs, conf, torn, served, loaded, clients, task, faults>>

\* set_export with options, or without: re-share with the stored ones.
SetExport(d) ==
  /\ Ask
  /\ d \in exists /\ "nfs" \in present
  /\ nfs' = nfs \cup {d} /\ exported' = exported \cup {d}
  /\ UNCHANGED <<present, zfs, conf, torn, served, loaded, clients, task, faults>>

\* set_export with enabled = False keeps the options.
PauseExport(d) ==
  /\ Ask
  /\ d \in exported /\ exported' = exported \ {d}
  /\ UNCHANGED <<present, zfs, nfs, conf, torn, served, loaded, clients, task, faults>>

DeleteExport(d) ==
  /\ Ask
  /\ d \in nfs
  /\ nfs' = nfs \ {d} /\ exported' = exported \ {d}
  /\ UNCHANGED <<present, zfs, conf, torn, served, loaded, clients, task, faults>>

-----------------------------------------------------------------------------
(* SMB *)

\* What list_shares answers.
Managed(d) == IF torn THEN None ELSE conf[d]

\* _rewrite_region, once for each of D, from a file that holds c: the other managed
\* shares are rendered anew, as read-write.  Around a region without an end it only
\* adds one more, so that smbd finds what was there, and of D the old or the new.
Rewrites(c, D, a) ==
  IF torn THEN { [x \in Datasets |-> IF x \in S THEN a ELSE c[x]] : S \in SUBSET D }
  ELSE { [x \in Datasets |-> IF x \in D THEN a
                             ELSE IF c[x] = None \/ D = {} THEN c[x] ELSE "rw"] }

\* The file cannot be opened, or it is cut: what was to be written stays in part
\* (a block that is cut short counts as there or not), in general without its end.
WriteFails(old, new) ==
  /\ Fault
  /\ \/ conf' = old /\ UNCHANGED torn
     \/ \E kept \in SUBSET Datasets :
          /\ conf' = [x \in Datasets |-> IF x \in kept THEN new[x] ELSE None]
          /\ torn' \in (IF torn \/ kept \in {{}, Datasets} THEN BOOLEAN ELSE {TRUE})
  /\ loaded' = (loaded /\ conf' = conf)

\* set_share, or delete_share (access None), only while the dataset exists; the
\* region is written an await later.
StartShare(t, d, a) ==
  /\ Ask
  /\ task[t] = None /\ d \in exists
  /\ a # None => "smb" \in present
  /\ task' = [task EXCEPT ![t] = [NewTask("share", d, "write") EXCEPT !.access = a]]
  /\ UNCHANGED <<zfs, shares, clients, faults>>

\* A write that fails ends the request without a reload.
WriteShare(t) ==
  LET new == Rewrites(conf, {task[t].of}, task[t].access)
  IN /\ Step(t, "share", "write")
     /\ \/ /\ conf' \in new /\ UNCHANGED <<torn, loaded, faults>>
           /\ task' = [Noted(task, task[t].of) EXCEPT ![t].step = "reload"]
        \/ \E c \in new : WriteFails(conf, c) /\ End(t)
     /\ UNCHANGED <<present, zfs, nfs, exported, served, clients, asks>>

\* _reload: smbd reads the file as it is by now.
Reloaded ==
  \/ served' = conf /\ loaded' = TRUE /\ UNCHANGED faults
  \/ loaded' = FALSE /\ Fault /\ UNCHANGED served

ReloadShare(t) ==
  /\ Step(t, "share", "reload")
  /\ Reloaded /\ End(t)
  /\ UNCHANGED <<present, zfs, nfs, exported, conf, torn, clients, asks>>

-----------------------------------------------------------------------------
(* destroy_pool *)

\* Where clients of datasets D are looked for; showmount goes by path prefix.
NfsSeen(D) == { c \in clients : c[1] = "nfs" /\ \E d \in D : c[2] \in Under(d) }
SmbSeen(D) == { c \in clients : c[1] = "smb" /\ c[2] \in D }

\* _pool_destroy_obstacles: the root is probed only when it is alone.
PoolProbe == IF exists = {Root} THEN {Root} ELSE exists \ {Root}

StartDestroyPool(t) ==
  /\ Ask
  /\ task[t] = None /\ Root \in exists
  /\ NfsSeen(PoolProbe) \cup SmbSeen(PoolProbe) = {}
  /\ task' = [task EXCEPT ![t] =
       [NewTask("pool", Root, IF row THEN "unexport" ELSE "unmount")
          EXCEPT !.row = row]]
  /\ UNCHANGED <<zfs, shares, clients, faults>>

\* unexport_pool passes over what fails.
Unexport(t) ==
  /\ Step(t, "pool", "unexport")
  /\ \E kept \in SUBSET nfs :
       /\ IF kept = {} THEN UNCHANGED faults ELSE Fault
       /\ nfs' = kept /\ exported' = exported \cap kept
  /\ Goto(t, "unshare")
  /\ UNCHANGED <<present, zfs, conf, torn, served, loaded, clients, asks>>

\* Mutant of UnshareStep: the file is written, smbd is not told.
UnshareStepQuiet == "unmount"

\* After the region is rewritten smbd reloads it.
UnshareStep == "reload"

\* Mutant of PoolSets: the pool's own children only.
PoolSetsFlat == { x \in exists \ {Root} : Parent[x] = Root }

\* list_filesystem_names of a pool leaves the root out.
PoolSets == exists \ {Root}

\* unshare_pool: the region without the pool's datasets, taken out one by one.  When
\* the list or one of the writes fails destroy_pool passes over it, and smbd is not
\* told of what was taken out before.
Unshare(t) ==
  /\ Step(t, "pool", "unshare")
  /\ \/ PoolSets = {} /\ UNCHANGED <<conf, torn, loaded, faults>> /\ Goto(t, "unmount")
     \/ /\ PoolSets # {} /\ UNCHANGED <<torn, loaded, faults>>
        /\ conf' \in Rewrites(conf, PoolSets, None)
        /\ Goto(t, UnshareStep)
     \/ Fault /\ UNCHANGED <<conf, torn, loaded>> /\ Goto(t, "unmount")
     \/ \E d \in PoolSets : \E done \in SUBSET (PoolSets \ {d}) :
          \E old \in Rewrites(conf, done, None) : \E new \in Rewrites(old, {d}, None) :
            WriteFails(old, new) /\ Goto(t, "unmount")
  /\ UNCHANGED <<present, zfs, nfs, exported, served, clients, asks>>

ReloadPool(t) ==
  /\ Step(t, "pool", "reload")
  /\ Reloaded /\ Goto(t, "unmount")
  /\ UNCHANGED <<present, zfs, nfs, exported, conf, torn, clients, asks>>

\* _unmount_names: forced, one by one; the first that is refused ends it.
Unmount(t, D) ==
  \/ /\ mounted' = mounted \ D
     /\ clients' = { c \in clients : c[2] \notin D }
     /\ Goto(t, "destroy") /\ UNCHANGED faults
  \/ \E done \in SUBSET (mounted \cap D) :
       /\ done # mounted \cap D /\ Fault
       /\ mounted' = mounted \ done
       /\ clients' = { c \in clients : c[2] \notin done }
       /\ End(t)

UnmountPool(t) ==
  /\ Step(t, "pool", "unmount")
  /\ Unmount(t, exists)
  /\ UNCHANGED <<exists, row, shares, asks>>

\* What is destroyed takes its properties, exports and connections along.
Gone(D) ==
  /\ exists' = exists \ D /\ mounted' = mounted \ D
  /\ nfs' = nfs \ D /\ exported' = exported \ D
  /\ clients' = { c \in clients : c[2] \notin D }

\* The row is deleted only after zpool destroy succeeded.
DestroyPool(t) ==
  /\ Step(t, "pool", "destroy")
  /\ \/ /\ Root \in exists /\ Gone(exists) /\ UNCHANGED faults
        /\ row' = (row /\ ~task[t].row)
     \/ /\ IF Root \in exists THEN Fault ELSE UNCHANGED faults
        /\ UNCHANGED <<exists, row, mounted, nfs, exported, clients>>
  /\ End(t)
  /\ UNCHANGED <<present, conf, torn, served, loaded, asks>>

-----------------------------------------------------------------------------
(* destroy_dataset *)

\* NFS clients anywhere under it, and its own SMB share and connections, refuse.
StartDestroyDataset(t, d, all) ==
  /\ Ask
  /\ task[t] = None /\ d \in exists \ {Root}
  /\ NfsSeen({d}) \cup SmbSeen({d}) = {} /\ Managed(d) = None
  /\ task' = [task EXCEPT ![t] =
       [NewTask("dataset", d, "unmount") EXCEPT !.all = all]]
  /\ UNCHANGED <<zfs, shares, clients, faults>>

UnmountDataset(t) ==
  /\ Step(t, "dataset", "unmount")
  /\ Unmount(t, IF task[t].all THEN Under(task[t].of) ELSE {task[t].of})
  /\ UNCHANGED <<exists, row, shares, asks>>

\* Without -r ZFS refuses a dataset with children.
DestroyDataset(t) ==
  LET D == Under(task[t].of) IN
  /\ Step(t, "dataset", "destroy")
  /\ \/ /\ task[t].of \in exists
        /\ task[t].all \/ D \cap exists \subseteq {task[t].of}
        /\ Gone(D) /\ UNCHANGED faults
     \/ /\ Fault
        /\ UNCHANGED <<exists, mounted, nfs, exported, clients>>
     \/ /\ \/ task[t].of \notin exists
           \/ ~task[t].all /\ ~(D \cap exists \subseteq {task[t].of})
        /\ UNCHANGED <<exists, mounted, nfs, exported, clients, faults>>
  /\ End(t)
  /\ UNCHANGED <<present, row, conf, torn, served, loaded, asks>>

-----------------------------------------------------------------------------
(* Clients *)

Connect(c) ==
  /\ Cardinality(clients) < MaxClients
  /\ c \notin clients /\ c[2] \in mounted
  /\ c[1] = "nfs" => c[2] \in exported
  /\ c[1] = "smb" => served[c[2]] # None
  /\ clients' = clients \cup {c}
  /\ UNCHANGED <<zfs, shares, task, faults, asks>>

Disconnect(c) ==
  /\ c \in clients /\ clients' = clients \ {c}
  /\ UNCHANGED <<zfs, shares, task, faults, asks>>

\* Requests die with the process.  In the middle of a write that is a write which
\* fails, and a crash.
Crash ==
  /\ Fault
  /\ task' = [t \in Tasks |-> None]
  /\ loaded' = (loaded /\ \A t \in Tasks : task[t] # None => task[t].step # "reload")
  /\ UNCHANGED <<zfs, present, nfs, exported, conf, torn, served, clients, asks>>

Init ==
  /\ exists = {} /\ row = FALSE /\ mounted = {}
  /\ present = {} /\ nfs = {} /\ exported = {}
  /\ conf = [d \in Datasets |-> None] /\ torn = FALSE
  /\ served = conf /\ loaded = TRUE
  /\ clients = {} /\ task = [t \in Tasks |-> None] /\ faults = 0 /\ asks = 0

Destruction(t) ==
  \/ StartDestroyPool(t) \/ Unexport(t) \/ Unshare(t) \/ ReloadPool(t)
  \/ UnmountPool(t) \/ DestroyPool(t)
  \/ UnmountDataset(t) \/ DestroyDataset(t)
  \/ \E d \in Children, all \in BOOLEAN : StartDestroyDataset(t, d, all)

Sharing(t) ==
  \/ WriteShare(t) \/ ReloadShare(t)
  \/ \E d \in Datasets, a \in {"rw", "ro", None} : StartShare(t, d, a)

Next ==
  \/ CreatePool \/ ListPools \/ Crash
  \/ \E s \in {"nfs", "smb"} : InstallServer(s)
  \/ \E d \in Children : CreateDataset(d)
  \/ \E d \in Datasets : SetExport(d) \/ PauseExport(d) \/ DeleteExport(d)
  \/ \E t \in Tasks : Destruction(t) \/ Sharing(t)
  \/ \E c \in {"nfs", "smb"} \X Datasets : Connect(c) \/ Disconnect(c)

Spec == Init /\ [][Next]_vars

-----------------------------------------------------------------------------
(* Properties *)

\* Datasets hang together, what is mounted or exported exists, and nothing is
\* shared through a server that is not installed.
TypeOK ==
  /\ exists \subseteq Datasets /\ row \in BOOLEAN
  /\ \A d \in exists \ {Root} : Parent[d] \in exists
  /\ mounted \subseteq exists /\ nfs \subseteq exists /\ exported \subseteq nfs
  /\ conf \in [Datasets -> {"rw", "ro", None}]
  /\ served \in [Datasets -> {"rw", "ro", None}]
  /\ torn \in BOOLEAN /\ loaded \in BOOLEAN
  /\ nfs # {} => "nfs" \in present
  /\ (\E d \in Datasets : conf[d] # None) => "smb" \in present
  /\ clients \subseteq {"nfs", "smb"} \X Datasets
  /\ task \in [Tasks -> TaskRow \cup {None}]
  /\ faults \in 0..MaxFaults /\ asks \in 0..MaxAsks

\* When no request is at work on the shares smbd serves what smb.conf says, whichever
\* writes and reloads overlapped.  A reload that fails, a write that fails, which
\* unshare_pool follows with no reload of what it wrote before, and a crash between
\* the two leave smbd with what it had: only until the next reload that succeeds.
ServedIsConfigured ==
  loaded /\ (\A t \in Tasks : task[t] # None => task[t].step # "reload")
    => served = conf

\* A destroyed pool leaves no share of its datasets in smb.conf for a later
\* dataset of that name, if no command failed, the pool had its row, and the share
\* and the dataset were there when the request came.  The root's share does stay.
PoolTakesShares ==
  [][\A t \in Tasks :
       (Step(t, "pool", "destroy") /\ task[t].row /\ task'[t] = None /\ faults' = 0)
         => \A d \in Children \ task[t].since :
              d \in exists /\ d \notin exists' => conf'[d] = None]_vars

=============================================================================
