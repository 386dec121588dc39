------------------------- MODULE PoolShares_proofs -------------------------
(***************************************************************************)
(* Proofs about PoolShares, for every tree of datasets and any number of   *)
(* overlapping requests: smbd serves what is configured, a destroyed pool  *)
(* takes its shares along, and datasets hang together.                     *)
(***************************************************************************)
EXTENDS PoolShares, TLAPS

TasksOK == task \in [Tasks -> TaskRow \cup {None}] /\ faults \in Nat

\* A destruction of a pool that has dealt with the shares left none, but for
\* what was created or shared since it was asked for.
Cleared(t) ==
  task[t] # None /\ task[t].kind = "pool" /\ task[t].row /\ faults = 0
    /\ task[t].step \in {"reload", "unmount", "destroy"}
    => \A d \in Children \ task[t].since : d \in exists => conf[d] = None

\* Only a write that failed leaves the region without an end.
Whole == faults = 0 => torn = FALSE

ShareInv == TasksOK /\ ServedIsConfigured /\ Whole /\ \A t \in Tasks : Cleared(t)

-----------------------------------------------------------------------------
(* Requests *)

LEMMA Stepped ==
  ASSUME TasksOK, NEW t \in Tasks, task[t] # None,
         NEW s \in {"write", "reload", "unexport", "unshare", "unmount", "destroy"}
  PROVE  LET r == [task[t] EXCEPT !.step = s]
         IN r \in TaskRow /\ r.step = s /\ r.kind = task[t].kind /\ r.row = task[t].row
              /\ r.since = task[t].since /\ r.of = task[t].of /\ r # None
<1>1. task[t] \in TaskRow
  BY DEF TasksOK
<1> QED
  BY <1>1, ShareAssumption DEF TaskRow

LEMMA NewTaskTyped ==
  ASSUME NEW k \in {"share", "pool", "dataset"}, NEW d \in Datasets,
         NEW s \in {"write", "unexport", "unmount"}
  PROVE  /\ NewTask(k, d, s) \in TaskRow
         /\ \A r, a \in BOOLEAN, x \in {"rw", "ro", None} :
              /\ [NewTask(k, d, s) EXCEPT !.row = r] \in TaskRow
              /\ [NewTask(k, d, s) EXCEPT !.all = a] \in TaskRow
              /\ [NewTask(k, d, s) EXCEPT !.access = x] \in TaskRow
BY DEF NewTask, TaskRow

\* Noting a dataset changes what a pool's destruction excuses, nothing else.
LEMMA NotedTyped ==
  ASSUME TasksOK, NEW d \in Datasets
  PROVE  /\ Noted(task, d) \in [Tasks -> TaskRow \cup {None}]
         /\ \A t \in Tasks :
              /\ task[t] = None <=> Noted(task, d)[t] = None
              /\ task[t] # None =>
                   /\ Noted(task, d)[t] \in TaskRow
                   /\ Noted(task, d)[t].kind = task[t].kind
                   /\ Noted(task, d)[t].step = task[t].step
                   /\ Noted(task, d)[t].row = task[t].row
                   /\ task[t].kind = "pool" => Noted(task, d)[t].since = task[t].since \cup {d}
<1>1. ASSUME NEW t \in Tasks, task[t] # None
      PROVE  /\ Noted(task, d)[t] \in TaskRow
             /\ Noted(task, d)[t].kind = task[t].kind
             /\ Noted(task, d)[t].step = task[t].step
             /\ Noted(task, d)[t].row = task[t].row
             /\ task[t].kind = "pool" => Noted(task, d)[t].since = task[t].since \cup {d}
  <2>1. task[t] \in TaskRow
    BY <1>1 DEF TasksOK
  <2>2. Noted(task, d)[t] = IF task[t].kind = "pool"
                             THEN [task[t] EXCEPT !.since = @ \cup {d}] ELSE task[t]
    BY <1>1 DEF Noted
  <2> QED
    BY <2>1, <2>2 DEF TaskRow
<1>2. \A t \in Tasks : task[t] = None => Noted(task, d)[t] = None
  BY DEF Noted
<1>3. \A t \in Tasks : Noted(task, d)[t] \in TaskRow \cup {None}
  BY <1>1, <1>2
<1>4. Noted(task, d) \in [Tasks -> TaskRow \cup {None}]
  BY <1>3 DEF Noted
<1> QED
  BY <1>1, <1>2, <1>4, ShareAssumption

\* The requests that no step of others can take from a stage.
Kept(t) ==
  \A u \in Tasks \ {t} : task'[u] = task[u]

-----------------------------------------------------------------------------
(* Steps that leave the shares and the datasets alone, or take datasets *)

\* The request t moves on from a stage other than a reload, to one of those
\* after the region was written only from one of those.
LEMMA StageMoves ==
  ASSUME ShareInv, TasksOK', NEW t \in Tasks, task[t] # None, task[t].step # "reload", Kept(t),
         conf' = conf, torn' = torn, served' = served, loaded' = loaded,
         exists' \cap Children \subseteq exists, faults <= faults',
         task'[t] # None =>
           /\ task'[t].kind = task[t].kind /\ task'[t].row = task[t].row
           /\ task'[t].since = task[t].since
           /\ task[t].kind = "pool" /\ task'[t].step \in {"reload", "unmount", "destroy"}
                => task[t].step \in {"reload", "unmount", "destroy"}
  PROVE  ShareInv'
<1>1. ServedIsConfigured'
  BY DEF ShareInv, ServedIsConfigured, Kept
<1>2. faults' = 0 => faults = 0
  BY DEF ShareInv, TasksOK
<1>3. ASSUME NEW u \in Tasks
      PROVE  Cleared(u)'
  BY <1>2 DEF ShareInv, Cleared, Kept
<1> QED
  BY <1>1, <1>2, <1>3 DEF ShareInv, Whole

\* No request moves.
LEMMA RequestsStay ==
  ASSUME ShareInv, task' = task, conf' = conf, torn' = torn, served' = served, loaded' = loaded,
         exists' \cap Children \subseteq exists, faults' \in Nat, faults <= faults'
  PROVE  ShareInv'
<1>1. faults' = 0 => faults = 0
  BY DEF ShareInv, TasksOK
<1> QED
  BY <1>1 DEF ShareInv, TasksOK, ServedIsConfigured, Whole, Cleared

LEMMA RequestStarts ==
  ASSUME ShareInv, NEW t \in Tasks, task[t] = None,
         NEW r \in TaskRow, task' = [task EXCEPT ![t] = r], r.step # "reload",
         r.kind = "pool" /\ r.row => r.step = "unexport",
         conf' = conf, torn' = torn, served' = served, loaded' = loaded, exists' = exists,
         faults' = faults
  PROVE  ShareInv'
<1>1. /\ task' \in [Tasks -> TaskRow \cup {None}] /\ task'[t] = r
      /\ \A u \in Tasks \ {t} : task'[u] = task[u]
  BY DEF ShareInv, TasksOK
<1>2. ServedIsConfigured'
  BY <1>1 DEF ShareInv, ServedIsConfigured
<1>3. ASSUME NEW u \in Tasks
      PROVE  Cleared(u)'
  BY <1>1 DEF ShareInv, Cleared
<1> QED
  BY <1>1, <1>2, <1>3 DEF ShareInv, TasksOK, Whole

\* Requests go on to stage s, or end.
LEMMA Went ==
  ASSUME TasksOK, NEW t \in Tasks, task[t] # None,
         NEW s \in {"write", "reload", "unexport", "unshare", "unmount", "destroy"}, Goto(t, s)
  PROVE  /\ task' \in [Tasks -> TaskRow \cup {None}] /\ Kept(t)
         /\ task'[t] # None /\ task'[t].step = s /\ task'[t].kind = task[t].kind
         /\ task'[t].row = task[t].row /\ task'[t].since = task[t].since
<1> DEFINE r == [task[t] EXCEPT !.step = s]
<1>1. /\ r \in TaskRow /\ r.step = s /\ r.kind = task[t].kind /\ r.row = task[t].row
      /\ r.since = task[t].since /\ r # None
  BY Stepped
<1>2. task' = [task EXCEPT ![t] = r]
  BY DEF Goto
<1> HIDE DEF r
<1> QED
  BY <1>1, <1>2 DEF TasksOK, Kept

LEMMA Ended ==
  ASSUME TasksOK, NEW t \in Tasks, End(t)
  PROVE  task' \in [Tasks -> TaskRow \cup {None}] /\ Kept(t) /\ task'[t] = None
BY DEF TasksOK, End, Kept

LEMMA FaultCounts ==
  ASSUME TasksOK, Fault
  PROVE  faults' \in Nat /\ faults <= faults' /\ faults' # 0
BY DEF TasksOK, Fault

LEMMA CreateKeeps ==
  ASSUME ShareInv, NEW d \in Children, CreateDataset(d)
  PROVE  ShareInv'
<1>1. /\ task' = Noted(task, d) /\ exists' = exists \cup {d} /\ d \in Datasets
      /\ conf' = conf /\ torn' = torn /\ served' = served /\ loaded' = loaded /\ faults' = faults
  BY DEF CreateDataset, shares, Datasets
<1>2. TasksOK'
  BY <1>1, NotedTyped DEF ShareInv, TasksOK
<1>3. ServedIsConfigured'
  BY <1>1, NotedTyped DEF ShareInv, ServedIsConfigured
<1>4. ASSUME NEW u \in Tasks
      PROVE  Cleared(u)'
  <2>1. CASE task'[u] # None /\ task'[u].kind = "pool"
    <3>1. /\ task[u] # None /\ task[u].kind = "pool" /\ task'[u].step = task[u].step
          /\ task'[u].row = task[u].row /\ task'[u].since = task[u].since \cup {d}
      BY <1>1, <2>1, NotedTyped DEF ShareInv
    <3> QED
      BY <1>1, <3>1 DEF ShareInv, Cleared
  <2> QED
    BY <2>1 DEF Cleared
<1> QED
  BY <1>1, <1>2, <1>3, <1>4 DEF ShareInv, Whole

\* A write that fails, of a request that does not reload.
LEMMA FailureKeeps ==
  ASSUME ShareInv, NEW t \in Tasks, task[t] # None, task[t].step # "reload", Kept(t),
         task' \in [Tasks -> TaskRow \cup {None}], task'[t] # None => task'[t].step # "reload",
         NEW old, NEW new, WriteFails(old, new), served' = served
  PROVE  ShareInv'
<1>1. faults' \in Nat /\ faults' # 0 /\ loaded' = (loaded /\ conf' = conf)
  BY FaultCounts DEF WriteFails, ShareInv
<1>2. ServedIsConfigured'
  BY <1>1 DEF ShareInv, ServedIsConfigured, Kept
<1> QED
  BY <1>1, <1>2 DEF ShareInv, TasksOK, Whole, Cleared

LEMMA CrashKeeps == ASSUME ShareInv, Crash PROVE ShareInv'
<1>1. /\ faults' \in Nat /\ faults' # 0 /\ \A t \in Tasks : task'[t] = None
      /\ task' \in [Tasks -> TaskRow \cup {None}]
  BY FaultCounts DEF Crash, ShareInv
<1>2. ServedIsConfigured'
  BY DEF Crash, ShareInv, ServedIsConfigured
<1> QED
  BY <1>1, <1>2 DEF ShareInv, TasksOK, Whole, Cleared

LEMMA WriteKeeps ==
  ASSUME ShareInv, NEW t \in Tasks, WriteShare(t), task'[t] # None
  PROVE  ShareInv'
<1> DEFINE d == task[t].of
           T == Noted(task, d)
<1>1. /\ task[t] \in TaskRow /\ task[t].kind = "share" /\ task[t] # None /\ d \in Datasets
  BY DEF WriteShare, Step, ShareInv, TasksOK, TaskRow
<1>2. /\ T \in [Tasks -> TaskRow \cup {None}] /\ T[t] \in TaskRow /\ T[t].kind = "share"
      /\ \A u \in Tasks :
           /\ task[u] = None <=> T[u] = None
           /\ task[u] # None =>
                /\ T[u].kind = task[u].kind /\ T[u].step = task[u].step /\ T[u].row = task[u].row
                /\ task[u].kind = "pool" => T[u].since = task[u].since \cup {d}
  BY <1>1, NotedTyped DEF ShareInv
<1>3. /\ task' = [T EXCEPT ![t].step = "reload"] /\ conf' \in Rewrites(conf, {d}, task[t].access)
      /\ exists' = exists /\ faults' = faults /\ torn' = torn
  <2>1. ~End(t)
    BY DEF End, ShareInv, TasksOK
  <2> QED
    BY <2>1 DEF WriteShare, zfs
<1> HIDE DEF T
<1>4. /\ task'[t] \in TaskRow /\ task'[t].step = "reload" /\ task'[t].kind = "share"
      /\ \A u \in Tasks \ {t} : task'[u] = T[u]
      /\ task' \in [Tasks -> TaskRow \cup {None}]
  <2>1. [T[t] EXCEPT !.step = "reload"] \in TaskRow
    BY <1>2 DEF TaskRow
  <2> QED
    BY <1>2, <1>3, <2>1 DEF TaskRow
<1>5. ServedIsConfigured'
  BY <1>4, ShareAssumption DEF ServedIsConfigured
<1>6. ASSUME NEW u \in Tasks, task'[u] # None, task'[u].kind = "pool", task'[u].row, faults' = 0,
             task'[u].step \in {"reload", "unmount", "destroy"},
             NEW e \in Children \ task'[u].since, e \in exists'
      PROVE  conf'[e] = None
  <2>1. u # t /\ task'[u] = T[u]
    BY <1>4, <1>6
  <2>2. /\ task[u] # None /\ task[u].kind = "pool" /\ task'[u].step = task[u].step
        /\ task'[u].row = task[u].row /\ task'[u].since = task[u].since \cup {d}
    BY <1>2, <1>6, <2>1
  <2>3. conf[e] = None
    BY <1>3, <1>6, <2>2 DEF ShareInv, Cleared
  <2>4. e # d /\ e \in Datasets
    BY <1>6, <2>2 DEF Datasets
  <2>5. torn = FALSE
    BY <1>3, <1>6 DEF ShareInv, Whole
  <2> QED
    BY <1>3, <2>3, <2>4, <2>5 DEF Rewrites
<1> QED
  BY <1>3, <1>4, <1>5, <1>6 DEF ShareInv, TasksOK, Whole, Cleared

LEMMA WriteEndKeeps ==
  ASSUME ShareInv, NEW t \in Tasks, WriteShare(t), task'[t] = None
  PROVE  ShareInv'
<1>1. task[t] # None /\ task[t].step = "write" /\ TasksOK /\ served' = served
  BY DEF WriteShare, Step, ShareInv
<1>2. \E c : WriteFails(conf, c) /\ End(t)
  <2> DEFINE T == Noted(task, task[t].of)
  <2>1. task[t].of \in Datasets
    BY <1>1 DEF TasksOK, TaskRow
  <2>2. T \in [Tasks -> TaskRow \cup {None}] /\ T[t] \in TaskRow
    BY <1>1, <2>1, NotedTyped
  <2> HIDE DEF T
  <2>3. [T[t] EXCEPT !.step = "reload"] # None
    <3>1. [T[t] EXCEPT !.step = "reload"] \in TaskRow
      BY <2>2 DEF TaskRow
    <3> QED
      BY <3>1, ShareAssumption
  <2>4. task' # [T EXCEPT ![t].step = "reload"]
    BY <2>2, <2>3
  <2> QED
    BY <2>4 DEF WriteShare, T
<1>3. task' \in [Tasks -> TaskRow \cup {None}] /\ Kept(t)
  BY <1>1, <1>2, Ended
<1> QED
  BY <1>1, <1>2, <1>3, FailureKeeps

LEMMA ReloadKeeps ==
  ASSUME ShareInv, NEW t \in Tasks, task[t] # None, task[t].step = "reload", Reloaded, Kept(t),
         task' \in [Tasks -> TaskRow \cup {None}], conf' = conf, torn' = torn, exists' = exists,
         task'[t] # None => /\ task'[t].kind = task[t].kind /\ task'[t].row = task[t].row
                            /\ task'[t].since = task[t].since
  PROVE  ShareInv'
<1>1. faults' \in Nat /\ (faults' = 0 => faults = 0) /\ TasksOK
  BY FaultCounts DEF Reloaded, ShareInv, TasksOK
<1>2. ServedIsConfigured'
  BY DEF Reloaded, ServedIsConfigured
<1>3. ASSUME NEW u \in Tasks
      PROVE  Cleared(u)'
  BY <1>1 DEF ShareInv, Cleared, Kept
<1> QED
  BY <1>1, <1>2, <1>3 DEF ShareInv, TasksOK, Whole

LEMMA UnshareKeeps ==
  ASSUME ShareInv, NEW t \in Tasks, Unshare(t)
  PROVE  ShareInv'
<1>1. /\ task[t] # None /\ task[t].kind = "pool" /\ task[t].step = "unshare" /\ TasksOK
      /\ exists' = exists /\ served' = served
  BY DEF Unshare, Step, ShareInv, zfs
<1>2. CASE Fault /\ UNCHANGED <<conf, torn, loaded>> /\ Goto(t, "unmount")
  <2>1. /\ task' \in [Tasks -> TaskRow \cup {None}] /\ Kept(t)
        /\ faults' \in Nat /\ faults' # 0
    BY <1>1, <1>2, Went, FaultCounts
  <2>2. ServedIsConfigured'
    BY <1>1, <1>2, <2>1 DEF ShareInv, ServedIsConfigured, Kept
  <2> QED
    BY <2>1, <2>2 DEF ShareInv, TasksOK, Whole, Cleared
<1>3. ASSUME NEW old, NEW new, WriteFails(old, new), Goto(t, "unmount")
      PROVE  ShareInv'
  <2>1. /\ task' \in [Tasks -> TaskRow \cup {None}] /\ Kept(t) /\ task'[t].step = "unmount"
    BY <1>1, <1>3, Went
  <2> QED
    BY <1>1, <1>3, <2>1, FailureKeeps
<1>4. CASE PoolSets = {} /\ UNCHANGED <<conf, torn, loaded, faults>> /\ Goto(t, "unmount")
  <2>1. /\ task' \in [Tasks -> TaskRow \cup {None}] /\ Kept(t) /\ task'[t].step = "unmount"
    BY <1>1, <1>4, Went
  <2>2. \A d \in Children : d \notin exists'
    BY <1>1, <1>4, ShareAssumption DEF PoolSets
  <2>3. ServedIsConfigured'
    BY <1>1, <1>4, <2>1 DEF ShareInv, ServedIsConfigured, Kept
  <2> QED
    BY <1>1, <1>4, <2>1, <2>2, <2>3 DEF ShareInv, TasksOK, Whole, Cleared
<1>5. CASE /\ UNCHANGED <<torn, loaded, faults>> /\ conf' \in Rewrites(conf, PoolSets, None)
           /\ Goto(t, UnshareStep)
  <2>1. /\ task' \in [Tasks -> TaskRow \cup {None}] /\ Kept(t)
        /\ task'[t] # None /\ task'[t].step = "reload"
    BY <1>1, <1>5, Went DEF UnshareStep
  <2>2. ServedIsConfigured'
    BY <2>1 DEF ServedIsConfigured
  <2>3. ASSUME faults' = 0, NEW d \in Children, d \in exists'
        PROVE  conf'[d] = None
    <3>1. torn = FALSE /\ d \in PoolSets /\ d \in Datasets
      BY <1>1, <1>5, <2>3, ShareAssumption DEF PoolSets, Datasets, ShareInv, Whole
    <3> QED
      BY <1>5, <3>1 DEF Rewrites
  <2> QED
    BY <1>1, <1>5, <2>1, <2>2, <2>3 DEF ShareInv, TasksOK, Whole, Cleared
<1> QED
  BY <1>2, <1>3, <1>4, <1>5 DEF Unshare

-----------------------------------------------------------------------------
(* Every step *)

LEMMA ShareInit == Init => ShareInv
BY ShareAssumption DEF Init, ShareInv, TasksOK, ServedIsConfigured, Whole, Cleared

LEMMA StartKeeps ==
  ASSUME ShareInv, row \in BOOLEAN, NEW t \in Tasks
  PROVE  /\ \A d \in Datasets, a \in {"rw", "ro", None} : StartShare(t, d, a) => ShareInv'
         /\ StartDestroyPool(t) => ShareInv'
         /\ \A d \in Children, all \in BOOLEAN : StartDestroyDataset(t, d, all) => ShareInv'
<1>1. ASSUME NEW d \in Datasets, NEW a \in {"rw", "ro", None}, StartShare(t, d, a)
      PROVE  ShareInv'
  <2> DEFINE r == [NewTask("share", d, "write") EXCEPT !.access = a]
  <2>1. r \in TaskRow /\ r.step = "write" /\ r.kind = "share"
    BY NewTaskTyped DEF NewTask
  <2>2. /\ task[t] = None /\ task' = [task EXCEPT ![t] = r]
        /\ conf' = conf /\ torn' = torn /\ served' = served /\ loaded' = loaded /\ exists' = exists
        /\ faults' = faults
    BY <1>1 DEF StartShare, zfs, shares
  <2> HIDE DEF r
  <2> QED
    BY <2>1, <2>2, RequestStarts
<1>2. ASSUME StartDestroyPool(t)
      PROVE  ShareInv'
  <2> DEFINE s == IF row THEN "unexport" ELSE "unmount"
             r == [NewTask("pool", Root, s) EXCEPT !.row = row]
  <2>0. PICK b \in BOOLEAN : b = row
    OBVIOUS
  <2>1. r \in TaskRow /\ r.step # "reload" /\ (r.row => r.step = "unexport")
    BY <2>0, NewTaskTyped DEF NewTask, Datasets
  <2>2. /\ task[t] = None /\ task' = [task EXCEPT ![t] = r]
        /\ conf' = conf /\ torn' = torn /\ served' = served /\ loaded' = loaded /\ exists' = exists
        /\ faults' = faults
    BY <1>2 DEF StartDestroyPool, zfs, shares
  <2> HIDE DEF r
  <2> QED
    BY <2>1, <2>2, RequestStarts
<1>3. ASSUME NEW d \in Children, NEW all \in BOOLEAN, StartDestroyDataset(t, d, all)
      PROVE  ShareInv'
  <2> DEFINE r == [NewTask("dataset", d, "unmount") EXCEPT !.all = all]
  <2>1. r \in TaskRow /\ r.step = "unmount" /\ r.kind = "dataset"
    BY NewTaskTyped DEF NewTask, Datasets
  <2>2. /\ task[t] = None /\ task' = [task EXCEPT ![t] = r]
        /\ conf' = conf /\ torn' = torn /\ served' = served /\ loaded' = loaded /\ exists' = exists
        /\ faults' = faults
    BY <1>3 DEF StartDestroyDataset, zfs, shares
  <2> HIDE DEF r
  <2> QED
    BY <2>1, <2>2, RequestStarts
<1> QED
  BY <1>1, <1>2, <1>3

LEMMA DestructionKeeps ==
  ASSUME ShareInv, row \in BOOLEAN, NEW t \in Tasks, Destruction(t)
  PROVE  ShareInv'
<1>0. TasksOK
  BY DEF ShareInv
<1>1. ASSUME Unexport(t)
      PROVE  ShareInv'
  <2>1. /\ task[t] # None /\ task[t].step = "unexport" /\ Goto(t, "unshare")
        /\ faults' = faults \/ Fault
        /\ conf' = conf /\ torn' = torn /\ served' = served /\ loaded' = loaded /\ exists' = exists
    BY <1>1 DEF Unexport, Step, zfs
  <2>2. /\ task' \in [Tasks -> TaskRow \cup {None}] /\ Kept(t)
        /\ task'[t].step = "unshare" /\ task'[t].kind = task[t].kind
        /\ task'[t].row = task[t].row /\ task'[t].since = task[t].since
    BY <1>0, <2>1, Went
  <2>3. faults' \in Nat /\ faults <= faults'
    BY <1>0, <2>1, FaultCounts DEF TasksOK
  <2> QED
    BY <2>1, <2>2, <2>3, StageMoves DEF TasksOK
<1>2. ASSUME ReloadPool(t)
      PROVE  ShareInv'
  <2>1. /\ task[t] # None /\ task[t].step = "reload" /\ Goto(t, "unmount") /\ Reloaded
        /\ conf' = conf /\ torn' = torn /\ exists' = exists
    BY <1>2 DEF ReloadPool, Step, zfs
  <2>2. /\ task' \in [Tasks -> TaskRow \cup {None}] /\ Kept(t)
        /\ task'[t].kind = task[t].kind
        /\ task'[t].row = task[t].row /\ task'[t].since = task[t].since
    BY <1>0, <2>1, Went
  <2> QED
    BY <2>1, <2>2, ReloadKeeps
<1>3. ASSUME NEW D, Unmount(t, D), task[t] # None, task[t].step = "unmount",
             exists' = exists, UNCHANGED shares
      PROVE  ShareInv'
  <2>1. /\ faults' \in Nat /\ faults <= faults'
        /\ Goto(t, "destroy") \/ End(t)
    BY <1>0, <1>3, FaultCounts DEF Unmount, TasksOK
  <2>2. /\ task' \in [Tasks -> TaskRow \cup {None}] /\ Kept(t)
        /\ task'[t] # None =>
             /\ task'[t].step = "destroy" /\ task'[t].kind = task[t].kind
             /\ task'[t].row = task[t].row /\ task'[t].since = task[t].since
    BY <1>0, <1>3, <2>1, Went, Ended
  <2>3. conf' = conf /\ torn' = torn /\ served' = served /\ loaded' = loaded
    BY <1>3 DEF shares
  <2> QED
    BY <1>3, <2>1, <2>2, <2>3, StageMoves DEF TasksOK
<1>4. ASSUME DestroyPool(t) \/ DestroyDataset(t)
      PROVE  ShareInv'
  <2>1. /\ task[t] # None /\ task[t].step = "destroy" /\ End(t)
        /\ faults' = faults \/ Fault
        /\ conf' = conf /\ torn' = torn /\ served' = served /\ loaded' = loaded
        /\ exists' \subseteq exists
    BY <1>4 DEF DestroyPool, DestroyDataset, Step, Gone
  <2>2. /\ task' \in [Tasks -> TaskRow \cup {None}] /\ Kept(t) /\ task'[t] = None
    BY <1>0, <2>1, Ended
  <2>3. faults' \in Nat /\ faults <= faults'
    BY <1>0, <2>1, FaultCounts DEF TasksOK
  <2> QED
    BY <2>1, <2>2, <2>3, StageMoves DEF TasksOK
<1>5. UnmountPool(t) \/ UnmountDataset(t) => ShareInv'
  BY <1>3 DEF UnmountPool, UnmountDataset, Step
<1> QED
  BY <1>1, <1>2, <1>4, <1>5, StartKeeps, UnshareKeeps DEF Destruction

LEMMA SharingKeeps ==
  ASSUME ShareInv, row \in BOOLEAN, NEW t \in Tasks, Sharing(t)
  PROVE  ShareInv'
<1>1. ASSUME ReloadShare(t)
      PROVE  ShareInv'
  <2>1. /\ task[t] # None /\ task[t].step = "reload" /\ End(t) /\ Reloaded
        /\ conf' = conf /\ torn' = torn /\ exists' = exists
    BY <1>1 DEF ReloadShare, Step, zfs
  <2>2. task' \in [Tasks -> TaskRow \cup {None}] /\ Kept(t) /\ task'[t] = None
    BY <2>1, Ended DEF ShareInv
  <2> QED
    BY <2>1, <2>2, ReloadKeeps
<1> QED
  BY <1>1, StartKeeps, WriteKeeps, WriteEndKeeps DEF Sharing

\* The steps of the administrator, of clients, and of others than requests.
LEMMA OthersKeep ==
  ASSUME ShareInv,
         \/ CreatePool \/ ListPools \/ UNCHANGED vars
         \/ \E s \in {"nfs", "smb"} : InstallServer(s)
         \/ \E d \in Datasets : SetExport(d) \/ PauseExport(d) \/ DeleteExport(d)
         \/ \E c \in {"nfs", "smb"} \X Datasets : Connect(c) \/ Disconnect(c)
  PROVE  ShareInv'
<1>1. /\ task' = task /\ conf' = conf /\ torn' = torn /\ served' = served /\ loaded' = loaded
      /\ exists' = {Root} \/ exists' = exists
      /\ faults' = faults \/ Fault
  BY DEF CreatePool, ListPools, InstallServer, SetExport, PauseExport, DeleteExport,
         Connect, Disconnect, vars, shares, zfs
<1>2. exists' \cap Children \subseteq exists
  BY <1>1, ShareAssumption
<1>3. faults' \in Nat /\ faults <= faults'
  BY <1>1, FaultCounts DEF ShareInv, TasksOK
<1> QED
  BY <1>1, <1>2, <1>3, RequestsStay

LEMMA ShareStep ==
  ASSUME ShareInv, row \in BOOLEAN, [Next]_vars
  PROVE  ShareInv'
BY CreateKeeps, DestructionKeeps, SharingKeeps, OthersKeep, CrashKeeps DEF Next

LEMMA RowStep ==
  ASSUME row \in BOOLEAN, [Next]_vars
  PROVE  row' \in BOOLEAN
<1>1. CASE UNCHANGED vars
  BY <1>1 DEF vars, zfs
<1>2. ASSUME NEW t \in Tasks, Destruction(t)
      PROVE  row' \in BOOLEAN
  BY <1>2 DEF Destruction, StartDestroyPool, Unexport, Unshare, ReloadPool, UnmountPool, DestroyPool,
              UnmountDataset, DestroyDataset, StartDestroyDataset, zfs
<1>3. ASSUME NEW t \in Tasks, Sharing(t)
      PROVE  row' \in BOOLEAN
  BY <1>3 DEF Sharing, WriteShare, ReloadShare, StartShare, zfs
<1> QED
  BY <1>1, <1>2, <1>3 DEF Next, CreatePool, ListPools, Crash, InstallServer, CreateDataset, SetExport,
     PauseExport, DeleteExport, Connect, Disconnect, zfs

LEMMA Invariance == Spec => [](row \in BOOLEAN /\ ShareInv)
<1>1. Init => row \in BOOLEAN /\ ShareInv
  BY ShareInit DEF Init
<1>2. row \in BOOLEAN /\ ShareInv /\ [Next]_vars => (row \in BOOLEAN /\ ShareInv)'
  BY ShareStep, RowStep
<1> QED
  BY <1>1, <1>2, PTL DEF Spec

\* smbd serves what smb.conf says whenever no request is between the writing of
\* the region and the reload and the last reload succeeded, for any number of
\* share requests and destructions in any order.
THEOREM ServedIsConfiguredCorrect == Spec => []ServedIsConfigured
<1>1. ShareInv => ServedIsConfigured
  BY DEF ShareInv
<1> QED
  BY <1>1, Invariance, PTL

-----------------------------------------------------------------------------
(* A destroyed pool takes its shares along *)

\* Only a request that stays changes the region.
LEMMA RegionWriters ==
  ASSUME ShareInv, NEW t \in Tasks, Step(t, "pool", "destroy"), task'[t] = None, [Next]_vars,
         faults' = 0
  PROVE  conf' = conf
<1>0. ~Fault
  BY DEF Fault, ShareInv, TasksOK
<1>1. ASSUME NEW u \in Tasks, WriteShare(u) \/ Unshare(u)
      PROVE  FALSE
  <2>1. task[u] # None /\ TasksOK
    BY <1>1 DEF WriteShare, Unshare, Step, ShareInv
  <2>2. CASE Unshare(u)
    <3>1. PICK s \in {"unmount", "reload"} : Goto(u, s)
      BY <2>2 DEF Unshare, UnshareStep
    <3>2. task'[u] # None /\ Kept(u)
      BY <2>1, <3>1, Went
    <3> QED
      BY <2>2, <3>2 DEF Kept, Step, Unshare
  <2>3. CASE WriteShare(u)
    <3> DEFINE T == Noted(task, task[u].of)
    <3>1. u # t /\ task[u].of \in Datasets
      BY <2>1, <2>3 DEF WriteShare, Step, TasksOK, TaskRow
    <3>2. T \in [Tasks -> TaskRow \cup {None}] /\ T[t] # None
      BY <2>1, <3>1, NotedTyped DEF Step
    <3>3. task' = [T EXCEPT ![u].step = "reload"]
      BY <1>0, <2>3 DEF WriteShare, WriteFails
    <3> HIDE DEF T
    <3> QED
      BY <3>1, <3>2, <3>3
  <2> QED
    BY <1>1, <2>2, <2>3
<1>2. ASSUME NEW u \in Tasks, Destruction(u)
      PROVE  conf' = conf
  BY <1>1, <1>2 DEF Destruction, StartDestroyPool, Unexport, ReloadPool, UnmountPool, DestroyPool,
              UnmountDataset, DestroyDataset, StartDestroyDataset, shares
<1>3. ASSUME NEW u \in Tasks, Sharing(u)
      PROVE  conf' = conf
  BY <1>1, <1>3 DEF Sharing, ReloadShare, StartShare, shares
<1> QED
  BY <1>2, <1>3 DEF Next, CreatePool, ListPools, Crash, InstallServer, CreateDataset, SetExport,
     PauseExport, DeleteExport, Connect, Disconnect, shares, vars

LEMMA FaultsStay ==
  ASSUME faults \in Nat, [Next]_vars, faults' = 0
  PROVE  faults = 0
<1>1. ~Fault
  BY DEF Fault
<1>2. ASSUME NEW t \in Tasks, Destruction(t)
      PROVE  faults' = faults
  BY <1>1, <1>2 DEF Destruction, StartDestroyPool, Unexport, Unshare, ReloadPool, Reloaded, UnmountPool,
     WriteFails, Unmount, DestroyPool, UnmountDataset, DestroyDataset, StartDestroyDataset
<1>3. ASSUME NEW t \in Tasks, Sharing(t)
      PROVE  faults' = faults
  BY <1>1, <1>3 DEF Sharing, WriteShare, WriteFails, ReloadShare, Reloaded, StartShare
<1> QED
  BY <1>1, <1>2, <1>3 DEF Next, CreatePool, ListPools, Crash, InstallServer, CreateDataset, SetExport,
     PauseExport, DeleteExport, Connect, Disconnect, vars

\* When the destruction of a pool ends, no command having failed, smb.conf holds
\* no share of the datasets that went, but for those created or shared after the
\* request: however many requests overlap with it.
THEOREM PoolTakesSharesCorrect == Spec => PoolTakesShares
<1>1. ASSUME ShareInv, ShareInv', [Next]_vars, NEW t \in Tasks,
             Step(t, "pool", "destroy"), task[t].row, task'[t] = None, faults' = 0,
             NEW d \in Children \ task[t].since, d \in exists
      PROVE  conf'[d] = None
  <2>1. faults = 0
    BY <1>1, FaultsStay DEF ShareInv, TasksOK
  <2>2. conf[d] = None
    BY <1>1, <2>1 DEF ShareInv, Cleared, Step
  <2> QED
    BY <1>1, <2>2, RegionWriters
<1>2. ShareInv /\ ShareInv' /\ [Next]_vars =>
        [\A t \in Tasks :
           (Step(t, "pool", "destroy") /\ task[t].row /\ task'[t] = None /\ faults' = 0)
             => \A d \in Children \ task[t].since :
                  d \in exists /\ d \notin exists' => conf'[d] = None]_vars
  BY <1>1
<1> QED
  BY <1>2, Invariance, PTL DEF Spec, PoolTakesShares

-----------------------------------------------------------------------------
(* Types: the tree of datasets, and what is shared of it *)

\* The pool is there as long as any dataset is, since nothing destroys the root alone.
Places ==
  /\ exists \subseteq Datasets /\ row \in BOOLEAN
  /\ \A d \in exists \ {Root} : Parent[d] \in exists
  /\ exists # {} => Root \in exists
  /\ mounted \subseteq exists /\ nfs \subseteq exists /\ exported \subseteq nfs
  /\ nfs # {} => "nfs" \in present
  /\ clients \subseteq {"nfs", "smb"} \X Datasets

Regions ==
  /\ conf \in [Datasets -> {"rw", "ro", None}]
  /\ served \in [Datasets -> {"rw", "ro", None}]
  /\ torn \in BOOLEAN /\ loaded \in BOOLEAN
  /\ (\E d \in Datasets : conf[d] # None) => "smb" \in present

Counters == faults \in 0..MaxFaults /\ asks \in 0..MaxAsks

\* What a request in flight was let in for: datasets to destroy are no roots, and
\* whoever adds a share found the server installed.
Asked(t) ==
  task[t] # None =>
    /\ task[t].kind = "dataset" => task[t].of \in Children
    /\ task[t].kind = "share" /\ task[t].access # None => "smb" \in present

PoolInv == Places /\ Regions /\ Counters /\ \A t \in Tasks : Asked(t)

\* What is under a child is closed under children and leaves the root out, so that
\* without it the datasets still hang together.
LEMMA UnderClosed ==
  ASSUME NEW d \in Children
  PROVE  Closed(Under(d)) /\ Root \notin Under(d) /\ d \in Under(d) /\ Under(d) \subseteq Datasets
<1>1. Closed(Under(d))
  BY DEF Closed, Under, Datasets
<1>2. Children \in SUBSET Datasets /\ Closed(Children)
  BY DEF Closed, Datasets
<1>3. Root \notin Under(d)
  BY <1>2, ShareAssumption DEF Under
<1>4. d \in Under(d)
  BY DEF Under, Datasets
<1> QED
  BY <1>1, <1>3, <1>4 DEF Under

LEMMA UnmountPlaces ==
  ASSUME Places, NEW t, NEW D, Unmount(t, D), UNCHANGED <<exists, row, shares>>
  PROVE  Places'
BY DEF Unmount, Places, shares

LEMMA GonePlaces ==
  ASSUME Places, NEW D, Gone(D), row' \in BOOLEAN, present' = present,
         (Closed(D) /\ Root \notin D) \/ exists \subseteq D
  PROVE  Places'
<1>1. exists' = exists \ D /\ exists' \subseteq Datasets
  BY DEF Gone, Places
<1>2. ASSUME NEW d \in exists' \ {Root}
      PROVE  Parent[d] \in exists'
  <2>1. d \in exists /\ d \notin D /\ d \in Children /\ Parent[d] \in exists
    BY <1>1, <1>2 DEF Places, Datasets
  <2> QED
    BY <1>1, <2>1 DEF Closed
<1>3. exists' # {} => Root \in exists'
  BY <1>1 DEF Places
<1> QED
  BY <1>1, <1>2, <1>3 DEF Gone, Places

LEMMA DestructionPlaces ==
  ASSUME Places, \A u \in Tasks : Asked(u), TasksOK, NEW t \in Tasks, Destruction(t), row' \in BOOLEAN
  PROVE  Places'
<1>1. CASE UNCHANGED <<exists, mounted, nfs, exported, present, clients>>
  BY <1>1 DEF Places
<1>2. CASE Unexport(t)
  BY <1>2 DEF Unexport, Places, zfs
<1>3. CASE UnmountPool(t) \/ UnmountDataset(t)
  BY <1>3, UnmountPlaces DEF UnmountPool, UnmountDataset
<1>4. CASE DestroyPool(t)
  <2>1. CASE Gone(exists)
    BY <1>4, <2>1, GonePlaces DEF DestroyPool
  <2>2. CASE ~Gone(exists)
    BY <1>1, <1>4, <2>2 DEF DestroyPool
  <2> QED
    BY <2>1, <2>2
<1>5. CASE DestroyDataset(t)
  <2>1. task[t].of \in Children
    BY <1>5 DEF DestroyDataset, Step, Asked
  <2>2. CASE Gone(Under(task[t].of))
    BY <1>5, <2>1, <2>2, GonePlaces, UnderClosed DEF DestroyDataset
  <2>3. CASE ~Gone(Under(task[t].of))
    BY <1>1, <1>5, <2>3 DEF DestroyDataset
  <2> QED
    BY <2>2, <2>3
<1>6. CASE \/ StartDestroyPool(t) \/ Unshare(t) \/ ReloadPool(t)
           \/ \E d \in Children, all \in BOOLEAN : StartDestroyDataset(t, d, all)
  BY <1>1, <1>6 DEF StartDestroyPool, Unshare, ReloadPool, StartDestroyDataset, zfs, shares
<1> QED
  BY <1>2, <1>3, <1>4, <1>5, <1>6 DEF Destruction

LEMMA OtherPlaces ==
  ASSUME Places,
         \/ CreatePool \/ ListPools \/ Crash \/ UNCHANGED vars
         \/ \E s \in {"nfs", "smb"} : InstallServer(s)
         \/ \E d \in Children : CreateDataset(d)
         \/ \E d \in Datasets : SetExport(d) \/ PauseExport(d) \/ DeleteExport(d)
         \/ \E t \in Tasks : Sharing(t)
         \/ \E c \in {"nfs", "smb"} \X Datasets : Connect(c) \/ Disconnect(c)
  PROVE  Places'
<1>1. CASE CreatePool
  <2>1. exists = {}
    BY <1>1 DEF CreatePool, Places
  <2> QED
    BY <1>1, <2>1 DEF CreatePool, Places, shares, Datasets
<1>2. CASE ListPools \/ Crash \/ (UNCHANGED vars) \/ \E s \in {"nfs", "smb"} : InstallServer(s)
  BY <1>2 DEF ListPools, Crash, InstallServer, Places, vars, zfs, shares
<1>3. ASSUME NEW d \in Children, CreateDataset(d)
      PROVE  Places'
  BY <1>3 DEF CreateDataset, Places, shares, Datasets
<1>4. ASSUME NEW d \in Datasets, SetExport(d) \/ PauseExport(d) \/ DeleteExport(d)
      PROVE  Places'
  BY <1>4 DEF SetExport, PauseExport, DeleteExport, Places, zfs
<1>5. ASSUME NEW t \in Tasks, Sharing(t)
      PROVE  Places'
  BY <1>5 DEF Sharing, WriteShare, ReloadShare, StartShare, Places, zfs, shares
<1>6. ASSUME NEW c \in {"nfs", "smb"} \X Datasets, Connect(c) \/ Disconnect(c)
      PROVE  Places'
  BY <1>6 DEF Connect, Disconnect, Places, zfs, shares
<1> QED
  BY <1>1, <1>2, <1>3, <1>4, <1>5, <1>6

LEMMA PlacesStep ==
  ASSUME PoolInv, TasksOK, [Next]_vars
  PROVE  Places'
<1>1. row' \in BOOLEAN
  BY RowStep DEF PoolInv, Places
<1>2. Places /\ \A u \in Tasks : Asked(u)
  BY DEF PoolInv
<1>3. ASSUME NEW t \in Tasks, Destruction(t)
      PROVE  Places'
  BY <1>1, <1>2, <1>3, DestructionPlaces
<1> QED
  BY <1>2, <1>3, OtherPlaces DEF Next

\* What may be in the region, for requests that found the server installed or not.
Written == [Datasets -> {"rw", "ro", None}]
Serving(c) == c \in Written /\ ((\E d \in Datasets : c[d] # None) => "smb" \in present)

LEMMA RewritesServe ==
  ASSUME NEW c, Serving(c), NEW D \in SUBSET Datasets, NEW a \in {"rw", "ro", None},
         a # None => "smb" \in present, NEW n \in Rewrites(c, D, a)
  PROVE  Serving(n)
<1>1. CASE torn
  <2>1. PICK S \in SUBSET D : n = [x \in Datasets |-> IF x \in S THEN a ELSE c[x]]
    BY <1>1 DEF Rewrites
  <2> QED
    BY <2>1 DEF Serving, Written
<1>2. CASE ~torn
  <2>1. n = [x \in Datasets |-> IF x \in D THEN a
                                ELSE IF c[x] = None \/ D = {} THEN c[x] ELSE "rw"]
    BY <1>2 DEF Rewrites
  <2> QED
    BY <2>1 DEF Serving, Written
<1> QED
  BY <1>1, <1>2

LEMMA FailureServes ==
  ASSUME Serving(conf), torn \in BOOLEAN, loaded \in BOOLEAN,
         NEW old, Serving(old), NEW new, Serving(new), WriteFails(old, new)
  PROVE  Serving(conf') /\ torn' \in BOOLEAN /\ loaded' \in BOOLEAN
<1>1. loaded' \in BOOLEAN
  BY DEF WriteFails
<1>2. CASE conf' = old /\ UNCHANGED torn
  BY <1>1, <1>2
<1>3. ASSUME NEW kept \in SUBSET Datasets,
             conf' = [x \in Datasets |-> IF x \in kept THEN new[x] ELSE None]
      PROVE  Serving(conf')
  BY <1>3 DEF Serving, Written
<1>4. torn' \in BOOLEAN
  BY DEF WriteFails
<1> QED
  BY <1>1, <1>2, <1>3, <1>4 DEF WriteFails

\* A region is written from one that was there, or with a share that was asked for.
LEMMA RegionsStep ==
  ASSUME PoolInv, TasksOK, [Next]_vars
  PROVE  Regions' /\ present \subseteq present'
<1>0. /\ Serving(conf) /\ served \in Written /\ torn \in BOOLEAN /\ loaded \in BOOLEAN
  BY DEF PoolInv, Regions, Serving, Written
<1>1. CASE UNCHANGED <<conf, torn, served, loaded>> /\ present \subseteq present'
  BY <1>1 DEF PoolInv, Regions
<1>2. CASE Reloaded /\ UNCHANGED <<conf, torn, present>>
  BY <1>2 DEF PoolInv, Regions, Reloaded
<1>2a. ASSUME Serving(conf'), torn' \in BOOLEAN, loaded' \in BOOLEAN, UNCHANGED <<served, present>>
      PROVE  Regions' /\ present \subseteq present'
  BY <1>0, <1>2a DEF Regions, Serving, Written
<1>3. ASSUME NEW t \in Tasks, WriteShare(t)
      PROVE  Regions' /\ present \subseteq present'
  <2> DEFINE d == task[t].of
             a == task[t].access
  <2>1. /\ a \in {"rw", "ro", None} /\ {d} \in SUBSET Datasets
        /\ present' = present /\ served' = served /\ (a # None => "smb" \in present)
    BY <1>3 DEF WriteShare, Step, TasksOK, TaskRow, PoolInv, Asked
  <2>2. \/ conf' \in Rewrites(conf, {d}, a) /\ UNCHANGED <<torn, loaded>>
        \/ \E c \in Rewrites(conf, {d}, a) : WriteFails(conf, c)
    BY <1>3 DEF WriteShare
  <2> HIDE DEF d, a
  <2>3. CASE conf' \in Rewrites(conf, {d}, a) /\ UNCHANGED <<torn, loaded>>
    <3>1. Serving(conf')
      BY <1>0, <2>1, <2>3, RewritesServe
    <3> QED
      BY <1>0, <1>2a, <2>1, <2>3, <3>1
  <2>4. ASSUME NEW c \in Rewrites(conf, {d}, a), WriteFails(conf, c)
        PROVE  Regions' /\ present \subseteq present'
    <3>1. Serving(c)
      BY <1>0, <2>1, <2>4, RewritesServe
    <3>2. Serving(conf') /\ torn' \in BOOLEAN /\ loaded' \in BOOLEAN
      BY <1>0, <2>4, <3>1, FailureServes
    <3> QED
      BY <1>2a, <2>1, <3>2
  <2> QED
    BY <2>2, <2>3, <2>4
<1>4. ASSUME NEW t \in Tasks, Unshare(t)
      PROVE  Regions' /\ present \subseteq present'
  <2>1. present' = present /\ served' = served /\ PoolSets \in SUBSET Datasets
    BY <1>4 DEF Unshare, PoolSets, PoolInv, Places
  <2>2. \/ UNCHANGED <<conf, torn, loaded>>
        \/ conf' \in Rewrites(conf, PoolSets, None) /\ UNCHANGED <<torn, loaded>>
        \/ \E d \in PoolSets : \E done \in SUBSET (PoolSets \ {d}) :
             \E old \in Rewrites(conf, done, None) : \E new \in Rewrites(old, {d}, None) :
               WriteFails(old, new)
    BY <1>4 DEF Unshare
  <2>3. CASE conf' \in Rewrites(conf, PoolSets, None) /\ UNCHANGED <<torn, loaded>>
    <3>1. Serving(conf')
      BY <1>0, <2>1, <2>3, RewritesServe
    <3> QED
      BY <1>0, <1>2a, <2>1, <2>3, <3>1
  <2>4. ASSUME NEW d \in PoolSets, NEW done \in SUBSET (PoolSets \ {d}),
               NEW old \in Rewrites(conf, done, None), NEW new \in Rewrites(old, {d}, None),
               WriteFails(old, new)
        PROVE  Regions' /\ present \subseteq present'
    <3>1. done \in SUBSET Datasets /\ {d} \in SUBSET Datasets
      BY <2>1, <2>4
    <3>2. Serving(old)
      BY <1>0, <2>4, <3>1, RewritesServe
    <3>3. Serving(new)
      BY <2>4, <3>1, <3>2, RewritesServe
    <3>4. Serving(conf') /\ torn' \in BOOLEAN /\ loaded' \in BOOLEAN
      BY <1>0, <2>4, <3>2, <3>3, FailureServes
    <3> QED
      BY <1>2a, <2>1, <3>4
  <2> QED
    BY <1>1, <2>1, <2>2, <2>3, <2>4
<1>5. ASSUME NEW t \in Tasks, Destruction(t)
      PROVE  Regions' /\ present \subseteq present'
  BY <1>1, <1>2, <1>4, <1>5 DEF Destruction, StartDestroyPool, Unexport, ReloadPool, UnmountPool,
     DestroyPool, UnmountDataset, DestroyDataset, StartDestroyDataset, shares
<1>6. ASSUME NEW t \in Tasks, Sharing(t)
      PROVE  Regions' /\ present \subseteq present'
  BY <1>1, <1>2, <1>3, <1>6 DEF Sharing, ReloadShare, StartShare, shares
<1>7. CASE Crash
  <2>1. loaded' \in BOOLEAN
    BY <1>7 DEF Crash
  <2> QED
    BY <1>7, <2>1 DEF Crash, PoolInv, Regions
<1> QED
  BY <1>1, <1>5, <1>6, <1>7 DEF Next, CreatePool, ListPools, InstallServer, CreateDataset, SetExport,
     PauseExport, DeleteExport, Connect, Disconnect, shares, vars

LEMMA CountersStep ==
  ASSUME Counters, [Next]_vars
  PROVE  Counters'
<1>1. Counters /\ (Fault \/ UNCHANGED faults) /\ (Ask \/ UNCHANGED asks) => Counters'
  BY ShareAssumption DEF Counters, Fault, Ask
<1>2. ASSUME NEW t \in Tasks, Destruction(t)
      PROVE  (Fault \/ UNCHANGED faults) /\ (Ask \/ UNCHANGED asks)
  BY <1>2 DEF Destruction, StartDestroyPool, Unexport, Unshare, ReloadPool, Reloaded, UnmountPool,
     WriteFails, Unmount, DestroyPool, UnmountDataset, DestroyDataset, StartDestroyDataset
<1>3. ASSUME NEW t \in Tasks, Sharing(t)
      PROVE  (Fault \/ UNCHANGED faults) /\ (Ask \/ UNCHANGED asks)
  BY <1>3 DEF Sharing, WriteShare, WriteFails, ReloadShare, Reloaded, StartShare
<1>4. (Fault \/ UNCHANGED faults) /\ (Ask \/ UNCHANGED asks)
  BY <1>2, <1>3 DEF Next, CreatePool, ListPools, Crash, InstallServer, CreateDataset, SetExport,
     PauseExport, DeleteExport, Connect, Disconnect, vars
<1> QED
  BY <1>1, <1>4

\* A step of a request keeps what it was asked for.
Same(t) ==
  task'[t] # None =>
    /\ task[t] # None /\ task'[t].kind = task[t].kind /\ task'[t].of = task[t].of
    /\ task'[t].access = task[t].access

LEMMA GoneOn ==
  ASSUME TasksOK, NEW t \in Tasks, task[t] # None, End(t) \/ \E s : Goto(t, s)
  PROVE  \A u \in Tasks : Same(u)
<1>1. task[t] \in TaskRow
  BY DEF TasksOK
<1>2. CASE End(t)
  BY <1>2 DEF End, Same, TasksOK
<1>3. ASSUME NEW s, Goto(t, s)
      PROVE  \A u \in Tasks : Same(u)
  BY <1>1, <1>3 DEF Goto, Same, TasksOK, TaskRow
<1> QED
  BY <1>2, <1>3

LEMMA NotedSame ==
  ASSUME TasksOK, NEW d, NEW u \in Tasks, Noted(task, d)[u] # None
  PROVE  /\ task[u] # None /\ Noted(task, d)[u].kind = task[u].kind
         /\ Noted(task, d)[u].of = task[u].of /\ Noted(task, d)[u].access = task[u].access
<1>1. Noted(task, d)[u] = IF task[u] # None /\ task[u].kind = "pool"
                          THEN [task[u] EXCEPT !.since = @ \cup {d}] ELSE task[u]
  BY DEF Noted
<1>2. task[u] # None /\ task[u] \in TaskRow
  BY <1>1 DEF TasksOK
<1> QED
  BY <1>1, <1>2 DEF TaskRow

LEMMA AskedStep ==
  ASSUME PoolInv, TasksOK, [Next]_vars, present \subseteq present', NEW u \in Tasks
  PROVE  Asked(u)'
<1>1. ASSUME Same(u)
      PROVE  Asked(u)'
  BY <1>1 DEF PoolInv, Asked, Same
<1>2. ASSUME NEW t \in Tasks, NEW r, task[t] = None, task' = [task EXCEPT ![t] = r],
             r.kind = "dataset" => r.of \in Children,
             r.kind = "share" /\ r.access # None => "smb" \in present
      PROVE  Asked(u)'
  <2>1. CASE u = t
    <3>1. task'[u] = r
      BY <1>2, <2>1 DEF TasksOK
    <3> QED
      BY <1>2, <3>1 DEF Asked
  <2>2. CASE u # t
    <3>1. task'[u] = task[u]
      BY <1>2, <2>2 DEF TasksOK
    <3> QED
      BY <1>1, <3>1 DEF Same
  <2> QED
    BY <2>1, <2>2
<1>3. ASSUME NEW t \in Tasks, StartDestroyPool(t)
      PROVE  Asked(u)'
  <2> DEFINE r == [NewTask("pool", Root, IF row THEN "unexport" ELSE "unmount") EXCEPT !.row = row]
  <2>1. r.kind = "pool"
    BY DEF NewTask
  <2>2. task[t] = None /\ task' = [task EXCEPT ![t] = r]
    BY <1>3 DEF StartDestroyPool
  <2> HIDE DEF r
  <2> QED
    BY <1>2, <2>1, <2>2
<1>4. ASSUME NEW t \in Tasks, NEW d \in Children, NEW all \in BOOLEAN, StartDestroyDataset(t, d, all)
      PROVE  Asked(u)'
  <2> DEFINE r == [NewTask("dataset", d, "unmount") EXCEPT !.all = all]
  <2>1. r.kind = "dataset" /\ r.of = d
    BY DEF NewTask
  <2>2. task[t] = None /\ task' = [task EXCEPT ![t] = r]
    BY <1>4 DEF StartDestroyDataset
  <2> HIDE DEF r
  <2> QED
    BY <1>2, <2>1, <2>2
<1>5. ASSUME NEW t \in Tasks, NEW d, NEW a, StartShare(t, d, a)
      PROVE  Asked(u)'
  <2> DEFINE r == [NewTask("share", d, "write") EXCEPT !.access = a]
  <2>1. r.kind = "share" /\ r.access = a
    BY DEF NewTask
  <2>2. task[t] = None /\ task' = [task EXCEPT ![t] = r] /\ (a # None => "smb" \in present)
    BY <1>5 DEF StartShare
  <2> HIDE DEF r
  <2> QED
    BY <1>2, <2>1, <2>2
<1>6. ASSUME NEW t \in Tasks, WriteShare(t)
      PROVE  Asked(u)'
  <2> DEFINE T == Noted(task, task[t].of)
  <2>1. T[u] # None =>
          /\ task[u] # None /\ T[u].kind = task[u].kind
          /\ T[u].of = task[u].of /\ T[u].access = task[u].access
    BY NotedSame
  <2>2. DOMAIN T = Tasks /\ (task' = [T EXCEPT ![t].step = "reload"] \/ End(t))
    BY <1>6 DEF WriteShare, Noted
  <2>3. task[t] # None /\ task[t] \in TaskRow /\ task[t].kind = "share" /\ T[t] = task[t]
    BY <1>6 DEF WriteShare, Step, TasksOK, Noted
  <2> HIDE DEF T
  <2>3a. CASE End(t)
    BY <1>1, <2>3, <2>3a, GoneOn
  <2>4. CASE u = t /\ ~End(t)
    <3>1. task'[u] = [task[t] EXCEPT !.step = "reload"]
      BY <2>2, <2>3, <2>4
    <3> QED
      BY <1>1, <2>3, <2>4, <3>1 DEF Same, TaskRow
  <2>5. CASE u # t /\ ~End(t)
    <3>1. task'[u] = T[u]
      BY <2>2, <2>5
    <3> QED
      BY <1>1, <2>1, <3>1 DEF Same
  <2> QED
    BY <2>3a, <2>4, <2>5
<1>7. ASSUME NEW t \in Tasks, Destruction(t)
      PROVE  Asked(u)'
  <2>1. CASE \/ Unexport(t) \/ Unshare(t) \/ ReloadPool(t)
             \/ UnmountPool(t) \/ DestroyPool(t) \/ UnmountDataset(t) \/ DestroyDataset(t)
    <3>1. task[t] # None
      BY <2>1 DEF Unexport, Unshare, ReloadPool, UnmountPool, DestroyPool, UnmountDataset,
         DestroyDataset, Step
    <3>2. End(t) \/ \E s : Goto(t, s)
      BY <2>1 DEF Unexport, Unshare, ReloadPool, UnmountPool, DestroyPool, UnmountDataset,
         DestroyDataset, Unmount
    <3> QED
      BY <1>1, <3>1, <3>2, GoneOn
  <2> QED
    BY <1>3, <1>4, <1>7, <2>1 DEF Destruction
<1>8. ASSUME NEW t \in Tasks, ReloadShare(t)
      PROVE  Asked(u)'
  BY <1>1, <1>8, GoneOn DEF ReloadShare, Step
<1>9. ASSUME NEW d \in Children, CreateDataset(d)
      PROVE  Asked(u)'
  BY <1>1, <1>9, NotedSame DEF CreateDataset, Same
<1>10. CASE task' = task
  BY <1>1, <1>10 DEF Same
<1>11. CASE Crash
  BY <1>11 DEF Crash, Asked
<1> QED
  BY <1>3, <1>4, <1>5, <1>6, <1>7, <1>8, <1>9, <1>10, <1>11 DEF Next, Sharing, CreatePool, ListPools,
     InstallServer, SetExport, PauseExport, DeleteExport, Connect, Disconnect, vars

\* Datasets hang together, with the pool above them, what is mounted or exported
\* exists, nothing is shared through a server that is not installed, and every
\* variable stays in its domain: for any tree and any requests that overlap.
THEOREM TypeCorrect == Spec => []TypeOK
<1>1. Init => PoolInv
  <2> SUFFICES ASSUME Init PROVE PoolInv
    OBVIOUS
  <2>1. Places
    BY DEF Init, Places
  <2>2. Regions
    BY DEF Init, Regions
  <2>3. Counters
    BY ShareAssumption DEF Init, Counters
  <2> QED
    BY <2>1, <2>2, <2>3 DEF Init, PoolInv, Asked
<1>2. PoolInv /\ ShareInv /\ [Next]_vars => PoolInv'
  <2> SUFFICES ASSUME PoolInv, ShareInv, [Next]_vars
               PROVE  PoolInv'
    OBVIOUS
  <2>1. TasksOK /\ Counters
    BY DEF ShareInv, PoolInv
  <2>2. Places' /\ Regions' /\ Counters' /\ present \subseteq present'
    BY <2>1, PlacesStep, RegionsStep, CountersStep
  <2> QED
    BY <2>1, <2>2, AskedStep DEF PoolInv
<1>3. PoolInv /\ ShareInv => TypeOK
  BY DEF PoolInv, ShareInv, TasksOK, TypeOK, Places, Regions, Counters
<1> QED
  BY <1>1, <1>2, <1>3, Invariance, PTL DEF Spec

=============================================================================
