-------------------------- MODULE DiskClaims_proofs --------------------------
(***************************************************************************)
(* Proofs about DiskClaims: what is in use is never overwritten, one       *)
(* declaration at a time works on a disk, and a wipe that goes by a        *)
(* current map wipes the disk it was asked for.                            *)
(***************************************************************************)
EXTENDS DiskClaims, FiniteSetTheorems, TLAPS

\* A mount is of a filesystem, so that no pool is ever made over it by name.
MountedOK == \A d \in mounted : on[d] \in 1..MaxFs

Declaring(d) ==
  { t \in Tasks : task[t] # None /\ task[t].kind = "declare" /\ task[t].disk = d }

PendingOK ==
  \A d \in Disks :
    /\ pending[d] # "pending" => Declaring(d) = {}
    /\ pending[d] = "pending" => \E t \in Tasks : Declaring(d) = {t}

\* Kernel names are unique; a map that is current has no wrong name; and a task
\* that is sure of the name it took still has it right.
NamesOK ==
  /\ \A d, e \in Disks : Present(d) /\ port[d] = port[e] => d = e
  /\ current => \A d \in Disks : path[d] # None => path[d] = port[d]
  /\ \A t \in Tasks : Step(t, {"declare", "wipe"}, "checked") /\ task[t].sure =>
       port[task[t].disk] = task[t].path

IInv == TypeOK /\ MountedOK /\ PendingOK /\ NamesOK

LEMMA InitInv == Init => IInv
<1> SUFFICES ASSUME Init PROVE IInv
  OBVIOUS
<1>1. MachineOK
  BY DEF Init, MachineOK
<1>2. RowsOK
  BY ClaimAssumption DEF Init, RowsOK
<1>3. WorkOK
  <2>1. path \in [Disks -> Paths \cup {None}]
    BY DEF Init
  <2>2. pending \in [Disks -> {None, "pending", "failed"}]
    BY DEF Init
  <2>3. task \in [Tasks -> TaskRow \cup {None}]
    BY DEF Init
  <2> QED
    BY <2>1, <2>2, <2>3 DEF Init, WorkOK
<1>4. BoundsOK
  BY ClaimAssumption DEF Init, BoundsOK
<1>5. MountedOK
  BY DEF Init, MountedOK
<1>6. PendingOK
  <2>1. \A d \in Disks : pending[d] = None
    BY DEF Init
  <2>2. None # "pending"
    BY ClaimAssumption
  <2>3. \A d \in Disks : Declaring(d) = {}
    BY DEF Init, Declaring
  <2> QED
    BY <2>1, <2>2, <2>3 DEF PendingOK
<1>7. NamesOK
  BY DEF Init, NamesOK, Step, Present
<1> QED
  BY <1>1, <1>2, <1>3, <1>4, <1>5, <1>6, <1>7 DEF IInv, TypeOK

-----------------------------------------------------------------------------
(* Steps that leave tasks and names alone *)

LEMMA QuietKeeps ==
  ASSUME IInv, UNCHANGED <<port, path, pending, task, current>>
  PROVE  PendingOK' /\ NamesOK'
<1>1. PendingOK'
  BY DEF IInv, PendingOK, Declaring
<1>2. NamesOK'
  BY DEF IInv, NamesOK, Present, Step
<1> QED
  BY <1>1, <1>2

LEMMA RowsInv ==
  ASSUME IInv,
         ScanWrite \/ \E d \in Disks : MarkDead(d) \/ Resurrect(d) \/ DropDisk(d)
  PROVE  IInv'
<1>1. UNCHANGED <<kernel, path, declared, pending, task, current, plugs, made>>
  BY DEF ScanWrite, MarkDead, Resurrect, DropDisk
<1>2. MountedOK' /\ PendingOK' /\ NamesOK' /\ MachineOK'
  BY <1>1, QuietKeeps DEF IInv, TypeOK, MountedOK, MachineOK, kernel
<1>3. CASE ScanWrite
  <2>1. scan' = None /\ events' = events
    BY <1>3 DEF ScanWrite
  <2>2. RowsOK'
    BY <1>1, <1>3 DEF IInv, TypeOK, RowsOK, ScanWrite, Unseen
  <2>3. WorkOK' /\ BoundsOK'
    BY <1>1, <2>1 DEF IInv, TypeOK, WorkOK, BoundsOK
  <2> QED
    BY <1>2, <2>2, <2>3 DEF IInv, TypeOK
<1>4. ASSUME NEW d \in Disks, MarkDead(d) \/ Resurrect(d) \/ DropDisk(d)
      PROVE  IInv'
  <2>1. scan' = scan /\ events' \in 0..MaxEvents
    BY <1>4, ClaimAssumption DEF IInv, TypeOK, BoundsOK, MarkDead, Resurrect, DropDisk
  <2>2. RowsOK'
    BY <1>1, <1>4 DEF IInv, TypeOK, RowsOK, MarkDead, Resurrect, DropDisk
  <2>3. WorkOK' /\ BoundsOK'
    BY <1>1, <2>1 DEF IInv, TypeOK, WorkOK, BoundsOK
  <2> QED
    BY <1>2, <2>2, <2>3 DEF IInv, TypeOK
<1> QED
  BY <1>3, <1>4

LEMMA DeclaredInv ==
  ASSUME IInv, NEW d \in Disks,
         Mount(d) \/ Unmount(d) \/ Deregister(d) \/ Adopt(d)
  PROVE  IInv'
<1>1. UNCHANGED <<port, on, live, path, listed, pending, task, scan, current, plugs, made, events>>
  BY DEF Mount, Unmount, Deregister, Adopt, rows
<1>2. PendingOK' /\ NamesOK' /\ WorkOK' /\ BoundsOK'
  BY <1>1, QuietKeeps DEF IInv, TypeOK, WorkOK, BoundsOK
<1>3. mounted' \subseteq Disks /\ \A e \in mounted' : e \in mounted \/ on[e] \in 1..MaxFs
  BY DEF Mount, Probed, Unmount, Deregister, Adopt, IInv, TypeOK, MachineOK, RowsOK
<1>4. MachineOK' /\ MountedOK'
  BY <1>1, <1>3 DEF IInv, TypeOK, MachineOK, MountedOK
<1>5. RowsOK'
  <2>1. CASE declared' = declared
    BY <1>1, <2>1 DEF IInv, TypeOK, RowsOK
  <2>2. CASE declared' = [declared EXCEPT ![d] = 0]
    <3>1. declared' \in [Disks -> 0..MaxFs]
      BY <2>2, ClaimAssumption DEF IInv, TypeOK, RowsOK
    <3>2. \A e \in Disks : declared'[e] # 0 => declared[e] # 0
      BY <2>2 DEF IInv, TypeOK, RowsOK
    <3> QED
      BY <1>1, <3>1, <3>2 DEF IInv, TypeOK, RowsOK
  <2>3. CASE Adopt(d) /\ declared' = [declared EXCEPT ![d] = on[d]]
    BY <1>1, <2>3 DEF IInv, TypeOK, RowsOK, Adopt
  <2> QED
    BY <2>1, <2>2, <2>3 DEF Mount, Unmount, Deregister, Adopt, rows
<1> QED
  BY <1>2, <1>4, <1>5 DEF IInv, TypeOK

LEMMA PoolInv ==
  ASSUME IInv, NEW p \in Pools,
         ExportPool(p) \/ ImportPool(p) \/ \E D \in (SUBSET Disks) \ {{}} : CreatePool(p, D)
  PROVE  IInv'
<1>1. UNCHANGED <<port, mounted, path, rows, pending, task, scan, current, plugs, made, events>>
  BY DEF ExportPool, ImportPool, CreatePool
<1>2. PendingOK' /\ NamesOK' /\ RowsOK' /\ WorkOK' /\ BoundsOK'
  BY <1>1, QuietKeeps DEF IInv, TypeOK, WorkOK, BoundsOK, RowsOK, rows
<1>3. live' \subseteq Pools
  BY DEF IInv, TypeOK, MachineOK, ExportPool, ImportPool, CreatePool
<1>4. on' \in [Disks -> (1..MaxFs) \cup Pools \cup {None}] /\ \A d \in mounted : on'[d] = on[d]
  <2>1. CASE UNCHANGED on
    BY <2>1 DEF IInv, TypeOK, MachineOK
  <2>2. CASE \E D \in (SUBSET Disks) \ {{}} : CreatePool(p, D)
    <3>1. \A d \in mounted : on[d] # p /\ d \in Disks
      BY ClaimAssumption DEF IInv, MountedOK, TypeOK, MachineOK
    <3> QED
      BY <2>2, <3>1 DEF CreatePool, Held, IInv, TypeOK, MachineOK
  <2> QED
    BY <2>1, <2>2 DEF ExportPool, ImportPool
<1>5. MachineOK' /\ MountedOK'
  BY <1>1, <1>3, <1>4 DEF IInv, TypeOK, MountedOK, MachineOK
<1> QED
  BY <1>2, <1>5 DEF IInv, TypeOK

LEMMA ScanReadInv == IInv /\ ScanRead => IInv'
<1> SUFFICES ASSUME IInv, ScanRead PROVE IInv'
  OBVIOUS
<1>1. UNCHANGED <<port, on, mounted, live, listed, declared, pending, task, plugs, made, events>>
  BY DEF ScanRead, kernel, rows
<1>2. path' = port /\ current' = TRUE /\ scan' \in SUBSET Disks
  BY DEF ScanRead, Refreshed
<1>3. MachineOK' /\ RowsOK' /\ MountedOK'
  BY <1>1 DEF IInv, TypeOK, MachineOK, RowsOK, MountedOK
<1>4. WorkOK' /\ BoundsOK'
  BY <1>1, <1>2 DEF IInv, TypeOK, WorkOK, BoundsOK, MachineOK
<1>5. PendingOK'
  BY <1>1 DEF IInv, PendingOK, Declaring
<1>6. NamesOK'
  BY <1>1, <1>2 DEF IInv, NamesOK, Present, Step
<1> QED
  BY <1>3, <1>4, <1>5, <1>6 DEF IInv, TypeOK

-----------------------------------------------------------------------------
(* Steps of a task *)

\* A step that leaves t at another point of the same work.
LEMMA ContinueKeeps ==
  ASSUME IInv, NEW t \in Tasks, task[t] # None, NEW r \in TaskRow,
         r.kind = task[t].kind, r.disk = task[t].disk,
         task' = [task EXCEPT ![t] = r], pending' = pending
  PROVE  PendingOK' /\ task' \in [Tasks -> TaskRow \cup {None}]
<1>1. task \in [Tasks -> TaskRow \cup {None}] /\ r # None
  BY NoTaskAssumption DEF IInv, TypeOK, WorkOK
<1>2. task' \in [Tasks -> TaskRow \cup {None}]
  BY <1>1
<1>3. task'[t] = r /\ \A u \in Tasks \ {t} : task'[u] = task[u]
  BY <1>1
<1>4. \A d \in Disks : Declaring(d)' = Declaring(d)
  BY <1>1, <1>3 DEF Declaring
<1> QED
  BY <1>2, <1>4 DEF IInv, PendingOK

\* A step that ends t, and clears or fails what it was declaring.
LEMMA EndKeeps ==
  ASSUME IInv, NEW t \in Tasks, task[t] # None, task' = [task EXCEPT ![t] = None],
         \/ task[t].kind # "declare" /\ pending' = pending
         \/ /\ task[t].kind = "declare"
            /\ \E v \in {None, "failed"} : pending' = [pending EXCEPT ![task[t].disk] = v]
  PROVE  /\ PendingOK'
         /\ task' \in [Tasks -> TaskRow \cup {None}]
         /\ pending' \in [Disks -> {None, "pending", "failed"}]
<1>1. /\ task \in [Tasks -> TaskRow \cup {None}] /\ task[t].disk \in Disks
      /\ pending \in [Disks -> {None, "pending", "failed"}] /\ None # "pending"
  BY ClaimAssumption DEF IInv, TypeOK, WorkOK, TaskRow
<1>2. task' \in [Tasks -> TaskRow \cup {None}]
  BY <1>1
<1>3. pending' \in [Disks -> {None, "pending", "failed"}]
  BY <1>1
<1>4. task'[t] = None /\ \A u \in Tasks \ {t} : task'[u] = task[u]
  BY <1>1
<1>5. \A d \in Disks : Declaring(d)' = Declaring(d) \ {t}
  BY <1>4 DEF Declaring
<1>6. CASE task[t].kind # "declare"
  <2>1. \A d \in Disks : t \notin Declaring(d)
    BY <1>6 DEF Declaring
  <2> QED
    BY <1>2, <1>3, <1>5, <1>6, <2>1 DEF IInv, PendingOK
<1>7. CASE task[t].kind = "declare"
  <2> DEFINE e == task[t].disk
  <2>1. t \in Declaring(e) /\ \A d \in Disks \ {e} : t \notin Declaring(d)
    BY <1>7 DEF Declaring
  <2>2. Declaring(e) = {t}
    BY <1>1, <2>1 DEF IInv, PendingOK
  <2>3. pending'[e] # "pending" /\ \A d \in Disks \ {e} : pending'[d] = pending[d]
    BY <1>1, <1>7
  <2>4. ASSUME NEW d \in Disks
        PROVE  /\ pending'[d] # "pending" => Declaring(d)' = {}
               /\ pending'[d] = "pending" => \E u \in Tasks : Declaring(d)' = {u}
    <3>1. CASE d = e
      BY <1>5, <2>2, <2>3, <3>1
    <3>2. CASE d # e
      BY <1>5, <2>1, <2>3, <3>2 DEF IInv, PendingOK
    <3> QED
      BY <3>1, <3>2
  <2>5. PendingOK'
    BY <2>4 DEF PendingOK
  <2> QED
    BY <1>2, <1>3, <2>5
<1> QED
  BY <1>6, <1>7

\* A failed declaration is still the one its disk is pending for.
LEMMA FailEnds ==
  ASSUME IInv, NEW t \in Tasks, task[t] # None, Fail(t)
  PROVE  /\ PendingOK'
         /\ task' \in [Tasks -> TaskRow \cup {None}]
         /\ pending' \in [Disks -> {None, "pending", "failed"}]
         /\ task' = [task EXCEPT ![t] = None]
<1>1. task[t].disk \in Disks /\ None # "pending"
  BY ClaimAssumption DEF IInv, TypeOK, WorkOK, TaskRow
<1>2. task[t].kind = "declare" => pending[task[t].disk] # None
  <2> HAVE task[t].kind = "declare"
  <2>1. t \in Declaring(task[t].disk)
    BY DEF Declaring
  <2> QED
    BY <1>1, <2>1 DEF IInv, PendingOK
<1> QED
  BY <1>2, EndKeeps DEF Fail

LEMMA OtherNames ==
  ASSUME IInv, NEW t \in Tasks, UNCHANGED <<port, path, current>>,
         \A u \in Tasks \ {t} : task'[u] = task[u],
         task'[t] = None \/ task'[t].step # "checked"
  PROVE  NamesOK'
BY DEF IInv, NamesOK, Present, Step

LEMMA FailNames ==
  ASSUME IInv, NEW t \in Tasks, task[t] # None, Fail(t), UNCHANGED <<port, path, current>>
  PROVE  NamesOK'
<1>1. task'[t] = None /\ \A u \in Tasks \ {t} : task'[u] = task[u]
  BY DEF Fail, IInv, TypeOK, WorkOK
<1> QED
  BY <1>1, OtherNames

LEMMA StartInv ==
  ASSUME IInv, NEW t \in Tasks, NEW d \in Disks, StartDeclare(t, d) \/ StartWipe(t, d)
  PROVE  IInv'
<1>1. /\ UNCHANGED <<port, on, mounted, live, path, listed, declared, scan, current>>
      /\ UNCHANGED <<plugs, made, events>> /\ task[t] = None
  BY DEF StartDeclare, StartWipe, kernel, rows
<1>2. PICK k \in {"declare", "wipe"} : /\ task' = [task EXCEPT ![t] = NewTask(k, d)]
                                       /\ k = "declare" <=> StartDeclare(t, d) /\ Declarable(d)
                                            /\ pending' = [pending EXCEPT ![d] = "pending"]
                                       /\ k = "wipe" => pending' = pending
  <2>1. CASE StartDeclare(t, d)
    BY <2>1 DEF StartDeclare
  <2>2. CASE StartWipe(t, d) /\ ~StartDeclare(t, d)
    BY <2>2 DEF StartWipe
  <2> QED
    BY <2>1, <2>2
<1>3. NewTask(k, d) \in TaskRow /\ NewTask(k, d).kind = k /\ NewTask(k, d).disk = d
      /\ NewTask(k, d).step = "new"
  BY ClaimAssumption DEF NewTask, TaskRow
<1>4. NewTask(k, d) # None
  BY <1>3, NoTaskAssumption
<1>5. /\ task' \in [Tasks -> TaskRow \cup {None}]
      /\ task'[t] = NewTask(k, d) /\ \A u \in Tasks \ {t} : task'[u] = task[u]
  BY <1>2, <1>3 DEF IInv, TypeOK, WorkOK
<1>6. pending' \in [Disks -> {None, "pending", "failed"}]
  BY <1>2 DEF IInv, TypeOK, WorkOK
<1>7. MachineOK' /\ RowsOK' /\ BoundsOK' /\ MountedOK'
  BY <1>1 DEF IInv, TypeOK, MachineOK, RowsOK, BoundsOK, MountedOK
<1>8. WorkOK'
  BY <1>1, <1>5, <1>6 DEF IInv, TypeOK, WorkOK
<1>9. NamesOK'
  BY <1>1, <1>3, <1>5, OtherNames
<1>10. PendingOK'
  <2>1. \A e \in Disks : t \notin Declaring(e)
    BY <1>1 DEF Declaring
  <2>2. CASE k = "wipe"
    <3>1. \A e \in Disks : Declaring(e)' = Declaring(e)
      BY <1>3, <1>5, <2>1, <2>2 DEF Declaring
    <3> QED
      BY <1>2, <2>2, <3>1 DEF IInv, PendingOK
  <2>3. CASE k = "declare"
    <3>1. /\ Declaring(d)' = Declaring(d) \cup {t}
          /\ \A e \in Disks \ {d} : Declaring(e)' = Declaring(e)
      BY <1>3, <1>4, <1>5, <2>1, <2>3 DEF Declaring
    <3>2. Declaring(d) = {}
      BY <1>2, <2>3 DEF Declarable, IInv, PendingOK
    <3>3. pending'[d] = "pending" /\ \A e \in Disks \ {d} : pending'[e] = pending[e]
      BY <1>2, <2>3 DEF IInv, TypeOK, WorkOK
    <3>4. ASSUME NEW e \in Disks
          PROVE  /\ pending'[e] # "pending" => Declaring(e)' = {}
                 /\ pending'[e] = "pending" => \E u \in Tasks : Declaring(e)' = {u}
      <4>1. CASE e = d
        BY <3>1, <3>2, <3>3, <4>1
      <4>2. CASE e # d
        BY <3>1, <3>3, <4>2 DEF IInv, PendingOK
      <4> QED
        BY <4>1, <4>2
    <3> QED
      BY <3>4 DEF PendingOK
  <2> QED
    BY <2>2, <2>3
<1> QED
  BY <1>7, <1>8, <1>9, <1>10 DEF IInv, TypeOK

LEMMA CheckInv == ASSUME IInv, NEW t \in Tasks, Check(t) PROVE IInv'
<1>1. /\ UNCHANGED <<port, on, mounted, live, path, listed, declared, scan, current>>
      /\ UNCHANGED <<plugs, made, events>> /\ task[t] # None
  BY DEF Check, Step, kernel, rows
<1>2. MachineOK' /\ RowsOK' /\ BoundsOK' /\ MountedOK'
  BY <1>1 DEF IInv, TypeOK, MachineOK, RowsOK, BoundsOK, MountedOK
<1>3. CASE Fail(t)
  <2>1. PendingOK' /\ WorkOK'
    BY <1>1, <1>3, FailEnds DEF IInv, TypeOK, WorkOK
  <2>2. NamesOK'
    BY <1>1, <1>3, FailNames
  <2> QED
    BY <1>2, <2>1, <2>2 DEF IInv, TypeOK
<1>4. CASE ~Fail(t)
  <2> DEFINE d == task[t].disk
             r == [task[t] EXCEPT !.step = "checked", !.path = path[d], !.sure = current]
  <2>1. task[t] \in TaskRow /\ d \in Disks /\ path[d] \in Paths \cup {None}
        /\ current \in BOOLEAN
    BY <1>1 DEF IInv, TypeOK, WorkOK, BoundsOK, TaskRow
  <2>2. path[d] # None /\ pending' = pending /\ task' = [task EXCEPT ![t] = r]
    BY <1>4 DEF Check
  <2>3. /\ r \in TaskRow /\ r.kind = task[t].kind /\ r.disk = d
        /\ r.path = path[d] /\ r.sure = current
    BY <2>1 DEF TaskRow
  <2> HIDE DEF r
  <2>4. PendingOK' /\ WorkOK'
    <3>1. PendingOK' /\ task' \in [Tasks -> TaskRow \cup {None}]
      BY <1>1, <2>2, <2>3, ContinueKeeps
    <3> QED
      BY <1>1, <2>2, <3>1 DEF IInv, TypeOK, WorkOK
  <2>5. task'[t] = r /\ \A u \in Tasks \ {t} : task'[u] = task[u]
    BY <2>2 DEF IInv, TypeOK, WorkOK
  <2>6. current => path[d] = port[d]
    BY <2>1, <2>2 DEF IInv, NamesOK
  <2>7. NamesOK'
    BY <1>1, <2>3, <2>5, <2>6 DEF IInv, NamesOK, Present, Step
  <2> QED
    BY <1>2, <2>4, <2>7 DEF IInv, TypeOK
<1> QED
  BY <1>3, <1>4

LEMMA EraseInv == ASSUME IInv, NEW t \in Tasks, Erase(t) PROVE IInv'
<1>1. /\ UNCHANGED <<port, mounted, live, path, listed, declared, scan, current>>
      /\ UNCHANGED <<plugs, made, events>> /\ task[t] # None /\ task[t].step = "checked"
  BY DEF Erase, Step, rows
<1>2. RowsOK' /\ BoundsOK'
  BY <1>1 DEF IInv, TypeOK, RowsOK, BoundsOK
<1>3. MachineOK' /\ MountedOK'
  <2>1. CASE UNCHANGED on
    BY <1>1, <2>1 DEF IInv, TypeOK, MachineOK, MountedOK
  <2>2. CASE /\ Erasable(At(task[t].path))
             /\ on' = [d \in Disks |-> IF d \in At(task[t].path) THEN None ELSE on[d]]
    <3>1. \A d \in mounted : d \in Disks /\ d \notin At(task[t].path)
      BY <2>2 DEF Erasable, Held, IInv, TypeOK, MachineOK
    <3> QED
      BY <1>1, <2>2, <3>1 DEF IInv, TypeOK, MachineOK, MountedOK
  <2> QED
    BY <2>1, <2>2 DEF Erase
<1>4. CASE Fail(t)
  <2>1. PendingOK' /\ WorkOK'
    BY <1>1, <1>4, FailEnds DEF IInv, TypeOK, WorkOK
  <2>2. NamesOK'
    BY <1>1, <1>4, FailNames
  <2> QED
    BY <1>2, <1>3, <2>1, <2>2 DEF IInv, TypeOK
<1>5. CASE task[t].kind = "wipe" /\ ~Fail(t)
  <2>1. task' = [task EXCEPT ![t] = None] /\ pending' = pending
    BY <1>5 DEF Erase
  <2>2. PendingOK' /\ WorkOK'
    BY <1>1, <1>5, <2>1, EndKeeps DEF IInv, TypeOK, WorkOK
  <2>3. task'[t] = None /\ \A u \in Tasks \ {t} : task'[u] = task[u]
    BY <2>1 DEF IInv, TypeOK, WorkOK
  <2>4. NamesOK'
    BY <1>1, <2>3, OtherNames
  <2> QED
    BY <1>2, <1>3, <2>2, <2>4 DEF IInv, TypeOK
<1>6. CASE task[t].kind # "wipe" /\ ~Fail(t)
  <2> DEFINE r == [task[t] EXCEPT !.step = "erased"]
  <2>1. task' = [task EXCEPT ![t] = r] /\ pending' = pending
    BY <1>6 DEF Erase
  <2>2. r \in TaskRow /\ r.kind = task[t].kind /\ r.disk = task[t].disk /\ r.step = "erased"
    BY <1>1 DEF IInv, TypeOK, WorkOK, TaskRow
  <2> HIDE DEF r
  <2>3. PendingOK' /\ task' \in [Tasks -> TaskRow \cup {None}]
    BY <1>1, <2>1, <2>2, ContinueKeeps
  <2>4. task'[t] = r /\ \A u \in Tasks \ {t} : task'[u] = task[u]
    BY <2>1 DEF IInv, TypeOK, WorkOK
  <2>5. NamesOK'
    BY <1>1, <2>2, <2>4, OtherNames
  <2>6. WorkOK'
    BY <1>1, <2>1, <2>3 DEF IInv, TypeOK, WorkOK
  <2> QED
    BY <1>2, <1>3, <2>3, <2>5, <2>6 DEF IInv, TypeOK
<1> QED
  BY <1>4, <1>5, <1>6

LEMMA FormatInv == ASSUME IInv, NEW t \in Tasks, Format(t) PROVE IInv'
<1>1. /\ UNCHANGED <<port, mounted, live, path, listed, declared, scan, current>>
      /\ UNCHANGED <<plugs, events>> /\ task[t] # None
  BY DEF Format, Step, rows
<1>2. RowsOK'
  BY <1>1 DEF IInv, TypeOK, RowsOK
<1>3. task[t] \in TaskRow /\ task[t].disk \in Disks
  BY <1>1 DEF IInv, TypeOK, WorkOK, TaskRow
<1>4. CASE Fail(t) /\ UNCHANGED <<on, made>>
  <2>1. PendingOK' /\ WorkOK'
    BY <1>1, <1>4, FailEnds DEF IInv, TypeOK, WorkOK
  <2>2. NamesOK'
    BY <1>1, <1>4, FailNames
  <2>3. MachineOK' /\ MountedOK' /\ BoundsOK'
    BY <1>1, <1>4 DEF IInv, TypeOK, MachineOK, MountedOK, BoundsOK
  <2> QED
    BY <1>2, <2>1, <2>2, <2>3 DEF IInv, TypeOK
<1>5. CASE ~(Fail(t) /\ UNCHANGED <<on, made>>)
  <2> DEFINE d == task[t].disk
             r == [task[t] EXCEPT !.step = "formatted", !.fs = made']
  <2>1. /\ ~Held(d) /\ made < MaxFs /\ made' = made + 1 /\ pending' = pending
        /\ on' = [on EXCEPT ![d] = made'] /\ task' = [task EXCEPT ![t] = r]
    BY <1>5 DEF Format
  <2>2. made' \in 1..MaxFs /\ made' \in 0..MaxFs
    BY <2>1, ClaimAssumption DEF IInv, TypeOK, BoundsOK
  <2>3. r \in TaskRow /\ r.kind = task[t].kind /\ r.disk = d /\ r.step = "formatted"
    BY <1>3, <2>2 DEF TaskRow
  <2> HIDE DEF r
  <2>4. PendingOK' /\ task' \in [Tasks -> TaskRow \cup {None}]
    BY <1>1, <2>1, <2>3, ContinueKeeps
  <2>5. task'[t] = r /\ \A u \in Tasks \ {t} : task'[u] = task[u]
    BY <2>1 DEF IInv, TypeOK, WorkOK
  <2>6. NamesOK'
    BY <1>1, <2>3, <2>5, OtherNames
  <2>7. WorkOK'
    BY <1>1, <2>1, <2>4 DEF IInv, TypeOK, WorkOK
  <2>8. MachineOK' /\ MountedOK'
    <3>1. d \notin mounted /\ \A e \in Disks \ {d} : on'[e] = on[e]
      BY <2>1 DEF Held, IInv, TypeOK, MachineOK
    <3>2. on' \in [Disks -> (1..MaxFs) \cup Pools \cup {None}]
      BY <1>3, <2>1, <2>2 DEF IInv, TypeOK, MachineOK
    <3> QED
      BY <1>1, <3>1, <3>2 DEF IInv, TypeOK, MachineOK, MountedOK
  <2>9. BoundsOK'
    BY <1>1, <2>2 DEF IInv, TypeOK, BoundsOK
  <2> QED
    BY <1>2, <2>4, <2>6, <2>7, <2>8, <2>9 DEF IInv, TypeOK
<1> QED
  BY <1>4, <1>5

LEMMA RegisterInv == ASSUME IInv, NEW t \in Tasks, Register(t) PROVE IInv'
<1> DEFINE d == task[t].disk
<1>1. /\ UNCHANGED <<port, on, live, path, listed, scan, current, plugs, made, events>>
      /\ task[t] # None
  BY DEF Register, Step
<1>2. task[t] \in TaskRow /\ d \in Disks /\ task[t].fs \in 0..MaxFs
  BY <1>1 DEF IInv, TypeOK, WorkOK, TaskRow
<1>3. MachineOK' /\ MountedOK'
  <2>1. CASE mounted' = mounted
    BY <1>1, <2>1 DEF IInv, TypeOK, MachineOK, MountedOK
  <2>2. CASE on[d] = task[t].fs /\ mounted' = mounted \cup {d}
    <3>1. on[d] \in 1..MaxFs
      <4>1. on[d] \in 0..MaxFs /\ on[d] \in (1..MaxFs) \cup Pools \cup {None}
        BY <1>2, <2>2 DEF IInv, TypeOK, MachineOK
      <4>2. on[d] \in Nat
        BY <4>1, ClaimAssumption
      <4>3. on[d] \notin Pools /\ on[d] # None
        BY <4>2, ClaimAssumption
      <4> QED
        BY <4>1, <4>3
    <3> QED
      BY <1>1, <1>2, <2>2, <3>1 DEF IInv, TypeOK, MachineOK, MountedOK
  <2> QED
    BY <2>1, <2>2 DEF Register
<1>4. BoundsOK'
  BY <1>1 DEF IInv, TypeOK, BoundsOK
<1>5. CASE Fail(t) /\ UNCHANGED declared
  <2>1. PendingOK' /\ WorkOK'
    BY <1>1, <1>5, FailEnds DEF IInv, TypeOK, WorkOK
  <2>2. NamesOK'
    BY <1>1, <1>5, FailNames
  <2>3. RowsOK'
    BY <1>1, <1>5 DEF IInv, TypeOK, RowsOK
  <2> QED
    BY <1>3, <1>4, <2>1, <2>2, <2>3 DEF IInv, TypeOK
<1>6. CASE ~(Fail(t) /\ UNCHANGED declared)
  <2> DEFINE r == [task[t] EXCEPT !.step = "registered"]
  <2>1. /\ declared' = [declared EXCEPT ![d] = task[t].fs] /\ listed[d] # "none"
        /\ task' = [task EXCEPT ![t] = r] /\ pending' = pending
    BY <1>6 DEF Register
  <2>2. r \in TaskRow /\ r.kind = task[t].kind /\ r.disk = d /\ r.step = "registered"
    BY <1>2 DEF TaskRow
  <2> HIDE DEF r
  <2>3. PendingOK' /\ task' \in [Tasks -> TaskRow \cup {None}]
    BY <1>1, <2>1, <2>2, ContinueKeeps
  <2>4. task'[t] = r /\ \A u \in Tasks \ {t} : task'[u] = task[u]
    BY <2>1 DEF IInv, TypeOK, WorkOK
  <2>5. NamesOK'
    BY <1>1, <2>2, <2>4, OtherNames
  <2>6. WorkOK'
    BY <1>1, <2>1, <2>3 DEF IInv, TypeOK, WorkOK
  <2>7. RowsOK'
    BY <1>1, <1>2, <2>1 DEF IInv, TypeOK, RowsOK
  <2> QED
    BY <1>3, <1>4, <2>3, <2>5, <2>6, <2>7 DEF IInv, TypeOK
<1> QED
  BY <1>5, <1>6

LEMMA FinishInv == ASSUME IInv, NEW t \in Tasks, Finish(t) PROVE IInv'
<1>1. /\ UNCHANGED <<port, on, live, path, listed, declared, scan, current>>
      /\ UNCHANGED <<plugs, made, events>>
      /\ task[t] # None /\ task[t].kind = "declare" /\ mounted' \subseteq mounted
  BY DEF Finish, Step, rows
<1>2. MachineOK' /\ RowsOK' /\ BoundsOK' /\ MountedOK'
  BY <1>1 DEF IInv, TypeOK, MachineOK, RowsOK, BoundsOK, MountedOK
<1>3. CASE Fail(t)
  <2>1. PendingOK' /\ WorkOK'
    BY <1>1, <1>3, FailEnds DEF IInv, TypeOK, WorkOK
  <2>2. NamesOK'
    BY <1>1, <1>3, FailNames
  <2> QED
    BY <1>2, <2>1, <2>2 DEF IInv, TypeOK
<1>4. CASE ~Fail(t)
  <2>1. /\ task' = [task EXCEPT ![t] = None]
        /\ pending' = [pending EXCEPT ![task[t].disk] = None]
    BY <1>4 DEF Finish
  <2>2. PendingOK' /\ WorkOK'
    BY <1>1, <2>1, EndKeeps DEF IInv, TypeOK, WorkOK
  <2>3. task'[t] = None /\ \A u \in Tasks \ {t} : task'[u] = task[u]
    BY <2>1 DEF IInv, TypeOK, WorkOK
  <2>4. NamesOK'
    BY <1>1, <2>3, OtherNames
  <2> QED
    BY <1>2, <2>2, <2>4 DEF IInv, TypeOK
<1> QED
  BY <1>3, <1>4

-----------------------------------------------------------------------------
(* The machine *)

LEMMA PlugInv ==
  ASSUME IInv, NEW d \in Disks, NEW q \in Paths \cup {None}, Plug(d, q)
  PROVE  IInv'
<1>1. /\ UNCHANGED <<on, mounted, live, path, listed, declared, pending, scan, made, events>>
      /\ port' = [port EXCEPT ![d] = q] /\ current' = FALSE
      /\ plugs < MaxPlugs /\ plugs' = plugs + 1
      /\ q = None \/ \A e \in Disks : port[e] # q
  BY DEF Plug, rows, At
<1>2. MachineOK' /\ RowsOK' /\ MountedOK'
  <2>1. port' \in [Disks -> Paths \cup {None}]
    BY <1>1 DEF IInv, TypeOK, MachineOK
  <2>2. RowsOK' /\ MountedOK'
    BY <1>1 DEF IInv, TypeOK, RowsOK, MountedOK
  <2> QED
    BY <1>1, <2>1, <2>2 DEF IInv, TypeOK, MachineOK
<1>3. BoundsOK'
  <2>1. plugs' \in 0..MaxPlugs
    BY <1>1, ClaimAssumption DEF IInv, TypeOK, BoundsOK
  <2>2. current' \in BOOLEAN
    BY <1>1
  <2> QED
    BY <1>1, <2>1, <2>2 DEF IInv, TypeOK, BoundsOK
<1>4. ASSUME NEW t \in Tasks
      PROVE  \/ task[t] = None /\ task'[t] = None
             \/ /\ task[t] # None /\ task'[t] # None /\ task'[t] \in TaskRow
                /\ task'[t].kind = task[t].kind /\ task'[t].disk = task[t].disk
                /\ task'[t].sure = FALSE
  <2>1. task[t] \in TaskRow \cup {None}
    BY DEF IInv, TypeOK, WorkOK
  <2>2. CASE task[t] = None
    BY <2>2 DEF Plug
  <2>3. CASE task[t] # None
    <3>1. task'[t] = [task[t] EXCEPT !.sure = FALSE]
      BY <2>3 DEF Plug
    <3>2. /\ task'[t] \in TaskRow /\ task'[t].kind = task[t].kind
          /\ task'[t].disk = task[t].disk /\ task'[t].sure = FALSE
      BY <2>1, <2>3, <3>1 DEF TaskRow
    <3> QED
      BY <2>3, <3>2, NoTaskAssumption
  <2> QED
    BY <2>2, <2>3
<1>5. task' = [t \in Tasks |-> task'[t]]
  BY DEF Plug
<1>6. WorkOK'
  <2>1. task' \in [Tasks -> TaskRow \cup {None}]
    BY <1>4, <1>5
  <2> QED
    BY <1>1, <2>1 DEF IInv, TypeOK, WorkOK
<1>7. \A e \in Disks : Declaring(e)' = Declaring(e)
  BY <1>4 DEF Declaring
<1>8. PendingOK'
  BY <1>1, <1>7 DEF IInv, PendingOK
<1>9. NamesOK'
  <2>1. ASSUME NEW x \in Disks, NEW y \in Disks, port'[x] # None, port'[x] = port'[y]
        PROVE  x = y
    <3>1. port \in [Disks -> Paths \cup {None}]
      BY DEF IInv, TypeOK, MachineOK
    <3>2. port'[d] = q /\ \A e \in Disks \ {d} : port'[e] = port[e]
      BY <1>1, <3>1
    <3>3. CASE x = d \/ y = d
      BY <1>1, <2>1, <3>2, <3>3
    <3>4. CASE x # d /\ y # d
      <4>1. port[x] # None /\ port[x] = port[y]
        BY <2>1, <3>2, <3>4
      <4> QED
        BY <4>1 DEF IInv, NamesOK, Present
    <3> QED
      BY <3>3, <3>4
  <2>2. \A t \in Tasks : task'[t] # None => ~task'[t].sure
    BY <1>4
  <2> QED
    BY <1>1, <2>1, <2>2 DEF NamesOK, Present, Step
<1> QED
  BY <1>2, <1>3, <1>6, <1>8, <1>9 DEF IInv, TypeOK

LEMMA CrashInv == IInv /\ Crash => IInv'
<1> SUFFICES ASSUME IInv, Crash PROVE IInv'
  OBVIOUS
<1>1. UNCHANGED <<port, on, mounted, live, listed, declared, current, plugs, made>>
  BY DEF Crash, kernel, rows
<1>2. /\ path' = [d \in Disks |-> None] /\ pending' = [d \in Disks |-> None]
      /\ task' = [t \in Tasks |-> None] /\ scan' = None
      /\ events < MaxEvents /\ events' = events + 1
  BY DEF Crash
<1>3. MachineOK' /\ RowsOK' /\ MountedOK'
  BY <1>1 DEF IInv, TypeOK, MachineOK, RowsOK, MountedOK
<1>4. WorkOK'
  BY <1>2 DEF WorkOK
<1>5. BoundsOK'
  BY <1>1, <1>2, ClaimAssumption DEF IInv, TypeOK, BoundsOK
<1>6. PendingOK'
  <2>1. \A d \in Disks : pending'[d] # "pending"
    BY <1>2, ClaimAssumption
  <2>2. \A d \in Disks : Declaring(d)' = {}
    BY <1>2 DEF Declaring
  <2> QED
    BY <2>1, <2>2 DEF PendingOK
<1>7. NamesOK'
  BY <1>1, <1>2 DEF IInv, NamesOK, Present, Step
<1> QED
  BY <1>3, <1>4, <1>5, <1>6, <1>7 DEF IInv, TypeOK

LEMMA StepInv == IInv /\ [Next]_vars => IInv'
<1> SUFFICES ASSUME IInv, [Next]_vars PROVE IInv'
  OBVIOUS
<1>1. CASE UNCHANGED vars
  <2>1. UNCHANGED <<port, on, mounted, live, path, listed, declared, pending, task>>
        /\ UNCHANGED <<scan, current, plugs, made, events>>
    BY <1>1 DEF vars, kernel, rows
  <2>2. PendingOK' /\ NamesOK'
    BY <2>1, QuietKeeps
  <2> QED
    BY <2>1, <2>2
    DEF IInv, TypeOK, MachineOK, RowsOK, WorkOK, BoundsOK, MountedOK
<1>2. CASE ScanRead
  BY <1>2, ScanReadInv
<1>3. CASE ScanWrite
  BY <1>3, RowsInv
<1>4. CASE Crash
  BY <1>4, CrashInv
<1>5. ASSUME NEW t \in Tasks, Requests(t) PROVE IInv'
  BY <1>5, StartInv DEF Requests
<1>6. ASSUME NEW t \in Tasks, Work(t) PROVE IInv'
  BY <1>6, CheckInv, EraseInv, FormatInv, RegisterInv, FinishInv DEF Work
<1>7. ASSUME NEW d \in Disks, MarkDead(d) \/ Resurrect(d) \/ DropDisk(d) PROVE IInv'
  BY <1>7, RowsInv
<1>8. ASSUME NEW d \in Disks, Mount(d) \/ Unmount(d) \/ Deregister(d) \/ Adopt(d)
      PROVE  IInv'
  BY <1>8, DeclaredInv
<1>9. ASSUME NEW d \in Disks, NEW q \in Paths \cup {None}, Plug(d, q) PROVE IInv'
  BY <1>9, PlugInv
<1>10. ASSUME NEW p \in Pools,
              ExportPool(p) \/ ImportPool(p)
                \/ \E D \in (SUBSET Disks) \ {{}} : CreatePool(p, D)
       PROVE  IInv'
  BY <1>10, PoolInv
<1> QED
  BY <1>1, <1>2, <1>3, <1>4, <1>5, <1>6, <1>7, <1>8, <1>9, <1>10 DEF Next

-----------------------------------------------------------------------------
(* Theorems *)

\* Whatever runs at once, a disk is pending exactly while one task declares it, a
\* mount is of a filesystem, and a task sure of a kernel name is right about it.
THEOREM Invariance == Spec => []IInv
BY InitInv, StepInv, PTL DEF Spec

\* Requests, declarations, scans, moved disks and crashes keep everything in its
\* domain; a declared disk keeps its row (backup_disks.disk_id refers to it).
THEOREM TypeCorrect == Spec => []TypeOK
<1>1. IInv => TypeOK
  BY DEF IInv
<1> QED
  BY <1>1, Invariance, PTL

\* start_declare_backup_disk admits one declaration of a disk at a time, for any
\* number of requests, and _run_declare clears what it was pending for.
THEOREM OneDeclares == Spec => []PendingIsWorked
<1>1. IInv => PendingIsWorked
  <2> SUFFICES ASSUME IInv, NEW d \in Disks
               PROVE  Cardinality(Declaring(d)) = IF pending[d] = "pending" THEN 1 ELSE 0
    BY DEF PendingIsWorked, Declaring
  <2>1. CASE pending[d] = "pending"
    <3>1. PICK t \in Tasks : Declaring(d) = {t}
      BY <2>1 DEF IInv, PendingOK
    <3> QED
      BY <2>1, <3>1, FS_Singleton
  <2>2. CASE pending[d] # "pending"
    <3>1. Declaring(d) = {}
      BY <2>2 DEF IInv, PendingOK
    <3> QED
      BY <2>2, <3>1, FS_EmptySet
  <2> QED
    BY <2>1, <2>2
<1> QED
  BY <1>1, Invariance, PTL

\* Only what neither a mount nor an imported pool holds is overwritten: erase, mkfs
\* and zpool create all run such that the kernel refuses the rest.
LEMMA StepIntact ==
  IInv /\ [Next]_vars => [\A d \in Disks : Held(d) => on'[d] = on[d]]_vars
<1> SUFFICES ASSUME IInv, Next, NEW d \in Disks, Held(d) PROVE on'[d] = on[d]
  BY DEF vars
<1> USE DEF IInv, TypeOK, MachineOK
<1>1. CASE UNCHANGED on
  BY <1>1
<1>2. ASSUME NEW t \in Tasks, Erase(t) PROVE on'[d] = on[d]
  BY <1>2 DEF Erase, Erasable
<1>3. ASSUME NEW t \in Tasks, Format(t) PROVE on'[d] = on[d]
  <2>1. CASE UNCHANGED on
    BY <2>1
  <2>2. CASE ~Held(task[t].disk) /\ on' = [on EXCEPT ![task[t].disk] = made']
    BY <2>2
  <2> QED
    BY <1>3, <2>1, <2>2 DEF Format
<1>4. ASSUME NEW p \in Pools, NEW D \in (SUBSET Disks) \ {{}}, CreatePool(p, D)
      PROVE  on'[d] = on[d]
  <2>1. d \notin D /\ p \notin live
    BY <1>4 DEF CreatePool
  <2>2. on[d] # p
    BY <2>1, ClaimAssumption DEF Held, MountedOK
  <2> QED
    BY <1>4, <2>1, <2>2 DEF CreatePool
<1> QED
  BY <1>1, <1>2, <1>3, <1>4
  DEF Next, Requests, Work, ScanRead, ScanWrite, Crash, StartDeclare, StartWipe, Check,
      Register, Finish, MarkDead, Resurrect, DropDisk, Mount, Unmount, Deregister, Adopt,
      Plug, ExportPool, ImportPool, kernel

\* What is in use is never overwritten, whichever requests run at once.
THEOREM InUseIsIntact == Spec => HeldIsIntact
BY Invariance, StepIntact, PTL DEF Spec, HeldIsIntact

\* A wipe that took its kernel name from a current map reaches its own disk only.
LEMMA StepErases ==
  IInv /\ [Next]_vars =>
    [\A t \in Tasks, d \in Disks : Erases(t, d) => task[t].disk = d \/ ~task[t].sure]_vars
<1> SUFFICES ASSUME IInv, Next, NEW t \in Tasks, NEW d \in Disks, Erases(t, d), task[t].sure
             PROVE  task[t].disk = d
  BY DEF vars
<1> DEFINE e == task[t].disk
<1>1. /\ Step(t, {"declare", "wipe"}, "checked") /\ task[t] # None
      /\ task'[t] # task[t] /\ on'[d] # on[d]
  BY DEF Erases, Step
<1>2. e \in Disks /\ port[e] = task[t].path
  BY <1>1 DEF IInv, NamesOK, TypeOK, WorkOK, TaskRow
<1>3. \A x \in At(task[t].path) : x = e
  BY <1>2 DEF At, IInv, NamesOK, Present
<1>4. ASSUME NEW u \in Tasks, Erase(u) PROVE d \in At(task[u].path) /\ u = t
  <2>1. d \in At(task[u].path)
    BY <1>1, <1>4 DEF Erase, IInv, TypeOK, MachineOK
  <2>2. u = t
    BY <1>1, <1>4 DEF Erase, Fail, IInv, TypeOK, WorkOK
  <2> QED
    BY <2>1, <2>2
<1>5. ASSUME NEW u \in Tasks, Format(u) PROVE FALSE
  <2>1. task[u].step = "erased" /\ \E r : task' = [task EXCEPT ![u] = r]
    BY <1>5 DEF Format, Step, Fail
  <2>2. u # t
    BY <1>1, <2>1 DEF Step
  <2> QED
    BY <1>1, <2>1, <2>2 DEF IInv, TypeOK, WorkOK
<1>6. ASSUME NEW p \in Pools, NEW D \in (SUBSET Disks) \ {{}}, CreatePool(p, D) PROVE FALSE
  BY <1>1, <1>6 DEF CreatePool
<1>7. UNCHANGED on \/ \E u \in Tasks : Erase(u)
  BY <1>5, <1>6
  DEF Next, Requests, Work, ScanRead, ScanWrite, Crash, StartDeclare, StartWipe, Check,
      Register, Finish, MarkDead, Resurrect, DropDisk, Mount, Unmount, Deregister, Adopt,
      Plug, ExportPool, ImportPool, kernel
<1> QED
  BY <1>1, <1>3, <1>4, <1>7

\* The kernel names of a current map are enough to wipe only the disk asked for.
THEOREM CurrentIsErased == Spec => ScannedIsErased
BY Invariance, StepErases, PTL DEF Spec, ScannedIsErased

=============================================================================
