---------------------------- MODULE SystemRestore ----------------------------
(***************************************************************************)
(* Restoring datasets from the volumes that happen to be attached.         *)
(*   services/system_restore.py     discovery, plan, restore job, worker   *)
(*   managers/zfs_backup_manager.py receive_stream                         *)
(*                                                                         *)
(* What was backed up is fixed: a history of runs, numbered by time, of    *)
(* which each volume lists its own.  A volume belongs to the set stamped   *)
(* on the first run it lists.  A scan mounts, reads and unmounts every     *)
(* attached volume in turn, and is one step: nothing on them changes.  The *)
(* same scratch mount points serve the restore and every other request.    *)
(***************************************************************************)
EXTENDS PoolMapping

CONSTANTS
  Volumes,      \* backup volumes
  Datasets,     \* source datasets, one target each
  Sets,         \* set ids, as stamped
  Histories,    \* the histories of runs to start from
  Requests,     \* POSTs of a restore that may be under way together
  MaxStarts,    \* bound: restores started
  MaxEvents,    \* bound: scans by other requests, plugs, unplugs and crashes
  Faults        \* what may fail: "mount", "receive"

Run == [set : Sets, ds : Datasets, full : BOOLEAN, vol : Volumes \cup {None}]

\* The writer's rule: an incremental follows a run of its set and dataset.  A
\* run on no volume is one whose manifest entry was never written.
Legal(h) ==
  \A i \in DOMAIN h :
    ~h[i].full => \E j \in 1..(i - 1) : h[j].set = h[i].set /\ h[j].ds = h[i].ds

ASSUME RestoreAssumption ==
  /\ \A h \in Histories : h \in Seq(Run) /\ Legal(h)
  /\ MaxStarts \in Nat /\ MaxEvents \in Nat
  /\ Faults \subseteq {"mount", "receive"}
  /\ None \notin Volumes \cup Datasets \cup Sets
  /\ \A h \in Histories : \A S \in SUBSET (0..Len(h)) : S # None

VARIABLES
  runs,         \* the history
  attached,     \* volumes plugged in
  mounted,      \* volumes mounted under the scratch root
  have,         \* have[d]: the snapshots of the target of d, None if it is absent
  jobs,         \* the job records created, in order
  current,      \* SystemRestoreService._restore_job: an index of jobs, 0 for none
  worker,       \* worker[q]: a request, then the task it creates
  excuse,       \* history: excuse[q]: something disturbed the restore of q
  plan,         \* history: the last plan of a pool, with what it was made from
  outcomes,     \* history: what the workers reported of each dataset
  starts, events

vars == <<runs, attached, mounted, have, jobs, current, worker, excuse, plan, outcomes,
          starts, events>>

Greatest(S) == CHOOSE x \in S : \A y \in S : y <= x

-----------------------------------------------------------------------------
(* Manifests *)

ListedOn(v) == { i \in DOMAIN runs : runs[i].vol = v }

\* _manifest_set_id: the stamp of the first run listed.
SetId(v) == runs[Least(ListedOn(v))].set

\* _volumes_of: the attached volumes that say they belong to the set.
VolumesOf(s) == { v \in attached : ListedOn(v) # {} /\ SetId(v) = s }

\* _merge_manifests: the runs of a dataset on any of the volumes, by time.
Merged(V, d) == { i \in DOMAIN runs : runs[i].ds = d /\ runs[i].vol \in V }

\* Mutant of Chain: the full itself is left out.
ChainAfterFull(R) ==
  LET fulls == { i \in R : runs[i].full }
  IN IF fulls = {} THEN R ELSE { i \in R : i > Greatest(fulls) }

\* The latest full and all that follows it; everything when there is no full.
Chain(R) ==
  LET fulls == { i \in R : runs[i].full }
  IN IF fulls = {} THEN R ELSE { i \in R : i >= Greatest(fulls) }

\* _chosen_datasets: the datasets asked for whose chain is not empty, and, when
\* restoring disk by disk, lies on the one volume.
Chosen(s, D, media) ==
  LET chain == [d \in D |-> Chain(Merged(VolumesOf(s), d))]
      fits == { d \in D : /\ chain[d] # {}
                          /\ media # None => { runs[i].vol : i \in chain[d] } = {media} }
  IN [d \in fits |-> chain[d]]

-----------------------------------------------------------------------------
(* Jobs and workers *)

NoCurrent == [total |-> 0, done |-> 0]
NewJob(s, n) ==
  [set |-> s, status |-> "running", total |-> n, done |-> 0, failed |-> 0, cur |-> NoCurrent]

Idle == [pc |-> "idle", set |-> None, want |-> {}, media |-> None, own |-> 0, job |-> 0,
         chain |-> << >>, from |-> {}, mounts |-> {}, todo |-> {}, ds |-> None, left |-> {}]

\* Reading a mounted stream keeps its volume busy, so a umount of it fails.
Busy == { runs[Least(worker[q].left)].vol : q \in { r \in Requests : worker[r].pc = "receiving" } }
AfterScan == mounted \cap Busy

\* A scan disturbs every restore whose mounts it takes away.
Disturbed == [q \in Requests |-> excuse[q] \/ worker[q].mounts \cap (mounted \ Busy) # {}]

\* Updates of the job a worker reports to, if it has one.
Report(k, j) == jobs' = IF k = 0 THEN jobs ELSE [jobs EXCEPT ![k] = j]

-----------------------------------------------------------------------------
(* The request *)

\* start_restore looks for a running job, then waits for the set's manifest.
Ask(q, s, D, media) ==
  /\ worker[q].pc = "idle" /\ starts < MaxStarts
  /\ current # 0 => jobs[current].status # "running"
  /\ starts' = starts + 1
  /\ worker' = [worker EXCEPT ![q] = [Idle EXCEPT !.pc = "asking", !.set = s, !.want = D,
                                                 !.media = media]]
  /\ UNCHANGED <<plan, runs, attached, mounted, have, jobs, current, excuse, outcomes, events>>

\* The manifest has come: the job is registered and the task created, or the
\* request is refused because nothing attached can be restored.
Register(q) ==
  LET w == worker[q]
      chosen == Chosen(w.set, w.want, w.media)
  IN /\ w.pc = "asking"
     /\ mounted' = AfterScan
     /\ IF chosen = << >>
        THEN /\ worker' = [worker EXCEPT ![q] = Idle]
             /\ excuse' = Disturbed
             /\ UNCHANGED <<jobs, current>>
        ELSE /\ jobs' = Append(jobs, NewJob(w.set, Cardinality(DOMAIN chosen)))
             /\ current' = Len(jobs')
             /\ worker' = [worker EXCEPT ![q].pc = "created"]
             /\ excuse' = [Disturbed EXCEPT ![q] = FALSE]
     /\ UNCHANGED <<plan, runs, attached, have, outcomes, starts, events>>

-----------------------------------------------------------------------------
(* The task *)

\* _restore_worker takes the registered job for its own.
Begin(q) ==
  /\ worker[q].pc = "created"
  /\ worker' = [worker EXCEPT ![q].pc = "planning", ![q].own = current]
  /\ UNCHANGED <<plan, runs, attached, mounted, have, jobs, current, excuse, outcomes, starts, events>>

\* restore_datasets reads the manifest again, and reports to whatever job is
\* registered by then if it is of the same set.
Plan(q) ==
  LET w == worker[q]
      chosen == Chosen(w.set, w.want, w.media)
      job == IF current # 0 /\ jobs[current].set = w.set THEN current ELSE 0
  IN /\ w.pc = "planning" /\ VolumesOf(w.set) # {}
     /\ mounted' = AfterScan
     /\ excuse' = Disturbed
     /\ worker' = [worker EXCEPT ![q].pc = "mounting", ![q].chain = chosen, ![q].job = job,
                                 ![q].from = VolumesOf(w.set),
                                 ![q].todo = DOMAIN chosen]
     /\ Report(job, [jobs[job] EXCEPT !.total = Cardinality(DOMAIN chosen)])
     /\ UNCHANGED <<plan, runs, attached, have, current, outcomes, starts, events>>

\* _mount_volumes scans once more and mounts what it finds of the set.
Mount(q) ==
  LET w == worker[q]
  IN /\ w.pc = "mounting" /\ VolumesOf(w.set) # {}
     /\ \E V \in IF "mount" \in Faults THEN SUBSET VolumesOf(w.set) ELSE {VolumesOf(w.set)} :
          /\ V # {}
          /\ mounted' = AfterScan \cup V
          /\ worker' = [worker EXCEPT ![q].pc = "choosing", ![q].mounts = V]
          /\ excuse' = [Disturbed EXCEPT ![q] = @ \/ V # VolumesOf(w.set)]
     /\ UNCHANGED <<plan, runs, attached, have, jobs, current, outcomes, starts, events>>

\* Mutant of GiveUp: the error does not reach the job.
GiveUpSilently(q) ==
  LET w == worker[q]
  IN /\ w.pc \in {"planning", "mounting"} /\ VolumesOf(w.set) = {}
     /\ mounted' = AfterScan
     /\ excuse' = Disturbed
     /\ worker' = [worker EXCEPT ![q] = Idle]
     /\ UNCHANGED <<plan, runs, attached, have, jobs, current, outcomes, starts, events>>

\* No volume of the set is attached, or none of them mounts: the job fails.
GiveUp(q) ==
  LET w == worker[q]
  IN /\ \/ w.pc \in {"planning", "mounting"} /\ VolumesOf(w.set) = {}
        \/ w.pc = "mounting" /\ "mount" \in Faults
     /\ mounted' = AfterScan
     /\ excuse' = Disturbed
     /\ Report(w.own, [jobs[w.own] EXCEPT !.status = "failed", !.cur = NoCurrent])
     /\ worker' = [worker EXCEPT ![q] = Idle]
     /\ UNCHANGED <<plan, runs, attached, have, current, outcomes, starts, events>>

\* The next dataset in hand.
Choose(q, d) ==
  LET w == worker[q]
  IN /\ w.pc = "choosing" /\ d \in w.todo
     /\ worker' = [worker EXCEPT ![q].pc = "locating", ![q].ds = d, ![q].left = w.chain[d]]
     /\ excuse' = [excuse EXCEPT ![q] = @ \/ (have[d] \notin {None, {}}
                                               /\ runs[Least(w.chain[d])].full)]
     /\ Report(w.job, [jobs[w.job] EXCEPT !.cur = [total |-> Cardinality(w.chain[d]), done |-> 0]])
     /\ UNCHANGED <<plan, runs, attached, mounted, have, current, outcomes, starts, events>>

\* Mutant of Counted: only what succeeds counts as done.
CountedSuccess(j, ok) ==
  [j EXCEPT !.done = IF ok THEN @ + 1 ELSE @, !.failed = IF ok THEN @ ELSE @ + 1,
            !.cur = NoCurrent]

\* What the end of a dataset adds to a job, and to the history.
Counted(j, ok) ==
  [j EXCEPT !.done = @ + 1, !.failed = IF ok THEN @ ELSE @ + 1, !.cur = NoCurrent]

EndDataset(q, ok) ==
  LET w == worker[q]
  IN /\ worker' = [worker EXCEPT ![q].pc = "choosing", ![q].todo = @ \ {w.ds},
                                 ![q].ds = None, ![q].left = {}]
     /\ outcomes' = outcomes \cup {[ds |-> w.ds, from |-> w.from, chain |-> w.chain[w.ds],
                                    ok |-> ok, excused |-> excuse[q]]}
     /\ Report(w.job, Counted(jobs[w.job], ok))
     /\ UNCHANGED <<plan, runs, attached, mounted, have, current, excuse, starts, events>>

StreamPresent(q) ==
  LET v == runs[Least(worker[q].left)].vol
  IN v \in worker[q].mounts /\ v \in mounted /\ v \in attached

\* _locate_stream looks on every volume the worker mounted.
Locate(q) ==
  /\ worker[q].pc = "locating" /\ worker[q].left # {}
  /\ StreamPresent(q)
  /\ worker' = [worker EXCEPT ![q].pc = "receiving"]
  /\ UNCHANGED <<plan, runs, attached, mounted, have, jobs, current, excuse, outcomes, starts, events>>

\* Mutant of NotConnected: a stream that is not found is passed over.
PassOver(q) ==
  /\ worker[q].pc = "locating" /\ worker[q].left # {}
  /\ ~StreamPresent(q)
  /\ worker' = [worker EXCEPT ![q].left = @ \ {Least(@)}]
  /\ UNCHANGED <<plan, runs, attached, mounted, have, jobs, current, excuse, outcomes, starts, events>>

\* A stream that is not found fails the dataset.
NotConnected(q) ==
  /\ worker[q].pc = "locating" /\ worker[q].left # {}
  /\ ~StreamPresent(q)
  /\ EndDataset(q, FALSE)

Restored(q) ==
  /\ worker[q].pc = "locating" /\ worker[q].left = {}
  /\ EndDataset(q, TRUE)

\* The run an incremental was sent from.
Base(i) ==
  Greatest({ j \in 1..(i - 1) : runs[j].set = runs[i].set /\ runs[j].ds = runs[i].ds })

\* zfs receive: a full makes the target, or fills one without snapshots when
\* forced; an incremental needs its base to be the target's newest snapshot.
Receivable(d, i) ==
  IF runs[i].full THEN have[d] \in {None, {}}
  ELSE have[d] \notin {None, {}} /\ Greatest(have[d]) = Base(i)

\* receive_stream; -F whenever the target exists.
Receive(q) ==
  LET w == worker[q]
      i == Least(w.left)
  IN /\ w.pc = "receiving"
     /\ Receivable(w.ds, i) /\ runs[i].vol \in attached
     /\ have' = [have EXCEPT ![w.ds] = IF @ = None THEN {i} ELSE @ \cup {i}]
     /\ worker' = [worker EXCEPT ![q].pc = "locating", ![q].left = @ \ {i}]
     /\ Report(w.job, [jobs[w.job] EXCEPT !.cur.done = @ + 1])
     /\ UNCHANGED <<plan, runs, attached, mounted, current, excuse, outcomes, starts, events>>

\* The command fails, or its volume is gone.
ReceiveFails(q) ==
  LET i == Least(worker[q].left)
      refused == ~Receivable(worker[q].ds, i)
  IN /\ worker[q].pc = "receiving"
     /\ refused \/ "receive" \in Faults \/ runs[i].vol \notin attached
     /\ LET w == worker[q]
        IN /\ worker' = [worker EXCEPT ![q].pc = "choosing", ![q].todo = @ \ {w.ds},
                                       ![q].ds = None, ![q].left = {}]
           /\ outcomes' = outcomes \cup
                {[ds |-> w.ds, from |-> w.from, chain |-> w.chain[w.ds], ok |-> FALSE,
                  excused |-> excuse[q] \/ ~refused]}
           /\ Report(w.job, Counted(jobs[w.job], FALSE))
     /\ UNCHANGED <<plan, runs, attached, mounted, have, current, excuse, starts, events>>

\* All datasets are through: the volumes are unmounted and the job is done.
Finish(q) ==
  LET w == worker[q]
  IN /\ w.pc = "choosing" /\ w.todo = {}
     /\ mounted' = mounted \ (w.mounts \ Busy)
     /\ excuse' = [r \in Requests |-> excuse[r] \/ (r # q /\ worker[r].mounts \cap w.mounts # {})]
     /\ Report(w.own, [jobs[w.own] EXCEPT !.status = "done", !.cur = NoCurrent])
     /\ worker' = [worker EXCEPT ![q] = Idle]
     /\ UNCHANGED <<plan, runs, attached, have, current, outcomes, starts, events>>

-----------------------------------------------------------------------------
(* Everyone else *)

\* The wizard lists sets, shows a plan or the media required, or adopts them.
Scan ==
  /\ events < MaxEvents
  /\ events' = events + 1
  /\ mounted' = AfterScan
  /\ excuse' = Disturbed
  /\ UNCHANGED <<plan, runs, attached, have, jobs, current, worker, outcomes, starts>>

\* plan_pool_mapping is such a request.  It reads nothing of the rest, and is asked
\* for when nothing has happened and no volume lists a run.
PlanPool ==
  /\ runs = << >> /\ attached = {} /\ events < MaxEvents
  /\ \A d \in Datasets : have[d] = None
  /\ \E T \in DiskTables, specs \in Recorded :
       plan' = [disks |-> T, devices |-> specs, taken |-> PoolPlan(T, specs)]
  /\ events' = events + 1
  /\ mounted' = AfterScan
  /\ excuse' = Disturbed
  /\ UNCHANGED <<runs, attached, have, jobs, current, worker, outcomes, starts>>

Plug(v) ==
  /\ events < MaxEvents /\ v \notin attached
  /\ events' = events + 1
  /\ attached' = attached \cup {v}
  /\ UNCHANGED <<plan, runs, mounted, have, jobs, current, worker, excuse, outcomes, starts>>

Unplug(v) ==
  /\ events < MaxEvents /\ v \in attached
  /\ events' = events + 1
  /\ attached' = attached \ {v}
  /\ mounted' = mounted \ {v}
  /\ excuse' = [q \in Requests |-> TRUE]
  /\ UNCHANGED <<plan, runs, have, jobs, current, worker, outcomes, starts>>

\* Jobs live in memory; what was received stays.
Crash ==
  /\ events < MaxEvents
  /\ events' = events + 1
  /\ jobs' = << >> /\ current' = 0 /\ outcomes' = {}
  /\ worker' = [q \in Requests |-> Idle]
  /\ excuse' = [q \in Requests |-> FALSE]
  /\ UNCHANGED <<plan, runs, attached, mounted, have, starts>>

\* Targets are absent, empty, or hold a snapshot (0) that is no run's.
Init ==
  /\ runs \in Histories
  /\ attached \in SUBSET Volumes /\ mounted = {}
  /\ \E t \in {None, {}, {0}} : have = [d \in Datasets |-> t]
  /\ jobs = << >> /\ current = 0
  /\ worker = [q \in Requests |-> Idle]
  /\ excuse = [q \in Requests |-> FALSE] /\ outcomes = {}
  /\ plan = None
  /\ starts = 0 /\ events = 0

TaskStep(q) ==
  \/ Begin(q) \/ Plan(q) \/ Mount(q) \/ GiveUp(q)
  \/ \E d \in Datasets : Choose(q, d)
  \/ Locate(q) \/ NotConnected(q) \/ Restored(q) \/ Receive(q) \/ ReceiveFails(q)
  \/ Finish(q)

Request(q) ==
  \/ \E s \in { runs[i].set : i \in DOMAIN runs },
        D \in (SUBSET { runs[i].ds : i \in DOMAIN runs }) \ {{}},
        media \in Volumes \cup {None} :
       Ask(q, s, D, media)
  \/ Register(q)

Next ==
  \/ \E q \in Requests : Request(q) \/ TaskStep(q)
  \/ Scan \/ PlanPool \/ Crash
  \/ \E v \in Volumes : Plug(v) \/ Unplug(v)

Spec == Init /\ [][Next]_vars

-----------------------------------------------------------------------------
(* Properties *)

TypeOK ==
  /\ attached \subseteq Volumes /\ mounted \subseteq attached
  /\ \A d \in Datasets : have[d] # None => have[d] \subseteq 0..Len(runs)
  /\ current \in 0..Len(jobs)
  /\ \A k \in DOMAIN jobs :
       /\ jobs[k].status \in {"running", "done", "failed"}
       /\ jobs[k].failed <= jobs[k].done
  /\ \A q \in Requests : worker[q].own \in 0..Len(jobs) /\ worker[q].job \in 0..Len(jobs)

\* Each run of C but the first was sent from another one of them.
Links(C) == \A i \in C \ {Least(C)} : ~runs[i].full /\ Base(i) \in C

\* A dataset reported as restored holds every run of the chain that was planned,
\* and nothing in between is missing, whatever was unmounted, unplugged or
\* restored meanwhile.
SuccessHoldsChain ==
  \A o \in outcomes :
    o.ok => have[o.ds] # None /\ o.chain \subseteq have[o.ds] /\ Links(have[o.ds])

\* Some full is followed, on the volumes, by nothing but runs that each follow
\* from the one before.
Restorable(V, d) ==
  \E i \in Merged(V, d) :
    runs[i].full /\ Links({ j \in Merged(V, d) : j >= i })

\* One request at a time: a dataset is only reported as failed when what is
\* listed has a hole or mixes two sets, the target already has snapshots, or something disturbed the
\* restore: a request that scans (and unmounts), a volume unplugged, a command
\* that fails.
FailureHasCause ==
  \A o \in outcomes : ~o.ok => o.excused \/ ~Restorable(o.from, o.ds)

\* For every pair of disks and every recorded pool of two devices, the plan gives no
\* disk or partition twice, spares the OS disk, what imported pools hold and the set's
\* own media (with the exceptions that Spares names), and loses no place whose own
\* disk is there.
MappingIsSound ==
  plan # None =>
    /\ Exclusive(plan.devices, plan.taken)
    /\ Spares(plan.disks, plan.devices, plan.taken)
    /\ FindsOwn(plan.disks, plan.devices, plan.taken)

\* A job that says running has a worker that reports to it, so that the next
\* start is not refused for ever.
RunningIsWorked ==
  current # 0 /\ jobs[current].status = "running" =>
    \E q \in Requests : worker[q].pc = "created" \/ worker[q].own = current

=============================================================================
