---------------------------- MODULE VolumeManifest ----------------------------
(***************************************************************************)
(* What a backup volume says of itself: the index nazman-backup.json at    *)
(* its root, and a sidecar beside each stream and configuration bundle.    *)
(*   utils/backup_manifest.py       load, scan, build, upsert              *)
(*   managers/zfs_backup_manager.py _record_manifest, rebuild_manifest     *)
(*   managers/backup_manager.py     capture_config_bundle, pruning         *)
(*                                                                         *)
(* One volume.  Its writer (a session's runs and captures, one after the   *)
(* other) and the API's readers and rebuilders share the mount point.  A   *)
(* path below it is on the volume while it is mounted, else on the system  *)
(* disk: each place has a store of its own.  Saves are atomic (a temporary *)
(* file, then a rename); everything between two awaits is one step, which  *)
(* a crash or an I/O error may cut short between two files.                *)
(***************************************************************************)
EXTENDS Naturals, FiniteSets

CONSTANTS
  Streams,      \* the streams that may be written
  Visitors,     \* API requests: rebuilds and reads of the manifest
  Retention,    \* settings.backup_config_retention
  MaxBundles,   \* bound: configuration bundles captured
  MaxCrashes,   \* bound: crashes
  None

ASSUME ManifestAssumption ==
  /\ Retention \in Nat \ {0}
  /\ MaxBundles \in Nat /\ MaxCrashes \in Nat
  /\ None \notin Streams

VARIABLES
  unmountAfter, \* BackupDisk.unmount_after_backup
  mounted,      \* whether the volume is mounted
  store,        \* store[p]: the files below the mount point, on the volume or bare
  writer,       \* the writer: what it does, with what, the manifest it holds
  visit,        \* visit[v]: an API request and the manifest it holds
  clock,        \* the id of the last bundle: a timestamp
  recorded,     \* history: streams whose recording on the volume completed
  newest,       \* history: the last bundle whose capture on the volume completed
  crashes

vars == <<unmountAfter, mounted, store, writer, visit, clock, recorded, newest, crashes>>

Places == {"volume", "bare"}
Ids == 1..MaxBundles
Manifest == [streams : SUBSET Streams, bundles : SUBSET Ids]
Empty == [streams |-> {}, bundles |-> {}]
ASSUME NoneAssumption == None \notin Manifest
\* The index, the sidecars, the bundle directories and those with a sidecar.
Files == [index : Manifest \cup {None}, cars : SUBSET Streams,
          dirs : SUBSET Ids, bcars : SUBSET Ids]
Work == {"idle", "writing", "recording", "capturing", "merging"}
Idle == [does |-> "idle", item |-> None, held |-> Empty, from |-> "volume"]
NoVisit == [does |-> "none", held |-> Empty]

At == IF mounted THEN "volume" ELSE "bare"
Write(files) == store' = [store EXCEPT ![At] = files]

Greatest(S) == CHOOSE x \in S : \A y \in S : y <= x
AddStream(m, s) == [m EXCEPT !.streams = @ \cup {s}]
AddBundle(m, b) == [m EXCEPT !.bundles = @ \cup {b}]

-----------------------------------------------------------------------------
(* Reading *)

\* Mutant of Built: every sidecar is taken for a stream's.
BuiltOfAny(f) == [streams |-> f.cars \cup f.bcars, bundles |-> f.bcars]

Built(f) == [streams |-> f.cars, bundles |-> f.bcars]

\* Mutant of Scan: the index alone, when there is one.
ScanIndex(f) == IF f.index = None THEN Built(f) ELSE f.index

\* The index when there is one, with the sidecars folded in.
Scan(f) ==
  IF f.index = None THEN Built(f)
  ELSE [streams |-> f.index.streams \cup f.cars, bundles |-> f.index.bundles \cup f.bcars]

-----------------------------------------------------------------------------
(* A run's stream and its entry *)

\* backup_dataset mounts the volume and sends the stream to a file on it.
BeginRun(s) ==
  /\ writer.does = "idle" /\ s \notin recorded
  /\ \A p \in Places : s \notin store[p].cars
  /\ mounted' = TRUE
  /\ writer' = [does |-> "writing", item |-> s, held |-> Empty, from |-> At]
  /\ UNCHANGED <<unmountAfter, store, visit, clock, recorded, newest, crashes>>

\* Mutant of BeginRecord: the manifest is made from the sidecars alone.
BeginRecordBuilt ==
  /\ writer.does = "writing"
  /\ writer' = [writer EXCEPT !.does = "recording", !.held = Built(store[At]), !.from = At]
  /\ UNCHANGED <<unmountAfter, mounted, store, visit, clock, recorded, newest, crashes>>

\* _record_manifest scans, then waits for the pools' and the dataset's specs.
BeginRecord ==
  /\ writer.does = "writing"
  /\ writer' = [writer EXCEPT !.does = "recording", !.held = Scan(store[At]), !.from = At]
  /\ UNCHANGED <<unmountAfter, mounted, store, visit, clock, recorded, newest, crashes>>

\* The files after a recording cut short before, between or after its writes.
Recordings(f, m, s) ==
  LET indexed == [f EXCEPT !.index = AddStream(m, s)]
  IN { f, indexed, [indexed EXCEPT !.cars = @ \cup {s}] }

\* Index, then sidecar; an error is only logged.
EndRecord ==
  LET s == writer.item
  IN /\ writer.does = "recording"
     /\ \E f \in Recordings(store[At], writer.held, s) :
          /\ Write(f)
          /\ recorded' = IF mounted /\ s \in f.cars THEN recorded \cup {s} ELSE recorded
     /\ writer' = Idle
     /\ mounted' \in IF unmountAfter THEN {mounted, FALSE} ELSE {mounted}
     /\ UNCHANGED <<unmountAfter, visit, clock, newest, crashes>>

-----------------------------------------------------------------------------
(* A configuration bundle *)

\* A directory named for the second; dumps of the database and of the pools.
BeginCapture ==
  /\ writer.does = "idle" /\ clock < MaxBundles
  /\ clock' = clock + 1
  /\ Write([store[At] EXCEPT !.dirs = @ \cup {clock + 1}])
  /\ writer' = [does |-> "capturing", item |-> clock + 1, held |-> Empty, from |-> At]
  /\ UNCHANGED <<unmountAfter, mounted, visit, recorded, newest, crashes>>

\* The volume is scanned, then the live specs are awaited; or the dumps fail.
ScanCapture ==
  /\ writer.does = "capturing"
  /\ \/ writer' = [writer EXCEPT !.does = "merging", !.held = Scan(store[At]), !.from = At]
     \/ writer' = Idle
  /\ UNCHANGED <<unmountAfter, mounted, store, visit, clock, recorded, newest, crashes>>

\* Mutant of Surplus: the bundles kept are the oldest.
SurplusNewest(dirs) == { b \in dirs : Cardinality({ c \in dirs : c < b }) >= Retention }

\* Every directory counts, complete or not, and the newest are kept.
Surplus(dirs) == { b \in dirs : Cardinality({ c \in dirs : c > b }) >= Retention }

Pruned(f) ==
  LET old == Surplus(f.dirs)
  IN [f EXCEPT !.dirs = @ \ old, !.bcars = @ \ old]

\* The files as a capture goes on: index, sidecar, the surplus directories, and
\* the index once more without them.
Captures(f, m, b) ==
  LET made == [f EXCEPT !.dirs = @ \cup {b}]
      listed == [made EXCEPT !.index = AddBundle(m, b)]
      carded == [listed EXCEPT !.bcars = @ \cup {b}]
      pruned == Pruned(carded)
      relisted == [pruned EXCEPT !.index.bundles = @ \ Surplus(carded.dirs)]
  IN << f, listed, carded, pruned, relisted >>

\* Cut short anywhere, by an error or a crash.
EndCapture ==
  LET b == writer.item
  IN /\ writer.does = "merging"
     /\ \E i \in 1..5 :
          /\ Write(Captures(store[At], writer.held, b)[i])
          /\ newest' = IF mounted /\ i >= 3 THEN b ELSE newest
     /\ writer' = Idle
     /\ UNCHANGED <<unmountAfter, mounted, visit, clock, recorded, crashes>>

-----------------------------------------------------------------------------
(* Rebuild and read *)

\* rebuild_manifest mounts if it must, builds from the sidecars and waits.
BeginRebuild(v) ==
  /\ visit[v].does = "none"
  /\ mounted' = TRUE
  /\ visit' = [visit EXCEPT ![v] = [does |-> "rebuild", held |-> Built(store["volume"])]]
  /\ UNCHANGED <<unmountAfter, store, writer, clock, recorded, newest, crashes>>

\* It saves what it built before the wait, then puts the volume back to idle;
\* a umount fails while a file is open.
EndRebuild(v) ==
  /\ visit[v].does = "rebuild"
  /\ \E f \in { store[At], [store[At] EXCEPT !.index = visit[v].held] } : Write(f)
  /\ mounted' \in IF unmountAfter THEN {mounted, FALSE} ELSE {mounted}
  /\ visit' = [visit EXCEPT ![v] = NoVisit]
  /\ UNCHANGED <<unmountAfter, writer, clock, recorded, newest, crashes>>

\* get_volume_manifest mounts, reads, and unmounts what it mounted.
BeginRead(v) ==
  /\ visit[v].does = "none" /\ ~mounted
  /\ mounted' = TRUE
  /\ visit' = [visit EXCEPT ![v] = [does |-> "read", held |-> Empty]]
  /\ UNCHANGED <<unmountAfter, store, writer, clock, recorded, newest, crashes>>

EndRead(v) ==
  /\ visit[v].does = "read"
  /\ mounted' \in IF unmountAfter THEN {mounted, FALSE} ELSE {mounted}
  /\ visit' = [visit EXCEPT ![v] = NoVisit]
  /\ UNCHANGED <<unmountAfter, store, writer, clock, recorded, newest, crashes>>

-----------------------------------------------------------------------------
(* The process stops; the mount outlives it, but not a reboot. *)
Crash ==
  /\ crashes < MaxCrashes
  /\ crashes' = crashes + 1
  /\ writer' = Idle
  /\ visit' = [v \in Visitors |-> NoVisit]
  /\ mounted' \in {mounted, FALSE}
  /\ UNCHANGED <<unmountAfter, store, clock, recorded, newest>>

\* A volume as declare_backup_disk seeds it, without a backup manager.
Init ==
  /\ unmountAfter \in BOOLEAN
  /\ mounted = ~unmountAfter
  /\ store = [p \in Places |->
                [index |-> IF p = "volume" THEN Empty ELSE None,
                 cars |-> {}, dirs |-> {}, bcars |-> {}]]
  /\ writer = Idle
  /\ visit = [v \in Visitors |-> NoVisit]
  /\ clock = 0 /\ recorded = {} /\ newest = 0 /\ crashes = 0

WriterStep ==
  \/ \E s \in Streams : BeginRun(s)
  \/ BeginRecord \/ EndRecord
  \/ BeginCapture \/ ScanCapture \/ EndCapture

VisitorStep(v) == BeginRebuild(v) \/ EndRebuild(v) \/ BeginRead(v) \/ EndRead(v)

Next == WriterStep \/ (\E v \in Visitors : VisitorStep(v)) \/ Crash

Spec == Init /\ [][Next]_vars

-----------------------------------------------------------------------------
(* Properties *)

TypeOK ==
  /\ unmountAfter \in BOOLEAN /\ mounted \in BOOLEAN
  /\ store \in [Places -> Files]
  /\ writer \in [does : Work, item : Streams \cup Ids \cup {None}, held : Manifest,
                 from : Places]
  /\ visit \in [Visitors -> [does : {"none", "rebuild", "read"}, held : Manifest]]
  /\ clock \in 0..MaxBundles /\ newest \in 0..clock
  /\ recorded \subseteq Streams
  /\ crashes \in 0..MaxCrashes

\* A stream whose recording completed is found by every later scan of the
\* volume, whatever index a rebuild that began earlier saves over the newer one
\* (backup_manifest.scan_volume folds the sidecars in).
RecordedFound == recorded \subseteq Scan(store["volume"]).streams

\* The last bundle captured to its end stays on the volume and in its scan:
\* captures that failed leave directories that count as bundles, and neither
\* these nor a crash in the middle of a pruning make a later one drop it.
NewestBundleKept ==
  newest # 0 =>
    /\ newest \in store["volume"].dirs
    /\ newest \in Scan(store["volume"]).bundles

\* A manifest the writer scanned from the volume and saves there after its wait
\* forgets no stream that the index lists by then, and brings back those a late
\* rebuild dropped.
SavesListAll ==
  [][ writer.from = "volume" /\ mounted /\ writer.does \in {"recording", "merging"} /\ writer' = Idle
        /\ crashes' = crashes /\ store' # store
      => LET was == store["volume"].index.streams
             is == store'["volume"].index.streams
         IN was \cup recorded \subseteq is ]_vars

=============================================================================
