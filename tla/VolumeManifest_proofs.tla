------------------------ MODULE VolumeManifest_proofs ------------------------
(***************************************************************************)
(* Proofs about VolumeManifest: what is recorded on a volume is found      *)
(* there, by every later scan, and no save of its writer forgets it.       *)
(*                                                                         *)
(* The argument: only the writer adds sidecars, so what it has scanned     *)
(* covers them until it saves; and what a rebuild holds comes from         *)
(* sidecars, so that the index it saves late names nothing else.           *)
(***************************************************************************)
EXTENDS VolumeManifest, FiniteSetTheorems, TLAPS

Vol == store["volume"]

\* What the writer is at: a stream of its own, or the bundle of the last second.
ItemOK ==
  /\ writer.does \in {"writing", "recording"} => writer.item \in Streams
  /\ writer.does \in {"capturing", "merging"} => writer.item = clock /\ clock \in Ids

KeptOK ==
  /\ Vol.index # None
  /\ recorded \subseteq Vol.cars
  /\ \A p \in Places : store[p].dirs \subseteq 1..clock
  /\ newest # 0 => newest \in Vol.dirs \cap Vol.bcars

\* What the writer scanned on the volume, and what the rebuilds built from it.
HeldOK ==
  /\ writer.does \in {"recording", "merging"} /\ writer.from = "volume" =>
       Vol.cars \cup Vol.index.streams \subseteq writer.held.streams
  /\ \A v \in Visitors : visit[v].does = "rebuild" => visit[v].held.streams \subseteq Vol.cars

IInv == TypeOK /\ ItemOK /\ KeptOK /\ HeldOK

-----------------------------------------------------------------------------
(* Operators *)

\* Scanning files yields a manifest that names every sidecar and, of streams,
\* whatever the index names.
LEMMA ScanType ==
  ASSUME NEW f \in Files
  PROVE  /\ Scan(f) \in Manifest /\ Built(f) \in Manifest
         /\ f.cars \subseteq Scan(f).streams /\ f.bcars \subseteq Scan(f).bundles
         /\ f.index # None => f.index.streams \subseteq Scan(f).streams
  BY DEF Scan, Built, Files, Manifest

\* A save goes to one place, and to the volume when that is mounted.
LEMMA WriteType ==
  ASSUME TypeOK, NEW f \in Files, Write(f)
  PROVE  /\ store' \in [Places -> Files]
         /\ Vol' = IF mounted THEN f ELSE Vol
         /\ \A p \in Places : store'[p] = IF p = At THEN f ELSE store[p]
<1>1. At \in Places /\ "volume" \in Places /\ (mounted <=> At = "volume")
  BY DEF At, Places
<1>2. store \in [Places -> Files] /\ store' = [store EXCEPT ![At] = f]
  BY DEF TypeOK, Write
<1>3. store' \in [Places -> Files]
  BY <1>1, <1>2
<1>4. \A p \in Places : store'[p] = IF p = At THEN f ELSE store[p]
  BY <1>1, <1>2
<1>5. Vol' = IF mounted THEN f ELSE Vol
  BY <1>1, <1>4 DEF Vol
<1> QED
  BY <1>3, <1>4, <1>5

\* The newest directory is never surplus.
LEMMA NewestSpared ==
  ASSUME NEW D \in SUBSET Nat, NEW b \in D, \A c \in D : c <= b
  PROVE  b \notin Surplus(D)
<1>1. { c \in D : c > b } = {}
  <2> SUFFICES ASSUME NEW c \in D, c > b PROVE FALSE
    OBVIOUS
  <2>1. c \in Nat /\ b \in Nat /\ c <= b
    OBVIOUS
  <2> QED
    BY <2>1
<1>2. Cardinality({ c \in D : c > b }) = 0
  BY <1>1, FS_EmptySet
<1> QED
  BY <1>2, ManifestAssumption DEF Surplus

-----------------------------------------------------------------------------
(* The initial state *)

LEMMA InitInv == Init => IInv
<1> SUFFICES ASSUME Init PROVE IInv
  OBVIOUS
<1>1. TypeOK
  BY ManifestAssumption DEF Init, TypeOK, Files, Manifest, Empty, Idle, Work, NoVisit, Places, Ids
<1>2. Vol = [index |-> Empty, cars |-> {}, dirs |-> {}, bcars |-> {}] /\ Empty \in Manifest
  BY DEF Init, Vol, Places, Empty, Manifest
<1>3. KeptOK
  BY <1>2, NoneAssumption DEF Init, KeptOK, Places
<1>4. ItemOK /\ HeldOK
  BY DEF Init, ItemOK, HeldOK, Idle, NoVisit
<1> QED
  BY <1>1, <1>3, <1>4 DEF IInv

-----------------------------------------------------------------------------
(* The writer *)

LEMMA BeginRunInv ==
  ASSUME IInv, NEW s \in Streams, BeginRun(s)
  PROVE  IInv'
<1> USE DEF IInv, BeginRun
<1>1. TypeOK'
  BY DEF TypeOK, Work, At, Places, Empty, Manifest
<1>2. ItemOK' /\ KeptOK' /\ HeldOK'
  BY DEF TypeOK, ItemOK, KeptOK, HeldOK, Vol
<1> QED
  BY <1>1, <1>2

LEMMA BeginRecordInv ==
  ASSUME IInv, BeginRecord
  PROVE  IInv'
<1> USE DEF IInv, BeginRecord
<1>1. store[At] \in Files /\ At \in Places /\ (At = "volume" => store[At] = Vol)
  BY DEF TypeOK, At, Places, Vol
<1>2. TypeOK'
  BY <1>1, ScanType DEF TypeOK, Work
<1>3. ItemOK' /\ KeptOK'
  BY DEF TypeOK, ItemOK, KeptOK, Vol
<1>4. HeldOK'
  BY <1>1, ScanType DEF TypeOK, HeldOK, KeptOK, Vol
<1> QED
  BY <1>2, <1>3, <1>4

LEMMA EndRecordInv ==
  ASSUME IInv, EndRecord
  PROVE  IInv'
<1> USE DEF IInv
<1> DEFINE s == writer.item
           g == store[At]
<1>1. g \in Files /\ s \in Streams /\ writer.held \in Manifest
  BY DEF EndRecord, ItemOK, TypeOK, At, Places
<1>2. PICK f \in Recordings(g, writer.held, s) :
        /\ Write(f)
        /\ recorded' = IF mounted /\ s \in f.cars THEN recorded \cup {s} ELSE recorded
  BY DEF EndRecord
<1>3. /\ f \in Files /\ g.cars \subseteq f.cars /\ f.dirs = g.dirs /\ f.bcars = g.bcars
      /\ f.index = g.index \/ f.index # None
  <2> DEFINE m == AddStream(writer.held, s)
             indexed == [g EXCEPT !.index = m]
  <2>1. m \in Manifest /\ m # None
    BY <1>1, NoneAssumption DEF AddStream, Manifest
  <2>2. /\ indexed \in Files /\ indexed.index = m
        /\ indexed.cars = g.cars /\ indexed.dirs = g.dirs /\ indexed.bcars = g.bcars
    BY <1>1, <2>1 DEF Files
  <2>3. f = g \/ f = indexed \/ f = [indexed EXCEPT !.cars = @ \cup {s}]
    BY <1>2 DEF Recordings
  <2> HIDE DEF m, indexed
  <2> QED
    BY <1>1, <2>1, <2>2, <2>3 DEF Files
<1>4. /\ store' \in [Places -> Files]
      /\ Vol' = IF mounted THEN f ELSE Vol
      /\ \A p \in Places : store'[p] = IF p = At THEN f ELSE store[p]
  BY <1>2, <1>3, WriteType
<1>5. (mounted => g = Vol) /\ At \in Places
  BY DEF At, Vol, Places
<1>6. TypeOK'
  BY <1>1, <1>2, <1>4 DEF EndRecord, TypeOK, Idle, Empty, Manifest, Work, Places
<1>7. writer'.does = "idle"
  BY DEF EndRecord, Idle
<1>8. ItemOK'
  BY <1>7 DEF ItemOK
<1>9. KeptOK'
  BY <1>2, <1>3, <1>4, <1>5 DEF EndRecord, KeptOK
<1>10. HeldOK'
  BY <1>3, <1>4, <1>5, <1>7 DEF EndRecord, HeldOK
<1> QED
  BY <1>6, <1>8, <1>9, <1>10

LEMMA BeginCaptureInv ==
  ASSUME IInv, BeginCapture
  PROVE  IInv'
<1> USE DEF IInv
<1> DEFINE g == store[At]
           f == [g EXCEPT !.dirs = @ \cup {clock + 1}]
<1>1. g \in Files /\ (mounted => g = Vol) /\ At \in Places
  BY DEF TypeOK, At, Places, Vol
<1>2. clock \in Nat /\ clock < MaxBundles /\ MaxBundles \in Nat
  BY ManifestAssumption DEF BeginCapture, TypeOK
<1>3. f \in Files
  BY <1>1, <1>2 DEF Files, Ids
<1>4. /\ store' \in [Places -> Files]
      /\ Vol' = IF mounted THEN f ELSE Vol
      /\ \A p \in Places : store'[p] = IF p = At THEN f ELSE store[p]
  BY <1>3, WriteType DEF BeginCapture
<1>5. writer' = [does |-> "capturing", item |-> clock + 1, held |-> Empty, from |-> At]
      /\ clock' = clock + 1 /\ clock + 1 \in Ids
  BY <1>2 DEF BeginCapture, Ids
<1>6. TypeOK'
  BY <1>2, <1>4, <1>5 DEF BeginCapture, TypeOK, At, Places, Empty, Manifest, Work
<1>7. ItemOK' /\ HeldOK'
  BY <1>1, <1>3, <1>4, <1>5 DEF BeginCapture, ItemOK, HeldOK, Files
<1>8. KeptOK'
  BY <1>1, <1>2, <1>3, <1>4, <1>5 DEF BeginCapture, KeptOK, Files
<1> QED
  BY <1>6, <1>7, <1>8

LEMMA ScanCaptureInv ==
  ASSUME IInv, ScanCapture
  PROVE  IInv'
<1> USE DEF IInv
<1>1. store[At] \in Files /\ At \in Places /\ (At = "volume" => store[At] = Vol)
  BY DEF TypeOK, At, Places, Vol
<1>2. UNCHANGED <<unmountAfter, mounted, store, visit, clock, recorded, newest, crashes>>
      /\ Vol' = Vol
  BY DEF ScanCapture, Vol
<1>3. KeptOK'
  BY <1>2 DEF KeptOK
<1>4. CASE writer' = Idle
  <2>1. TypeOK'
    BY <1>2, <1>4 DEF TypeOK, Work, Idle, Empty, Manifest, Places
  <2>2. ItemOK' /\ HeldOK'
    BY <1>2, <1>4 DEF ItemOK, HeldOK, Idle
  <2> QED
    BY <1>3, <2>1, <2>2
<1>5. CASE writer' = [writer EXCEPT !.does = "merging", !.held = Scan(store[At]), !.from = At]
  <2>1. /\ writer'.does = "merging" /\ writer'.held = Scan(store[At]) /\ writer'.from = At
        /\ writer'.item = writer.item /\ writer.does = "capturing"
    BY <1>5 DEF ScanCapture, TypeOK
  <2>2. TypeOK'
    BY <1>1, <1>2, <1>5, ScanType DEF TypeOK, Work
  <2>3. ItemOK'
    BY <1>2, <2>1 DEF ItemOK
  <2>4. HeldOK'
    BY <1>1, <1>2, <2>1, ScanType DEF HeldOK, KeptOK
  <2> QED
    BY <1>3, <2>2, <2>3, <2>4
<1> QED
  BY <1>4, <1>5 DEF ScanCapture

\* Whichever of its files a capture was cut short at, the sidecars and the streams
\* are those of before, or of the manifest it held; once its sidecar is written the
\* new bundle is there, and is not pruned.
LEMMA CaptureType ==
  ASSUME NEW g \in Files, NEW m \in Manifest, NEW b \in Ids, NEW k \in 1..5,
         g.dirs \subseteq 1..b
  PROVE  LET f == Captures(g, m, b)[k]
         IN /\ f \in Files /\ f.cars = g.cars /\ f.dirs \subseteq 1..b
            /\ k = 1 => f = g
            /\ k > 1 => f.index # None /\ f.index.streams = m.streams
            /\ k < 3 => g.dirs \subseteq f.dirs /\ f.bcars = g.bcars
            /\ k >= 3 => b \in f.dirs \cap f.bcars
<1> DEFINE made == [g EXCEPT !.dirs = @ \cup {b}]
           x == AddBundle(m, b)
           listed == [made EXCEPT !.index = x]
           carded == [listed EXCEPT !.bcars = @ \cup {b}]
           old == Surplus(carded.dirs)
           pruned == [carded EXCEPT !.dirs = @ \ old, !.bcars = @ \ old]
           relisted == [pruned EXCEPT !.index.bundles = @ \ old]
<1>1. b \in Nat /\ 1..b \subseteq Ids /\ b \in 1..b
  BY ManifestAssumption DEF Ids
<1>2. x \in Manifest /\ x.streams = m.streams /\ x # None
  BY NoneAssumption DEF AddBundle, Manifest
<1>3. /\ listed \in Files /\ listed.index = x /\ listed.cars = g.cars
      /\ listed.dirs = g.dirs \cup {b} /\ listed.bcars = g.bcars
  BY <1>1, <1>2 DEF Files
<1>4. /\ carded \in Files /\ carded.index = x /\ carded.cars = g.cars
      /\ carded.dirs = g.dirs \cup {b} /\ carded.bcars = g.bcars \cup {b}
  <2> HIDE DEF listed
  <2> QED
    BY <1>1, <1>3 DEF Files
<1>5. b \notin old
  <2>1. carded.dirs \in SUBSET Nat /\ b \in carded.dirs /\ \A c \in carded.dirs : c <= b
    BY <1>1, <1>4 DEF Ids
  <2> QED
    BY <2>1, NewestSpared
<1>6. /\ pruned \in Files /\ pruned.index = x /\ pruned.cars = g.cars
      /\ pruned.dirs = carded.dirs \ old /\ pruned.bcars = carded.bcars \ old
  <2> HIDE DEF carded, old
  <2> QED
    BY <1>4 DEF Files
<1>7. /\ relisted \in Files /\ relisted.index # None /\ relisted.index.streams = m.streams
      /\ relisted.cars = g.cars
      /\ relisted.dirs = pruned.dirs /\ relisted.bcars = pruned.bcars
  <2> DEFINE y == [x EXCEPT !.bundles = @ \ old]
  <2>1. y \in Manifest /\ y.streams = m.streams /\ y # None
    <3> HIDE DEF x, old
    <3> QED
      BY <1>2, NoneAssumption DEF Manifest
  <2>2. relisted = [pruned EXCEPT !.index = y]
    <3> HIDE DEF x, old, pruned
    <3> QED
      BY <1>6 DEF Files
  <2> HIDE DEF y, pruned, relisted
  <2> QED
    BY <1>6, <2>1, <2>2 DEF Files
<1>8. Captures(g, m, b) = << g, listed, carded, pruned, relisted >>
  BY DEF Captures, Pruned
<1> HIDE DEF made, x, listed, carded, old, pruned, relisted
<1>9. k = 1 \/ k = 2 \/ k = 3 \/ k = 4 \/ k = 5
  OBVIOUS
<1>10. CASE k = 1
  BY <1>1, <1>8, <1>10
<1>11. CASE k = 2
  BY <1>1, <1>2, <1>3, <1>8, <1>11
<1>12. CASE k = 3
  BY <1>1, <1>2, <1>4, <1>8, <1>12
<1>13. CASE k = 4
  BY <1>1, <1>2, <1>4, <1>5, <1>6, <1>8, <1>13
<1>14. CASE k = 5
  BY <1>1, <1>4, <1>5, <1>6, <1>7, <1>8, <1>14
<1> QED
  BY <1>9, <1>10, <1>11, <1>12, <1>13, <1>14

LEMMA EndCaptureInv ==
  ASSUME IInv, EndCapture
  PROVE  IInv'
<1> USE DEF IInv
<1> DEFINE g == store[At]
           m == writer.held
           b == writer.item
<1>1. /\ g \in Files /\ (mounted => g = Vol) /\ At \in Places
      /\ m \in Manifest /\ b \in Ids /\ b = clock /\ g.dirs \subseteq 1..b
  BY DEF EndCapture, ItemOK, KeptOK, TypeOK, At, Places, Vol
<1>2. PICK k \in 1..5 : Write(Captures(g, m, b)[k])
                         /\ newest' = IF mounted /\ k >= 3 THEN b ELSE newest
  BY DEF EndCapture
<1> DEFINE f == Captures(g, m, b)[k]
<1>3. /\ f \in Files /\ f.cars = g.cars /\ f.dirs \subseteq 1..b
      /\ k = 1 => f = g
      /\ k > 1 => f.index # None /\ f.index.streams = m.streams
      /\ k < 3 => g.dirs \subseteq f.dirs /\ f.bcars = g.bcars
      /\ k >= 3 => b \in f.dirs \cap f.bcars
  BY <1>1, CaptureType
<1>4. Write(f)
  BY <1>2
<1> HIDE DEF f
<1>5. /\ store' \in [Places -> Files]
      /\ Vol' = IF mounted THEN f ELSE Vol
      /\ \A p \in Places : store'[p] = IF p = At THEN f ELSE store[p]
  BY <1>3, <1>4, WriteType
<1>6. /\ UNCHANGED <<unmountAfter, mounted, visit, clock, recorded, crashes>>
      /\ writer' = Idle
  BY DEF EndCapture
<1>7. newest' \in 0..clock
  BY <1>1, <1>2 DEF TypeOK, Ids
<1>8. TypeOK'
  BY <1>5, <1>6, <1>7 DEF TypeOK, Idle, Empty, Manifest, Work, Places
<1>9. ItemOK'
  BY <1>6 DEF ItemOK, Idle
<1>10. newest' # 0 => newest' \in Vol'.dirs \cap Vol'.bcars
  <2>1. CASE mounted /\ k >= 3
    BY <1>1, <1>2, <1>3, <1>5, <2>1
  <2>2. CASE mounted /\ k < 3
    BY <1>1, <1>2, <1>3, <1>5, <2>2 DEF KeptOK
  <2>3. CASE ~mounted
    BY <1>2, <1>5, <2>3 DEF KeptOK
  <2> QED
    BY <2>1, <2>2, <2>3
<1>11. KeptOK'
  BY <1>1, <1>3, <1>5, <1>6, <1>10 DEF KeptOK
<1>12. HeldOK'
  BY <1>1, <1>3, <1>5, <1>6 DEF HeldOK, Idle
<1> QED
  BY <1>8, <1>9, <1>11, <1>12

-----------------------------------------------------------------------------
(* Visitors and the process *)

LEMMA EndRebuildInv ==
  ASSUME IInv, NEW v \in Visitors, EndRebuild(v)
  PROVE  IInv'
<1> USE DEF IInv
<1> DEFINE g == store[At]
           m == visit[v].held
<1>1. /\ g \in Files /\ (mounted => g = Vol) /\ At \in Places
      /\ m \in Manifest /\ m # None /\ m.streams \subseteq Vol.cars
  BY NoneAssumption DEF EndRebuild, HeldOK, TypeOK, At, Places, Vol
<1>2. PICK f \in { g, [g EXCEPT !.index = m] } : Write(f)
  BY DEF EndRebuild
<1>3. /\ f \in Files /\ f.cars = g.cars /\ f.dirs = g.dirs /\ f.bcars = g.bcars
      /\ f.index = g.index \/ f.index = m
  BY <1>1, <1>2 DEF Files
<1>4. /\ store' \in [Places -> Files]
      /\ Vol' = IF mounted THEN f ELSE Vol
      /\ \A p \in Places : store'[p] = IF p = At THEN f ELSE store[p]
  BY <1>2, <1>3, WriteType
<1>5. /\ UNCHANGED <<unmountAfter, writer, clock, recorded, newest, crashes>>
      /\ mounted' \in {mounted, FALSE}
      /\ visit' = [visit EXCEPT ![v] = NoVisit]
  BY DEF EndRebuild
<1>6. TypeOK'
  BY <1>4, <1>5 DEF TypeOK, NoVisit, Empty, Manifest
<1>7. KeptOK'
  BY <1>1, <1>3, <1>4, <1>5 DEF KeptOK
<1>8. \A u \in Visitors : visit'[u] = visit[u] \/ visit'[u].does = "none"
  BY <1>5 DEF TypeOK, NoVisit
<1>9. Vol'.cars = Vol.cars /\ (Vol'.index = Vol.index \/ Vol'.index.streams \subseteq Vol.cars)
  BY <1>1, <1>3, <1>4
<1>10. ItemOK' /\ HeldOK'
  BY <1>5, <1>8, <1>9 DEF ItemOK, HeldOK
<1> QED
  BY <1>6, <1>7, <1>10

LEMMA VisitorInv ==
  ASSUME IInv, NEW v \in Visitors, VisitorStep(v)
  PROVE  IInv'
<1> USE DEF IInv
<1>1. CASE BeginRebuild(v)
  <2>1. Vol \in Files /\ Built(Vol) \in Manifest /\ Built(Vol).streams = Vol.cars
    BY ScanType DEF TypeOK, Vol, Places, Built
  <2>2. TypeOK'
    BY <1>1, <2>1 DEF BeginRebuild, TypeOK, Vol
  <2>3. \A u \in Visitors : visit'[u] = visit[u] \/ visit'[u].held = Built(Vol)
    BY <1>1 DEF BeginRebuild, TypeOK, Vol
  <2>4. ItemOK' /\ KeptOK' /\ HeldOK'
    BY <1>1, <2>1, <2>3 DEF BeginRebuild, ItemOK, KeptOK, HeldOK, Vol
  <2> QED
    BY <2>2, <2>4
<1>2. CASE BeginRead(v) \/ EndRead(v)
  <2>1. /\ UNCHANGED <<unmountAfter, store, writer, clock, recorded, newest, crashes>>
        /\ mounted' \in BOOLEAN
    BY <1>2 DEF BeginRead, EndRead, TypeOK
  <2> DEFINE reading == [does |-> "read", held |-> Empty]
  <2>2. PICK x \in {reading, NoVisit} : visit' = [visit EXCEPT ![v] = x]
    BY <1>2 DEF BeginRead, EndRead
  <2>3. x \in [does : {"none", "rebuild", "read"}, held : Manifest] /\ x.does # "rebuild"
    BY DEF NoVisit, Empty, Manifest
  <2>4. TypeOK'
    BY <2>1, <2>2, <2>3 DEF TypeOK
  <2>5. \A u \in Visitors : visit'[u] = visit[u] \/ visit'[u].does # "rebuild"
    BY <2>2, <2>3 DEF TypeOK
  <2>6. ItemOK' /\ KeptOK' /\ HeldOK'
    BY <2>1, <2>5 DEF ItemOK, KeptOK, HeldOK, Vol
  <2> QED
    BY <2>4, <2>6
<1> QED
  BY <1>1, <1>2, EndRebuildInv DEF VisitorStep

LEMMA CrashInv ==
  ASSUME IInv, Crash
  PROVE  IInv'
<1> USE DEF IInv
<1>1. TypeOK'
  <2>1. NoVisit \in [does : {"none", "rebuild", "read"}, held : Manifest]
    BY DEF NoVisit, Empty, Manifest
  <2>2. Idle \in [does : Work, item : Streams \cup Ids \cup {None}, held : Manifest,
                  from : Places]
    BY DEF Idle, Empty, Manifest, Work, Places
  <2>3. crashes' \in 0..MaxCrashes
    BY ManifestAssumption DEF Crash, TypeOK
  <2> QED
    BY <2>1, <2>2, <2>3 DEF Crash, TypeOK
<1>2. ItemOK' /\ KeptOK' /\ HeldOK'
  BY DEF Crash, ItemOK, KeptOK, HeldOK, Vol, Idle, NoVisit
<1> QED
  BY <1>1, <1>2

LEMMA StepInv == IInv /\ [Next]_vars => IInv'
<1> SUFFICES ASSUME IInv, [Next]_vars PROVE IInv'
  OBVIOUS
<1>1. CASE WriterStep
  BY <1>1, BeginRunInv, BeginRecordInv, EndRecordInv, BeginCaptureInv, ScanCaptureInv,
     EndCaptureInv DEF WriterStep
<1>2. CASE \E v \in Visitors : VisitorStep(v)
  BY <1>2, VisitorInv
<1>3. CASE Crash
  BY <1>3, CrashInv
<1>4. CASE UNCHANGED vars
  BY <1>4 DEF vars, IInv, TypeOK, ItemOK, KeptOK, HeldOK, Vol
<1> QED
  BY <1>1, <1>2, <1>3, <1>4 DEF Next

\* IInv is an inductive invariant.
THEOREM Invariance == Spec => []IInv
<1> QED
  BY InitInv, StepInv, PTL DEF Spec

-----------------------------------------------------------------------------
(* What follows *)

\* Whatever the requests, the errors and the crashes, the index and the sidecars stay
\* manifests, and the writer holds what belongs to what it does.
THEOREM TypeCorrect == Spec => []TypeOK
<1>1. IInv => TypeOK
  BY DEF IInv
<1> QED
  BY <1>1, Invariance, PTL

\* A recorded stream is found by every later scan of its volume
\* (backup_manifest.scan_volume), for any number of streams, rebuilds and crashes.
THEOREM RecordedIsFound == Spec => []RecordedFound
<1>1. IInv => RecordedFound
  <2> SUFFICES ASSUME IInv PROVE RecordedFound
    OBVIOUS
  <2>1. Vol \in Files
    BY DEF IInv, TypeOK, Vol, Places
  <2>2. Vol.cars \subseteq Scan(Vol).streams
    BY <2>1, ScanType
  <2> QED
    BY <2>2 DEF IInv, KeptOK, RecordedFound, Vol
<1> QED
  BY <1>1, Invariance, PTL

\* The newest captured bundle is never pruned, and found, for every retention.
THEOREM NewestBundleStays == Spec => []NewestBundleKept
<1>1. IInv => NewestBundleKept
  <2> SUFFICES ASSUME IInv PROVE NewestBundleKept
    OBVIOUS
  <2>1. Vol \in Files
    BY DEF IInv, TypeOK, Vol, Places
  <2>2. Vol.bcars \subseteq Scan(Vol).bundles
    BY <2>1, ScanType
  <2> QED
    BY <2>2 DEF IInv, KeptOK, NewestBundleKept, Vol
<1> QED
  BY <1>1, Invariance, PTL

LEMMA SaveCovers ==
  ASSUME IInv, [Next]_vars, writer.from = "volume", mounted,
         writer.does \in {"recording", "merging"}, writer' = Idle,
         crashes' = crashes, store' # store
  PROVE  Vol.index.streams \cup recorded \subseteq Vol'.index.streams
<1> USE DEF IInv
<1> DEFINE m == writer.held
<1>1. /\ Vol \in Files /\ store[At] = Vol /\ m \in Manifest
      /\ Vol.index.streams \cup recorded \subseteq m.streams
      /\ \A f \in Files : Write(f) => Vol' = f /\ f # Vol
  <2>1. store \in [Places -> Files] /\ At = "volume" /\ "volume" \in Places
    BY DEF TypeOK, At, Places
  <2>2. \A f \in Files : Write(f) => Vol' = f /\ f # Vol
    BY <2>1 DEF Write, Vol
  <2> QED
    BY <2>1, <2>2 DEF TypeOK, HeldOK, KeptOK, Vol
<1>2. CASE EndRecord
  <2> DEFINE s == writer.item
             f == [Vol EXCEPT !.index = AddStream(m, s)]
             h == [f EXCEPT !.cars = @ \cup {s}]
  <2>1. s \in Streams
    BY <1>2 DEF EndRecord, ItemOK
  <2>2. /\ AddStream(m, s) \in Manifest /\ m.streams \subseteq AddStream(m, s).streams
    BY <1>1, <2>1 DEF AddStream, Manifest
  <2>3. /\ f \in Files /\ f.index = AddStream(m, s)
        /\ h \in Files /\ h.index = AddStream(m, s)
    <3>1. f \in Files /\ f.index = AddStream(m, s)
      BY <1>1, <2>2 DEF Files
    <3> HIDE DEF f
    <3> QED
      BY <2>1, <3>1 DEF Files
  <2>4. Write(Vol) \/ Write(f) \/ Write(h)
    BY <1>1, <1>2 DEF EndRecord, Recordings
  <2> HIDE DEF f, h
  <2> QED
    BY <1>1, <2>2, <2>3, <2>4
<1>3. CASE EndCapture
  <2> DEFINE b == writer.item
  <2>1. b \in Ids /\ Vol.dirs \subseteq 1..b
    BY <1>3 DEF EndCapture, ItemOK, KeptOK, Places, Vol
  <2>2. PICK k \in 1..5 : Write(Captures(Vol, m, b)[k])
    BY <1>1, <1>3 DEF EndCapture
  <2> DEFINE f == Captures(Vol, m, b)[k]
  <2>3. f \in Files /\ (k = 1 => f = Vol) /\ (k > 1 => f.index.streams = m.streams)
    BY <1>1, <2>1, CaptureType
  <2>4. Write(f)
    BY <2>2
  <2> HIDE DEF f
  <2> QED
    BY <1>1, <2>3, <2>4
<1>4. CASE UNCHANGED writer
  BY <1>4 DEF Idle
<1>5. CASE BeginRecord \/ BeginCapture \/ ScanCapture \/ Crash \/ \E s \in Streams : BeginRun(s)
  BY <1>5 DEF BeginRecord, BeginCapture, ScanCapture, Crash, BeginRun, TypeOK
<1>6. CASE \E v \in Visitors : VisitorStep(v)
  BY <1>4, <1>6 DEF VisitorStep, BeginRebuild, EndRebuild, BeginRead, EndRead
<1> QED
  BY <1>2, <1>3, <1>4, <1>5, <1>6 DEF Next, WriterStep, vars

\* No save of the writer forgets a stream listed by then or recorded before, whatever
\* rebuilds saved between its scan and its save (_record_manifest, capture_config_bundle).
THEOREM NoSaveForgets == Spec => SavesListAll
<1>1. IInv /\ [Next]_vars =>
        (writer.from = "volume" /\ mounted /\ writer.does \in {"recording", "merging"}
           /\ writer' = Idle /\ crashes' = crashes /\ store' # store
         => store["volume"].index.streams \cup recorded \subseteq store'["volume"].index.streams)
  BY SaveCovers DEF Vol
<1> QED
  BY <1>1, Invariance, PTL DEF Spec, SavesListAll

=============================================================================
