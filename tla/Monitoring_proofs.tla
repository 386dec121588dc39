--------------------------- MODULE Monitoring_proofs ---------------------------
(***************************************************************************)
(* Proofs about Monitoring: no sample is lost, and the journal holds the   *)
(* newest entries, for any sizes and any number of pools and callers.      *)
(***************************************************************************)
EXTENDS Monitoring, TLAPS

CoreOK == up \in BOOLEAN /\ clock \in 0..MaxClock /\ events \in 0..MaxEvents

\* What was removed was added; with it, the bounds of JournalKeepsNewest say which
\* ids are there.
JournalInv == NotesOK /\ removed < nextId /\ JournalKeepsNewest

\* A round that records is numbered.
SampleInv == MetricsOK /\ (todo # None => round # 0) /\ NoSampleLost

IInv == CoreOK /\ PoolsOK /\ AlertsOK /\ JournalInv /\ SampleInv

LEMMA InitInv == Init => IInv
<1> SUFFICES ASSUME Init PROVE IInv
  OBVIOUS
<1> USE MonitoringAssumption
<1>1. CoreOK /\ PoolsOK
  BY DEF Init, CoreOK, PoolsOK
<1>2. AlertsOK
  BY DEF Init, AlertsOK, Quiet
<1>3. JournalInv
  BY DEF Init, JournalInv, NotesOK, JournalKeepsNewest
<1>4. SampleInv
  BY DEF Init, SampleInv, MetricsOK, NoSampleLost
<1> QED
  BY <1>1, <1>2, <1>3, <1>4 DEF IInv

-----------------------------------------------------------------------------
(* The journal *)

LEMMA RecordKeeps == JournalInv /\ Record => JournalInv'
<1> SUFFICES ASSUME JournalInv, Record PROVE JournalInv'
  OBVIOUS
<1> USE MonitoringAssumption DEF JournalInv, NotesOK
<1> DEFINE new == [id |-> nextId, read |-> FALSE]
<1>1. /\ nextId <= MaxIds /\ nextId' = nextId + 1 /\ removed' = removed
      /\ journal' = { e \in journal \cup {new} : e.id + JournalSize > nextId }
  BY DEF Record, Added, Kept
<1>2. new \in [id : 1..MaxIds, read : BOOLEAN] /\ new.id = nextId
  BY <1>1
<1> HIDE DEF new
<1>3. NotesOK' /\ removed' < nextId'
  <2>1. journal' \subseteq [id : 1..MaxIds, read : BOOLEAN]
    BY <1>1, <1>2
  <2>2. nextId' \in 1..(MaxIds + 1) /\ removed' \in 0..MaxIds /\ removed' < nextId'
    BY <1>1
  <2> QED
    BY <2>1, <2>2
<1>4. ASSUME NEW e \in journal'
      PROVE  e.id \in 1..(nextId' - 1) /\ e.id > removed' /\ e.id + JournalSize >= nextId'
  <2>1. e \in journal \cup {new} /\ e.id + JournalSize > nextId
    BY <1>1
  <2>2. CASE e = new
    BY <1>1, <1>2, <2>2
  <2>3. CASE e \in journal
    <3>1. e.id \in 1..(nextId - 1) /\ e.id > removed
      BY <2>3 DEF JournalKeepsNewest
    <3> QED
      BY <1>1, <2>1, <3>1
  <2> QED
    BY <2>1, <2>2, <2>3
<1>5. ASSUME NEW i \in 1..(nextId' - 1), i > removed', i + JournalSize >= nextId'
      PROVE  \E e \in journal' : e.id = i
  <2>1. CASE i = nextId
    BY <1>1, <1>2, <2>1
  <2>2. CASE i # nextId
    <3>1. i \in 1..(nextId - 1) /\ i > removed /\ i + JournalSize >= nextId
      BY <1>1, <1>5, <2>2
    <3>2. PICK e \in journal : e.id = i
      BY <3>1 DEF JournalKeepsNewest
    <3>3. e.id + JournalSize > nextId
      BY <1>1, <1>5, <3>2
    <3> QED
      BY <1>1, <3>2, <3>3
  <2> QED
    BY <2>1, <2>2
<1>6. JournalKeepsNewest'
  BY <1>4, <1>5 DEF JournalKeepsNewest
<1> QED
  BY <1>3, <1>6

LEMMA MarkReadKeeps ==
  ASSUME JournalInv, NEW S, MarkRead(S)
  PROVE  JournalInv'
<1> USE DEF JournalInv, NotesOK
<1>1. UNCHANGED <<nextId, removed>>
  BY DEF MarkRead
<1> DEFINE Mark(e) == IF e.id \in S THEN [e EXCEPT !.read = TRUE] ELSE e
<1>2. journal' = { Mark(e) : e \in journal }
  BY DEF MarkRead
<1>3. ASSUME NEW e \in journal
      PROVE  Mark(e) \in [id : 1..MaxIds, read : BOOLEAN] /\ Mark(e).id = e.id
  OBVIOUS
<1> HIDE DEF Mark
<1>4. NotesOK'
  BY <1>1, <1>2, <1>3
<1>5. { e.id : e \in journal' } = { e.id : e \in journal }
  BY <1>2, <1>3
<1>6. JournalKeepsNewest'
  BY <1>1, <1>5 DEF JournalKeepsNewest
<1> QED
  BY <1>1, <1>4, <1>6

LEMMA ClearKeeps == JournalInv /\ Clear => JournalInv'
<1> SUFFICES ASSUME JournalInv, Clear PROVE JournalInv'
  OBVIOUS
<1>1. journal' = {} /\ removed' = nextId - 1 /\ nextId' = nextId
  BY DEF Clear
<1> QED
  BY <1>1, MonitoringAssumption DEF JournalInv, NotesOK, JournalKeepsNewest

LEMMA BootKeeps == JournalInv /\ Boot => JournalInv'
<1> SUFFICES ASSUME JournalInv, Boot PROVE JournalInv'
  OBVIOUS
<1> USE MonitoringAssumption DEF JournalInv, NotesOK
<1>1. PICK i \in removed..(nextId - 1) :
        journal' = { e \in journal : e.id > i } /\ removed' = i
  BY DEF Boot
<1>2. nextId' = nextId
  BY DEF Boot
<1>3. NotesOK' /\ removed' < nextId'
  BY <1>1, <1>2
<1>4. ASSUME NEW e \in journal'
      PROVE  e.id \in 1..(nextId' - 1) /\ e.id > removed' /\ e.id + JournalSize >= nextId'
  <2>1. e \in journal /\ e.id > i
    BY <1>1
  <2>2. e.id \in 1..(nextId - 1) /\ e.id + JournalSize >= nextId
    BY <2>1 DEF JournalKeepsNewest
  <2> QED
    BY <1>1, <1>2, <2>1, <2>2
<1>5. ASSUME NEW j \in 1..(nextId' - 1), j > removed', j + JournalSize >= nextId'
      PROVE  \E e \in journal' : e.id = j
  <2>1. j \in 1..(nextId - 1) /\ j > removed /\ j + JournalSize >= nextId
    BY <1>1, <1>2, <1>5
  <2>2. PICK e \in journal : e.id = j
    BY <2>1 DEF JournalKeepsNewest
  <2> QED
    BY <1>1, <1>5, <2>2
<1>6. JournalKeepsNewest'
  BY <1>4, <1>5 DEF JournalKeepsNewest
<1> QED
  BY <1>3, <1>6

LEMMA JournalStep == JournalInv /\ [Next]_vars => JournalInv'
<1> SUFFICES ASSUME JournalInv, [Next]_vars PROVE JournalInv'
  OBVIOUS
<1>1. CASE UNCHANGED notes
  BY <1>1 DEF notes, JournalInv, NotesOK, JournalKeepsNewest
<1>2. CASE Record
  BY <1>2, RecordKeeps
<1>3. CASE Users
  <2>1. CASE \E S \in SUBSET { e.id : e \in journal } : MarkRead(S)
    BY <2>1, MarkReadKeeps
  <2> QED
    BY <1>1, <1>2, <1>3, <2>1, ClearKeeps
    DEF Users, AddNote, SwitchAlerts, SetEnabled, TaskFails
<1>4. CASE Boot
  BY <1>4, BootKeeps
<1>5. CASE PollLoop \/ MetricsLoop
  BY <1>1, <1>5
  DEF PollLoop, PollState, PollCapacity, PollEnds, PollNotify,
      MetricsLoop, Sample, Tick, RecordSample
<1>6. CASE \E c \in Everyone : Delivered(c)
  BY <1>1, <1>2, <1>6 DEF Delivered
<1>7. CASE Stop \/ Crash \/ Clock \/ Surroundings \/ UNCHANGED vars
  BY <1>1, <1>7 DEF Stop, Crash, Clock, Surroundings, vars
<1> QED
  BY <1>3, <1>4, <1>5, <1>6, <1>7 DEF Next

-----------------------------------------------------------------------------
(* Samples *)

LEMMA RecordSampleKeeps ==
  ASSUME SampleInv, NEW p \in Pools, RecordSample(p)
  PROVE  SampleInv'
<1> USE DEF SampleInv, MetricsOK
<1>1. /\ UNCHANGED <<enabled, round, ticks, open, stored>>
      /\ todo # None /\ p \in todo /\ todo' = todo \ {p}
      /\ buffer' = IF p \in enabled THEN buffer \cup {<<p, round>>} ELSE buffer
      /\ recorded' = recorded \cup (buffer' \ buffer)
  BY DEF RecordSample
<1>2. <<p, round>> \in Pools \X (1..MaxSamples)
  BY <1>1, MonitoringAssumption
<1>3. buffer' \subseteq Pools \X (1..MaxSamples) /\ buffer \subseteq buffer'
  BY <1>1, <1>2
<1>4. recorded' \subseteq Pools \X (1..MaxSamples)
  BY <1>1, <1>3
<1>5. todo' \in (SUBSET Pools) \cup {None}
  BY <1>1
<1>6. NoSampleLost'
  BY <1>1, <1>3 DEF NoSampleLost
<1>7. todo' # None => round' # 0
  BY <1>1
<1> QED
  BY <1>1, <1>3, <1>4, <1>5, <1>6, <1>7

\* Whatever flush leaves, every sample owed is in it.
LEMMA FlushesKeep ==
  ASSUME SampleInv, NEW f \in Flushes
  PROVE  /\ f.buffer \subseteq Pools \X (1..MaxSamples)
         /\ f.open \subseteq Pools \X (1..MaxSamples)
         /\ f.stored \subseteq Pools \X (1..MaxSamples)
         /\ recorded \subseteq f.buffer \cup f.stored
<1>1. \/ f = [buffer |-> {}, open |-> {}, stored |-> stored \cup open \cup buffer]
      \/ \E o \in {{}, open \cup buffer} : f = [buffer |-> buffer, open |-> o, stored |-> stored]
  BY DEF Flushes, FlushFailed
<1>2. CASE f = [buffer |-> {}, open |-> {}, stored |-> stored \cup open \cup buffer]
  <2>1. f.buffer = {} /\ f.open = {} /\ f.stored = stored \cup open \cup buffer
    BY <1>2
  <2> QED
    BY <2>1 DEF SampleInv, MetricsOK, NoSampleLost
<1>3. CASE \E o \in {{}, open \cup buffer} : f = [buffer |-> buffer, open |-> o, stored |-> stored]
  <2>1. f.buffer = buffer /\ f.open \in {{}, open \cup buffer} /\ f.stored = stored
    BY <1>3
  <2> QED
    BY <2>1 DEF SampleInv, MetricsOK, NoSampleLost
<1> QED
  BY <1>1, <1>2, <1>3

LEMMA TickKeeps == SampleInv /\ Tick => SampleInv'
<1> SUFFICES ASSUME SampleInv, Tick PROVE SampleInv'
  OBVIOUS
<1>1. /\ UNCHANGED <<enabled, round>> /\ todo' = None
      /\ ticks' = IF FlushDue THEN 0 ELSE ticks + 1
  BY DEF Tick
<1>2. ticks' \in 0..(FlushEvery - 1)
  BY <1>1, MonitoringAssumption DEF FlushDue, SampleInv, MetricsOK
<1>3. PICK f : /\ f \in Flushes \/ f = [buffer |-> buffer, open |-> open, stored |-> stored]
               /\ buffer' = f.buffer
               /\ \/ open' = f.open /\ stored' = f.stored /\ UNCHANGED recorded
                  \/ /\ \E r \in 1..(round - 1) :
                          /\ stored' = { x \in f.stored \cup f.open : x[2] > r }
                          /\ recorded' = { x \in recorded : x[2] > r \/ x \in f.buffer }
                     /\ open' = {}
  BY DEF Tick
<1>4. /\ f.buffer \subseteq Pools \X (1..MaxSamples)
      /\ f.open \subseteq Pools \X (1..MaxSamples)
      /\ f.stored \subseteq Pools \X (1..MaxSamples)
      /\ recorded \subseteq f.buffer \cup f.stored
  <2>1. CASE f \in Flushes
    BY <2>1, FlushesKeep
  <2>2. CASE f = [buffer |-> buffer, open |-> open, stored |-> stored]
    BY <2>2 DEF SampleInv, MetricsOK, NoSampleLost
  <2> QED
    BY <1>3, <2>1, <2>2
<1>5. CASE open' = f.open /\ stored' = f.stored /\ UNCHANGED recorded
  BY <1>1, <1>2, <1>3, <1>4, <1>5 DEF SampleInv, MetricsOK, NoSampleLost
<1>6. ASSUME NEW r \in 1..(round - 1),
             stored' = { x \in f.stored \cup f.open : x[2] > r },
             recorded' = { x \in recorded : x[2] > r \/ x \in f.buffer }, open' = {}
      PROVE  SampleInv'
  <2>1. /\ stored' \subseteq Pools \X (1..MaxSamples)
        /\ recorded' \subseteq Pools \X (1..MaxSamples)
        /\ open' \subseteq Pools \X (1..MaxSamples)
    BY <1>4, <1>6 DEF SampleInv, MetricsOK
  <2>2. recorded' \subseteq buffer' \cup stored'
    BY <1>3, <1>4, <1>6
  <2> QED
    BY <1>1, <1>2, <1>3, <1>4, <2>1, <2>2 DEF SampleInv, MetricsOK, NoSampleLost
<1> QED
  BY <1>3, <1>5, <1>6

LEMMA StopKeeps == SampleInv /\ (Stop \/ Crash) => SampleInv'
<1> SUFFICES ASSUME SampleInv, Stop \/ Crash PROVE SampleInv'
  OBVIOUS
<1>1. /\ UNCHANGED <<enabled, round>> /\ todo' = None /\ ticks' = 0
      /\ buffer' = {} /\ open' = {}
  BY DEF Stop, Crash, Forgotten
<1>2. 0 \in 0..(FlushEvery - 1)
  BY MonitoringAssumption
<1>3. CASE Crash
  <2>1. recorded' = stored /\ stored' = stored
    BY <1>3 DEF Crash
  <2> QED
    BY <1>1, <1>2, <2>1 DEF SampleInv, MetricsOK, NoSampleLost
<1>4. CASE Stop
  <2>1. PICK f \in Flushes :
          /\ stored' = f.stored
          /\ recorded' = { x \in recorded : x \in f.buffer => x \in f.stored }
    BY <1>4 DEF Stop
  <2>2. f.stored \subseteq Pools \X (1..MaxSamples) /\ recorded \subseteq f.buffer \cup f.stored
    BY FlushesKeep
  <2>3. recorded' \subseteq stored' /\ recorded' \subseteq recorded
    BY <2>1, <2>2
  <2> QED
    BY <1>1, <1>2, <2>1, <2>2, <2>3 DEF SampleInv, MetricsOK, NoSampleLost
<1> QED
  BY <1>3, <1>4

LEMMA SampleStep == SampleInv /\ [Next]_vars => SampleInv'
<1> SUFFICES ASSUME SampleInv, [Next]_vars PROVE SampleInv'
  OBVIOUS
<1>1. CASE UNCHANGED metrics
  BY <1>1 DEF metrics, SampleInv, MetricsOK, NoSampleLost
<1>2. CASE Sample
  <2>1. /\ UNCHANGED <<enabled, ticks, buffer, open, stored, recorded>>
        /\ round < MaxSamples /\ round' = round + 1 /\ todo' = enabled
    BY <1>2 DEF Sample
  <2>2. round' \in 0..MaxSamples /\ round' # 0
    BY <2>1, MonitoringAssumption DEF SampleInv, MetricsOK
  <2> QED
    BY <2>1, <2>2 DEF SampleInv, MetricsOK, NoSampleLost
<1>3. ASSUME NEW p \in Pools, SetEnabled(p) PROVE SampleInv'
  <2>1. /\ UNCHANGED <<round, todo, ticks, buffer, recorded>> /\ open' = {}
        /\ stored' = stored \cup open /\ enabled' \subseteq enabled \cup {p}
    BY <1>3 DEF SetEnabled
  <2> QED
    BY <2>1 DEF SampleInv, MetricsOK, NoSampleLost
<1>4. CASE MetricsLoop
  BY <1>2, <1>4, RecordSampleKeeps, TickKeeps DEF MetricsLoop
<1>5. CASE Users
  BY <1>1, <1>3, <1>5
  DEF Users, AddNote, Clear, SwitchAlerts, MarkRead, TaskFails
<1>6. CASE PollLoop
  BY <1>1, <1>6 DEF PollLoop, PollState, PollCapacity, PollEnds, PollNotify
<1>7. CASE \E c \in Everyone : Delivered(c)
  BY <1>1, <1>7 DEF Delivered
<1>8. CASE Stop \/ Crash
  BY <1>8, StopKeeps
<1>9. CASE Boot \/ Clock \/ Surroundings \/ UNCHANGED vars
  BY <1>1, <1>9 DEF Boot, Clock, Surroundings, vars
<1> QED
  BY <1>4, <1>5, <1>6, <1>7, <1>8, <1>9 DEF Next

-----------------------------------------------------------------------------
(* Surroundings and alerts *)

LEMMA CoreStep == CoreOK /\ [Next]_vars => CoreOK'
<1> SUFFICES ASSUME CoreOK, [Next]_vars PROVE CoreOK'
  OBVIOUS
<1>1. up' \in BOOLEAN
  <2>1. CASE UNCHANGED up
    BY <2>1 DEF CoreOK
  <2>2. CASE up' = TRUE \/ up' = FALSE
    BY <2>2
  <2> QED
    BY <2>1, <2>2
    DEF Next, PollLoop, PollState, PollCapacity, PollEnds, PollNotify, MetricsLoop, Sample,
        Tick, RecordSample, Users, AddNote, Clear, SwitchAlerts, MarkRead, SetEnabled,
        TaskFails, Delivered, Boot, Stop, Crash, Clock, Surroundings, vars
<1>2. clock' \in 0..MaxClock
  <2>1. CASE UNCHANGED clock
    BY <2>1 DEF CoreOK
  <2>2. CASE Clock
    BY <2>2, MonitoringAssumption DEF Clock, CoreOK
  <2> QED
    BY <2>1, <2>2
    DEF Next, PollLoop, PollState, PollCapacity, PollEnds, PollNotify, MetricsLoop, Sample,
        Tick, RecordSample, Users, AddNote, Clear, SwitchAlerts, MarkRead, SetEnabled,
        TaskFails, Delivered, Boot, Stop, Crash, Surroundings, vars
<1>3. events' \in 0..MaxEvents
  <2>1. CASE UNCHANGED events
    BY <2>1 DEF CoreOK
  <2>2. CASE Event
    BY <2>2, MonitoringAssumption DEF Event, CoreOK
  <2> QED
    BY <2>1, <2>2
    DEF Next, PollLoop, PollState, PollCapacity, PollEnds, PollNotify, MetricsLoop, Sample,
        Tick, RecordSample, Users, AddNote, Clear, SwitchAlerts, MarkRead, SetEnabled,
        TaskFails, Delivered, Boot, Stop, Crash, Clock, Surroundings, vars
<1> QED
  BY <1>1, <1>2, <1>3 DEF CoreOK

LEMMA PoolsStep == PoolsOK /\ [Next]_vars => PoolsOK'
<1> SUFFICES ASSUME PoolsOK, [Next]_vars PROVE PoolsOK'
  OBVIOUS
<1>1. CASE UNCHANGED pools
  BY <1>1 DEF pools, PoolsOK
<1>2. CASE SwitchAlerts
  BY <1>2 DEF SwitchAlerts, PoolsOK
<1>3. CASE Surroundings
  <2>1. alertsOn' = alertsOn
    BY <1>3 DEF Surroundings
  <2>2. broken' \subseteq Pools
    BY <1>3 DEF Surroundings, PoolsOK
  <2>3. level' \in [Pools -> Buckets \cup {0}]
    BY <1>3 DEF Surroundings, PoolsOK
  <2>4. telegram' \in BOOLEAN
    BY <1>3 DEF Surroundings, PoolsOK
  <2> QED
    BY <2>1, <2>2, <2>3, <2>4 DEF PoolsOK
<1> QED
  BY <1>1, <1>2, <1>3
  DEF Next, PollLoop, PollState, PollCapacity, PollEnds, PollNotify, MetricsLoop, Sample,
      Tick, RecordSample, Users, AddNote, Clear, MarkRead, SetEnabled,
      TaskFails, Delivered, Boot, Stop, Crash, Clock, vars

LEMMA NotifyKeeps ==
  ASSUME AlertsOK, NEW c \in Everyone, NEW k \in Keys, Notify(c, k)
  PROVE  sending' \in [Everyone -> Keys \cup {None}]
BY DEF AlertsOK, Notify

LEMMA PollKeeps ==
  ASSUME AlertsOK, PoolsOK, PollLoop
  PROVE  AlertsOK'
<1>1. UNCHANGED <<lastSent, told>>
  BY DEF PollLoop, PollState, PollCapacity, PollEnds, PollNotify
<1>2. CASE PollState
  <2>1. broken \X {0} \subseteq Keys
    BY DEF PoolsOK, Keys
  <2>2. poll' \in [stage : {"sleep", "state", "capacity"}, keys : SUBSET Keys]
    BY <1>2, <2>1 DEF PollState, Quiet
  <2>3. sending' = sending
    BY <1>2 DEF PollState
  <2> QED
    BY <1>1, <2>2, <2>3 DEF AlertsOK
<1>3. CASE PollCapacity
  <2>1. { <<p, level[p]>> : p \in { q \in Pools : level[q] # 0 } } \subseteq Keys
    BY DEF PoolsOK, Keys
  <2>2. poll' \in [stage : {"sleep", "state", "capacity"}, keys : SUBSET Keys]
    BY <1>3, <2>1 DEF PollCapacity
  <2>3. sending' = sending
    BY <1>3 DEF PollCapacity
  <2> QED
    BY <1>1, <2>2, <2>3 DEF AlertsOK
<1>4. CASE PollEnds
  BY <1>1, <1>4 DEF PollEnds, Quiet, AlertsOK
<1>5. ASSUME NEW k \in Keys, PollNotify(k) PROVE AlertsOK'
  <2>1. poll' = [poll EXCEPT !.keys = @ \ {k}] /\ Notify("poll", k)
    BY <1>5 DEF PollNotify
  <2>2. poll' \in [stage : {"sleep", "state", "capacity"}, keys : SUBSET Keys]
    BY <2>1 DEF AlertsOK
  <2>3. sending' \in [Everyone -> Keys \cup {None}]
    BY <2>1, NotifyKeeps DEF Everyone
  <2> QED
    BY <1>1, <2>2, <2>3 DEF AlertsOK
<1> QED
  BY <1>2, <1>3, <1>4, <1>5 DEF PollLoop

LEMMA DeliveredKeeps ==
  ASSUME AlertsOK, CoreOK, NEW c \in Everyone, Delivered(c)
  PROVE  AlertsOK'
<1>1. /\ poll' = poll /\ sending[c] \in Keys /\ sending' = [sending EXCEPT ![c] = None]
      /\ lastSent' = lastSent \/ lastSent' = [lastSent EXCEPT ![sending[c]] = clock]
      /\ told' = told \/ told' = told \cup {sending[c]}
  BY DEF AlertsOK, Delivered, Marked
<1>2. lastSent' \in [Keys -> (0..MaxClock) \cup {None}]
  BY <1>1 DEF AlertsOK, CoreOK
<1>3. sending' \in [Everyone -> Keys \cup {None}]
  BY <1>1 DEF AlertsOK
<1> QED
  BY <1>1, <1>2, <1>3 DEF AlertsOK

LEMMA AlertsStep == AlertsOK /\ PoolsOK /\ CoreOK /\ [Next]_vars => AlertsOK'
<1> SUFFICES ASSUME AlertsOK, PoolsOK, CoreOK, [Next]_vars PROVE AlertsOK'
  OBVIOUS
<1>1. CASE UNCHANGED alerts
  BY <1>1 DEF alerts, AlertsOK
<1>2. CASE Forgotten
  <2>1. Quiet \in [stage : {"sleep", "state", "capacity"}, keys : SUBSET Keys]
    BY DEF Quiet
  <2> QED
    BY <1>2, <2>1 DEF Forgotten, AlertsOK
<1>3. CASE PollLoop
  BY <1>3, PollKeeps
<1>4. CASE \E c \in Everyone : Delivered(c)
  BY <1>4, DeliveredKeeps
<1>5. ASSUME NEW c \in Callers, TaskFails(c) PROVE AlertsOK'
  <2>1. sending' \in [Everyone -> Keys \cup {None}]
    BY <1>5, NotifyKeeps DEF TaskFails, Everyone, Keys
  <2> QED
    BY <1>5, <2>1 DEF TaskFails, AlertsOK
<1>6. CASE Users
  BY <1>1, <1>5, <1>6 DEF Users, AddNote, Clear, SwitchAlerts, MarkRead, SetEnabled
<1>7. CASE MetricsLoop
  BY <1>1, <1>7 DEF MetricsLoop, Sample, Tick, RecordSample
<1>8. CASE Boot \/ Stop \/ Crash \/ Clock \/ Surroundings \/ UNCHANGED vars
  BY <1>1, <1>2, <1>8 DEF Boot, Stop, Crash, Clock, Surroundings, vars
<1> QED
  BY <1>3, <1>4, <1>6, <1>7, <1>8 DEF Next

-----------------------------------------------------------------------------
(* Theorems *)

\* The loops, the requests and the restarts of the process keep the whole invariant.
THEOREM Invariance == Spec => []IInv
<1>1. Init => IInv
  BY InitInv
<1>2. IInv /\ [Next]_vars => IInv'
  BY JournalStep, SampleStep, CoreStep, PoolsStep, AlertsStep DEF IInv
<1> QED
  BY <1>1, <1>2, PTL DEF Spec

\* Every variable of the background loops stays in its domain.
THEOREM TypeCorrect == Spec => []TypeOK
<1>1. IInv => TypeOK
  BY DEF IInv, TypeOK, CoreOK, JournalInv, SampleInv
<1> QED
  BY <1>1, Invariance, PTL

\* metrics_store.flush and close lose no recorded sample, however often they fail,
\* short of a crash and of a stop whose last flush fails.
THEOREM SamplesStay == Spec => []NoSampleLost
<1>1. IInv => NoSampleLost
  BY DEF IInv, SampleInv
<1> QED
  BY <1>1, Invariance, PTL

\* notification_store.add keeps as many of the newest entries as its size, across
\* clearing, ageing and restarts.
THEOREM NewestStay == Spec => []JournalKeepsNewest
<1>1. IInv => JournalKeepsNewest
  BY DEF IInv, JournalInv
<1> QED
  BY <1>1, Invariance, PTL

=============================================================================
