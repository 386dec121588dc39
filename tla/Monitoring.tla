------------------------------ MODULE Monitoring ------------------------------
(***************************************************************************)
(* The background loops of the service and what they leave behind.         *)
(*   managers/alert_manager.py      the poll of the pools, notify, cooldown *)
(*   utils/notification_store.py    the circular notification journal      *)
(*   managers/metrics_manager.py    the sampling loop                      *)
(*   managers/metrics_store.py      buffered samples, flags and retention  *)
(*   main.py                        lifespan: boot and orderly stop        *)
(***************************************************************************)
EXTENDS Naturals, FiniteSets

CONSTANTS
  Pools,
  Callers,     \* concurrent executions of one scheduled task that fails
  Buckets,     \* 5-point steps at or above the usage threshold
  Cooldown,    \* alert_cooldown_minutes, in ticks of the clock
  JournalSize, \* notification_log_size
  FlushEvery,  \* BUFFER_FLUSH_COUNT
  MaxClock,    \* bound: ticks
  MaxSamples,  \* bound: sampling rounds
  MaxIds,      \* bound: journal entries ever added
  MaxEvents,   \* bound: what users and the environment do
  None

ASSUME MonitoringAssumption ==
  /\ IsFiniteSet(Pools) /\ IsFiniteSet(Callers)
  /\ Buckets \subseteq Nat \ {0}
  /\ Cooldown \in Nat /\ JournalSize \in Nat \ {0} /\ FlushEvery \in Nat \ {0}
  /\ MaxClock \in Nat /\ MaxSamples \in Nat /\ MaxIds \in Nat /\ MaxEvents \in Nat

VARIABLES
  up,        \* the process runs, its loops started
  clock,
  broken,    \* pools that are not ONLINE
  level,     \* level[p]: the bucket of the pool's usage, 0 below the threshold
  telegram,  \* messages get through
  alertsOn,  \* settings.alerts_enabled
  lastSent,  \* _last_sent[k]: when an alert of key k was last delivered, or None
  told,      \* history: the keys this process delivered an alert of
  poll,      \* the poll: its stage and the keys it still has to notify
  sending,   \* sending[c]: c waits for a delivery of this key, or None
  journal,   \* entries: [id, read]
  nextId,    \* the journal's AUTOINCREMENT
  removed,   \* history: every entry up to this one was cleared or pruned
  enabled,   \* pools with metrics logging
  round,     \* sampling rounds
  todo,      \* pools this round still has to record, or None between rounds
  ticks,     \* _flush_counter
  buffer,    \* samples <<pool, round>> not yet flushed
  open,      \* samples inserted in a transaction that was never committed
  stored,    \* rows of metric_samples
  recorded,  \* history: samples the store owes
  events

alerts == <<lastSent, told, poll, sending>>
pools == <<broken, level, telegram, alertsOn>>
notes == <<journal, nextId, removed>>
metrics == <<enabled, round, todo, ticks, buffer, open, stored, recorded>>
vars == <<up, clock, pools, alerts, notes, metrics, events>>

Event == events < MaxEvents /\ events' = events + 1

\* Event keys: a pool's state, a pool's bucket, the scheduled task.
Keys == (Pools \X {0}) \cup (Pools \X Buckets) \cup {<<"task", 0>>}
Everyone == Callers \cup {"poll"}
Quiet == [stage |-> "sleep", keys |-> {}]

-----------------------------------------------------------------------------
(* The notification journal *)

\* Mutant of Kept: one entry more goes.
KeptShort(J, id) == { e \in J : e.id > id - JournalSize + 1 }

\* add trims to ids above the new one minus the size.
Kept(J, id) == { e \in J : e.id + JournalSize > id }

Added(J) == Kept(J \cup {[id |-> nextId, read |-> FALSE]}, nextId)

Record ==
  /\ nextId <= MaxIds
  /\ journal' = Added(journal) /\ nextId' = nextId + 1
  /\ UNCHANGED removed

\* A toast of the UI.
AddNote ==
  /\ up /\ Event /\ Record
  /\ UNCHANGED <<up, clock, pools, alerts, metrics>>

\* Without ids every entry is marked, also those the user was never shown.
MarkRead(S) ==
  /\ up /\ Event /\ journal # {}
  /\ journal' = { IF e.id \in S THEN [e EXCEPT !.read = TRUE] ELSE e : e \in journal }
  /\ UNCHANGED <<up, clock, pools, alerts, nextId, removed, metrics>>

Clear ==
  /\ up /\ Event
  /\ journal' = {} /\ removed' = nextId - 1
  /\ UNCHANGED <<up, clock, pools, alerts, nextId, metrics>>

-----------------------------------------------------------------------------
(* Alerts *)

Suppressed(k) == lastSent[k] # None /\ clock - lastSent[k] < Cooldown

\* notify, up to its await; what is suppressed or switched off ends here.
Notify(c, k) ==
  sending' = IF ~alertsOn \/ Suppressed(k) THEN sending ELSE [sending EXCEPT ![c] = k]

\* Mutant of Marked: an attempt counts as sent.
MarkedAlways(k, ok) == [lastSent EXCEPT ![k] = clock]

\* Only what was delivered starts a cooldown.
Marked(k, ok) == IF ok THEN [lastSent EXCEPT ![k] = clock] ELSE lastSent

\* The delivery ended: it is journaled either way.  With the ids of the model
\* used up the journal is left alone.
Delivered(c) ==
  /\ up /\ sending[c] # None
  /\ lastSent' = Marked(sending[c], telegram)
  /\ told' = IF telegram THEN told \cup {sending[c]} ELSE told
  /\ sending' = [sending EXCEPT ![c] = None]
  /\ IF nextId <= MaxIds THEN Record ELSE UNCHANGED notes
  /\ UNCHANGED <<up, clock, pools, poll, metrics, events>>

\* _check_pool_status, then _check_pool_capacity: each reads the pools once and
\* then notifies key by key.  A status or a list that fails is as one without pools, a
\* status that makes no sense ends the check.  The alert of a scan with errors, one
\* more key of a pool out of the same status, is left out.
PollState ==
  /\ up /\ alertsOn /\ poll.stage = "sleep"
  /\ \/ poll' = [stage |-> "state", keys |-> broken \X {0}] /\ UNCHANGED events
     \/ Event /\ poll' \in {[stage |-> "state", keys |-> {}], Quiet}
  /\ UNCHANGED <<up, clock, pools, lastSent, told, sending, notes, metrics>>

PollCapacity ==
  /\ up /\ poll.stage = "state" /\ poll.keys = {} /\ sending["poll"] = None
  /\ \/ /\ poll' = [stage |-> "capacity",
                    keys |-> { <<p, level[p]>> : p \in { q \in Pools : level[q] # 0 } }]
        /\ UNCHANGED events
     \/ Event /\ poll' = [stage |-> "capacity", keys |-> {}]
  /\ UNCHANGED <<up, clock, pools, lastSent, told, sending, notes, metrics>>

PollNotify(k) ==
  /\ up /\ k \in poll.keys /\ sending["poll"] = None
  /\ poll' = [poll EXCEPT !.keys = @ \ {k}]
  /\ Notify("poll", k)
  /\ UNCHANGED <<up, clock, pools, lastSent, told, notes, metrics, events>>

PollEnds ==
  /\ up /\ poll.stage = "capacity" /\ poll.keys = {} /\ sending["poll"] = None
  /\ poll' = Quiet
  /\ UNCHANGED <<up, clock, pools, lastSent, told, sending, notes, metrics, events>>

\* _execute_task reports a failed task.
TaskFails(c) ==
  /\ up /\ Event /\ sending[c] = None
  /\ Notify(c, <<"task", 0>>)
  /\ UNCHANGED <<up, clock, pools, lastSent, told, poll, notes, metrics>>

SwitchAlerts ==
  /\ up /\ Event /\ alertsOn' = ~alertsOn
  /\ UNCHANGED <<up, clock, broken, level, telegram, alerts, notes, metrics>>

-----------------------------------------------------------------------------
(* Metrics *)

\* set_pool_enabled commits, and with it what an earlier failure left open.
SetEnabled(p) ==
  /\ up /\ Event
  /\ enabled' = IF p \in enabled THEN enabled \ {p} ELSE enabled \cup {p}
  /\ stored' = stored \cup open /\ open' = {}
  /\ UNCHANGED <<up, clock, pools, alerts, notes, round, todo, ticks, buffer, recorded>>

\* _after_sample lists the enabled pools before it looks up their disks.
Sample ==
  /\ up /\ todo = None /\ round < MaxSamples
  /\ round' = round + 1 /\ todo' = enabled
  /\ UNCHANGED <<up, clock, pools, alerts, notes, enabled, ticks, buffer, open, stored,
                 recorded, events>>

\* record asks again whether the pool is enabled.
RecordSample(p) ==
  /\ up /\ todo # None /\ p \in todo
  /\ todo' = todo \ {p}
  /\ buffer' = IF p \in enabled THEN buffer \cup {<<p, round>>} ELSE buffer
  /\ recorded' = recorded \cup (buffer' \ buffer)
  /\ UNCHANGED <<up, clock, pools, alerts, notes, enabled, round, ticks, open, stored,
                 events>>

\* Mutant of FlushFailed: the samples are gone with the transaction.
FlushFailedEmpty == {}

\* After a failure the buffer is as before.
FlushFailed == buffer

\* What flush, one transaction, may leave.  A failed one is not rolled back by the
\* code: SQLite may have done it, or the rows wait for the next commit, to be stored
\* twice.
Flushes ==
  {[buffer |-> {}, open |-> {}, stored |-> stored \cup open \cup buffer]} \cup
  { [buffer |-> FlushFailed, open |-> o, stored |-> stored] : o \in {{}, open \cup buffer} }

\* Mutant of FlushDue: one round late.
FlushDueLate == ticks + 1 > FlushEvery

FlushDue == ticks + 1 >= FlushEvery

\* tick: every FlushEvery-th round is flushed.  Then prune, effective once a day,
\* deletes what is older than the retention, and commits.
Tick ==
  /\ up /\ todo = {}
  /\ todo' = None
  /\ ticks' = IF FlushDue THEN 0 ELSE ticks + 1
  /\ \E f \in IF FlushDue THEN Flushes
              ELSE {[buffer |-> buffer, open |-> open, stored |-> stored]} :
       /\ buffer' = f.buffer
       /\ \/ /\ open' = f.open /\ stored' = f.stored /\ UNCHANGED <<recorded, events>>
          \/ /\ Event
             /\ \E r \in 1..(round - 1) :
                  /\ stored' = { x \in f.stored \cup f.open : x[2] > r }
                  /\ recorded' = { x \in recorded : x[2] > r \/ x \in f.buffer }
             /\ open' = {}
  /\ UNCHANGED <<up, clock, pools, alerts, notes, enabled, round>>

-----------------------------------------------------------------------------
(* The process and its surroundings *)

Forgotten ==
  /\ lastSent' = [k \in Keys |-> None] /\ told' = {}
  /\ poll' = Quiet /\ sending' = [c \in Everyone |-> None]
  /\ todo' = None /\ ticks' = 0

\* lifespan ends: the loops are cancelled, then close flushes the store.  What a
\* failed flush leaves is lost.
Stop ==
  /\ up /\ Event /\ up' = FALSE /\ Forgotten
  /\ \E f \in Flushes :
       /\ stored' = f.stored
       /\ recorded' = { x \in recorded : x \in f.buffer => x \in f.stored }
  /\ buffer' = {} /\ open' = {}
  /\ UNCHANGED <<clock, pools, notes, enabled, round>>

Crash ==
  /\ up /\ Event /\ up' = FALSE /\ Forgotten
  /\ buffer' = {} /\ open' = {} /\ recorded' = stored
  /\ UNCHANGED <<clock, pools, notes, enabled, round, stored>>

\* lifespan begins; entries older than the retention leave the journal.
Boot ==
  /\ ~up /\ up' = TRUE
  /\ \E i \in removed..(nextId - 1) :
       /\ journal' = { e \in journal : e.id > i }
       /\ removed' = i
  /\ UNCHANGED <<clock, pools, alerts, nextId, metrics, events>>

Clock ==
  /\ clock < MaxClock /\ clock' = clock + 1
  /\ UNCHANGED <<up, pools, alerts, notes, metrics, events>>

\* Pools fail, are repaired, fill and are emptied; the network comes and goes.
Surroundings ==
  /\ Event
  /\ \/ /\ \E p \in Pools : broken' \in {broken \cup {p}, broken \ {p}}
        /\ broken' # broken /\ UNCHANGED <<level, telegram>>
     \/ /\ \E p \in Pools, b \in Buckets \cup {0} :
             level[p] # b /\ level' = [level EXCEPT ![p] = b]
        /\ UNCHANGED <<broken, telegram>>
     \/ telegram' = ~telegram /\ UNCHANGED <<broken, level>>
  /\ UNCHANGED <<up, clock, alertsOn, alerts, notes, metrics>>

Init ==
  /\ up = TRUE /\ clock = 0
  /\ broken = {} /\ level = [p \in Pools |-> 0]
  /\ telegram = TRUE /\ alertsOn = TRUE
  /\ lastSent = [k \in Keys |-> None] /\ told = {} /\ poll = Quiet
  /\ sending = [c \in Everyone |-> None]
  /\ journal = {} /\ nextId = 1 /\ removed = 0
  /\ enabled = {} /\ round = 0 /\ todo = None /\ ticks = 0
  /\ buffer = {} /\ open = {} /\ stored = {} /\ recorded = {}
  /\ events = 0

PollLoop ==
  \/ PollState \/ PollCapacity \/ PollEnds
  \/ \E k \in Keys : PollNotify(k)

MetricsLoop ==
  \/ Sample \/ Tick
  \/ \E p \in Pools : RecordSample(p)

Users ==
  \/ AddNote \/ Clear \/ SwitchAlerts
  \/ \E S \in SUBSET { e.id : e \in journal } : MarkRead(S)
  \/ \E p \in Pools : SetEnabled(p)
  \/ \E c \in Callers : TaskFails(c)

Next ==
  \/ PollLoop \/ MetricsLoop \/ Users
  \/ \E c \in Everyone : Delivered(c)
  \/ Boot \/ Stop \/ Crash \/ Clock \/ Surroundings

Spec == Init /\ [][Next]_vars

\* The event loop runs the poll while the process lives, and systemd starts the
\* service again.
FairSpec ==
  /\ Spec
  /\ WF_vars(Boot) /\ WF_vars(PollLoop)
  /\ \A c \in Everyone : WF_vars(Delivered(c))

-----------------------------------------------------------------------------
(* Properties *)

PoolsOK ==
  /\ broken \subseteq Pools /\ level \in [Pools -> Buckets \cup {0}]
  /\ telegram \in BOOLEAN /\ alertsOn \in BOOLEAN

AlertsOK ==
  /\ lastSent \in [Keys -> (0..MaxClock) \cup {None}]
  /\ told \subseteq Keys
  /\ poll \in [stage : {"sleep", "state", "capacity"}, keys : SUBSET Keys]
  /\ sending \in [Everyone -> Keys \cup {None}]

NotesOK ==
  /\ journal \subseteq [id : 1..MaxIds, read : BOOLEAN]
  /\ nextId \in 1..(MaxIds + 1) /\ removed \in 0..MaxIds

MetricsOK ==
  /\ enabled \subseteq Pools /\ round \in 0..MaxSamples
  /\ todo \in (SUBSET Pools) \cup {None} /\ ticks \in 0..(FlushEvery - 1)
  /\ buffer \subseteq Pools \X (1..MaxSamples)
  /\ open \subseteq Pools \X (1..MaxSamples)
  /\ stored \subseteq Pools \X (1..MaxSamples)
  /\ recorded \subseteq Pools \X (1..MaxSamples)

\* Every loop and request leaves every variable in its domain; the counter of rounds
\* since the last flush stays below BUFFER_FLUSH_COUNT.
TypeOK ==
  /\ up \in BOOLEAN /\ clock \in 0..MaxClock /\ events \in 0..MaxEvents
  /\ PoolsOK /\ AlertsOK /\ NotesOK /\ MetricsOK

\* "so nothing is lost silently" (metrics_store.py:174): a sample once recorded is
\* buffered or stored until the retention takes it; failed flushes, a pool that is
\* switched off meanwhile and an orderly stop lose none.  A crash, and a stop whose
\* last flush fails, lose what is buffered.
NoSampleLost == recorded \subseteq buffer \cup stored

\* The journal holds the newest entries, as many as its size, but for those that
\* were cleared or outlived: also after restarts, for the ids go on.
JournalKeepsNewest ==
  { e.id : e \in journal } =
    { i \in 1..(nextId - 1) : i > removed /\ i + JournalSize >= nextId }

\* A pool that stays in trouble is reported, however many deliveries failed before,
\* once messages get through and alerting stays on: by the process that runs from then
\* on, for a restart forgets what was delivered.
TroubleIsReported ==
  \A p \in Pools :
    /\ <>[](p \in broken /\ telegram /\ alertsOn) => <>[](<<p, 0>> \in told)
    /\ \A b \in Buckets :
         <>[](level[p] = b /\ telegram /\ alertsOn) => <>[](<<p, b>> \in told)

=============================================================================
