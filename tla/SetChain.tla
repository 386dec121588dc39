------------------------------ MODULE SetChain ------------------------------
(***************************************************************************)
(* What a backup set promises of a dataset: an abstract specification.     *)
(*                                                                         *)
(* A set vouches for a log of streams.  Each is a full, or was sent from   *)
(* the snapshot of the one before it; only the newest may be taken back;   *)
(* and the pool keeps every snapshot the log names, so that the log can    *)
(* always be extended.  BackupCycle implements this when no disk of the    *)
(* set is recycled.                                                        *)
(***************************************************************************)
EXTENDS Naturals

CONSTANTS Sets, Datasets, None

VARIABLES
  log,    \* log[s][d]: the streams that set s vouches for, by the number of their run
  pool    \* pool[d]: the backup snapshots of d in the pool

vars == <<log, pool>>

\* The number of the newest stream of a log.
IsLast(q, i) == i \in DOMAIN q /\ \A j \in DOMAIN q : j <= i

\* What a stream may be sent from: nothing, or the snapshot sent last.
Bases(q) == {None} \cup { q[i].snap : i \in { j \in DOMAIN q : IsLast(q, j) } }

\* Some stream that is vouched for was made of the snapshot, or sent from it.
Needed(d, t) ==
  \E s \in Sets : \E i \in DOMAIN log[s][d] : t \in {log[s][d][i].snap, log[s][d][i].base}

-----------------------------------------------------------------------------

Init ==
  /\ log = [s \in Sets |-> [d \in Datasets |-> [i \in {} |-> None]]]
  /\ pool = [d \in Datasets |-> {}]

Snapshot(d, t) ==
  /\ t \notin pool[d]
  /\ pool' = [pool EXCEPT ![d] = @ \cup {t}]
  /\ UNCHANGED log

\* Pruned, skipped, failed or orphaned.
Destroy(d, t) ==
  /\ pool' = [pool EXCEPT ![d] = @ \ {t}]
  /\ ~Needed(d, t)
  /\ UNCHANGED log

\* Runs are numbered in the order they begin, and a set is written by one at a time.
Store(s, d, n, t, b) ==
  /\ \A i \in DOMAIN log[s][d] : i < n
  /\ {t, b} \ {None} \subseteq pool[d]
  /\ log' = [log EXCEPT ![s][d] =
       [i \in DOMAIN @ \cup {n} |-> IF i = n THEN [snap |-> t, base |-> b] ELSE @[i]]]
  /\ UNCHANGED pool

\* An error after the stream was stored.
TakeBack(s, d, n) ==
  /\ IsLast(log[s][d], n)
  /\ log' = [log EXCEPT ![s][d] = [i \in DOMAIN @ \ {n} |-> @[i]]]
  /\ UNCHANGED pool

\* Seconds and numbers have no bound, so those a step brings in are looked up in what
\* it leaves.
Next ==
  \E d \in Datasets :
    \/ \E t \in pool'[d] : Snapshot(d, t)
    \/ \E t \in pool[d] : Destroy(d, t)
    \/ \E s \in Sets :
         \/ \E n \in DOMAIN log'[s][d], t \in pool[d], b \in Bases(log[s][d]) : Store(s, d, n, t, b)
         \/ \E n \in DOMAIN log[s][d] : TakeBack(s, d, n)

Spec == Init /\ [][Next]_vars

=============================================================================
