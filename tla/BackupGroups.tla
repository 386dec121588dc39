---------------------------- MODULE BackupGroups ----------------------------
(***************************************************************************)
(* The registry of backup groups: the rotation cycle of a group, the disks *)
(* filed in its sets, and the two pointers the schema cannot constrain,    *)
(* BackupGroup.active_set_id and BackupSet.active_disk_id.                 *)
(*   services/backup_group_service.py  create_group .. _realign_set        *)
(*   managers/zfs_backup_manager.py    declare, deregister                 *)
(*                                                                         *)
(* A handler without an await that suspends is one step, even if it        *)
(* commits twice; when its second transaction fails, the first one stays.  *)
(* Sessions appear only by what they read and write here: BackupCycle has  *)
(* their inside, and takes the groups, sets and disks as constants.        *)
(***************************************************************************)
EXTENDS Naturals, FiniteSets, Sequences

CONSTANTS
  Groups,       \* the groups that may be created
  Disks,        \* ids of the volumes that may be declared
  Copies,       \* BackupGroup.copies
  MaxSets,      \* bound: set ids
  MaxPosition,  \* bound: positions asked for
  None

ASSUME RegistryAssumption ==
  /\ Disks \subseteq Nat
  /\ Copies \in [Groups -> Nat \ {0}]
  /\ MaxSets \in Nat /\ MaxPosition \in Nat
  /\ None \notin Nat

VARIABLES
  groups,      \* BackupGroup rows
  sets,        \* BackupSet rows by id: group, position, active_disk_id
  filed,       \* BackupDisk rows by id: backup_set_id
  activeSet,   \* BackupGroup.active_set_id
  needsDisk,   \* BackupGroup.needs_disk
  running,     \* groups with a BackupSession row that says running
  plan,        \* plan[g]: the sets _execute_session read, by place in the cycle
  trying,      \* the set a session wants a disk of, and the disks it read
  leaving      \* leaving[k]: the set a deregistration of k read before its umount

vars == <<groups, sets, filed, activeSet, needsDisk, running, plan, trying, leaving>>

Ids == 1..MaxSets
SetRow == [group : Groups, position : Nat, active : Disks \cup {None}]
NoPlan == << >>
NoTry == [set |-> None, disks |-> {}]

Least(S) == CHOOSE x \in S : \A y \in S : x <= y
Greatest(S) == CHOOSE x \in S : \A y \in S : y <= x

\* f with the values of h where h is defined.
Override(f, h) ==
  [x \in DOMAIN f \cup DOMAIN h |-> IF x \in DOMAIN h THEN h[x] ELSE f[x]]
Without(f, S) == [x \in DOMAIN f \ S |-> f[x]]

\* The sets of a group in a table of rows R, and the disks filed in a set.
SetsIn(R, g) == { s \in DOMAIN R : R[s].group = g }
SetsOf(g) == SetsIn(sets, g)
DisksIn(F, s) == { k \in DOMAIN F : F[k] = s }

\* group_sets and _renumber order by position, then by id.
Precedes(R, s, t) ==
  R[s].position < R[t].position \/ (R[s].position = R[t].position /\ s < t)
Rank(R, s) == Cardinality({ t \in SetsIn(R, R[s].group) : Precedes(R, t, s) })
InOrder(R, g) ==
  [i \in 1..Cardinality(SetsIn(R, g)) |-> CHOOSE s \in SetsIn(R, g) : Rank(R, s) = i - 1]

-----------------------------------------------------------------------------
(* _renumber *)

\* The session flushes one UPDATE per moved row, in the order of the ids.  With
\* UNIQUE(group_id, position) one fails if a row with a higher id, yet to be
\* moved, still holds the place; the whole transaction is then rolled back.
RenumberFails(R, g) ==
  \E s, t \in SetsIn(R, g) :
    s < t /\ R[t].position = Rank(R, s) /\ R[s].position # Rank(R, s)

\* Mutant of Renumbered: the places are dealt in the order of the ids.
RenumberedById(R, g) ==
  [s \in DOMAIN R |->
     IF R[s].group = g
     THEN [R[s] EXCEPT !.position = Cardinality({ t \in SetsIn(R, g) : t < s })] ELSE R[s]]

Renumbered(R, g) ==
  [s \in DOMAIN R |->
     IF R[s].group = g THEN [R[s] EXCEPT !.position = Rank(R, s)] ELSE R[s]]

\* What the table holds once _renumber has returned or raised.
AfterRenumber(R, g) == IF RenumberFails(R, g) THEN R ELSE Renumbered(R, g)

-----------------------------------------------------------------------------
(* Groups and sets *)

CreateGroup(g) ==
  /\ g \notin groups
  /\ groups' = groups \cup {g}
  /\ activeSet' = [activeSet EXCEPT ![g] = None]
  /\ needsDisk' = [needsDisk EXCEPT ![g] = FALSE]
  /\ UNCHANGED <<sets, filed, running, plan, trying, leaving>>

\* The sets go with the group, the disks only lose their set.
DeleteGroup(g) ==
  /\ g \in groups /\ g \notin running
  /\ groups' = groups \ {g}
  /\ sets' = Without(sets, SetsOf(g))
  /\ filed' = [k \in DOMAIN filed |-> IF filed[k] \in SetsOf(g) THEN None ELSE filed[k]]
  /\ UNCHANGED <<activeSet, needsDisk, running, plan, trying, leaving>>

\* SQLite gives a new row the highest id plus one.
NextId == IF DOMAIN sets = {} THEN 1 ELSE Greatest(DOMAIN sets) + 1

\* At the end by default, else at a place that is free.  If the renumbering
\* fails the set stays but the group does not come to point at it.
CreateSet(g, p) ==
  LET s == NextId
      places == { sets[t].position : t \in SetsOf(g) }
      R == Override(sets, [t \in {s} |-> [group |-> g, position |-> p, active |-> None]])
  IN /\ g \in groups /\ s \in Ids
     /\ p \notin places
     /\ sets' = AfterRenumber(R, g)
     /\ activeSet' = IF activeSet[g] = None /\ ~RenumberFails(R, g)
                     THEN [activeSet EXCEPT ![g] = s] ELSE activeSet
     /\ UNCHANGED <<groups, filed, needsDisk, running, plan, trying, leaving>>

\* Moving a set commits its new place before the others are renumbered.
UpdateSet(s, p) ==
  LET g == sets[s].group
  IN /\ s \in DOMAIN sets
     /\ \A t \in SetsOf(g) \ {s} : sets[t].position # p
     /\ sets' = AfterRenumber([sets EXCEPT ![s].position = p], g)
     /\ UNCHANGED <<groups, filed, activeSet, needsDisk, running, plan, trying, leaving>>

\* Mutant of DeleteSet: while a session runs it keeps only the last set.
DeleteSetUnguarded(s) ==
  LET g == sets[s].group
      R == Without(sets, {s})
  IN /\ s \in DOMAIN sets
     /\ g \in running => SetsIn(R, g) # {}
     /\ sets' = AfterRenumber(R, g)
     /\ filed' = [k \in DOMAIN filed |-> IF filed[k] = s THEN None ELSE filed[k]]
     /\ activeSet' = IF activeSet[g] \in {s, None} /\ SetsIn(R, g) # {}
                     THEN [activeSet EXCEPT ![g] = InOrder(R, g)[1]] ELSE activeSet
     /\ UNCHANGED <<groups, needsDisk, running, plan, trying, leaving>>

\* The rows go in one transaction, the renumbering is the next, and only then
\* is the pointer of the group set right.
DeleteSet(s) ==
  LET g == sets[s].group
      R == Without(sets, {s})
      first == IF SetsIn(R, g) = {} THEN None ELSE InOrder(R, g)[1]
  IN /\ s \in DOMAIN sets /\ g \notin running
     /\ sets' = AfterRenumber(R, g)
     /\ filed' = [k \in DOMAIN filed |-> IF filed[k] = s THEN None ELSE filed[k]]
     /\ IF RenumberFails(R, g)
        THEN UNCHANGED <<activeSet, needsDisk>>
        ELSE /\ activeSet' = IF activeSet[g] \in {s, None}
                             THEN [activeSet EXCEPT ![g] = first] ELSE activeSet
             /\ needsDisk' = [needsDisk EXCEPT ![g] = FALSE]
     /\ UNCHANGED <<groups, running, plan, trying, leaving>>

\* Allowed while a session of the group runs.
ActivateSet(s) ==
  LET g == sets[s].group
  IN /\ s \in DOMAIN sets
     /\ activeSet' = [activeSet EXCEPT ![g] = s]
     /\ needsDisk' = [needsDisk EXCEPT ![g] = FALSE]
     /\ UNCHANGED <<groups, sets, filed, running, plan, trying, leaving>>

-----------------------------------------------------------------------------
(* Disks *)

\* Mutant of FirstDisk: no disk is the id 0.
FirstDiskOrZero(K) == IF K = {} THEN 0 ELSE Least(K)

FirstDisk(K) == IF K = {} THEN None ELSE Least(K)

\* Mutant of RealignedActive: the set always goes back to its first disk.
RealignedToFirst(active, K) == FirstDisk(K)

\* Realign: a set whose active disk is gone takes the first of those it has
\* left; with none left its group needs a disk.
RealignedActive(active, K) == IF active = None \/ active \in K THEN active ELSE FirstDisk(K)

\* declare files the new volume and makes it the active one of an empty set.
\* A set deleted while the volume was formatted fails the insert.
DeclareDisk(k, s) ==
  /\ k \in Disks \ DOMAIN filed
  /\ s \in DOMAIN sets \cup {None}
  /\ filed' = Override(filed, [x \in {k} |-> s])
  /\ sets' = IF s # None /\ sets[s].active = None
             THEN [sets EXCEPT ![s].active = k] ELSE sets
  /\ UNCHANGED <<groups, activeSet, needsDisk, running, plan, trying, leaving>>

\* A disk may be moved to another set at any time; the set it leaves is
\* realigned after the move.
AttachDisk(s, k) ==
  LET from == filed[k]
      moved == [filed EXCEPT ![k] = s]
      left == DisksIn(moved, from)
      R == IF sets[s].active = None THEN [sets EXCEPT ![s].active = k] ELSE sets
      leaves == from \in DOMAIN sets \ {s}
  IN /\ s \in DOMAIN sets /\ k \in DOMAIN filed
     /\ filed' = moved
     /\ sets' = IF leaves THEN [R EXCEPT ![from].active = RealignedActive(@, left)] ELSE R
     /\ needsDisk' = IF leaves /\ left = {}
                     THEN [needsDisk EXCEPT ![sets[from].group] = TRUE] ELSE needsDisk
     /\ UNCHANGED <<groups, activeSet, running, plan, trying, leaving>>

\* Deregistering reads the row, unmounts if need be, and then clears up.
BeginDeregister(k) ==
  /\ k \in DOMAIN filed \ DOMAIN leaving
  /\ leaving' = Override(leaving, [x \in {k} |-> filed[k]])
  /\ UNCHANGED <<groups, sets, filed, activeSet, needsDisk, running, plan, trying>>

\* detach_disk takes the disk out of its set before it deregisters it.
DetachDisk(s, k) ==
  /\ s \in DOMAIN sets /\ k \in DisksIn(filed, s) \ DOMAIN leaving
  /\ sets[s].group \notin running
  /\ filed' = [filed EXCEPT ![k] = None]
  /\ leaving' = Override(leaving, [x \in {k} |-> None])
  /\ UNCHANGED <<groups, sets, activeSet, needsDisk, running, plan, trying>>

\* Mutant of EndDeregister: the pointer is cleared whatever disks are left.
EndDeregisterClearing(k) ==
  LET s == leaving[k]
  IN /\ k \in DOMAIN leaving
     /\ filed' = Without(filed, {k})
     /\ leaving' = Without(leaving, {k})
     /\ sets' = IF s \in DOMAIN sets /\ sets[s].active = k
                THEN [sets EXCEPT ![s].active = None] ELSE sets
     /\ UNCHANGED <<groups, activeSet, needsDisk, running, plan, trying>>

\* The set that was read, if it still points at the disk, takes the first of
\* its others.
EndDeregister(k) ==
  LET s == leaving[k]
      rest == DisksIn(filed, s) \ {k}
      points == s \in DOMAIN sets /\ sets[s].active = k
  IN /\ k \in DOMAIN leaving
     /\ filed' = Without(filed, {k})
     /\ leaving' = Without(leaving, {k})
     /\ sets' = IF points THEN [sets EXCEPT ![s].active = FirstDisk(rest)] ELSE sets
     /\ needsDisk' = IF points /\ rest = {}
                     THEN [needsDisk EXCEPT ![sets[s].group] = TRUE] ELSE needsDisk
     /\ UNCHANGED <<groups, activeSet, running, plan, trying>>

\* advance_disk and set_active_disk.
ChooseActiveDisk(s, k) ==
  /\ s \in DOMAIN sets /\ k \in DisksIn(filed, s)
  /\ sets[s].group \notin running
  /\ sets' = [sets EXCEPT ![s].active = k]
  /\ UNCHANGED <<groups, filed, activeSet, needsDisk, running, plan, trying, leaving>>

-----------------------------------------------------------------------------
(* Sessions *)

StartSession(g) ==
  /\ g \in groups \ running
  /\ SetsOf(g) # {}
  /\ running' = running \cup {g}
  /\ UNCHANGED <<groups, sets, filed, activeSet, needsDisk, plan, trying, leaving>>

\* Mutant of Resolve: the session starts at the first set but the pointer stays.
ResolveUnhealed(g) ==
  LET order == InOrder(sets, g)
      n == Cardinality(SetsOf(g))
      start == IF activeSet[g] \in SetsOf(g) THEN Rank(sets, activeSet[g]) ELSE 0
  IN /\ g \in running /\ plan[g] = NoPlan
     /\ plan' = [plan EXCEPT ![g] = [i \in 1..n |-> order[((start + i - 1) % n) + 1]]]
     /\ UNCHANGED <<groups, sets, filed, activeSet, needsDisk, running, trying, leaving>>

\* The worker reads the cycle once.  A pointer that names none of its sets is
\* set to the first.  The session's plan starts at the active set.
Resolve(g) ==
  LET order == InOrder(sets, g)
      n == Cardinality(SetsOf(g))
      start == IF activeSet[g] \in SetsOf(g)
               THEN Rank(sets, activeSet[g]) ELSE 0
  IN /\ g \in running /\ plan[g] = NoPlan
     /\ plan' = [plan EXCEPT ![g] = [i \in 1..n |-> order[((start + i - 1) % n) + 1]]]
     /\ activeSet' = [activeSet EXCEPT ![g] = order[start + 1]]
     /\ UNCHANGED <<groups, sets, filed, needsDisk, running, trying, leaving>>

\* The plan's targets: the first `copies` sets of it.
Written(g) == IF Copies[g] < Len(plan[g]) THEN Copies[g] ELSE Len(plan[g])
Targets(g) == { plan[g][i] : i \in 1..Written(g) }

\* _active_disk and _advance_for_space read the disks of the set and try to
\* mount them one after the other ...
TryDisks(g, s) ==
  /\ plan[g] # NoPlan /\ trying[g] = NoTry
  /\ s \in Targets(g) /\ DisksIn(filed, s) # {}
  /\ trying' = [trying EXCEPT ![g] = [set |-> s, disks |-> DisksIn(filed, s)]]
  /\ UNCHANGED <<groups, sets, filed, activeSet, needsDisk, running, plan, leaving>>

\* ... and the first that mounts becomes the active disk of the set, wherever
\* it is filed by then.
DiskMounted(g, k) ==
  /\ k \in trying[g].disks
  /\ sets' = [sets EXCEPT ![trying[g].set].active = k]
  /\ trying' = [trying EXCEPT ![g] = NoTry]
  /\ UNCHANGED <<groups, filed, activeSet, needsDisk, running, plan, leaving>>

NoneMounts(g) ==
  /\ trying[g] # NoTry
  /\ trying' = [trying EXCEPT ![g] = NoTry]
  /\ UNCHANGED <<groups, sets, filed, activeSet, needsDisk, running, plan, leaving>>

\* _rotate works on the order the worker read when it started.
Rotate(g) ==
  /\ plan[g] # NoPlan /\ trying[g] = NoTry
  /\ activeSet' = [activeSet EXCEPT ![g] =
       plan[g][(Written(g) % Len(plan[g])) + 1]]
  /\ needsDisk' = [needsDisk EXCEPT ![g] = FALSE]
  /\ plan' = [plan EXCEPT ![g] = NoPlan]
  /\ running' = running \ {g}
  /\ UNCHANGED <<groups, sets, filed, trying, leaving>>

\* A session that fails, or is blocked for want of a disk.
StopSession(g, blocked) ==
  /\ plan[g] # NoPlan /\ trying[g] = NoTry
  /\ needsDisk' = IF blocked THEN [needsDisk EXCEPT ![g] = TRUE] ELSE needsDisk
  /\ plan' = [plan EXCEPT ![g] = NoPlan]
  /\ running' = running \ {g}
  /\ UNCHANGED <<groups, sets, filed, activeSet, trying, leaving>>

\* The process is restarted, and recovery fails the sessions left running.
Restart ==
  /\ running' = {}
  /\ plan' = [g \in Groups |-> NoPlan]
  /\ trying' = [g \in Groups |-> NoTry]
  /\ leaving' = << >>
  /\ UNCHANGED <<groups, sets, filed, activeSet, needsDisk>>

-----------------------------------------------------------------------------
(* The specification *)

Init ==
  /\ groups = {} /\ running = {}
  /\ sets = << >> /\ filed = << >> /\ leaving = << >>
  /\ activeSet = [g \in Groups |-> None]
  /\ needsDisk = [g \in Groups |-> FALSE]
  /\ plan = [g \in Groups |-> NoPlan]
  /\ trying = [g \in Groups |-> NoTry]

Editing ==
  \/ \E g \in Groups : CreateGroup(g) \/ DeleteGroup(g)
  \/ \E g \in Groups, p \in 0..MaxPosition : CreateSet(g, p)
  \/ \E s \in DOMAIN sets, p \in 0..MaxPosition : UpdateSet(s, p)
  \/ \E s \in DOMAIN sets : DeleteSet(s) \/ ActivateSet(s)

Filing ==
  \/ \E k \in Disks, s \in DOMAIN sets \cup {None} : DeclareDisk(k, s)
  \/ \E s \in DOMAIN sets, k \in DOMAIN filed :
       AttachDisk(s, k) \/ DetachDisk(s, k) \/ ChooseActiveDisk(s, k)
  \/ \E k \in DOMAIN filed : BeginDeregister(k)
  \/ \E k \in DOMAIN leaving : EndDeregister(k)

Working(g) ==
  \/ StartSession(g) \/ Resolve(g)
  \/ \E s \in DOMAIN sets : TryDisks(g, s)
  \/ \E k \in Disks : DiskMounted(g, k)
  \/ NoneMounts(g) \/ Rotate(g)
  \/ \E blocked \in BOOLEAN : StopSession(g, blocked)

Next == Editing \/ Filing \/ (\E g \in Groups : Working(g)) \/ Restart

Spec == Init /\ [][Next]_vars

-----------------------------------------------------------------------------
(* Properties *)

\* Every row and every local stays in its domain; a disk that is being
\* deregistered still has its row.
TypeOK ==
  /\ groups \subseteq Groups /\ running \subseteq groups
  /\ DOMAIN sets \subseteq Ids /\ \A s \in DOMAIN sets : sets[s] \in SetRow
  /\ DOMAIN filed \subseteq Disks /\ \A k \in DOMAIN filed : filed[k] \in Ids \cup {None}
  /\ DOMAIN leaving \subseteq DOMAIN filed
  /\ activeSet \in [Groups -> Ids \cup {None}]
  /\ needsDisk \in [Groups -> BOOLEAN]
  /\ plan \in [Groups -> Seq(Ids)]
  /\ trying \in [Groups -> [set : Ids \cup {None}, disks : SUBSET Disks]]

\* A session works for hours on the sets it read when it started: every one of
\* them stays a set of its group, or the rotation would move the group to a row
\* that is gone (or to the set of another group that was given its id).
PlanIntact ==
  \A g \in Groups : \A i \in DOMAIN plan[g] : plan[g][i] \in SetsOf(g)

\* From its first step on a session has healed a pointer that deletions left
\* dangling, and no request can break it again while the session lasts.
HealedInSession ==
  \A g \in Groups : plan[g] # NoPlan => activeSet[g] \in SetsOf(g)

\* A set aims at one of its disks, and at none when it has none.
Aimed(R, F, s) ==
  IF DisksIn(F, s) = {} THEN R[s].active = None ELSE R[s].active \in DisksIn(F, s)

\* The steps that take a disk from a set, or give it one, without realigning it.
\* detach_disk clears backup_set_id first, so that the deregistration it calls finds
\* no set; a deregistration realigns the set it read before its umount, not one the
\* disk was moved to meanwhile; and a session keeps a disk that was moved away while
\* it was being mounted.
Unaligned(s) ==
  \/ \E k \in Disks : DetachDisk(s, k)
  \/ \E k \in DOMAIN leaving : filed[k] = s /\ leaving[k] # s /\ EndDeregister(k)
  \/ \E g \in Groups, k \in Disks \ DisksIn(filed, s) : trying[g].set = s /\ DiskMounted(g, k)

\* It still aims at one of its disks, and its group knows when it has lost the last.
Realigned(s) ==
  /\ Aimed(sets', filed', s)
  /\ DisksIn(filed, s) # {} /\ DisksIn(filed', s) = {} => needsDisk'[sets[s].group]

\* A set that aims at one of its disks goes on to: whatever is declared, moved,
\* deregistered or deleted, and in whatever order the two halves of deregistrations
\* and the mounts of sessions come, its pointer follows, and losing the last disk
\* tells the group that it needs one.  The three steps above are all that break this.
RealignedOnLoss ==
  [][\A s \in DOMAIN sets \cap DOMAIN sets' :
       Aimed(sets, filed, s) => Realigned(s) \/ Unaligned(s)]_vars

\* While its active disk stays filed in it, a set changes it only because the
\* operator chose another or a session mounted another; losing some other disk
\* does not send the set back to a disk it had filled.
ActiveDiskKept ==
  [][\A s \in DOMAIN sets \cap DOMAIN sets' :
       sets[s].active \in DisksIn(filed, s) \cap DisksIn(filed', s)
         /\ sets'[s].active # sets[s].active
         => \/ \E k \in Disks : ChooseActiveDisk(s, k)
            \/ \E g \in Groups, k \in Disks : trying[g].set = s /\ DiskMounted(g, k)]_vars

\* The cycle is reordered only by moving a set in it: creating and deleting
\* sets, whose renumbering may fail or not, leave the order of the others.
CycleOrderKept ==
  [][\A s, t \in DOMAIN sets \cap DOMAIN sets' :
       sets[s].group = sets[t].group /\ Precedes(sets, s, t) /\ ~Precedes(sets', s, t)
         => \E x \in {s, t}, p \in 0..MaxPosition : UpdateSet(x, p)]_vars

=============================================================================
