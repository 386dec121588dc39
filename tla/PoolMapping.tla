------------------------------ MODULE PoolMapping ------------------------------
(***************************************************************************)
(* Which attached disk takes which place of a pool recreated from backup.  *)
(*   services/system_restore.py  _attached_disks, plan_pool_mapping        *)
(*   managers/zfs_manager.py     get_pool_recreate_specs, what is recorded *)
(*   utils/devices.py            read_slot_uuids                           *)
(*                                                                         *)
(* Once the disks are read, the plan is made without an await.  Two disks  *)
(* are known, numbered in the order of their rows; one that is absent is   *)
(* offered like the others.  Sizes only mark a place as too small and are  *)
(* left out.                                                               *)
(***************************************************************************)
EXTENDS Naturals, FiniteSets, Sequences

CONSTANTS
  Slots,       \* partition slots (GPT label, or PARTUUID)
  MaxDevices,  \* bound: devices of the recorded pool
  None

ASSUME MappingAssumption ==
  /\ MaxDevices \in Nat
  /\ None \notin Slots

Names == 1..2
Least(S) == CHOOSE x \in S : \A y \in S : x <= y

-----------------------------------------------------------------------------
(* What is known of the disks, and what was recorded of the pool *)

\* byId, serial: names, 0 for no by-id path.  parts: the partition of each slot:
\* absent, in an imported pool, a volume of the set being restored, which the scan
\* can read or not, or anything else, a volume of another set included: free.
DiskView ==
  [byId : {0} \cup Names, serial : Names, os : BOOLEAN, whole : BOOLEAN,
   parts : [Slots -> {"none", "free", "member", "media", "unread"}]]

With(d, use) == { s \in Slots : d.parts[s] = use }

\* A disk is whole in a pool, or has partitions; by-id paths are unique.  As names
\* are as good as each other, disk i has by-id path i or none, and a serial up to i.
Disk(i) ==
  { d \in DiskView :
      /\ d.byId \in {0, i} /\ d.serial <= i
      /\ d.os \/ d.whole => With(d, "none") = Slots /\ d.os # d.whole }

DiskTables == { <<d, e>> : d \in Disk(1), e \in Disk(2) }

\* get_pool_recreate_specs: the leaves of the pool in order, a slot for each
\* that is a labelled partition.
Device == [byId : {0} \cup Names, serial : Names, slot : Slots \cup {None}]
Recorded == [1..MaxDevices -> Device]

\* list_candidates passes over disks that have a part in an imported pool, and
\* _scan_volumes over volumes whose mount or manifest fails: what is on those is not
\* known to be a medium.
KnownMedia(d) == With(d, "media") # {} /\ With(d, "member") = {} /\ ~d.os

\* _attached_disks: not the OS disk, no known medium, not whole in a pool; of a
\* disk with member partitions the others are left.
Attached(T) ==
  { i \in DOMAIN T :
      /\ ~T[i].os /\ ~T[i].whole /\ ~KnownMedia(T[i])
      /\ With(T[i], "member") # {} => Slots # With(T[i], "member") \cup With(T[i], "none") }

-----------------------------------------------------------------------------
(* _match_disk *)

\* Mutant of Taken: a whole disk is only taken by a whole disk.
TakenAlike(used, i, slot) == <<i, slot>> \in used

\* Taken whole, in the same slot, or, for who needs the whole disk, in any.
Taken(used, i, slot) ==
  \/ <<i, slot>> \in used \/ <<i, None>> \in used
  \/ slot = None /\ \E s \in Slots : <<i, s>> \in used

Usable(T, used, i, slot) ==
  /\ With(T[i], "member") # {} =>
       slot # None /\ T[i].parts[slot] \notin {"none", "member"}
  /\ ~Taken(used, i, slot)

\* The first disk of the same by-id path, else of the same serial, else none.
MatchDisk(T, used, spec) ==
  LET free == { i \in Attached(T) : Usable(T, used, i, spec.slot) }
      same == { i \in free : spec.byId # 0 /\ T[i].byId = spec.byId }
      moved == { i \in free : T[i].serial = spec.serial }
  IN IF same # {} THEN Least(same) ELSE IF moved # {} THEN Least(moved) ELSE 0

\* plan_pool_mapping: a disk, or 0, for each recorded device in turn.
PoolPlan(T, specs) ==
  LET used(p) == { <<p[k], specs[k].slot>> : k \in { j \in DOMAIN p : p[j] # 0 } }
      plan[n \in 0..Len(specs)] ==
        IF n = 0 THEN << >>
        ELSE Append(plan[n - 1], MatchDisk(T, used(plan[n - 1]), specs[n]))
  IN plan[Len(specs)]

-----------------------------------------------------------------------------
(* What a plan must be *)

\* No device is planned twice: two places share a disk only in two slots of it.
Exclusive(specs, p) ==
  \A j, k \in DOMAIN p :
    j # k /\ p[j] # 0 /\ p[j] = p[k] =>
      /\ specs[j].slot # None /\ specs[k].slot # None
      /\ specs[j].slot # specs[k].slot

\* The OS disk and what an imported pool holds are not planned, nor is a disk with
\* a volume of the set that could be read, unless an imported pool has a partition
\* of it too.  That exception, and the volumes that could not be read, are where
\* the set's own media are offered after all; those of other sets always are.
Spares(T, specs, p) ==
  \A k \in DOMAIN p :
    LET d == T[p[k]] IN
      p[k] # 0 =>
        /\ ~d.os /\ ~d.whole
        /\ With(d, "media") # {} => With(d, "member") # {}
        /\ IF specs[k].slot = None THEN With(d, "member") = {}
           ELSE d.parts[specs[k].slot] # "member"

\* Where no identity is ambiguous (serials are unique, what is recorded under a
\* by-id path carries the serial found there, no place is recorded twice), a
\* place is given to its own disk whenever that is there and may be used.
Unambiguous(T, specs) ==
  /\ \A i, j \in DOMAIN T : i # j => T[i].serial # T[j].serial
  /\ \A i \in DOMAIN T, k \in DOMAIN specs :
       specs[k].byId # 0 /\ specs[k].byId = T[i].byId => specs[k].serial = T[i].serial
  /\ \A j, k \in DOMAIN specs :
       j # k /\ specs[j].serial = specs[k].serial =>
         /\ specs[j].slot # None /\ specs[k].slot # None
         /\ specs[j].slot # specs[k].slot

FindsOwn(T, specs, p) ==
  Unambiguous(T, specs) =>
    \A k \in DOMAIN specs :
      LET own == { i \in Attached(T) :
                     T[i].serial = specs[k].serial /\ Usable(T, {}, i, specs[k].slot) }
      IN p[k] = IF own = {} THEN 0 ELSE Least(own)

=============================================================================
