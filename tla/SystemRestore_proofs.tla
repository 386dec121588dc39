------------------------ MODULE SystemRestore_proofs ------------------------
(***************************************************************************)
(* Proofs about SystemRestore and PoolMapping, for every history, every    *)
(* recorded pool and every number of requests unless a theorem says one.   *)
(*   PlanIs     what a plan of a pool is, place by place: by induction on  *)
(*              the places, over sets of numbers with a least element      *)
(*   TypeInv    the records in their parts                                 *)
(*   WorkedInv  a job that says running, and the worker that will end it   *)
(*   ChainInv   what is chosen, in hand, in the targets and reported       *)
(*   CauseInv   what a worker that nothing disturbed has mounted and       *)
(*              received                                                   *)
(***************************************************************************)
EXTENDS SystemRestore, TLAPS, FiniteSetTheorems, NaturalsInduction, WellFoundedInduction

\* Least and Greatest of the sets they are taken of.
LEMMA SmallestNat ==
  ASSUME NEW S \in SUBSET Nat, S # {}
  PROVE  \E x \in S : \A y \in S : x <= y
<1> DEFINE R == { p \in Nat \X Nat : p[1] < p[2] }
<1>1. IsWellFoundedOn(R, Nat)
  BY NatLessThanWellFounded DEF OpToRel
<1>2. \A x, y \in S : <<y, x>> \notin R => x <= y
  OBVIOUS
<1> HIDE DEF R
<1>3. PICK x \in S : \A y \in S : ~ (<<y, x>> \in R)
  BY <1>1, WFMin
<1> QED
  BY <1>2, <1>3

LEMMA LeastNat ==
  ASSUME NEW S \in SUBSET Nat, S # {}
  PROVE  Least(S) \in S /\ \A y \in S : Least(S) <= y
BY SmallestNat DEF Least

LEMMA GreatestUpto ==
  ASSUME NEW n \in Nat, NEW S \in SUBSET (0..n), S # {}
  PROVE  Greatest(S) \in S /\ \A y \in S : y <= Greatest(S)
<1> DEFINE R == { n - x : x \in S }
<1>1. R \in SUBSET Nat /\ R # {}
  <2>1. \A x \in S : n - x \in Nat
    OBVIOUS
  <2>2. \A z \in R : z \in Nat
    BY <2>1
  <2>3. PICK x \in S : TRUE
    OBVIOUS
  <2>4. n - x \in R
    BY <2>3
  <2> QED
    BY <2>2, <2>4
<1>2. PICK z \in R : \A y \in R : z <= y
  BY <1>1, SmallestNat
<1>3. PICK x \in S : z = n - x
  BY <1>2
<1>4. \A y \in S : n - x <= n - y
  BY <1>2, <1>3
<1>5. \A y \in S : y <= x
  BY <1>4
<1> QED
  BY <1>3, <1>5 DEF Greatest

-----------------------------------------------------------------------------
(* The plan of a pool *)

\* What the places of p take.
UsedBy(specs, p) == { <<p[k], specs[k].slot>> : k \in { j \in DOMAIN p : p[j] # 0 } }

\* A plan of n - 1 places with the n-th.
Grown(T, specs, p, n) == Append(p, MatchDisk(T, UsedBy(specs, p), specs[n]))

\* The plans of the first 0, 1, ... m places.
Plans(T, specs, f, m) ==
  f = [n \in 0..m |-> IF n = 0 THEN << >> ELSE Grown(T, specs, f[n - 1], n)]

\* What is taken before the k-th place has its turn.
Before(specs, p, k) == { <<p[j], specs[j].slot>> : j \in { i \in 1..(k - 1) : p[i] # 0 } }

\* p is the plan of the first n places: each has the disk that _match_disk finds
\* with what the earlier places left.
PlanIs(T, specs, p, n) ==
  /\ p \in [1..n -> 0..2]
  /\ \A k \in 1..n : p[k] = MatchDisk(T, Before(specs, p, k), specs[k])

LEMMA PlanUnfolds ==
  ASSUME NEW T, NEW specs
  PROVE  PoolPlan(T, specs) = (CHOOSE f : Plans(T, specs, f, Len(specs)))[Len(specs)]
BY DEF PoolPlan, Plans, Grown, UsedBy

LEMMA PlansExist ==
  ASSUME NEW T, NEW specs, NEW n \in Nat
  PROVE  \E f : Plans(T, specs, f, n)
<1> DEFINE S == { m \in Nat : ~ \E f : Plans(T, specs, f, m) }
<1> SUFFICES ASSUME S # {} PROVE FALSE
  OBVIOUS
<1>1. S \in SUBSET Nat
  OBVIOUS
<1>2. PICK m \in S : \A y \in S : m <= y
  BY <1>1, SmallestNat
<1>3. CASE m = 0
  <2>1. Plans(T, specs, [k \in 0..0 |-> << >>], 0)
    BY DEF Plans
  <2> QED
    BY <1>3, <2>1, <1>2
<1>4. CASE m # 0
  <2>1. m \in Nat /\ m - 1 \in Nat /\ m - 1 \notin S
    BY <1>2, <1>4
  <2>2. PICK f : Plans(T, specs, f, m - 1)
    BY <2>1
  <2> DEFINE g == [k \in 0..m |-> IF k = m THEN Grown(T, specs, f[m - 1], m) ELSE f[k]]
  <2>3. \A k \in 0..(m - 1) : g[k] = f[k] /\ k \in 0..m /\ k # m
    BY <2>1
  <2>4. \A k \in 0..m :
          g[k] = IF k = 0 THEN << >> ELSE Grown(T, specs, g[k - 1], k)
    <3> SUFFICES ASSUME NEW k \in 0..m
                 PROVE  g[k] = IF k = 0 THEN << >> ELSE Grown(T, specs, g[k - 1], k)
      OBVIOUS
    <3>1. CASE k = m
      BY <3>1, <2>1, <2>3, <1>4
    <3>2. CASE k # m
      <4>1. k \in 0..(m - 1) /\ (k # 0 => k - 1 \in 0..(m - 1))
        BY <3>2, <2>1
      <4>2. f[k] = IF k = 0 THEN << >> ELSE Grown(T, specs, f[k - 1], k)
        BY <4>1, <2>2 DEF Plans
      <4> QED
        BY <4>1, <4>2, <2>3
    <3> QED
      BY <3>1, <3>2
  <2>5. Plans(T, specs, g, m)
    <3> HIDE DEF g
    <3>1. g = [k \in 0..m |-> g[k]]
      BY DEF g
    <3> QED
      BY <2>4, <3>1 DEF Plans
  <2> QED
    BY <2>5, <1>2
<1> QED
  BY <1>3, <1>4

\* _match_disk finds none, or a disk on offer that the place may use, known by its
\* by-id path or by its serial.
LEMMA MatchFinds ==
  ASSUME NEW T \in DiskTables, NEW U, NEW spec
  PROVE  LET m == MatchDisk(T, U, spec) IN
           /\ m \in 0..2
           /\ m # 0 => /\ m \in Attached(T) /\ Usable(T, U, m, spec.slot)
                       /\ \/ spec.byId # 0 /\ T[m].byId = spec.byId
                          \/ T[m].serial = spec.serial
<1> DEFINE free == { i \in Attached(T) : Usable(T, U, i, spec.slot) }
           same == { i \in free : spec.byId # 0 /\ T[i].byId = spec.byId }
           moved == { i \in free : T[i].serial = spec.serial }
<1>1. DOMAIN T = 1..2
  BY DEF DiskTables
<1>2. free \in SUBSET (1..2)
  BY <1>1 DEF Attached
<1>3. same \in SUBSET (1..2) /\ moved \in SUBSET (1..2)
  BY <1>2
<1>4. same \in SUBSET Nat /\ moved \in SUBSET Nat
  BY <1>3
<1>5. /\ same # {} => Least(same) \in same
      /\ moved # {} => Least(moved) \in moved
  BY <1>4, LeastNat
<1>6. MatchDisk(T, U, spec) =
        IF same # {} THEN Least(same) ELSE IF moved # {} THEN Least(moved) ELSE 0
  BY DEF MatchDisk
<1>7. CASE same # {}
  <2>1. Least(same) \in same
    BY <1>5, <1>7
  <2> QED
    BY <2>1, <1>3, <1>6, <1>7
<1>8. CASE same = {} /\ moved # {}
  <2>1. Least(moved) \in moved
    BY <1>5, <1>8
  <2> QED
    BY <2>1, <1>3, <1>6, <1>8
<1>9. CASE same = {} /\ moved = {}
  BY <1>6, <1>9
<1> QED
  BY <1>7, <1>8, <1>9

LEMMA PlanGrows ==
  ASSUME NEW T \in DiskTables, NEW specs, NEW n \in Nat, NEW p, PlanIs(T, specs, p, n)
  PROVE  PlanIs(T, specs, Grown(T, specs, p, n + 1), n + 1)
<1> DEFINE m == MatchDisk(T, UsedBy(specs, p), specs[n + 1])
           q == Grown(T, specs, p, n + 1)
<1>1. m \in 0..2
  BY MatchFinds
<1>2. p \in Seq(0..2) /\ Len(p) = n /\ DOMAIN p = 1..n
  BY DEF PlanIs
<1>3. q = Append(p, m)
  BY DEF Grown
<1> HIDE DEF m, q
<1>4. /\ q \in [1..(n + 1) -> 0..2]
      /\ q[n + 1] = m /\ \A k \in 1..n : q[k] = p[k]
  <2>1. q \in Seq(0..2) /\ Len(q) = n + 1 /\ DOMAIN q = 1..(n + 1)
    BY <1>1, <1>2, <1>3
  <2>2. q \in [1..(n + 1) -> 0..2]
    BY <2>1
  <2>3. q[n + 1] = m /\ \A k \in 1..n : q[k] = p[k]
    BY <1>1, <1>2, <1>3
  <2> QED
    BY <2>2, <2>3
<1>5. \A k \in 1..(n + 1) : Before(specs, q, k) = Before(specs, p, k)
  <2> SUFFICES ASSUME NEW k \in 1..(n + 1)
               PROVE  Before(specs, q, k) = Before(specs, p, k)
    OBVIOUS
  <2>1. \A j \in 1..(k - 1) : q[j] = p[j]
    BY <1>4
  <2>2. { i \in 1..(k - 1) : q[i] # 0 } = { i \in 1..(k - 1) : p[i] # 0 }
    BY <2>1
  <2> QED
    BY <2>1, <2>2 DEF Before
<1>6. Before(specs, p, n + 1) = UsedBy(specs, p)
  <2>1. { i \in 1..(n + 1 - 1) : p[i] # 0 } = { j \in DOMAIN p : p[j] # 0 }
    BY <1>2
  <2> QED
    BY <2>1 DEF Before, UsedBy
<1>7. ASSUME NEW k \in 1..(n + 1)
      PROVE  q[k] = MatchDisk(T, Before(specs, q, k), specs[k])
  <2>1. CASE k = n + 1
    BY <2>1, <1>4, <1>5, <1>6 DEF m
  <2>2. CASE k # n + 1
    <3>1. k \in 1..n
      BY <2>2
    <3> QED
      BY <3>1, <1>4, <1>5 DEF PlanIs
  <2> QED
    BY <2>1, <2>2
<1> QED
  BY <1>4, <1>7 DEF PlanIs, q

\* plan_pool_mapping gives each place what _match_disk finds in its turn.
LEMMA PoolPlanIs ==
  ASSUME NEW T \in DiskTables, NEW specs, Len(specs) \in Nat
  PROVE  PlanIs(T, specs, PoolPlan(T, specs), Len(specs))
<1> DEFINE L == Len(specs)
           f == CHOOSE h : Plans(T, specs, h, L)
<1>1. Plans(T, specs, f, L)
  BY PlansExist
<1>2. PoolPlan(T, specs) = f[L]
  BY PlanUnfolds
<1>3. \A n \in 0..L : f[n] = IF n = 0 THEN << >> ELSE Grown(T, specs, f[n - 1], n)
  BY <1>1 DEF Plans
<1> HIDE DEF f
<1> DEFINE S == { n \in 0..L : ~ PlanIs(T, specs, f[n], n) }
<1>4. S = {}
  <2> SUFFICES ASSUME S # {} PROVE FALSE
    OBVIOUS
  <2>1. S \in SUBSET Nat
    OBVIOUS
  <2>2. PICK n \in S : \A y \in S : n <= y
    BY <2>1, SmallestNat
  <2>3. CASE n = 0
    <3>1. f[0] = << >>
      BY <1>3, <2>2, <2>3
    <3>2. PlanIs(T, specs, << >>, 0)
      BY DEF PlanIs
    <3> QED
      BY <3>1, <3>2, <2>2, <2>3
  <2>4. CASE n # 0
    <3>1. n - 1 \in Nat /\ n - 1 \in 0..L /\ n - 1 \notin S /\ n - 1 + 1 = n
      BY <2>2, <2>4
    <3>2. PlanIs(T, specs, f[n - 1], n - 1)
      BY <3>1
    <3>3. f[n] = Grown(T, specs, f[n - 1], n)
      BY <1>3, <2>2, <2>4
    <3>4. PlanIs(T, specs, Grown(T, specs, f[n - 1], n), n)
      BY <3>1, <3>2, PlanGrows
    <3> QED
      BY <3>3, <3>4, <2>2
  <2> QED
    BY <2>3, <2>4
<1> QED
  BY <1>2, <1>4

\* What a place is given is on offer and left by the places before it.
LEMMA PlaceTakes ==
  ASSUME NEW T \in DiskTables, NEW specs, NEW n \in Nat, NEW p, PlanIs(T, specs, p, n),
         NEW k \in 1..n, p[k] # 0
  PROVE  /\ p[k] \in Attached(T) /\ p[k] \in DOMAIN T
         /\ Usable(T, Before(specs, p, k), p[k], specs[k].slot)
         /\ \/ specs[k].byId # 0 /\ T[p[k]].byId = specs[k].byId
            \/ T[p[k]].serial = specs[k].serial
<1>1. p[k] = MatchDisk(T, Before(specs, p, k), specs[k])
  BY DEF PlanIs
<1>2. p[k] \in Attached(T)
  BY <1>1, MatchFinds
<1>3. p[k] \in DOMAIN T
  BY <1>2 DEF Attached
<1> QED
  BY <1>1, <1>2, <1>3, MatchFinds

\* A place later than j that has its disk has another slot of it.
LEMMA PlacesApart ==
  ASSUME NEW T \in DiskTables, NEW n \in Nat, NEW specs \in [1..n -> Device],
         NEW p, PlanIs(T, specs, p, n),
         NEW j \in 1..n, NEW k \in 1..n, j < k, p[j] # 0, p[j] = p[k]
  PROVE  /\ specs[j].slot # None /\ specs[k].slot # None
         /\ specs[j].slot # specs[k].slot
<1> DEFINE U == Before(specs, p, k)
<1>1. <<p[k], specs[j].slot>> \in U
  <2>1. j \in { i \in 1..(k - 1) : p[i] # 0 }
    OBVIOUS
  <2>2. <<p[j], specs[j].slot>> \in U
    BY <2>1 DEF Before
  <2> QED
    BY <2>2
<1>2. ~Taken(U, p[k], specs[k].slot)
  BY PlaceTakes DEF Usable
<1>3. specs[j].slot \in Slots \cup {None}
  BY DEF Device
<1> QED
  BY <1>1, <1>2, <1>3 DEF Taken

LEMMA PlanExclusive ==
  ASSUME NEW T \in DiskTables, NEW n \in Nat, NEW specs \in [1..n -> Device],
         NEW p, PlanIs(T, specs, p, n)
  PROVE  Exclusive(specs, p)
<1> SUFFICES ASSUME NEW j \in 1..n, NEW k \in 1..n, j # k, p[j] # 0, p[j] = p[k]
             PROVE  /\ specs[j].slot # None /\ specs[k].slot # None
                    /\ specs[j].slot # specs[k].slot
  BY DEF Exclusive, PlanIs
<1>1. CASE j < k
  BY <1>1, PlacesApart
<1>2. CASE k < j
  <2>1. p[k] # 0 /\ p[k] = p[j]
    OBVIOUS
  <2>2. /\ specs[k].slot # None /\ specs[j].slot # None
        /\ specs[k].slot # specs[j].slot
    BY <1>2, <2>1, PlacesApart
  <2> QED
    BY <2>2
<1> QED
  BY <1>1, <1>2

LEMMA PlanSpares ==
  ASSUME NEW T \in DiskTables, NEW n \in Nat, NEW specs \in [1..n -> Device],
         NEW p, PlanIs(T, specs, p, n)
  PROVE  Spares(T, specs, p)
<1> SUFFICES ASSUME NEW k \in 1..n, p[k] # 0
             PROVE  LET d == T[p[k]] IN
                      /\ ~d.os /\ ~d.whole
                      /\ With(d, "media") # {} => With(d, "member") # {}
                      /\ IF specs[k].slot = None THEN With(d, "member") = {}
                         ELSE d.parts[specs[k].slot] # "member"
  BY DEF Spares, PlanIs
<1> DEFINE d == T[p[k]]
<1>1. /\ ~d.os /\ ~d.whole
      /\ With(d, "media") # {} => With(d, "member") # {}
  BY PlaceTakes DEF Attached, KnownMedia
<1>2. With(d, "member") # {} =>
        specs[k].slot # None /\ d.parts[specs[k].slot] \notin {"none", "member"}
  BY PlaceTakes DEF Usable
<1>3. specs[k].slot \in Slots \cup {None}
  BY DEF Device
<1>4. specs[k].slot # None /\ With(d, "member") = {} => d.parts[specs[k].slot] # "member"
  BY <1>3 DEF With
<1> HIDE DEF d
<1>5. IF specs[k].slot = None THEN With(d, "member") = {}
      ELSE d.parts[specs[k].slot] # "member"
  BY <1>2, <1>4
<1> QED
  BY <1>1, <1>5 DEF d

\* The own disk of a place is not taken by the places before it.
LEMMA OwnIsLeft ==
  ASSUME NEW T \in DiskTables, NEW n \in Nat, NEW specs \in [1..n -> Device],
         NEW p, PlanIs(T, specs, p, n), Unambiguous(T, specs),
         NEW k \in 1..n, NEW i \in DOMAIN T, T[i].serial = specs[k].serial
  PROVE  ~Taken(Before(specs, p, k), i, specs[k].slot)
<1> SUFFICES ASSUME Taken(Before(specs, p, k), i, specs[k].slot) PROVE FALSE
  OBVIOUS
<1> DEFINE U == Before(specs, p, k)
<1>1. DOMAIN specs = 1..n
  OBVIOUS
<1>2. ASSUME NEW s, <<i, s>> \in U
      PROVE  specs[k].slot # None /\ s # None /\ s # specs[k].slot
  <2>1. PICK j \in 1..(k - 1) : p[j] # 0 /\ i = p[j] /\ s = specs[j].slot
    BY <1>2 DEF Before
  <2>2. j \in 1..n /\ j # k
    BY <2>1
  <2>3. specs[j].serial = T[i].serial
    BY <2>1, <2>2, <1>1, PlaceTakes DEF Unambiguous
  <2> QED
    BY <2>1, <2>2, <2>3, <1>1 DEF Unambiguous
<1> QED
  BY <1>2 DEF Taken

LEMMA PlanFindsOwn ==
  ASSUME NEW T \in DiskTables, NEW n \in Nat, NEW specs \in [1..n -> Device],
         NEW p, PlanIs(T, specs, p, n)
  PROVE  FindsOwn(T, specs, p)
<1> SUFFICES ASSUME Unambiguous(T, specs), NEW k \in 1..n
             PROVE  LET own == { i \in Attached(T) : T[i].serial = specs[k].serial
                                                     /\ Usable(T, {}, i, specs[k].slot) }
                    IN p[k] = IF own = {} THEN 0 ELSE Least(own)
  BY DEF FindsOwn
<1> DEFINE U == Before(specs, p, k)
           own == { i \in Attached(T) : T[i].serial = specs[k].serial
                                        /\ Usable(T, {}, i, specs[k].slot) }
           free == { i \in Attached(T) : Usable(T, U, i, specs[k].slot) }
           same == { i \in free : specs[k].byId # 0 /\ T[i].byId = specs[k].byId }
           moved == { i \in free : T[i].serial = specs[k].serial }
<1>1. DOMAIN T = 1..2 /\ Attached(T) \subseteq DOMAIN T /\ DOMAIN specs = 1..n
  BY DEF DiskTables, Attached
<1>2. p[k] = IF same # {} THEN Least(same) ELSE IF moved # {} THEN Least(moved) ELSE 0
  BY DEF PlanIs, MatchDisk
<1>3. \A i \in Attached(T) : Usable(T, U, i, specs[k].slot) => Usable(T, {}, i, specs[k].slot)
  BY DEF Usable, Taken
<1>4. moved = own
  <2>1. \A i \in own : ~Taken(U, i, specs[k].slot)
    BY <1>1, OwnIsLeft
  <2>2. \A i \in own : Usable(T, U, i, specs[k].slot)
    BY <2>1 DEF Usable
  <2> QED
    BY <1>3, <2>2
<1>5. same \subseteq moved
  BY <1>1 DEF Unambiguous
<1>6. \A i, j \in own : i = j
  BY <1>1 DEF Unambiguous
<1> HIDE DEF own, same, moved, free
<1>7. same # {} => same = own
  BY <1>4, <1>5, <1>6
<1>8. p[k] = IF own = {} THEN 0 ELSE Least(own)
  BY <1>2, <1>4, <1>5, <1>7
<1> QED
  BY <1>8 DEF own

LEMMA PlanSound ==
  ASSUME NEW T \in DiskTables, NEW specs \in Recorded
  PROVE  LET p == PoolPlan(T, specs)
         IN Exclusive(specs, p) /\ Spares(T, specs, p) /\ FindsOwn(T, specs, p)
<1>1. MaxDevices \in Nat
  BY MappingAssumption
<1>2. specs \in [1..MaxDevices -> Device]
  BY DEF Recorded
<1>3. Len(specs) = MaxDevices
  BY <1>1, <1>2
<1>4. PlanIs(T, specs, PoolPlan(T, specs), MaxDevices)
  BY <1>1, <1>3, PoolPlanIs
<1> QED
  BY <1>1, <1>2, <1>4, PlanExclusive, PlanSpares, PlanFindsOwn

\* A plan of a pool that was recorded with any number of devices is sound: no place
\* is planned twice, nothing the scan knows to be in use is planned (Spares says what
\* it does not know), and where identities are clear each place gets its own disk.
THEOREM MappingIsSoundCorrect == Spec => []MappingIsSound
<1> DEFINE Made == plan # None =>
             \E T \in DiskTables, specs \in Recorded :
               plan = [disks |-> T, devices |-> specs, taken |-> PoolPlan(T, specs)]
<1>1. Init => Made
  BY DEF Init
<1>2. Made /\ [Next]_vars => Made'
  <2> SUFFICES ASSUME Made, [Next]_vars PROVE Made'
    OBVIOUS
  <2>1. CASE PlanPool
    BY <2>1 DEF PlanPool
  <2>2. CASE plan' = plan
    BY <2>2
  <2>3. ASSUME NEW q \in Requests, Request(q)
        PROVE  plan' = plan
    BY <2>3 DEF Request, Ask, Register
  <2>4. ASSUME NEW q \in Requests, TaskStep(q)
        PROVE  plan' = plan
    <3>1. CASE Begin(q) \/ Plan(q) \/ Mount(q) \/ GiveUp(q) \/ \E d \in Datasets : Choose(q, d)
      BY <3>1 DEF Begin, Plan, Mount, GiveUp, Choose
    <3>2. CASE Locate(q) \/ NotConnected(q) \/ Restored(q)
      BY <3>2 DEF Locate, NotConnected, Restored, EndDataset
    <3>3. CASE Receive(q) \/ ReceiveFails(q) \/ Finish(q)
      BY <3>3 DEF Receive, ReceiveFails, Finish, EndDataset
    <3> QED
      BY <2>4, <3>1, <3>2, <3>3 DEF TaskStep
  <2>5. ASSUME Scan \/ Crash \/ \E v \in Volumes : Plug(v) \/ Unplug(v)
        PROVE  plan' = plan
    BY <2>5 DEF Scan, Crash, Plug, Unplug
  <2>6. CASE UNCHANGED vars
    BY <2>2, <2>6 DEF vars
  <2> HIDE DEF Made
  <2> QED
    BY <2>1, <2>2, <2>3, <2>4, <2>5, <2>6 DEF Next
<1>3. Made => MappingIsSound
  <2> SUFFICES ASSUME NEW T \in DiskTables, NEW specs \in Recorded,
                      plan = [disks |-> T, devices |-> specs, taken |-> PoolPlan(T, specs)]
               PROVE  MappingIsSound
    BY DEF MappingIsSound
  <2> QED
    BY PlanSound DEF MappingIsSound
<1> HIDE DEF Made
<1> QED
  BY <1>1, <1>2, <1>3, PTL DEF Spec

-----------------------------------------------------------------------------
(* Type correctness *)

Stages == {"idle", "asking", "created", "planning", "mounting", "choosing", "locating",
           "receiving"}

Chains == UNION { [D -> SUBSET Nat] : D \in SUBSET Datasets }

Worker ==
  [pc : Stages, set : Sets \cup {None}, want : { D \in SUBSET Datasets : IsFiniteSet(D) },
   media : Volumes \cup {None}, own : Nat, job : Nat, chain : Chains, from : SUBSET Volumes,
   mounts : SUBSET Volumes, todo : SUBSET Datasets, ds : Datasets \cup {None}, left : SUBSET Nat]

JobRow ==
  [set : Sets \cup {None}, status : {"running", "done", "failed"}, total : Nat, done : Nat,
   failed : Nat, cur : [total : Nat, done : Nat]]

HistoryOK == runs \in Histories /\ runs \in Seq(Run) /\ Legal(runs)

StoreOK ==
  /\ attached \subseteq Volumes /\ mounted \subseteq attached
  /\ have \in [Datasets -> {None} \cup SUBSET (0..Len(runs))]

JobsOK ==
  /\ jobs \in Seq(JobRow) /\ current \in 0..Len(jobs)
  /\ \A k \in DOMAIN jobs : jobs[k].failed <= jobs[k].done

\* What a worker has in hand are runs.
Within(w) ==
  /\ w.left \subseteq DOMAIN runs
  /\ \A d \in DOMAIN w.chain : w.chain[d] \subseteq DOMAIN runs

\* A worker whose chains are chosen has datasets of them to do, and one in hand.
WorkersOK ==
  /\ worker \in [Requests -> Worker] /\ excuse \in [Requests -> BOOLEAN]
  /\ \A q \in Requests :
       /\ worker[q].own \in 0..Len(jobs) /\ worker[q].job \in 0..Len(jobs)
       /\ worker[q].todo \subseteq DOMAIN worker[q].chain /\ Within(worker[q])
       /\ worker[q].pc \in {"locating", "receiving"} => worker[q].ds \in worker[q].todo
       /\ worker[q].pc = "receiving" => worker[q].left # {}

TypeInv == HistoryOK /\ StoreOK /\ JobsOK /\ WorkersOK

LEMMA RunsTyped ==
  ASSUME HistoryOK
  PROVE  /\ DOMAIN runs = 1..Len(runs) /\ Len(runs) \in Nat
         /\ \A i \in DOMAIN runs : runs[i] \in Run
BY DEF HistoryOK

\* What a restore of D from the attached volumes of s is made of.
LEMMA ChosenTyped ==
  ASSUME HistoryOK, NEW s, NEW media, NEW D \in SUBSET Datasets, IsFiniteSet(D)
  PROVE  LET chosen == Chosen(s, D, media) IN
           /\ chosen \in Chains /\ DOMAIN chosen \in SUBSET D
           /\ Cardinality(DOMAIN chosen) \in Nat
           /\ \A d \in DOMAIN chosen :
                /\ chosen[d] = Chain(Merged(VolumesOf(s), d)) /\ chosen[d] # {}
                /\ chosen[d] \subseteq Merged(VolumesOf(s), d)
<1> DEFINE chain == [d \in D |-> Chain(Merged(VolumesOf(s), d))]
           fits == { d \in D : /\ chain[d] # {}
                               /\ media # None => { runs[i].vol : i \in chain[d] } = {media} }
           chosen == Chosen(s, D, media)
<1>1. chosen = [d \in fits |-> chain[d]] /\ fits \in SUBSET D
  BY DEF Chosen
<1>2. \A d \in fits : chain[d] = Chain(Merged(VolumesOf(s), d)) /\ chain[d] # {}
  OBVIOUS
<1> HIDE DEF fits, chain, chosen
<1>3. \A d : Chain(Merged(VolumesOf(s), d)) \subseteq Merged(VolumesOf(s), d)
  BY DEF Chain
<1>4. \A d : Merged(VolumesOf(s), d) \in SUBSET Nat
  BY RunsTyped DEF Merged
<1>5. DOMAIN chosen \in SUBSET D
  BY <1>1
<1>6. Cardinality(DOMAIN chosen) \in Nat
  <2>1. IsFiniteSet(DOMAIN chosen)
    BY <1>5, FS_Subset
  <2> QED
    BY <2>1, FS_CardinalityType
<1>7. \A d \in DOMAIN chosen :
         /\ chosen[d] = Chain(Merged(VolumesOf(s), d)) /\ chosen[d] # {}
         /\ chosen[d] \subseteq Merged(VolumesOf(s), d)
  BY <1>1, <1>2, <1>3
<1>8. chosen \in Chains
  <2>1. chosen \in [fits -> SUBSET Nat] /\ fits \in SUBSET Datasets
    BY <1>1, <1>4, <1>7
  <2> QED
    BY <2>1 DEF Chains
<1> QED
  BY <1>5, <1>6, <1>7, <1>8 DEF chosen

LEMMA IdleTyped == Idle \in Worker
<1>1. << >> \in Chains
  <2>1. << >> \in [{} -> SUBSET Nat]
    OBVIOUS
  <2> QED
    BY <2>1 DEF Chains
<1>2. IsFiniteSet({})
  BY FS_EmptySet
<1> QED
  BY <1>1, <1>2 DEF Idle, Worker, Stages

\* A report to a job of rows that are in order leaves them so.
LEMMA ReportTyped ==
  ASSUME JobsOK, NEW k \in 0..Len(jobs), NEW j, Report(k, j),
         k # 0 => j \in JobRow /\ j.failed <= j.done
  PROVE  /\ jobs' \in Seq(JobRow) /\ Len(jobs') = Len(jobs)
         /\ \A i \in DOMAIN jobs' : jobs'[i].failed <= jobs'[i].done
<1>1. CASE k = 0
  BY <1>1 DEF Report, JobsOK
<1>2. CASE k # 0
  BY <1>2 DEF Report, JobsOK
<1> QED
  BY <1>1, <1>2

LEMMA JobTyped ==
  ASSUME JobsOK, NEW k \in 1..Len(jobs)
  PROVE  jobs[k] \in JobRow /\ jobs[k].failed <= jobs[k].done
BY DEF JobsOK

\* What the steps leave of the scratch mount points.
LEMMA ScanTyped ==
  ASSUME StoreOK
  PROVE  AfterScan \subseteq mounted /\ AfterScan \subseteq attached
BY DEF StoreOK, AfterScan

LEMMA DisturbedTyped ==
  ASSUME WorkersOK
  PROVE  /\ Disturbed \in [Requests -> BOOLEAN]
         /\ \A q \in Requests : excuse[q] => Disturbed[q]
BY DEF WorkersOK, Disturbed

\* One worker moves, to a record in order; the jobs grow or stay.
LEMMA OneMoves ==
  ASSUME WorkersOK, NEW q \in Requests, NEW w \in Worker,
         worker' = [worker EXCEPT ![q] = w], excuse' \in [Requests -> BOOLEAN],
         jobs' \in Seq(JobRow), Len(jobs) \in Nat, Len(jobs) <= Len(jobs'),
         runs' = runs, Within(w), w.own \in 0..Len(jobs'), w.job \in 0..Len(jobs'),
         w.todo \subseteq DOMAIN w.chain,
         w.pc \in {"locating", "receiving"} => w.ds \in w.todo,
         w.pc = "receiving" => w.left # {}
  PROVE  WorkersOK'
<1>1. worker' \in [Requests -> Worker]
  BY DEF WorkersOK
<1>2. worker'[q] = w /\ \A r \in Requests \ {q} : worker'[r] = worker[r]
  BY DEF WorkersOK
<1>3. Len(jobs') \in Nat
  OBVIOUS
<1>4. \A r \in Requests : worker'[r].own \in 0..Len(jobs') /\ worker'[r].job \in 0..Len(jobs')
  <2> SUFFICES ASSUME NEW r \in Requests
               PROVE  worker'[r].own \in 0..Len(jobs') /\ worker'[r].job \in 0..Len(jobs')
    OBVIOUS
  <2>1. worker[r].own \in 0..Len(jobs) /\ worker[r].job \in 0..Len(jobs)
    BY DEF WorkersOK
  <2> QED
    BY <2>1, <1>2, <1>3
<1>5. \A r \in Requests :
        /\ worker'[r].todo \subseteq DOMAIN worker'[r].chain /\ Within(worker'[r])
        /\ worker'[r].pc \in {"locating", "receiving"} => worker'[r].ds \in worker'[r].todo
        /\ worker'[r].pc = "receiving" => worker'[r].left # {}
  BY <1>2 DEF WorkersOK
<1> QED
  BY <1>1, <1>4, <1>5 DEF WorkersOK, Within

\* A worker that ends leaves the others as they are.
LEMMA GoneTyped ==
  ASSUME WorkersOK, NEW q \in Requests, worker' = [worker EXCEPT ![q] = Idle],
         excuse' \in [Requests -> BOOLEAN],
         jobs' \in Seq(JobRow), Len(jobs) \in Nat, Len(jobs) <= Len(jobs'), runs' = runs
  PROVE  WorkersOK'
<1>1. Idle.own = 0 /\ Idle.job = 0 /\ Idle.todo = {} /\ Idle.pc = "idle" /\ Within(Idle)
  BY DEF Idle, Within
<1>2. Idle.own \in 0..Len(jobs') /\ Idle.job \in 0..Len(jobs')
  BY <1>1
<1> QED
  BY <1>1, <1>2, IdleTyped, OneMoves

\* The worker of q in its parts.
LEMMA WorkerTyped ==
  ASSUME WorkersOK, NEW q \in Requests
  PROVE  LET w == worker[q] IN
           /\ w \in Worker
           /\ w.own \in 0..Len(jobs) /\ w.job \in 0..Len(jobs)
           /\ w.todo \subseteq DOMAIN w.chain
           /\ \A d \in w.todo : d \in Datasets /\ d \in DOMAIN w.chain /\ w.chain[d] \in SUBSET Nat
           /\ Within(w)
           /\ w.pc \in {"locating", "receiving"} => w.ds \in w.todo
           /\ w.pc = "receiving" => w.left # {}
<1>1. worker[q] \in Worker
  BY DEF WorkersOK
<1>2. worker[q].chain \in Chains /\ worker[q].todo \in SUBSET Datasets
  BY <1>1 DEF Worker
<1>3. PICK D \in SUBSET Datasets : worker[q].chain \in [D -> SUBSET Nat]
  BY <1>2 DEF Chains
<1>4. worker[q].todo \subseteq DOMAIN worker[q].chain
  BY DEF WorkersOK
<1> QED
  BY <1>1, <1>2, <1>3, <1>4 DEF WorkersOK

LEMMA AskTyped ==
  ASSUME TypeInv, NEW q \in Requests, NEW s \in { runs[i].set : i \in DOMAIN runs },
         NEW D \in SUBSET { runs[i].ds : i \in DOMAIN runs },
         NEW media \in Volumes \cup {None}, Ask(q, s, D, media)
  PROVE  TypeInv'
<1> USE DEF TypeInv
<1>1. s \in Sets /\ D \in SUBSET Datasets
  BY RunsTyped DEF Run
<1>2. IsFiniteSet(D)
  <2>1. IsFiniteSet(1..Len(runs))
    BY RunsTyped, FS_Interval
  <2> DEFINE f == [i \in DOMAIN runs |-> runs[i].ds]
             S == { runs[i].ds : i \in DOMAIN runs }
  <2>2. IsFiniteSet(S)
    <3>1. f \in Surjection(DOMAIN runs, S)
      BY DEF Surjection
    <3> QED
      BY <2>1, <3>1, RunsTyped, FS_Surjection
  <2> QED
    BY <2>2, FS_Subset
<1> DEFINE w == [Idle EXCEPT !.pc = "asking", !.set = s, !.want = D, !.media = media]
<1>3. w \in Worker /\ w.own = 0 /\ w.job = 0 /\ w.todo = {} /\ w.pc = "asking"
      /\ Within(w)
  <2>1. /\ w \in Worker /\ w.own = Idle.own /\ w.job = Idle.job /\ w.todo = Idle.todo
        /\ w.pc = "asking" /\ w.left = Idle.left /\ w.chain = Idle.chain
    BY <1>1, <1>2, IdleTyped DEF Worker, Stages
  <2>2. Idle.own = 0 /\ Idle.job = 0 /\ Idle.todo = {} /\ Within(Idle)
    BY DEF Idle, Within
  <2> HIDE DEF w
  <2> QED
    BY <2>1, <2>2 DEF Within
<1>4. worker' = [worker EXCEPT ![q] = w] /\ UNCHANGED <<jobs, excuse, runs, attached, mounted, have, current>>
  BY DEF Ask
<1>5. jobs \in Seq(JobRow) /\ Len(jobs) \in Nat /\ excuse \in [Requests -> BOOLEAN]
  BY DEF JobsOK, WorkersOK
<1> HIDE DEF w
<1>6. /\ jobs' \in Seq(JobRow) /\ Len(jobs) <= Len(jobs') /\ excuse' \in [Requests -> BOOLEAN]
      /\ w.own \in 0..Len(jobs') /\ w.job \in 0..Len(jobs')
  BY <1>3, <1>4, <1>5
<1>7. WorkersOK'
  <2>1. w \in Worker /\ w.todo \subseteq DOMAIN w.chain
    BY <1>3
  <2> QED
    BY <1>3, <1>4, <1>5, <1>6, <2>1, OneMoves
<1> QED
  BY <1>4, <1>7 DEF HistoryOK, Legal, StoreOK, JobsOK

LEMMA RegisterTyped ==
  ASSUME TypeInv, NEW q \in Requests, Register(q)
  PROVE  TypeInv'
<1> USE DEF TypeInv
<1> DEFINE w == worker[q]
           chosen == Chosen(w.set, w.want, w.media)
<1>1. w \in Worker /\ w.set \in Sets \cup {None} /\ w.want \in SUBSET Datasets /\ IsFiniteSet(w.want)
  BY WorkerTyped DEF Worker
<1>2. Cardinality(DOMAIN chosen) \in Nat
  BY <1>1, ChosenTyped
<1>3. UNCHANGED <<runs, attached, have>> /\ mounted' = AfterScan
  BY DEF Register
<1>4. HistoryOK' /\ StoreOK'
  BY <1>3, ScanTyped DEF HistoryOK, Legal, StoreOK
<1>5. jobs \in Seq(JobRow) /\ Len(jobs) \in Nat
  BY DEF JobsOK
<1>6. CASE chosen = << >>
  <2>1. worker' = [worker EXCEPT ![q] = Idle] /\ excuse' = Disturbed /\ jobs' = jobs /\ current' = current
    BY <1>6 DEF Register
  <2>2. excuse' \in [Requests -> BOOLEAN] /\ jobs' \in Seq(JobRow) /\ Len(jobs) <= Len(jobs')
    BY <1>5, <2>1, DisturbedTyped
  <2>3. WorkersOK'
    BY <1>3, <1>5, <2>1, <2>2, GoneTyped
  <2> QED
    BY <1>4, <2>1, <2>3 DEF JobsOK
<1>7. CASE chosen # << >>
  <2> DEFINE n == Cardinality(DOMAIN chosen)
             j == NewJob(w.set, n)
             v == [w EXCEPT !.pc = "created"]
  <2>1. /\ worker' = [worker EXCEPT ![q] = v] /\ excuse' = [Disturbed EXCEPT ![q] = FALSE]
        /\ jobs' = Append(jobs, j) /\ current' = Len(jobs')
    BY <1>7 DEF Register, WorkersOK
  <2>2. j \in JobRow /\ j.failed <= j.done
    BY <1>1, <1>2 DEF NewJob, NoCurrent, JobRow
  <2> HIDE DEF j
  <2>3. jobs' \in Seq(JobRow) /\ Len(jobs') = Len(jobs) + 1
    BY <1>5, <2>1, <2>2
  <2>4. \A k \in DOMAIN jobs' : jobs'[k].failed <= jobs'[k].done
    BY <1>5, <2>1, <2>2 DEF JobsOK
  <2>5. JobsOK'
    BY <1>5, <2>1, <2>3, <2>4 DEF JobsOK
  <2>6. /\ v \in Worker /\ v.own \in 0..Len(jobs) /\ v.job \in 0..Len(jobs)
        /\ v.todo \subseteq DOMAIN v.chain /\ v.pc = "created" /\ Within(v)
    <3>1. /\ v \in Worker /\ v.own = w.own /\ v.job = w.job /\ v.todo = w.todo
          /\ v.chain = w.chain /\ v.left = w.left /\ v.pc = "created"
      BY <1>1 DEF Worker, Stages
    <3> QED
      BY <3>1, WorkerTyped DEF Within
  <2> HIDE DEF v
  <2>7. excuse' \in [Requests -> BOOLEAN]
    BY <2>1, DisturbedTyped
  <2>8. Len(jobs) <= Len(jobs') /\ v.own \in 0..Len(jobs') /\ v.job \in 0..Len(jobs')
    BY <1>5, <2>3, <2>6
  <2>9. WorkersOK'
    BY <1>3, <1>5, <2>1, <2>3, <2>6, <2>7, <2>8, OneMoves
  <2> QED
    BY <1>4, <2>5, <2>9
<1> QED
  BY <1>6, <1>7

LEMMA BeginTyped ==
  ASSUME TypeInv, NEW q \in Requests, Begin(q)
  PROVE  TypeInv'
<1> USE DEF TypeInv
<1> DEFINE w == worker[q]
           v == [w EXCEPT !.pc = "planning", !.own = current]
<1>1. worker' = [worker EXCEPT ![q] = v] /\ UNCHANGED <<jobs, excuse, runs, attached, mounted, have, current>>
  BY DEF Begin, WorkersOK
<1>2. jobs \in Seq(JobRow) /\ Len(jobs) \in Nat /\ excuse \in [Requests -> BOOLEAN] /\ current \in 0..Len(jobs)
  BY DEF JobsOK, WorkersOK
<1>3. /\ v \in Worker /\ v.pc = "planning" /\ v.own = current
      /\ v.job = w.job /\ v.todo = w.todo /\ v.chain = w.chain /\ v.left = w.left
  <2>1. w \in Worker /\ current \in Nat
    BY <1>2, WorkerTyped
  <2> HIDE DEF w
  <2>2. v \in Worker
    BY <2>1 DEF Worker, Stages
  <2> QED
    BY <2>1, <2>2 DEF Worker
<1>4. /\ v.own \in 0..Len(jobs') /\ v.job \in 0..Len(jobs')
      /\ v.todo \subseteq DOMAIN v.chain /\ Within(v)
  BY <1>1, <1>2, <1>3, WorkerTyped DEF Within
<1> HIDE DEF v
<1>5. jobs' \in Seq(JobRow) /\ Len(jobs) <= Len(jobs') /\ excuse' \in [Requests -> BOOLEAN]
  BY <1>1, <1>2
<1>6. WorkersOK'
  BY <1>1, <1>2, <1>3, <1>4, <1>5, OneMoves
<1> QED
  BY <1>1, <1>6 DEF HistoryOK, Legal, StoreOK, JobsOK

\* The jobs after a report.
LEMMA ReportKeeps ==
  ASSUME JobsOK, NEW k \in 0..Len(jobs), NEW j, Report(k, j), current' = current,
         k # 0 => j \in JobRow /\ j.failed <= j.done
  PROVE  /\ JobsOK' /\ jobs' \in Seq(JobRow)
         /\ Len(jobs) \in Nat /\ Len(jobs') = Len(jobs) /\ Len(jobs) <= Len(jobs')
<1>1. Len(jobs) \in Nat /\ current \in 0..Len(jobs)
  BY DEF JobsOK
<1>2. /\ jobs' \in Seq(JobRow) /\ Len(jobs') = Len(jobs)
      /\ \A i \in DOMAIN jobs' : jobs'[i].failed <= jobs'[i].done
  BY ReportTyped
<1> QED
  BY <1>1, <1>2 DEF JobsOK

LEMMA PlanTyped ==
  ASSUME TypeInv, NEW q \in Requests, Plan(q)
  PROVE  TypeInv'
<1> USE DEF TypeInv
<1> DEFINE w == worker[q]
           chosen == Chosen(w.set, w.want, w.media)
           job == IF current # 0 /\ jobs[current].set = w.set THEN current ELSE 0
           v == [w EXCEPT !.pc = "mounting", !.chain = chosen, !.job = job,
                          !.from = VolumesOf(w.set), !.todo = DOMAIN chosen]
           j == [jobs[job] EXCEPT !.total = Cardinality(DOMAIN chosen)]
<1>1. /\ worker' = [worker EXCEPT ![q] = v] /\ excuse' = Disturbed /\ Report(job, j)
      /\ mounted' = AfterScan /\ UNCHANGED <<runs, attached, have, current>>
  BY DEF Plan, WorkersOK
<1>2. w \in Worker /\ w.set \in Sets \cup {None} /\ w.want \in SUBSET Datasets /\ IsFiniteSet(w.want)
  BY WorkerTyped DEF Worker
<1>3. /\ chosen \in Chains /\ DOMAIN chosen \in SUBSET Datasets
      /\ Cardinality(DOMAIN chosen) \in Nat
      /\ \A d \in DOMAIN chosen : chosen[d] \subseteq DOMAIN runs
  BY <1>2, ChosenTyped DEF Merged
<1>4. Len(jobs) \in Nat /\ job \in 0..Len(jobs)
  BY DEF JobsOK
<1>5. VolumesOf(w.set) \in SUBSET Volumes
  BY DEF VolumesOf, StoreOK
<1> HIDE DEF chosen, job
<1>6. job # 0 => j \in JobRow /\ j.failed <= j.done
  <2> SUFFICES ASSUME job # 0 PROVE j \in JobRow /\ j.failed <= j.done
    OBVIOUS
  <2>1. jobs[job] \in JobRow /\ jobs[job].failed <= jobs[job].done
    BY <1>4, JobTyped
  <2> QED
    BY <2>1, <1>3 DEF JobRow
<1>7. /\ v \in Worker /\ v.pc = "mounting" /\ v.own = w.own
      /\ v.job = job /\ v.todo = DOMAIN chosen /\ v.chain = chosen /\ v.left = w.left
  <2>1. w \in Worker /\ job \in Nat
    BY <1>2, <1>4
  <2> HIDE DEF w
  <2>2. v \in Worker
    BY <2>1, <1>3, <1>5 DEF Worker, Stages
  <2> QED
    BY <2>1, <2>2 DEF Worker
<1> HIDE DEF v, j
<1>8. /\ JobsOK' /\ jobs' \in Seq(JobRow) /\ Len(jobs') = Len(jobs) /\ Len(jobs) <= Len(jobs')
  BY <1>1, <1>4, <1>6, ReportKeeps
<1>9. /\ v.own \in 0..Len(jobs') /\ v.job \in 0..Len(jobs')
      /\ v.todo \subseteq DOMAIN v.chain /\ Within(v)
  BY <1>3, <1>4, <1>7, <1>8, WorkerTyped DEF Within
<1>10. excuse' \in [Requests -> BOOLEAN]
  BY <1>1, DisturbedTyped
<1>11. WorkersOK'
  BY <1>1, <1>4, <1>7, <1>8, <1>9, <1>10, OneMoves
<1>12. HistoryOK' /\ StoreOK'
  BY <1>1, ScanTyped DEF HistoryOK, Legal, StoreOK
<1> QED
  BY <1>8, <1>11, <1>12

LEMMA MountTyped ==
  ASSUME TypeInv, NEW q \in Requests, Mount(q)
  PROVE  TypeInv'
<1> USE DEF TypeInv
<1> DEFINE w == worker[q]
<1>1. PICK V \in SUBSET VolumesOf(w.set) :
        /\ mounted' = AfterScan \cup V
        /\ worker' = [worker EXCEPT ![q].pc = "choosing", ![q].mounts = V]
        /\ excuse' = [Disturbed EXCEPT ![q] = @ \/ V # VolumesOf(w.set)]
  BY DEF Mount
<1> DEFINE v == [w EXCEPT !.pc = "choosing", !.mounts = V]
<1>2. UNCHANGED <<runs, attached, have, jobs, current>>
  BY DEF Mount
<1>3. worker' = [worker EXCEPT ![q] = v]
  BY <1>1 DEF WorkersOK
<1>4. jobs \in Seq(JobRow) /\ Len(jobs) \in Nat
  BY DEF JobsOK
<1>5. V \subseteq Volumes /\ V \subseteq attached
  BY DEF VolumesOf, StoreOK
<1>6. /\ v \in Worker /\ v.pc = "choosing" /\ v.own = w.own /\ v.left = w.left
      /\ v.job = w.job /\ v.todo = w.todo /\ v.chain = w.chain
  BY <1>5, WorkerTyped DEF Worker, Stages
<1> HIDE DEF v
<1>7. /\ v.own \in 0..Len(jobs') /\ v.job \in 0..Len(jobs')
      /\ v.todo \subseteq DOMAIN v.chain /\ Within(v)
  BY <1>2, <1>6, WorkerTyped DEF Within
<1>8. excuse' \in [Requests -> BOOLEAN] /\ jobs' \in Seq(JobRow) /\ Len(jobs) <= Len(jobs')
  BY <1>1, <1>2, <1>4, DisturbedTyped
<1>9. WorkersOK'
  BY <1>2, <1>3, <1>4, <1>6, <1>7, <1>8, OneMoves
<1>10. HistoryOK' /\ StoreOK'
  BY <1>1, <1>2, <1>5, ScanTyped DEF HistoryOK, Legal, StoreOK
<1> QED
  BY <1>2, <1>9, <1>10 DEF JobsOK

LEMMA GiveUpTyped ==
  ASSUME TypeInv, NEW q \in Requests, GiveUp(q)
  PROVE  TypeInv'
<1> USE DEF TypeInv
<1> DEFINE k == worker[q].own
           j == [jobs[k] EXCEPT !.status = "failed", !.cur = NoCurrent]
<1>1. /\ worker' = [worker EXCEPT ![q] = Idle] /\ excuse' = Disturbed /\ Report(k, j)
      /\ mounted' = AfterScan /\ UNCHANGED <<runs, attached, have, current>>
  BY DEF GiveUp
<1>2. k \in 0..Len(jobs)
  BY WorkerTyped
<1>3. k # 0 => j \in JobRow /\ j.failed <= j.done
  <2> SUFFICES ASSUME k # 0 PROVE j \in JobRow /\ j.failed <= j.done
    OBVIOUS
  <2>0. k \in 1..Len(jobs)
    BY <1>2 DEF JobsOK
  <2>1. jobs[k] \in JobRow /\ jobs[k].failed <= jobs[k].done
    BY <2>0, JobTyped
  <2> QED
    BY <2>1 DEF JobRow, NoCurrent
<1> HIDE DEF j
<1>4. /\ JobsOK' /\ jobs' \in Seq(JobRow) /\ Len(jobs) \in Nat /\ Len(jobs) <= Len(jobs')
  BY <1>1, <1>2, <1>3, ReportKeeps
<1>5. WorkersOK'
  <2>1. excuse' \in [Requests -> BOOLEAN]
    BY <1>1, DisturbedTyped
  <2> QED
    BY <1>1, <1>4, <2>1, GoneTyped
<1>6. HistoryOK' /\ StoreOK'
  BY <1>1, ScanTyped DEF HistoryOK, Legal, StoreOK
<1> QED
  BY <1>4, <1>5, <1>6

LEMMA FinishTyped ==
  ASSUME TypeInv, NEW q \in Requests, Finish(q)
  PROVE  TypeInv'
<1> USE DEF TypeInv
<1> DEFINE k == worker[q].own
           j == [jobs[k] EXCEPT !.status = "done", !.cur = NoCurrent]
<1>1. /\ worker' = [worker EXCEPT ![q] = Idle] /\ Report(k, j)
      /\ mounted' \subseteq mounted /\ UNCHANGED <<runs, attached, have, current>>
      /\ excuse' \in [Requests -> BOOLEAN]
  BY DEF Finish, WorkersOK
<1>2. k \in 0..Len(jobs)
  BY WorkerTyped
<1>3. k # 0 => j \in JobRow /\ j.failed <= j.done
  <2> SUFFICES ASSUME k # 0 PROVE j \in JobRow /\ j.failed <= j.done
    OBVIOUS
  <2>0. k \in 1..Len(jobs)
    BY <1>2 DEF JobsOK
  <2>1. jobs[k] \in JobRow /\ jobs[k].failed <= jobs[k].done
    BY <2>0, JobTyped
  <2> QED
    BY <2>1 DEF JobRow, NoCurrent
<1> HIDE DEF j
<1>4. /\ JobsOK' /\ jobs' \in Seq(JobRow) /\ Len(jobs) \in Nat /\ Len(jobs) <= Len(jobs')
  BY <1>1, <1>2, <1>3, ReportKeeps
<1>5. WorkersOK'
  BY <1>1, <1>4, GoneTyped
<1>6. HistoryOK' /\ StoreOK'
  BY <1>1 DEF HistoryOK, Legal, StoreOK
<1> QED
  BY <1>4, <1>5, <1>6

LEMMA ChooseTyped ==
  ASSUME TypeInv, NEW q \in Requests, NEW d \in Datasets, Choose(q, d)
  PROVE  TypeInv'
<1> USE DEF TypeInv
<1> DEFINE w == worker[q]
           v == [w EXCEPT !.pc = "locating", !.ds = d, !.left = w.chain[d]]
           n == Cardinality(w.chain[d])
           j == [jobs[w.job] EXCEPT !.cur = [total |-> n, done |-> 0]]
<1>1. /\ worker' = [worker EXCEPT ![q] = v] /\ Report(w.job, j)
      /\ UNCHANGED <<runs, attached, mounted, have, current>>
      /\ excuse' \in [Requests -> BOOLEAN] /\ d \in w.todo
  BY DEF Choose, WorkersOK
<1>2. w \in Worker /\ w.job \in 0..Len(jobs) /\ w.own \in 0..Len(jobs)
  BY WorkerTyped
<1>3. w.chain[d] \in SUBSET Nat /\ w.chain[d] \subseteq DOMAIN runs
  BY <1>1, WorkerTyped DEF Within
<1>4. n \in Nat
  <2>1. IsFiniteSet(1..Len(runs)) /\ DOMAIN runs = 1..Len(runs)
    BY RunsTyped, FS_Interval
  <2>2. IsFiniteSet(w.chain[d])
    BY <1>3, <2>1, FS_Subset
  <2> QED
    BY <2>2, FS_CardinalityType
<1>5. w.job # 0 => j \in JobRow /\ j.failed <= j.done
  <2> SUFFICES ASSUME w.job # 0 PROVE j \in JobRow /\ j.failed <= j.done
    OBVIOUS
  <2>0. w.job \in 1..Len(jobs)
    BY <1>2 DEF JobsOK
  <2>1. jobs[w.job] \in JobRow /\ jobs[w.job].failed <= jobs[w.job].done
    BY <2>0, JobTyped
  <2> HIDE DEF n
  <2> QED
    BY <2>1, <1>4 DEF JobRow
<1>6. /\ v \in Worker /\ v.pc = "locating" /\ v.ds = d /\ v.own = w.own
      /\ v.left = w.chain[d] /\ v.job = w.job /\ v.todo = w.todo /\ v.chain = w.chain
  BY <1>2, <1>3 DEF Worker, Stages
<1> HIDE DEF v, j
<1>7. /\ JobsOK' /\ jobs' \in Seq(JobRow) /\ Len(jobs') = Len(jobs) /\ Len(jobs) <= Len(jobs')
      /\ Len(jobs) \in Nat
  BY <1>1, <1>2, <1>5, ReportKeeps
<1>8. /\ v.own \in 0..Len(jobs') /\ v.job \in 0..Len(jobs')
      /\ v.todo \subseteq DOMAIN v.chain /\ Within(v)
  BY <1>3, <1>6, <1>7, WorkerTyped DEF Within
<1>9. WorkersOK'
  BY <1>1, <1>6, <1>7, <1>8, OneMoves
<1> QED
  BY <1>1, <1>7, <1>9 DEF HistoryOK, Legal, StoreOK

LEMMA LocateTyped ==
  ASSUME TypeInv, NEW q \in Requests, Locate(q)
  PROVE  TypeInv'
<1> USE DEF TypeInv
<1> DEFINE w == worker[q]
           v == [w EXCEPT !.pc = "receiving"]
<1>1. /\ worker' = [worker EXCEPT ![q] = v] /\ w.left # {} /\ w.pc = "locating"
      /\ UNCHANGED <<jobs, excuse, runs, attached, mounted, have, current>>
  BY DEF Locate, WorkersOK
<1>2. /\ jobs \in Seq(JobRow) /\ Len(jobs) \in Nat /\ excuse \in [Requests -> BOOLEAN]
      /\ jobs' \in Seq(JobRow) /\ Len(jobs) <= Len(jobs')
  BY <1>1 DEF JobsOK, WorkersOK
<1>3. w \in Worker /\ w.ds \in w.todo /\ w.todo \subseteq DOMAIN w.chain
  BY <1>1, WorkerTyped
<1>4. /\ v \in Worker /\ v.pc = "receiving" /\ v.own = w.own /\ v.ds = w.ds
      /\ v.left = w.left /\ v.job = w.job /\ v.todo = w.todo /\ v.chain = w.chain
  BY <1>3 DEF Worker, Stages
<1> HIDE DEF v
<1>5. v.own \in 0..Len(jobs') /\ v.job \in 0..Len(jobs') /\ Within(v)
  BY <1>1, <1>4, WorkerTyped DEF Within
<1>6. WorkersOK'
  BY <1>1, <1>2, <1>3, <1>4, <1>5, OneMoves
<1> QED
  BY <1>1, <1>6 DEF HistoryOK, Legal, StoreOK, JobsOK

\* A dataset is through: what is left of the worker, and of its job.
LEMMA ThroughTyped ==
  ASSUME TypeInv, NEW q \in Requests, NEW ok \in BOOLEAN,
         worker' = [worker EXCEPT ![q].pc = "choosing", ![q].todo = @ \ {worker[q].ds},
                                  ![q].ds = None, ![q].left = {}],
         Report(worker[q].job, Counted(jobs[worker[q].job], ok)),
         UNCHANGED <<runs, attached, mounted, have, current, excuse>>
  PROVE  TypeInv'
<1> USE DEF TypeInv
<1> DEFINE w == worker[q]
           v == [w EXCEPT !.pc = "choosing", !.todo = @ \ {w.ds}, !.ds = None, !.left = {}]
           j == Counted(jobs[w.job], ok)
<1>1. worker' = [worker EXCEPT ![q] = v]
  BY DEF WorkersOK
<1>2. w \in Worker /\ w.job \in 0..Len(jobs) /\ w.own \in 0..Len(jobs)
  BY WorkerTyped
<1>3. w.job # 0 => j \in JobRow /\ j.failed <= j.done
  <2> SUFFICES ASSUME w.job # 0 PROVE j \in JobRow /\ j.failed <= j.done
    OBVIOUS
  <2>0. w.job \in 1..Len(jobs)
    BY <1>2 DEF JobsOK
  <2>1. jobs[w.job] \in JobRow /\ jobs[w.job].failed <= jobs[w.job].done
    BY <2>0, JobTyped
  <2>2. jobs[w.job].failed \in Nat /\ jobs[w.job].done \in Nat
    BY <2>1 DEF JobRow
  <2>3. j \in JobRow
    <3> DEFINE r == jobs[w.job]
               n == r.done + 1
               m == IF ok THEN r.failed ELSE r.failed + 1
    <3>1. n \in Nat /\ m \in Nat /\ NoCurrent \in [total : Nat, done : Nat]
      BY <2>2 DEF NoCurrent
    <3>2. j = [r EXCEPT !.done = n, !.failed = m, !.cur = NoCurrent]
      BY <2>1 DEF Counted, JobRow
    <3> HIDE DEF n, m, r, j
    <3>3. r \in JobRow
      BY <2>1 DEF r
    <3> QED
      BY <3>1, <3>2, <3>3 DEF JobRow
  <2>4. /\ j.done = jobs[w.job].done + 1
        /\ j.failed = IF ok THEN jobs[w.job].failed ELSE jobs[w.job].failed + 1
    BY <2>1 DEF JobRow, Counted
  <2> QED
    BY <2>1, <2>2, <2>3, <2>4
<1>4. /\ v \in Worker /\ v.pc = "choosing" /\ v.own = w.own
      /\ v.job = w.job /\ v.todo = w.todo \ {w.ds} /\ v.chain = w.chain /\ v.left = {}
  BY <1>2 DEF Worker, Stages
<1> HIDE DEF v, j
<1>5. /\ JobsOK' /\ jobs' \in Seq(JobRow) /\ Len(jobs') = Len(jobs) /\ Len(jobs) <= Len(jobs')
      /\ Len(jobs) \in Nat
  BY <1>2, <1>3, ReportKeeps DEF j
<1>6. /\ v.own \in 0..Len(jobs') /\ v.job \in 0..Len(jobs')
      /\ v.todo \subseteq DOMAIN v.chain /\ Within(v)
  BY <1>4, <1>5, WorkerTyped DEF Within
<1>7. excuse' \in [Requests -> BOOLEAN]
  BY DEF WorkersOK
<1>8. WorkersOK'
  BY <1>1, <1>4, <1>5, <1>6, <1>7, OneMoves
<1> QED
  BY <1>5, <1>8 DEF HistoryOK, Legal, StoreOK

LEMMA EndDatasetTyped ==
  ASSUME TypeInv, NEW q \in Requests, NEW ok \in BOOLEAN, EndDataset(q, ok)
  PROVE  TypeInv'
BY ThroughTyped DEF EndDataset

LEMMA ReceiveFailsTyped ==
  ASSUME TypeInv, NEW q \in Requests, ReceiveFails(q)
  PROVE  TypeInv'
BY ThroughTyped DEF ReceiveFails

\* The run in hand is one of those left.
LEMMA LeastLeft ==
  ASSUME TypeInv, NEW q \in Requests, worker[q].left # {}
  PROVE  /\ Least(worker[q].left) \in worker[q].left /\ Least(worker[q].left) \in DOMAIN runs
         /\ \A y \in worker[q].left : Least(worker[q].left) <= y
<1>1. worker[q].left \in SUBSET Nat
  BY WorkerTyped DEF Worker, TypeInv
<1>2. worker[q].left \subseteq DOMAIN runs
  BY WorkerTyped DEF Within, TypeInv
<1> QED
  BY <1>1, <1>2, LeastNat

LEMMA ReceiveTyped ==
  ASSUME TypeInv, NEW q \in Requests, Receive(q)
  PROVE  TypeInv'
<1> USE DEF TypeInv
<1> DEFINE w == worker[q]
           i == Least(w.left)
           v == [w EXCEPT !.pc = "locating", !.left = @ \ {i}]
           j == [jobs[w.job] EXCEPT !.cur.done = @ + 1]
<1>1. /\ worker' = [worker EXCEPT ![q] = v] /\ Report(w.job, j) /\ w.pc = "receiving"
      /\ have' = [have EXCEPT ![w.ds] = IF @ = None THEN {i} ELSE @ \cup {i}]
      /\ UNCHANGED <<runs, attached, mounted, current, excuse>>
  BY DEF Receive, WorkersOK
<1>2. w \in Worker /\ w.job \in 0..Len(jobs) /\ w.own \in 0..Len(jobs)
      /\ w.ds \in w.todo /\ w.todo \subseteq DOMAIN w.chain
  BY <1>1, WorkerTyped
<1>3. w.job # 0 => j \in JobRow /\ j.failed <= j.done
  <2> SUFFICES ASSUME w.job # 0 PROVE j \in JobRow /\ j.failed <= j.done
    OBVIOUS
  <2>0. w.job \in 1..Len(jobs)
    BY <1>2 DEF JobsOK
  <2>1. jobs[w.job] \in JobRow /\ jobs[w.job].failed <= jobs[w.job].done
    BY <2>0, JobTyped
  <2> QED
    BY <2>1 DEF JobRow
<1>4. /\ v \in Worker /\ v.pc = "locating" /\ v.own = w.own /\ v.ds = w.ds
      /\ v.job = w.job /\ v.todo = w.todo /\ v.chain = w.chain /\ v.left = w.left \ {i}
  BY <1>2 DEF Worker, Stages
<1>5. i \in 0..Len(runs)
  <2>1. w.left # {}
    BY <1>1, WorkerTyped
  <2> QED
    BY <2>1, LeastLeft, RunsTyped
<1>6. StoreOK'
  <2>1. have' \in [Datasets -> {None} \cup SUBSET (0..Len(runs))]
    BY <1>1, <1>5 DEF StoreOK
  <2> QED
    BY <1>1, <2>1 DEF StoreOK
<1> HIDE DEF v, j
<1>7. /\ JobsOK' /\ jobs' \in Seq(JobRow) /\ Len(jobs') = Len(jobs) /\ Len(jobs) <= Len(jobs')
      /\ Len(jobs) \in Nat
  BY <1>1, <1>2, <1>3, ReportKeeps
<1>8. /\ v.own \in 0..Len(jobs') /\ v.job \in 0..Len(jobs')
      /\ v.todo \subseteq DOMAIN v.chain /\ Within(v)
  BY <1>2, <1>4, <1>7, WorkerTyped DEF Within
<1>9. excuse' \in [Requests -> BOOLEAN]
  BY <1>1 DEF WorkersOK
<1>10. WorkersOK'
  BY <1>1, <1>2, <1>4, <1>7, <1>8, <1>9, OneMoves
<1> QED
  BY <1>1, <1>6, <1>7, <1>10 DEF HistoryOK, Legal

LEMMA OthersTyped ==
  ASSUME TypeInv, Scan \/ PlanPool \/ Crash \/ \E v \in Volumes : Plug(v) \/ Unplug(v)
  PROVE  TypeInv'
<1> USE DEF TypeInv
<1>1. CASE Scan \/ PlanPool
  <2>1. /\ UNCHANGED <<runs, attached, have, jobs, current, worker>>
        /\ mounted' = AfterScan /\ excuse' = Disturbed
    BY <1>1 DEF Scan, PlanPool
  <2> QED
    BY <2>1, ScanTyped, DisturbedTyped DEF HistoryOK, Legal, StoreOK, JobsOK, WorkersOK, Within
<1>2. ASSUME NEW v \in Volumes, Plug(v) PROVE TypeInv'
  BY <1>2 DEF Plug, HistoryOK, Legal, StoreOK, JobsOK, WorkersOK, Within
<1>3. ASSUME NEW v \in Volumes, Unplug(v) PROVE TypeInv'
  BY <1>3 DEF Unplug, HistoryOK, Legal, StoreOK, JobsOK, WorkersOK, Within
<1>4. CASE Crash
  <2>1. HistoryOK' /\ StoreOK' /\ JobsOK'
    BY <1>4 DEF Crash, HistoryOK, Legal, StoreOK, JobsOK
  <2>2. WorkersOK'
    <3>1. Idle.own = 0 /\ Idle.job = 0 /\ Idle.todo = {} /\ Idle.pc = "idle" /\ Idle.left = {}
      BY DEF Idle
    <3>2. DOMAIN Idle.chain = {}
      BY DEF Idle
    <3> QED
      BY <1>4, <3>1, <3>2, IdleTyped DEF Crash, WorkersOK, Within
  <2> QED
    BY <2>1, <2>2
<1> QED
  BY <1>1, <1>2, <1>3, <1>4

LEMMA TypeInvInit == Init => TypeInv
<1> SUFFICES ASSUME Init PROVE TypeInv
  OBVIOUS
<1>1. runs \in Histories /\ runs \in Seq(Run) /\ Legal(runs)
  BY RestoreAssumption DEF Init
<1>2. Len(runs) \in Nat
  BY <1>1
<1>3. StoreOK
  BY <1>2 DEF Init, StoreOK
<1>4. JobsOK
  BY DEF Init, JobsOK
<1>5. WorkersOK
  <2>1. /\ Idle.own = 0 /\ Idle.job = 0 /\ Idle.todo = {} /\ Idle.pc = "idle" /\ Idle.left = {}
        /\ DOMAIN Idle.chain = {}
    BY DEF Idle
  <2> QED
    BY <2>1, IdleTyped DEF Init, WorkersOK, Within
<1> QED
  BY <1>1, <1>3, <1>4, <1>5 DEF TypeInv, HistoryOK

LEMMA TypeInvStep ==
  ASSUME TypeInv, [Next]_vars
  PROVE  TypeInv'
<1>1. ASSUME NEW q \in Requests, Request(q) PROVE TypeInv'
  <2>1. ASSUME NEW s \in { runs[i].set : i \in DOMAIN runs },
               NEW D \in SUBSET { runs[i].ds : i \in DOMAIN runs },
               NEW media \in Volumes \cup {None}, Ask(q, s, D, media)
        PROVE  TypeInv'
    BY <2>1, AskTyped
  <2> QED
    BY <1>1, <2>1, RegisterTyped DEF Request
<1>2. ASSUME NEW q \in Requests, TaskStep(q) PROVE TypeInv'
  <2>1. CASE NotConnected(q)
    BY <2>1, EndDatasetTyped DEF NotConnected
  <2>2. CASE Restored(q)
    BY <2>2, EndDatasetTyped DEF Restored
  <2> QED
    BY <1>2, <2>1, <2>2, BeginTyped, PlanTyped, MountTyped, GiveUpTyped, ChooseTyped, LocateTyped,
       ReceiveTyped, ReceiveFailsTyped, FinishTyped DEF TaskStep
<1>3. CASE UNCHANGED vars
  BY <1>3 DEF vars, TypeInv, HistoryOK, Legal, StoreOK, JobsOK, WorkersOK, Within
<1> QED
  BY <1>1, <1>2, <1>3, OthersTyped DEF Next

THEOREM TypeInvariant == Spec => []TypeInv
BY TypeInvInit, TypeInvStep, PTL DEF Spec

\* The volumes, targets, jobs and workers stay in order, whatever fails.
THEOREM TypeCorrect == Spec => []TypeOK
<1>1. TypeInv => TypeOK
  <2> SUFFICES ASSUME TypeInv PROVE TypeOK
    OBVIOUS
  <2>1. /\ attached \subseteq Volumes /\ mounted \subseteq attached
        /\ \A d \in Datasets : have[d] # None => have[d] \subseteq 0..Len(runs)
    BY DEF TypeInv, StoreOK
  <2>2. \A k \in DOMAIN jobs :
          jobs[k].status \in {"running", "done", "failed"} /\ jobs[k].failed <= jobs[k].done
    <3>1. \A k \in DOMAIN jobs : jobs[k] \in JobRow /\ jobs[k].failed <= jobs[k].done
      BY DEF TypeInv, JobsOK
    <3> QED
      BY <3>1 DEF JobRow
  <2>3. /\ current \in 0..Len(jobs)
        /\ \A q \in Requests : worker[q].own \in 0..Len(jobs) /\ worker[q].job \in 0..Len(jobs)
    BY DEF TypeInv, JobsOK, WorkersOK
  <2> QED
    BY <2>1, <2>2, <2>3 DEF TypeOK
<1> QED
  BY <1>1, TypeInvariant, PTL

-----------------------------------------------------------------------------
(* A job that says running *)

\* A request has no job of its own before its task begins.
OwnInv == \A q \in Requests : worker[q].pc \in {"idle", "asking"} => worker[q].own = 0

WorkedInv == OwnInv /\ RunningIsWorked

\* A report that leaves the status of its job.
LEMMA ReportSays ==
  ASSUME JobsOK, NEW k \in 0..Len(jobs), NEW j, Report(k, j),
         k # 0 => j.status = jobs[k].status, NEW i \in 1..Len(jobs)
  PROVE  jobs'[i].status = jobs[i].status
BY DEF JobsOK, Report

\* A worker past its beginning that keeps its own job and ends none.
LEMMA KeepsWorking ==
  ASSUME WorkedInv, NEW q \in Requests, \A r \in Requests \ {q} : worker'[r] = worker[r],
         worker[q].pc \notin {"idle", "asking", "created"},
         worker'[q].pc \notin {"idle", "asking", "created"},
         worker'[q].own = worker[q].own, current' = current,
         current # 0 => jobs'[current].status = jobs[current].status
  PROVE  WorkedInv'
<1>1. OwnInv'
  BY DEF WorkedInv, OwnInv
<1>2. RunningIsWorked'
  BY DEF WorkedInv, RunningIsWorked
<1> QED
  BY <1>1, <1>2 DEF WorkedInv

\* A worker that ends takes back no report but its own.
LEMMA LeavesWork ==
  ASSUME TypeInv, WorkedInv, NEW q \in Requests, worker[q].pc # "created",
         worker' = [worker EXCEPT ![q] = Idle], current' = current,
         current # 0 /\ jobs'[current].status = "running" =>
           jobs[current].status = "running" /\ worker[q].own # current
  PROVE  WorkedInv'
<1>1. worker'[q] = Idle /\ \A r \in Requests \ {q} : worker'[r] = worker[r]
  BY DEF TypeInv, WorkersOK
<1>2. OwnInv'
  BY <1>1 DEF WorkedInv, OwnInv, Idle
<1>3. RunningIsWorked'
  BY <1>1 DEF WorkedInv, RunningIsWorked
<1> QED
  BY <1>2, <1>3 DEF WorkedInv

\* Two restores that overlapped when they were registered may both hold the
\* newer job: the first to end ends it.
LEMMA EndsWork ==
  ASSUME TypeInv, WorkedInv, NEW q \in Requests,
         worker[q].pc \notin {"idle", "asking", "created"},
         worker' = [worker EXCEPT ![q] = Idle], current' = current,
         NEW j, Report(worker[q].own, j), worker[q].own # 0 => j.status # "running"
  PROVE  WorkedInv'
<1>1. JobsOK /\ worker[q].own \in 0..Len(jobs) /\ current \in 0..Len(jobs)
  BY DEF TypeInv, WorkersOK, JobsOK
<1>2. ASSUME current # 0, jobs'[current].status = "running"
      PROVE  jobs[current].status = "running" /\ worker[q].own # current
  BY <1>1, <1>2 DEF Report, JobsOK
<1> QED
  BY <1>2, LeavesWork

LEMMA RequestWorked ==
  ASSUME TypeInv, WorkedInv, NEW q \in Requests, Request(q)
  PROVE  WorkedInv'
<1>1. worker \in [Requests -> Worker]
  BY DEF TypeInv, WorkersOK
<1>2. ASSUME NEW s, NEW D, NEW media, Ask(q, s, D, media) PROVE WorkedInv'
  <2>1. /\ worker' = [worker EXCEPT ![q] = [Idle EXCEPT !.pc = "asking", !.set = s, !.want = D,
                                                       !.media = media]]
        /\ UNCHANGED <<jobs, current>> /\ (current # 0 => jobs[current].status # "running")
    BY <1>2 DEF Ask
  <2>2. worker'[q].own = 0 /\ \A r \in Requests \ {q} : worker'[r] = worker[r]
    BY <1>1, <2>1 DEF Idle
  <2> QED
    BY <2>1, <2>2 DEF WorkedInv, OwnInv, RunningIsWorked
<1>3. CASE Register(q)
  <2>1. worker[q].pc = "asking" /\ worker[q].own = 0
    BY <1>3 DEF Register, WorkedInv, OwnInv
  <2>2. CASE worker' = [worker EXCEPT ![q].pc = "created"]
    <3>1. worker'[q].pc = "created" /\ \A r \in Requests \ {q} : worker'[r] = worker[r]
      BY <1>1, <2>2 DEF Worker
    <3> QED
      BY <3>1 DEF WorkedInv, OwnInv, RunningIsWorked
  <2>3. CASE worker' = [worker EXCEPT ![q] = Idle] /\ jobs' = jobs /\ current' = current
    BY <2>1, <2>3, LeavesWork
  <2> QED
    BY <1>3, <2>2, <2>3 DEF Register
<1> QED
  BY <1>2, <1>3 DEF Request

LEMMA TaskWorked ==
  ASSUME TypeInv, WorkedInv, NEW q \in Requests, TaskStep(q)
  PROVE  WorkedInv'
<1> DEFINE w == worker[q]
<1>1. worker \in [Requests -> Worker] /\ w \in Worker
  BY DEF TypeInv, WorkersOK
<1>0. \A r \in Requests \ {q} : worker'[r] = worker[r]
  <2>1. CASE Begin(q) \/ Plan(q) \/ GiveUp(q) \/ Locate(q) \/ Finish(q)
    BY <1>1, <2>1 DEF Begin, Plan, GiveUp, Locate, Finish
  <2>2. CASE Mount(q) \/ \E d \in Datasets : Choose(q, d)
    BY <1>1, <2>2 DEF Mount, Choose
  <2>3. CASE NotConnected(q) \/ Restored(q)
    BY <1>1, <2>3 DEF NotConnected, Restored, EndDataset
  <2>4. CASE Receive(q) \/ ReceiveFails(q)
    BY <1>1, <2>4 DEF Receive, ReceiveFails
  <2> QED
    BY <2>1, <2>2, <2>3, <2>4 DEF TaskStep
<1>2. w.own \in 0..Len(jobs) /\ w.job \in 0..Len(jobs) /\ current \in 0..Len(jobs)
  BY DEF TypeInv, WorkersOK, JobsOK
<1>3. JobsOK /\ Len(jobs) \in Nat
  BY DEF TypeInv, JobsOK
<1>4. \A k \in 1..Len(jobs) : jobs[k] \in JobRow
  BY <1>3, JobTyped
<1>5. CASE Begin(q)
  <2>1. worker'[q].own = current /\ worker'[q].pc = "planning" /\ current' = current
    BY <1>1, <1>5 DEF Begin, Worker
  <2> QED
    BY <1>0, <2>1 DEF WorkedInv, OwnInv, RunningIsWorked
<1>6. CASE Plan(q)
  <2> DEFINE k == IF current # 0 /\ jobs[current].set = w.set THEN current ELSE 0
             j == [jobs[k] EXCEPT !.total =
                     Cardinality(DOMAIN Chosen(w.set, w.want, w.media))]
  <2>1. Report(k, j) /\ current' = current /\ w.pc = "planning"
    BY <1>6 DEF Plan
  <2>2. worker'[q].own = w.own /\ worker'[q].pc = "mounting"
    BY <1>1, <1>6 DEF Plan, Worker
  <2>3. k \in 0..Len(jobs)
    BY <1>2
  <2>4. k # 0 => j.status = jobs[k].status
    BY <1>3, <1>4, <2>3 DEF JobRow
  <2> HIDE DEF k, j
  <2>5. current # 0 => jobs'[current].status = jobs[current].status
    BY <1>2, <1>3, <2>1, <2>3, <2>4, ReportSays
  <2> QED
    BY <1>0, <2>1, <2>2, <2>5, KeepsWorking
<1>7. CASE Mount(q)
  <2>1. worker'[q].own = w.own /\ worker'[q].pc = "choosing" /\ current' = current /\ jobs' = jobs
        /\ w.pc = "mounting"
    BY <1>1, <1>7 DEF Mount, Worker
  <2> QED
    BY <1>0, <2>1, KeepsWorking
<1>8. CASE GiveUp(q)
  <2> DEFINE j == [jobs[w.own] EXCEPT !.status = "failed", !.cur = NoCurrent]
  <2>1. Report(w.own, j) /\ worker' = [worker EXCEPT ![q] = Idle] /\ current' = current
        /\ w.pc \in {"planning", "mounting"}
    BY <1>8 DEF GiveUp
  <2>2. w.own # 0 => j.status = "failed"
    BY <1>2, <1>3, <1>4 DEF JobRow
  <2> QED
    BY <2>1, <2>2, EndsWork
<1>9. CASE Finish(q)
  <2> DEFINE j == [jobs[w.own] EXCEPT !.status = "done", !.cur = NoCurrent]
  <2>1. Report(w.own, j) /\ worker' = [worker EXCEPT ![q] = Idle] /\ current' = current
        /\ w.pc = "choosing"
    BY <1>9 DEF Finish
  <2>2. w.own # 0 => j.status = "done"
    BY <1>2, <1>3, <1>4 DEF JobRow
  <2> QED
    BY <2>1, <2>2, EndsWork
<1>10. ASSUME NEW d \in Datasets, Choose(q, d) PROVE WorkedInv'
  <2> DEFINE j == [jobs[w.job] EXCEPT !.cur = [total |-> Cardinality(w.chain[d]), done |-> 0]]
  <2>1. Report(w.job, j) /\ current' = current /\ w.pc = "choosing"
    BY <1>10 DEF Choose
  <2>2. worker'[q].own = w.own /\ worker'[q].pc = "locating"
    BY <1>1, <1>10 DEF Choose, Worker
  <2>3. w.job # 0 => j.status = jobs[w.job].status
    BY <1>2, <1>3, <1>4 DEF JobRow
  <2> HIDE DEF j
  <2>4. current # 0 => jobs'[current].status = jobs[current].status
    BY <1>2, <1>3, <2>1, <2>3, ReportSays
  <2> QED
    BY <1>0, <2>1, <2>2, <2>4, KeepsWorking
<1>11. CASE Locate(q)
  <2>1. worker'[q].own = w.own /\ worker'[q].pc = "receiving" /\ current' = current /\ jobs' = jobs
        /\ w.pc = "locating"
    BY <1>1, <1>11 DEF Locate, Worker
  <2> QED
    BY <1>0, <2>1, KeepsWorking
<1>12. CASE NotConnected(q) \/ Restored(q) \/ ReceiveFails(q)
  <2>1. PICK ok \in BOOLEAN : Report(w.job, Counted(jobs[w.job], ok))
    BY <1>12 DEF NotConnected, Restored, ReceiveFails, EndDataset
  <2> DEFINE j == Counted(jobs[w.job], ok)
  <2>2. current' = current /\ w.pc \in {"locating", "receiving"}
    BY <1>12 DEF NotConnected, Restored, ReceiveFails, EndDataset
  <2>3. worker'[q].own = w.own /\ worker'[q].pc = "choosing"
    <3>1. worker' = [worker EXCEPT ![q].pc = "choosing", ![q].todo = @ \ {w.ds},
                                   ![q].ds = None, ![q].left = {}]
      BY <1>12 DEF NotConnected, Restored, ReceiveFails, EndDataset
    <3> QED
      BY <1>1, <3>1 DEF Worker
  <2>4. w.job # 0 => j.status = jobs[w.job].status
    BY <1>2, <1>3, <1>4 DEF JobRow, Counted
  <2> HIDE DEF j
  <2>5. current # 0 => jobs'[current].status = jobs[current].status
    BY <1>2, <1>3, <2>1, <2>4, ReportSays DEF j
  <2> QED
    BY <1>0, <2>2, <2>3, <2>5, KeepsWorking
<1>13. CASE Receive(q)
  <2> DEFINE j == [jobs[w.job] EXCEPT !.cur.done = @ + 1]
  <2>1. Report(w.job, j) /\ current' = current /\ w.pc = "receiving"
    BY <1>13 DEF Receive
  <2>2. worker'[q].own = w.own /\ worker'[q].pc = "locating"
    BY <1>1, <1>13 DEF Receive, Worker
  <2>3. w.job # 0 => j.status = jobs[w.job].status
    BY <1>2, <1>3, <1>4 DEF JobRow
  <2> HIDE DEF j
  <2>4. current # 0 => jobs'[current].status = jobs[current].status
    BY <1>2, <1>3, <2>1, <2>3, ReportSays
  <2> QED
    BY <1>0, <2>1, <2>2, <2>4, KeepsWorking
<1> QED
  BY <1>5, <1>6, <1>7, <1>8, <1>9, <1>10, <1>11, <1>12, <1>13 DEF TaskStep

\* A job that says running has a worker that will end it, whatever the steps before
\* it did, and even if requests overlapped when they were let in.
THEOREM RunningIsWorkedCorrect == Spec => []RunningIsWorked
<1>1. Init => WorkedInv
  BY DEF Init, WorkedInv, OwnInv, RunningIsWorked, Idle
<1>2. TypeInv /\ WorkedInv /\ [Next]_vars => WorkedInv'
  <2> SUFFICES ASSUME TypeInv, WorkedInv, [Next]_vars PROVE WorkedInv'
    OBVIOUS
  <2>1. ASSUME Scan \/ PlanPool \/ \E v \in Volumes : Plug(v) \/ Unplug(v)
        PROVE  UNCHANGED <<jobs, current, worker>>
    BY <2>1 DEF Scan, PlanPool, Plug, Unplug
  <2>2. CASE UNCHANGED <<jobs, current, worker>>
    BY <2>2 DEF WorkedInv, OwnInv, RunningIsWorked
  <2>3. CASE Crash
    BY <2>3 DEF Crash, WorkedInv, OwnInv, RunningIsWorked, Idle
  <2> QED
    BY <2>1, <2>2, <2>3, RequestWorked, TaskWorked DEF Next, vars
<1>3. WorkedInv => RunningIsWorked
  BY DEF WorkedInv
<1> QED
  BY <1>1, <1>2, <1>3, TypeInvariant, PTL DEF Spec

-----------------------------------------------------------------------------
(* What is received *)

\* What a worker has chosen is what the volumes of then said.
ChainsOK(q) ==
  LET w == worker[q] IN
    w.pc \in {"mounting", "choosing", "locating", "receiving"} =>
      \A d \in DOMAIN w.chain : w.chain[d] = Chain(Merged(w.from, d)) /\ w.chain[d] # {}

\* Of the dataset in hand the later runs are left, and the others are there.
HandOK(q) ==
  LET w == worker[q]
      C == w.chain[w.ds]
  IN w.pc \in {"locating", "receiving"} =>
      /\ w.left \subseteq C
      /\ \A x \in w.left, y \in C : x <= y => y \in w.left
      /\ w.left # C => have[w.ds] # None /\ C \ w.left \subseteq have[w.ds]

\* Nothing is missing between the snapshots of a target.
TargetsOK == \A d \in Datasets : have[d] # None => Links(have[d])

OutcomesOK ==
  \A o \in outcomes :
    /\ o.ds \in Datasets /\ o.chain = Chain(Merged(o.from, o.ds))
    /\ o.ok => have[o.ds] # None /\ o.chain \subseteq have[o.ds]

ChainInv ==
  /\ \A q \in Requests : ChainsOK(q) /\ HandOK(q)
  /\ TargetsOK /\ OutcomesOK

\* The run an incremental was sent from is earlier, of its set and dataset, and the
\* last of them.
LEMMA BaseBefore ==
  ASSUME HistoryOK, NEW i \in DOMAIN runs, ~runs[i].full
  PROVE  /\ Base(i) \in DOMAIN runs /\ Base(i) < i
         /\ runs[Base(i)].set = runs[i].set /\ runs[Base(i)].ds = runs[i].ds
         /\ \A j \in DOMAIN runs :
              j < i /\ runs[j].set = runs[i].set /\ runs[j].ds = runs[i].ds => j <= Base(i)
<1> DEFINE S == { j \in 1..(i - 1) : runs[j].set = runs[i].set /\ runs[j].ds = runs[i].ds }
<1>1. DOMAIN runs = 1..Len(runs) /\ Len(runs) \in Nat
  BY RunsTyped
<1>2. S # {}
  BY DEF HistoryOK, Legal
<1>3. S \in SUBSET (0..(i - 1)) /\ i - 1 \in Nat
  BY <1>1
<1>4. Greatest(S) \in S /\ \A y \in S : y <= Greatest(S)
  BY <1>2, <1>3, GreatestUpto
<1>5. Base(i) = Greatest(S)
  BY DEF Base
<1>6. \A j \in DOMAIN runs :
        j < i /\ runs[j].set = runs[i].set /\ runs[j].ds = runs[i].ds => j \in S
  BY <1>1
<1> HIDE DEF S
<1>7. Base(i) \in S
  BY <1>4, <1>5
<1>8. Base(i) \in DOMAIN runs /\ Base(i) < i
      /\ runs[Base(i)].set = runs[i].set /\ runs[Base(i)].ds = runs[i].ds
  BY <1>1, <1>7 DEF S
<1> QED
  BY <1>4, <1>5, <1>6, <1>8

\* A stream that zfs receives leaves no gap.
LEMMA ReceiveLinks ==
  ASSUME HistoryOK, NEW n \in Nat, NEW H \in SUBSET (0..n), H # {}, Links(H),
         NEW i \in DOMAIN runs, ~runs[i].full, Greatest(H) = Base(i)
  PROVE  Links(H \cup {i})
<1>1. Base(i) \in DOMAIN runs /\ Base(i) < i /\ DOMAIN runs \subseteq Nat
  BY BaseBefore, RunsTyped
<1>2. Base(i) \in H /\ \A y \in H : y <= Base(i)
  BY GreatestUpto
<1>3. Least(H) \in H /\ \A y \in H : Least(H) <= y
  <2>1. H \in SUBSET Nat
    OBVIOUS
  <2> QED
    BY <2>1, LeastNat
<1>4. \A y \in H : y < i /\ y \in Nat
  BY <1>1, <1>2
<1>5. Least(H \cup {i}) = Least(H)
  <2>1. H \cup {i} \in SUBSET Nat /\ i \in Nat
    <3>1. H \in SUBSET Nat
      OBVIOUS
    <3> QED
      BY <1>1, <3>1
  <2>2. /\ Least(H \cup {i}) \in H \cup {i}
        /\ \A y \in H \cup {i} : Least(H \cup {i}) <= y
    BY <2>1, LeastNat
  <2>3. Least(H \cup {i}) \in H
    BY <1>3, <1>4, <2>1, <2>2
  <2>4. Least(H \cup {i}) <= Least(H) /\ Least(H) <= Least(H \cup {i})
    BY <1>3, <2>2, <2>3
  <2>5. Least(H) \in Nat /\ Least(H \cup {i}) \in Nat
    BY <1>3, <2>1, <2>2
  <2> QED
    BY <2>4, <2>5
<1> QED
  BY <1>2, <1>5 DEF Links

\* A full received alone.
LEMMA AloneLinks ==
  ASSUME NEW i \in Nat
  PROVE  Links({i})
<1>1. Least({i}) \in {i}
  BY LeastNat
<1> QED
  BY <1>1 DEF Links

\* No set of runs is None.
LEMMA SetsAreNot ==
  ASSUME HistoryOK, NEW S \in SUBSET (0..Len(runs))
  PROVE  S # None
BY RestoreAssumption DEF HistoryOK

\* Chains stay what the volumes said.
LEMMA ChainsStay ==
  ASSUME NEW q \in Requests, ChainsOK(q), runs' = runs,
         worker'[q].from = worker[q].from, worker'[q].chain = worker[q].chain,
         worker'[q].pc \in {"mounting", "choosing", "locating", "receiving"} =>
           worker[q].pc \in {"mounting", "choosing", "locating", "receiving"}
  PROVE  ChainsOK(q)'
<1>1. PICK V : V = worker[q].from
  OBVIOUS
<1>2. \A d : Chain(Merged(V, d))' = Chain(Merged(V, d))
  BY DEF Chain, Merged
<1>3. worker'[q].from = V
  BY <1>1
<1> QED
  BY <1>1, <1>2, <1>3 DEF ChainsOK

\* What a step of the worker of q leaves to show.
LEMMA ChainKept ==
  ASSUME TypeInv, ChainInv, NEW q \in Requests,
         \A r \in Requests \ {q} : worker'[r] = worker[r],
         runs' = runs, ChainsOK(q)', HandOK(q)', TargetsOK',
         \A d \in Datasets : have[d] # None => have'[d] # None /\ have[d] \subseteq have'[d],
         \A o \in outcomes' \ outcomes :
           /\ o.ds \in Datasets /\ o.chain = Chain(Merged(o.from, o.ds))
           /\ o.ok => have'[o.ds] # None /\ o.chain \subseteq have'[o.ds]
  PROVE  ChainInv'
<1>1. ASSUME NEW r \in Requests \ {q} PROVE ChainsOK(r)' /\ HandOK(r)'
  <2>1. worker'[r] = worker[r] /\ ChainsOK(r) /\ HandOK(r)
    BY DEF ChainInv
  <2>2. worker[r].pc \in {"locating", "receiving"} => worker[r].ds \in Datasets
    BY WorkerTyped DEF TypeInv
  <2>3. ChainsOK(r)'
    BY <2>1, ChainsStay
  <2>4. HandOK(r)'
    BY <2>1, <2>2 DEF HandOK
  <2> QED
    BY <2>3, <2>4
<1>2. OutcomesOK'
  <2> SUFFICES ASSUME NEW o \in outcomes'
               PROVE  /\ o.ds \in Datasets /\ o.chain = Chain(Merged(o.from, o.ds))'
                      /\ o.ok => have'[o.ds] # None /\ o.chain \subseteq have'[o.ds]
    BY DEF OutcomesOK
  <2>1. Chain(Merged(o.from, o.ds))' = Chain(Merged(o.from, o.ds))
    BY DEF Chain, Merged
  <2>2. CASE o \in outcomes
    BY <2>1, <2>2 DEF ChainInv, OutcomesOK
  <2>3. CASE o \notin outcomes
    BY <2>1, <2>3
  <2> QED
    BY <2>2, <2>3
<1> QED
  BY <1>1, <1>2 DEF ChainInv

\* The same for a step that receives nothing.
LEMMA ChainKeptIdle ==
  ASSUME TypeInv, ChainInv, NEW q \in Requests,
         \A r \in Requests \ {q} : worker'[r] = worker[r],
         UNCHANGED <<runs, have>>, ChainsOK(q)', HandOK(q)',
         \A o \in outcomes' \ outcomes :
           /\ o.ds \in Datasets /\ o.chain = Chain(Merged(o.from, o.ds))
           /\ o.ok => have[o.ds] # None /\ o.chain \subseteq have[o.ds]
  PROVE  ChainInv'
<1>1. TargetsOK'
  BY DEF ChainInv, TargetsOK, Links, Base
<1> QED
  BY <1>1, ChainKept

LEMMA RequestChains ==
  ASSUME TypeInv, ChainInv, NEW q \in Requests, Request(q)
  PROVE  ChainInv'
<1>1. worker \in [Requests -> Worker]
  BY DEF TypeInv, WorkersOK
<1>2. ASSUME NEW s, NEW D, NEW media, Ask(q, s, D, media) PROVE ChainInv'
  <2>1. /\ worker' = [worker EXCEPT ![q] = [Idle EXCEPT !.pc = "asking", !.set = s, !.want = D,
                                                       !.media = media]]
        /\ UNCHANGED <<runs, have, outcomes>>
    BY <1>2 DEF Ask
  <2>2. worker'[q].pc = "asking" /\ \A r \in Requests \ {q} : worker'[r] = worker[r]
    BY <1>1, <2>1 DEF Idle
  <2> QED
    BY <2>1, <2>2, ChainKeptIdle DEF ChainsOK, HandOK
<1>3. CASE Register(q)
  <2>1. worker'[q].pc \in {"idle", "created"}
    BY <1>1, <1>3 DEF Register, Worker, Idle
  <2>2. (\A r \in Requests \ {q} : worker'[r] = worker[r]) /\ UNCHANGED <<runs, have, outcomes>>
    BY <1>1, <1>3 DEF Register
  <2> QED
    BY <2>1, <2>2, ChainKeptIdle DEF ChainsOK, HandOK
<1> QED
  BY <1>2, <1>3 DEF Request

LEMMA ReceiveChains ==
  ASSUME TypeInv, ChainInv, NEW q \in Requests, Receive(q)
  PROVE  ChainInv'
<1> DEFINE w == worker[q]
           i == Least(w.left)
           C == w.chain[w.ds]
           H == have[w.ds]
<1>1. worker \in [Requests -> Worker] /\ w \in Worker /\ w.pc = "receiving"
  BY DEF Receive, TypeInv, WorkersOK
<1>2. w.ds \in w.todo /\ w.ds \in Datasets /\ w.ds \in DOMAIN w.chain /\ C \in SUBSET Nat
  BY <1>1, WorkerTyped DEF TypeInv
<1>3. i \in w.left /\ i \in DOMAIN runs /\ \A y \in w.left : i <= y
  BY <1>1, LeastLeft, WorkerTyped DEF TypeInv
<1>4. /\ worker' = [worker EXCEPT ![q].pc = "locating", ![q].left = @ \ {i}]
      /\ have' = [have EXCEPT ![w.ds] = IF @ = None THEN {i} ELSE @ \cup {i}]
      /\ Receivable(w.ds, i) /\ UNCHANGED <<runs, outcomes>>
  BY DEF Receive
<1>5. /\ worker'[q].pc = "locating" /\ worker'[q].ds = w.ds /\ worker'[q].chain = w.chain
      /\ worker'[q].from = w.from /\ worker'[q].left = w.left \ {i}
      /\ \A r \in Requests \ {q} : worker'[r] = worker[r]
  BY <1>1, <1>4 DEF Worker
<1>6. have \in [Datasets -> {None} \cup SUBSET (0..Len(runs))] /\ HistoryOK
  BY DEF TypeInv, StoreOK
<1>7. /\ have'[w.ds] = IF H = None THEN {i} ELSE H \cup {i}
      /\ \A d \in Datasets \ {w.ds} : have'[d] = have[d]
  BY <1>2, <1>4, <1>6
<1>8. have'[w.ds] # None
  <2>1. \A S \in SUBSET (0..Len(runs)) : S # None
    BY SetsAreNot DEF TypeInv
  <2>2. have'[w.ds] \in SUBSET (0..Len(runs))
    BY <1>2, <1>3, <1>6, <1>7, RunsTyped
  <2> QED
    BY <2>1, <2>2
<1>9. Links(have'[w.ds])
  <2>1. CASE H \in {None, {}}
    <3>1. have'[w.ds] = {i}
      BY <1>7, <2>1
    <3> QED
      BY <1>3, <1>6, <3>1, AloneLinks, RunsTyped
  <2>2. CASE H \notin {None, {}}
    <3>1. ~runs[i].full /\ Greatest(H) = Base(i)
      BY <1>4, <2>2 DEF Receivable
    <3>2. H \in SUBSET (0..Len(runs)) /\ H # {} /\ Len(runs) \in Nat
      BY <1>2, <1>6, <2>2, RunsTyped
    <3>3. Links(H)
      BY <1>2, <2>2 DEF ChainInv, TargetsOK
    <3>4. Links(H \cup {i})
      BY <1>3, <1>6, <3>1, <3>2, <3>3, ReceiveLinks
    <3> QED
      BY <1>7, <2>2, <3>4
  <2> QED
    BY <2>1, <2>2
<1>10. TargetsOK'
  <2> SUFFICES ASSUME NEW d \in Datasets, have'[d] # None PROVE Links(have[d])'
    BY DEF TargetsOK
  <2>1. Links(have'[d])
    BY <1>7, <1>9 DEF ChainInv, TargetsOK
  <2> QED
    BY <1>4, <2>1 DEF Links, Base
<1>11. \A d \in Datasets : have[d] # None => have'[d] # None /\ have[d] \subseteq have'[d]
  BY <1>7, <1>8
<1>12. ChainsOK(q)'
  <2>1. worker'[q].from = w.from /\ worker'[q].chain = w.chain /\ runs' = runs
    BY <1>4, <1>5
  <2>2. ChainsOK(q) /\ w.pc \in {"mounting", "choosing", "locating", "receiving"}
    BY <1>1 DEF ChainInv
  <2> QED
    BY <2>1, <2>2, ChainsStay
<1>13. HandOK(q)'
  <2>1. /\ w.left \subseteq C
        /\ \A x \in w.left, y \in C : x <= y => y \in w.left
        /\ w.left # C => H # None /\ C \ w.left \subseteq H
    BY <1>1 DEF ChainInv, HandOK
  <2>2. w.left \ {i} \subseteq C /\ C \ (w.left \ {i}) \subseteq have'[w.ds]
    BY <1>3, <1>7, <2>1
  <2>3. ASSUME NEW x \in w.left \ {i}, NEW y \in C, x <= y PROVE y \in w.left \ {i}
    <3>1. y \in w.left /\ i <= x /\ x # i /\ i \in Nat /\ x \in Nat /\ y \in Nat
      BY <1>2, <1>3, <2>1, <2>3
    <3> QED
      BY <2>3, <3>1
  <2> QED
    BY <1>5, <1>8, <2>2, <2>3 DEF HandOK
<1> QED
  BY <1>4, <1>5, <1>10, <1>11, <1>12, <1>13, ChainKept

\* The end of a dataset: what is reported of it is what was in hand.
LEMMA ThroughChains ==
  ASSUME TypeInv, ChainInv, NEW q \in Requests, NEW ok \in BOOLEAN, NEW ex \in BOOLEAN,
         worker[q].pc \in {"locating", "receiving"},
         ok => worker[q].left = {},
         worker' = [worker EXCEPT ![q].pc = "choosing", ![q].todo = @ \ {worker[q].ds},
                                  ![q].ds = None, ![q].left = {}],
         outcomes' = outcomes \cup
           {[ds |-> worker[q].ds, from |-> worker[q].from,
             chain |-> worker[q].chain[worker[q].ds], ok |-> ok, excused |-> ex]},
         UNCHANGED <<runs, have>>
  PROVE  ChainInv'
<1> DEFINE w == worker[q]
           C == w.chain[w.ds]
<1>1. worker \in [Requests -> Worker] /\ w \in Worker
  BY DEF TypeInv, WorkersOK
<1>2. w.ds \in w.todo /\ w.ds \in Datasets /\ w.ds \in DOMAIN w.chain
  BY WorkerTyped DEF TypeInv
<1>3. /\ worker'[q].pc = "choosing" /\ worker'[q].from = w.from /\ worker'[q].chain = w.chain
      /\ \A r \in Requests \ {q} : worker'[r] = worker[r]
  BY <1>1 DEF Worker
<1>4. ChainsOK(q) /\ HandOK(q)
  BY DEF ChainInv
<1>5. C = Chain(Merged(w.from, w.ds)) /\ C # {}
  BY <1>2, <1>4 DEF ChainsOK
<1>6. ok => have[w.ds] # None /\ C \subseteq have[w.ds]
  BY <1>4, <1>5 DEF HandOK
<1>7. ChainsOK(q)'
  BY <1>3, <1>4, ChainsStay
<1>8. HandOK(q)'
  BY <1>3 DEF HandOK
<1>9. \A o \in outcomes' \ outcomes :
        /\ o.ds \in Datasets /\ o.chain = Chain(Merged(o.from, o.ds))
        /\ o.ok => have[o.ds] # None /\ o.chain \subseteq have[o.ds]
  BY <1>2, <1>5, <1>6
<1> QED
  BY <1>3, <1>7, <1>8, <1>9, ChainKeptIdle

LEMMA TaskChains ==
  ASSUME TypeInv, ChainInv, NEW q \in Requests, TaskStep(q)
  PROVE  ChainInv'
<1> DEFINE w == worker[q]
<1>1. worker \in [Requests -> Worker] /\ w \in Worker
  BY DEF TypeInv, WorkersOK
<1>2. ChainsOK(q) /\ HandOK(q) /\ excuse[q] \in BOOLEAN
  BY DEF ChainInv, TypeInv, WorkersOK
<1>3. CASE Begin(q) \/ GiveUp(q) \/ Finish(q)
  <2>1. worker'[q].pc \in {"planning", "idle"}
    BY <1>1, <1>3 DEF Begin, GiveUp, Finish, Worker, Idle
  <2>2. (\A r \in Requests \ {q} : worker'[r] = worker[r]) /\ UNCHANGED <<runs, have, outcomes>>
    BY <1>1, <1>3 DEF Begin, GiveUp, Finish
  <2> QED
    BY <2>1, <2>2, ChainKeptIdle DEF ChainsOK, HandOK
<1>4. CASE Plan(q)
  <2> DEFINE chosen == Chosen(w.set, w.want, w.media)
  <2>1. w.want \in SUBSET Datasets /\ IsFiniteSet(w.want) /\ HistoryOK
    BY <1>1 DEF Worker, TypeInv
  <2>2. \A d \in DOMAIN chosen :
          chosen[d] = Chain(Merged(VolumesOf(w.set), d)) /\ chosen[d] # {}
    BY <2>1, ChosenTyped
  <2>3. /\ worker'[q].pc = "mounting" /\ worker'[q].chain = chosen
        /\ worker'[q].from = VolumesOf(w.set)
        /\ \A r \in Requests \ {q} : worker'[r] = worker[r]
    BY <1>1, <1>4 DEF Plan, Worker
  <2>4. UNCHANGED <<runs, have, outcomes>>
    BY <1>4 DEF Plan
  <2>5. ChainsOK(q)'
    <3>1. PICK V, c : V = VolumesOf(w.set) /\ c = chosen
      OBVIOUS
    <3>2. \A d : Chain(Merged(V, d))' = Chain(Merged(V, d))
      BY <2>4 DEF Chain, Merged
    <3>3. \A d \in DOMAIN c : c[d] = Chain(Merged(V, d)) /\ c[d] # {}
      BY <2>2, <3>1
    <3> HIDE DEF chosen
    <3>4. worker'[q].chain = c /\ worker'[q].from = V
      BY <2>3, <3>1
    <3> QED
      BY <3>2, <3>3, <3>4 DEF ChainsOK
  <2> QED
    BY <2>3, <2>4, <2>5, ChainKeptIdle DEF HandOK
<1>5. CASE Mount(q)
  <2>1. /\ worker'[q].pc = "choosing" /\ worker'[q].chain = w.chain /\ worker'[q].from = w.from
        /\ w.pc = "mounting" /\ \A r \in Requests \ {q} : worker'[r] = worker[r]
    BY <1>1, <1>5 DEF Mount, Worker
  <2>2. UNCHANGED <<runs, have, outcomes>>
    BY <1>5 DEF Mount
  <2>3. ChainsOK(q)'
    BY <1>2, <2>1, <2>2, ChainsStay
  <2> QED
    BY <2>1, <2>2, <2>3, ChainKeptIdle DEF HandOK
<1>6. ASSUME NEW d \in Datasets, Choose(q, d) PROVE ChainInv'
  <2>1. /\ worker'[q].pc = "locating" /\ worker'[q].chain = w.chain /\ worker'[q].from = w.from
        /\ worker'[q].ds = d /\ worker'[q].left = w.chain[d]
        /\ w.pc = "choosing" /\ \A r \in Requests \ {q} : worker'[r] = worker[r]
    BY <1>1, <1>6 DEF Choose, Worker
  <2>2. UNCHANGED <<runs, have, outcomes>>
    BY <1>6 DEF Choose
  <2>3. ChainsOK(q)'
    BY <1>2, <2>1, <2>2, ChainsStay
  <2>4. HandOK(q)'
    BY <2>1 DEF HandOK
  <2> QED
    BY <2>1, <2>2, <2>3, <2>4, ChainKeptIdle
<1>7. CASE Locate(q)
  <2>1. /\ worker'[q].chain = w.chain /\ worker'[q].from = w.from
        /\ worker'[q].ds = w.ds /\ worker'[q].left = w.left
        /\ w.pc = "locating" /\ \A r \in Requests \ {q} : worker'[r] = worker[r]
    BY <1>1, <1>7 DEF Locate, Worker
  <2>2. UNCHANGED <<runs, have, outcomes>>
    BY <1>7 DEF Locate
  <2>3. ChainsOK(q)'
    BY <1>2, <2>1, <2>2, ChainsStay
  <2>4. HandOK(q)'
    BY <1>2, <2>1, <2>2 DEF HandOK
  <2> QED
    BY <2>1, <2>2, <2>3, <2>4, ChainKeptIdle
<1>8. CASE NotConnected(q) \/ Restored(q)
  <2>1. PICK ok \in BOOLEAN : EndDataset(q, ok) /\ (ok => w.left = {}) /\ w.pc = "locating"
    BY <1>8 DEF NotConnected, Restored
  <2> QED
    BY <1>2, <2>1, ThroughChains DEF EndDataset
<1>9. CASE ReceiveFails(q)
  <2>1. PICK ex \in BOOLEAN :
          outcomes' = outcomes \cup {[ds |-> w.ds, from |-> w.from, chain |-> w.chain[w.ds],
                                      ok |-> FALSE, excused |-> ex]}
    BY <1>2, <1>9 DEF ReceiveFails
  <2>2. /\ worker' = [worker EXCEPT ![q].pc = "choosing", ![q].todo = @ \ {w.ds},
                                    ![q].ds = None, ![q].left = {}]
        /\ UNCHANGED <<runs, have>> /\ w.pc = "receiving"
    BY <1>9 DEF ReceiveFails
  <2> QED
    BY <2>1, <2>2, ThroughChains
<1> QED
  BY <1>3, <1>4, <1>5, <1>6, <1>7, <1>8, <1>9, ReceiveChains DEF TaskStep

LEMMA ChainStays ==
  ASSUME ChainInv, UNCHANGED <<runs, have, outcomes, worker>>
  PROVE  ChainInv'
<1>1. \A q \in Requests : ChainsOK(q)'
  BY ChainsStay DEF ChainInv
<1>2. \A q \in Requests : HandOK(q)'
  BY DEF ChainInv, HandOK
<1>3. TargetsOK'
  BY DEF ChainInv, TargetsOK, Links, Base
<1>4. OutcomesOK'
  <2>1. \A V, d : Chain(Merged(V, d))' = Chain(Merged(V, d))
    BY DEF Chain, Merged
  <2> QED
    BY <2>1 DEF ChainInv, OutcomesOK
<1> QED
  BY <1>1, <1>2, <1>3, <1>4 DEF ChainInv

LEMMA ChainInvInit == Init => ChainInv
<1> SUFFICES ASSUME Init PROVE ChainInv
  OBVIOUS
<1>1. \A q \in Requests : worker[q].pc = "idle"
  BY DEF Init, Idle
<1>2. TargetsOK
  <2> SUFFICES ASSUME NEW d \in Datasets, have[d] # None PROVE Links(have[d])
    BY DEF TargetsOK
  <2>1. have[d] = {} \/ have[d] = {0}
    BY DEF Init
  <2> QED
    BY <2>1, AloneLinks DEF Links
<1> QED
  BY <1>1, <1>2 DEF Init, ChainInv, ChainsOK, HandOK, OutcomesOK

LEMMA ChainInvStep ==
  ASSUME TypeInv, ChainInv, [Next]_vars
  PROVE  ChainInv'
<1>1. CASE Scan \/ PlanPool \/ (\E v \in Volumes : Plug(v) \/ Unplug(v)) \/ UNCHANGED vars
  <2>1. UNCHANGED <<runs, have, outcomes, worker>>
    BY <1>1 DEF Scan, PlanPool, Plug, Unplug, vars
  <2> QED
    BY <2>1, ChainStays
<1>2. CASE Crash
  <2>1. TargetsOK'
    BY <1>2 DEF Crash, ChainInv, TargetsOK, Links, Base
  <2> QED
    BY <1>2, <2>1 DEF Crash, ChainInv, ChainsOK, HandOK, OutcomesOK, Idle
<1> QED
  BY <1>1, <1>2, RequestChains, TaskChains DEF Next

THEOREM ChainInvariant == Spec => []ChainInv
BY ChainInvInit, ChainInvStep, TypeInvariant, PTL DEF Spec

\* A dataset reported as restored is whole, whatever number of requests restore into
\* the same targets and unmount the volumes under each other.
THEOREM SuccessHoldsChainCorrect == Spec => []SuccessHoldsChain
<1>1. ChainInv => SuccessHoldsChain
  BY DEF ChainInv, TargetsOK, OutcomesOK, SuccessHoldsChain
<1> QED
  BY <1>1, ChainInvariant, PTL

-----------------------------------------------------------------------------
(* A failure has a cause *)

\* Nothing disturbed the restore of q: its volumes are mounted, and of a chain that
\* can be restored the target holds what is not left.
UndisturbedOK(q) ==
  LET w == worker[q]
      C == w.chain[w.ds]
  IN ~excuse[q] =>
       /\ w.pc = "mounting" => w.from \subseteq VolumesOf(w.set)
       /\ w.pc \in {"choosing", "locating", "receiving"} =>
            w.from \subseteq w.mounts /\ w.mounts \subseteq mounted
       /\ w.pc \in {"locating", "receiving"} /\ Restorable(w.from, w.ds) =>
            IF w.left = C THEN have[w.ds] \in {None, {}} ELSE have[w.ds] = C \ w.left

CauseInv == (\A q \in Requests : UndisturbedOK(q)) /\ FailureHasCause

\* A chain that can be restored is a full and, of the same set, all that follows.
LEMMA RestorableChain ==
  ASSUME HistoryOK, NEW V, NEW d, Restorable(V, d)
  PROVE  LET C == Chain(Merged(V, d)) IN
           /\ C \in SUBSET DOMAIN runs /\ Least(C) \in C /\ runs[Least(C)].full
           /\ \A x \in C : Least(C) <= x
           /\ \A x \in C \ {Least(C)} :
                /\ ~runs[x].full /\ Base(x) \in C /\ Base(x) < x
                /\ \A y \in C : y < x => y <= Base(x)
<1> DEFINE C == Chain(Merged(V, d))
           fulls == { j \in Merged(V, d) : runs[j].full }
<1>1. DOMAIN runs = 1..Len(runs) /\ Len(runs) \in Nat
  BY RunsTyped
<1>2. Merged(V, d) \in SUBSET DOMAIN runs /\ \A x \in Merged(V, d) : runs[x].ds = d
  BY DEF Merged
<1>3. PICK i \in Merged(V, d) : runs[i].full /\ Links({ j \in Merged(V, d) : j >= i })
  BY DEF Restorable
<1> DEFINE D == { j \in Merged(V, d) : j >= i }
<1>4. i \in D /\ \A x \in D : i <= x
  BY <1>1, <1>2, <1>3
<1>5. D \in SUBSET Nat
  BY <1>1, <1>2
<1>6. Least(D) = i
  <2>1. Least(D) \in D /\ Least(D) <= i
    BY <1>4, <1>5, LeastNat
  <2>2. i <= Least(D) /\ Least(D) \in Nat /\ i \in Nat
    BY <1>4, <1>5, <2>1
  <2> QED
    BY <2>1, <2>2
<1>7. \A x \in D \ {i} : ~runs[x].full /\ Base(x) \in D
  BY <1>3, <1>6 DEF Links
<1>8. Greatest(fulls) = i
  <2>1. fulls \in SUBSET (0..Len(runs)) /\ i \in fulls
    BY <1>1, <1>2, <1>3
  <2>2. Greatest(fulls) \in fulls /\ i <= Greatest(fulls)
    BY <1>1, <2>1, GreatestUpto
  <2> HIDE DEF D
  <2>3. Greatest(fulls) \in D
    BY <1>1, <1>2, <2>1, <2>2 DEF D
  <2> QED
    BY <1>7, <2>2, <2>3
<1>9. C = D
  <2>1. fulls # {}
    BY <1>3
  <2> QED
    BY <1>8, <2>1 DEF Chain
<1> HIDE DEF C, D, fulls
<1>10. \A x \in D : x \in DOMAIN runs /\ x \in Nat /\ runs[x].ds = d
  BY <1>1, <1>2 DEF D
<1>11. \A x \in D : runs[x].set = runs[i].set
  <2> DEFINE S == { x \in D : runs[x].set # runs[i].set }
  <2> SUFFICES ASSUME S # {} PROVE FALSE
    OBVIOUS
  <2>1. S \in SUBSET Nat
    BY <1>10
  <2>2. PICK x \in S : \A y \in S : x <= y
    BY <2>1, SmallestNat
  <2>3. x \in D \ {i}
    BY <2>2
  <2>4. Base(x) \in D /\ Base(x) < x /\ runs[Base(x)].set = runs[x].set
    BY <1>7, <1>10, <2>3, BaseBefore
  <2>5. Base(x) \in S /\ Base(x) \in Nat /\ x \in Nat
    BY <1>10, <2>2, <2>4
  <2> QED
    BY <2>2, <2>4, <2>5
<1>12. ASSUME NEW x \in D \ {i}
       PROVE  Base(x) < x /\ \A y \in D : y < x => y <= Base(x)
  <2>1. ~runs[x].full /\ x \in DOMAIN runs
    BY <1>7, <1>10
  <2>2. \A y \in D : y \in DOMAIN runs /\ runs[y].set = runs[x].set /\ runs[y].ds = runs[x].ds
    BY <1>10, <1>11
  <2> QED
    BY <2>1, <2>2, BaseBefore
<1>13. /\ D \in SUBSET DOMAIN runs /\ Least(D) \in D /\ runs[Least(D)].full
       /\ \A x \in D : Least(D) <= x
  BY <1>3, <1>4, <1>6, <1>10
<1>14. \A x \in D \ {Least(D)} :
         /\ ~runs[x].full /\ Base(x) \in D /\ Base(x) < x
         /\ \A y \in D : y < x => y <= Base(x)
  BY <1>6, <1>7, <1>12
<1>15. C \in SUBSET DOMAIN runs /\ Least(C) \in C /\ runs[Least(C)].full
       /\ \A x \in C : Least(C) <= x
  BY <1>9, <1>13
<1>16. \A x \in C \ {Least(C)} :
         /\ ~runs[x].full /\ Base(x) \in C /\ Base(x) < x
         /\ \A y \in C : y < x => y <= Base(x)
  BY <1>9, <1>14
<1> QED
  BY <1>15, <1>16 DEF C

\* The next stream of a restore that nothing disturbed finds what it needs.
LEMMA NextReceivable ==
  ASSUME TypeInv, ChainInv, NEW q \in Requests, UndisturbedOK(q), ~excuse[q],
         worker[q].pc \in {"locating", "receiving"}, worker[q].left # {},
         Restorable(worker[q].from, worker[q].ds)
  PROVE  Receivable(worker[q].ds, Least(worker[q].left))
<1> DEFINE w == worker[q]
           C == w.chain[w.ds]
           i == Least(w.left)
<1>1. HistoryOK /\ DOMAIN runs \subseteq Nat
  BY RunsTyped DEF TypeInv
<1>2. w.ds \in w.todo /\ w.ds \in Datasets /\ w.ds \in DOMAIN w.chain
  BY WorkerTyped DEF TypeInv
<1>3. C = Chain(Merged(w.from, w.ds))
  BY <1>2 DEF ChainInv, ChainsOK
<1>4. i \in w.left /\ \A y \in w.left : i <= y
  BY LeastLeft
<1>5. w.left \subseteq C /\ \A x \in w.left, y \in C : x <= y => y \in w.left
  BY DEF ChainInv, HandOK
<1>6. IF w.left = C THEN have[w.ds] \in {None, {}} ELSE have[w.ds] = C \ w.left
  BY DEF UndisturbedOK
<1>7. /\ C \in SUBSET DOMAIN runs /\ Least(C) \in C /\ runs[Least(C)].full
      /\ \A x \in C : Least(C) <= x
      /\ \A x \in C \ {Least(C)} :
           /\ ~runs[x].full /\ Base(x) \in C /\ Base(x) < x
           /\ \A y \in C : y < x => y <= Base(x)
  BY <1>1, <1>3, RestorableChain
<1>8. CASE w.left = C
  <2>1. i = Least(C)
    BY <1>8
  <2> QED
    BY <1>6, <1>7, <1>8, <2>1 DEF Receivable
<1>9. CASE w.left # C
  <2> DEFINE H == C \ w.left
  <2>1. have[w.ds] = H /\ H # {}
    BY <1>5, <1>6, <1>9
  <2>2. i \in C /\ i # Least(C)
    <3>1. i \in C
      BY <1>4, <1>5
    <3>2. ASSUME i = Least(C) PROVE FALSE
      <4>1. C \subseteq w.left
        BY <1>4, <1>5, <1>7, <3>2
      <4> QED
        BY <1>5, <1>9, <4>1
    <3> QED
      BY <3>1, <3>2
  <2>3. ~runs[i].full /\ Base(i) \in C /\ Base(i) < i /\ \A y \in C : y < i => y <= Base(i)
    BY <1>7, <2>2
  <2>4. i \in Nat /\ C \in SUBSET Nat
    BY <1>1, <1>7, <2>2
  <2>5. Base(i) \in H
    <3>1. Base(i) \notin w.left
      BY <1>4, <2>3, <2>4
    <3> QED
      BY <2>3, <3>1
  <2>6. \A y \in H : y < i
    <3> SUFFICES ASSUME NEW y \in H, i <= y PROVE FALSE
      BY <2>4
    <3> QED
      BY <1>4, <1>5
  <2>7. \A y \in H : y <= Base(i)
    BY <2>3, <2>6
  <2>8. Greatest(H) = Base(i)
    <3>1. H \in SUBSET (0..Len(runs)) /\ Len(runs) \in Nat /\ H \in SUBSET Nat
      BY <1>1, <1>7, <2>4, RunsTyped
    <3> HIDE DEF H
    <3>2. Greatest(H) \in H /\ Base(i) <= Greatest(H)
      BY <2>1, <2>5, <3>1, GreatestUpto
    <3>3. Greatest(H) <= Base(i)
      BY <2>7, <3>2
    <3>4. Greatest(H) \in Nat /\ Base(i) \in Nat
      BY <2>5, <3>1, <3>2
    <3> QED
      BY <3>2, <3>3, <3>4
  <2>9. H # None
    <3>1. H \in SUBSET (0..Len(runs))
      BY <1>7, RunsTyped, <1>1
    <3> QED
      BY <1>1, <3>1, SetsAreNot
  <2> HIDE DEF H
  <2> QED
    BY <2>1, <2>3, <2>8, <2>9 DEF Receivable
<1> QED
  BY <1>8, <1>9

\* One request at a time.
SoleRequest == \A q, r \in Requests : q = r

\* A report of the dataset in hand.
LEMMA CauseReported ==
  ASSUME TypeInv, ChainInv, CauseInv, SoleRequest, NEW q \in Requests, NEW ok \in BOOLEAN,
         NEW ex \in BOOLEAN, worker[q].pc \in {"locating", "receiving"},
         ~ok => ex \/ ~Restorable(worker[q].from, worker[q].ds),
         worker' = [worker EXCEPT ![q].pc = "choosing", ![q].todo = @ \ {worker[q].ds},
                                  ![q].ds = None, ![q].left = {}],
         outcomes' = outcomes \cup
           {[ds |-> worker[q].ds, from |-> worker[q].from,
             chain |-> worker[q].chain[worker[q].ds], ok |-> ok, excused |-> ex]},
         UNCHANGED <<runs, have, attached, mounted, excuse>>
  PROVE  CauseInv'
<1> DEFINE w == worker[q]
<1>1. worker \in [Requests -> Worker] /\ w \in Worker
  BY DEF TypeInv, WorkersOK
<1>2. worker'[q].pc = "choosing" /\ worker'[q].from = w.from /\ worker'[q].mounts = w.mounts
  BY <1>1 DEF Worker
<1>3. UndisturbedOK(q)'
  BY <1>2 DEF CauseInv, UndisturbedOK
<1>4. FailureHasCause'
  <2> SUFFICES ASSUME NEW o \in outcomes', ~o.ok
               PROVE  o.excused \/ ~Restorable(o.from, o.ds)'
    BY DEF FailureHasCause
  <2>1. Restorable(o.from, o.ds)' = Restorable(o.from, o.ds)
    BY DEF Restorable, Links, Merged, Base
  <2> QED
    BY <2>1 DEF CauseInv, FailureHasCause
<1> QED
  BY <1>3, <1>4 DEF CauseInv, SoleRequest

\* The same for steps that report nothing.
LEMMA CauseKeptByAll ==
  ASSUME CauseInv, UNCHANGED <<runs, outcomes>>, \A q \in Requests : UndisturbedOK(q)'
  PROVE  CauseInv'
<1>1. FailureHasCause'
  <2>1. \A V, d : Restorable(V, d)' = Restorable(V, d)
    BY DEF Restorable, Links, Merged, Base
  <2> QED
    BY <2>1 DEF CauseInv, FailureHasCause
<1> QED
  BY <1>1 DEF CauseInv

LEMMA CauseKept ==
  ASSUME CauseInv, SoleRequest, NEW q \in Requests, UndisturbedOK(q)',
         UNCHANGED <<runs, outcomes>>
  PROVE  CauseInv'
BY CauseKeptByAll DEF SoleRequest

\* A worker whose stage promises nothing.
LEMMA CauseKeptIdle ==
  ASSUME CauseInv, SoleRequest, NEW q \in Requests, UNCHANGED <<runs, outcomes>>,
         worker'[q].pc \notin {"mounting", "choosing", "locating", "receiving"}
  PROVE  CauseInv'
<1>1. UndisturbedOK(q)'
  BY DEF UndisturbedOK
<1> QED
  BY <1>1, CauseKept

LEMMA RequestCause ==
  ASSUME TypeInv, CauseInv, SoleRequest, NEW q \in Requests, Request(q)
  PROVE  CauseInv'
<1>1. worker \in [Requests -> Worker]
  BY DEF TypeInv, WorkersOK
<1>2. UNCHANGED <<runs, outcomes>>
  BY DEF Request, Ask, Register
<1>3. worker'[q].pc \in {"asking", "idle", "created"}
  <2>1. ASSUME NEW s, NEW D, NEW media, Ask(q, s, D, media) PROVE worker'[q].pc = "asking"
    BY <1>1, <2>1 DEF Ask, Idle
  <2>2. CASE Register(q)
    BY <1>1, <2>2 DEF Register, Worker, Idle
  <2> QED
    BY <2>1, <2>2 DEF Request
<1> QED
  BY <1>2, <1>3, CauseKeptIdle

\* The stream in hand is on a volume that is mounted.
LEMMA StreamThere ==
  ASSUME TypeInv, ChainInv, NEW q \in Requests, UndisturbedOK(q), ~excuse[q],
         worker[q].pc = "locating", worker[q].left # {}
  PROVE  StreamPresent(q)
<1> DEFINE w == worker[q]
           i == Least(w.left)
<1>1. w.ds \in w.todo /\ w.ds \in DOMAIN w.chain
  BY WorkerTyped DEF TypeInv
<1>2. i \in w.left
  BY LeastLeft
<1>3. w.left \subseteq w.chain[w.ds] /\ w.chain[w.ds] = Chain(Merged(w.from, w.ds))
  BY <1>1 DEF ChainInv, ChainsOK, HandOK
<1>4. i \in Merged(w.from, w.ds)
  BY <1>2, <1>3 DEF Chain
<1>5. runs[i].vol \in w.from
  BY <1>4 DEF Merged
<1>6. w.from \subseteq w.mounts /\ w.mounts \subseteq mounted /\ mounted \subseteq attached
  BY DEF UndisturbedOK, TypeInv, StoreOK
<1> QED
  BY <1>5, <1>6 DEF StreamPresent

LEMMA ReceiveCause ==
  ASSUME TypeInv, ChainInv, CauseInv, SoleRequest, NEW q \in Requests, Receive(q)
  PROVE  CauseInv'
<1> DEFINE w == worker[q]
           i == Least(w.left)
           C == w.chain[w.ds]
           H == have[w.ds]
<1>1. worker \in [Requests -> Worker] /\ w \in Worker /\ w.pc = "receiving"
  BY DEF Receive, TypeInv, WorkersOK
<1>2. w.ds \in w.todo /\ w.ds \in Datasets /\ w.ds \in DOMAIN w.chain /\ C \in SUBSET Nat
  BY <1>1, WorkerTyped DEF TypeInv
<1>3. i \in w.left /\ i \in DOMAIN runs /\ w.left \subseteq C
  BY <1>1, LeastLeft, WorkerTyped DEF TypeInv, ChainInv, HandOK
<1>4. /\ worker' = [worker EXCEPT ![q].pc = "locating", ![q].left = @ \ {i}]
      /\ have' = [have EXCEPT ![w.ds] = IF @ = None THEN {i} ELSE @ \cup {i}]
      /\ Receivable(w.ds, i) /\ UNCHANGED <<runs, outcomes, excuse, mounted>>
  BY DEF Receive
<1>5. /\ worker'[q].pc = "locating" /\ worker'[q].ds = w.ds /\ worker'[q].chain = w.chain
      /\ worker'[q].from = w.from /\ worker'[q].left = w.left \ {i}
      /\ worker'[q].mounts = w.mounts
  BY <1>1, <1>4 DEF Worker
<1>6. have'[w.ds] = IF H = None THEN {i} ELSE H \cup {i}
  BY <1>2, <1>4 DEF TypeInv, StoreOK
<1>7. Restorable(w.from, w.ds)' = Restorable(w.from, w.ds)
  <2>1. \A V, d : Restorable(V, d)' = Restorable(V, d)
    BY <1>4 DEF Restorable, Links, Merged, Base
  <2>2. PICK V, d : V = w.from /\ d = w.ds
    OBVIOUS
  <2>3. w.from' = V /\ w.ds' = d
    BY <1>5, <2>2
  <2> QED
    BY <2>1, <2>2, <2>3
<1>8. ASSUME ~excuse[q], Restorable(w.from, w.ds)
      PROVE  w.left \ {i} # C /\ have'[w.ds] = C \ (w.left \ {i})
  <2>1. IF w.left = C THEN H \in {None, {}} ELSE H = C \ w.left
    BY <1>1, <1>8 DEF CauseInv, UndisturbedOK
  <2>2. w.left \ {i} # C
    BY <1>3
  <2>3. CASE w.left = C
    <3>1. have'[w.ds] = {i}
      BY <1>6, <2>1, <2>3
    <3> QED
      BY <1>3, <2>2, <2>3, <3>1
  <2>4. CASE w.left # C
    <3>1. H = C \ w.left /\ H # None
      <4>1. C \ w.left \in SUBSET (0..Len(runs)) /\ HistoryOK
        BY <1>2, WorkerTyped, RunsTyped DEF Within, TypeInv
      <4> QED
        BY <2>1, <2>4, <4>1, SetsAreNot
    <3> QED
      BY <1>3, <1>6, <2>2, <3>1
  <2> QED
    BY <2>3, <2>4
<1>9. UndisturbedOK(q)'
  <2> SUFFICES ASSUME ~excuse'[q]
               PROVE  /\ w.from \subseteq w.mounts /\ w.mounts \subseteq mounted'
                      /\ Restorable(w.from, w.ds)' =>
                           IF w.left \ {i} = C THEN have'[w.ds] \in {None, {}}
                           ELSE have'[w.ds] = C \ (w.left \ {i})
    BY <1>5 DEF UndisturbedOK
  <2>1. ~excuse[q]
    BY <1>4
  <2>2. w.from \subseteq w.mounts /\ w.mounts \subseteq mounted'
    BY <1>1, <1>4, <2>1 DEF CauseInv, UndisturbedOK
  <2> QED
    BY <1>7, <1>8, <2>1, <2>2
<1> QED
  BY <1>4, <1>9, CauseKept

LEMMA TaskCause ==
  ASSUME TypeInv, ChainInv, CauseInv, SoleRequest, NEW q \in Requests, TaskStep(q)
  PROVE  CauseInv'
<1> DEFINE w == worker[q]
<1>1. worker \in [Requests -> Worker] /\ w \in Worker
  BY DEF TypeInv, WorkersOK
<1>2. UndisturbedOK(q) /\ excuse \in [Requests -> BOOLEAN]
  BY DEF CauseInv, TypeInv, WorkersOK
<1>3. CASE Begin(q) \/ GiveUp(q) \/ Finish(q)
  <2>1. worker'[q].pc \in {"planning", "idle"}
    BY <1>1, <1>3 DEF Begin, GiveUp, Finish, Worker, Idle
  <2>2. UNCHANGED <<runs, outcomes>>
    BY <1>3 DEF Begin, GiveUp, Finish
  <2> QED
    BY <2>1, <2>2, CauseKeptIdle
<1>4. CASE Plan(q)
  <2>1. /\ worker'[q].pc = "mounting" /\ worker'[q].from = VolumesOf(w.set)
        /\ worker'[q].set = w.set
    BY <1>1, <1>4 DEF Plan, Worker
  <2>2. UNCHANGED <<runs, attached, outcomes>>
    BY <1>4 DEF Plan
  <2>3. UndisturbedOK(q)'
    <3>1. PICK s : s = w.set
      OBVIOUS
    <3>2. VolumesOf(s)' = VolumesOf(s)
      BY <2>2 DEF VolumesOf, ListedOn, SetId
    <3>3. worker'[q].from = VolumesOf(s) /\ worker'[q].set = s
      BY <2>1, <3>1
    <3> QED
      BY <2>1, <3>2, <3>3 DEF UndisturbedOK
  <2> QED
    BY <2>2, <2>3, CauseKept
<1>5. CASE Mount(q)
  <2>1. PICK V \in SUBSET VolumesOf(w.set) :
          /\ mounted' = AfterScan \cup V
          /\ worker' = [worker EXCEPT ![q].pc = "choosing", ![q].mounts = V]
          /\ excuse' = [Disturbed EXCEPT ![q] = @ \/ V # VolumesOf(w.set)]
    BY <1>5 DEF Mount
  <2>2. /\ worker'[q].pc = "choosing" /\ worker'[q].from = w.from /\ worker'[q].mounts = V
    BY <1>1, <2>1 DEF Worker
  <2>3. w.pc = "mounting" /\ UNCHANGED <<runs, outcomes>>
    BY <1>5 DEF Mount
  <2>4. ~excuse'[q] => V = VolumesOf(w.set) /\ ~excuse[q]
    BY <1>2, <2>1, DisturbedTyped DEF TypeInv
  <2>5. UndisturbedOK(q)'
    BY <1>2, <2>1, <2>2, <2>3, <2>4 DEF UndisturbedOK
  <2> QED
    BY <2>3, <2>5, CauseKept
<1>6. ASSUME NEW d \in Datasets, Choose(q, d) PROVE CauseInv'
  <2> DEFINE C == w.chain[d]
  <2>1. /\ worker'[q].pc = "locating" /\ worker'[q].chain = w.chain /\ worker'[q].from = w.from
        /\ worker'[q].ds = d /\ worker'[q].left = C /\ worker'[q].mounts = w.mounts
        /\ w.pc = "choosing" /\ d \in w.todo
    BY <1>1, <1>6 DEF Choose, Worker
  <2>2. /\ UNCHANGED <<runs, outcomes, have, mounted>>
        /\ excuse' = [excuse EXCEPT ![q] = @ \/ (have[d] \notin {None, {}} /\ runs[Least(C)].full)]
    BY <1>6 DEF Choose
  <2>3. C = Chain(Merged(w.from, d))
    BY <2>1, WorkerTyped DEF TypeInv, ChainInv, ChainsOK
  <2>4. Restorable(w.from, d) => runs[Least(C)].full
    BY <2>3, RestorableChain DEF TypeInv
  <2>5. ~excuse'[q] => ~excuse[q] /\ (Restorable(w.from, d) => have[d] \in {None, {}})
    BY <1>2, <2>2, <2>4
  <2>6. ~excuse'[q] => w.from \subseteq w.mounts /\ w.mounts \subseteq mounted
    BY <1>2, <2>1, <2>5 DEF UndisturbedOK
  <2>7. ASSUME ~excuse'[q], Restorable(worker[q].from, worker[q].ds)'
        PROVE  have'[d] \in {None, {}}
    <3>1. \A V, e : Restorable(V, e)' = Restorable(V, e)
      BY <2>2 DEF Restorable, Links, Merged, Base
    <3>2. PICK V : V = w.from
      OBVIOUS
    <3>3. worker'[q].from = V /\ worker'[q].ds = d
      BY <2>1, <3>2
    <3>4. Restorable(V, d)
      BY <2>7, <3>1, <3>3
    <3> QED
      BY <2>2, <2>5, <2>7, <3>2, <3>4
  <2>8. UndisturbedOK(q)'
    BY <2>1, <2>2, <2>6, <2>7 DEF UndisturbedOK
  <2> QED
    BY <2>2, <2>8, CauseKept
<1>7. CASE Locate(q)
  <2>1. /\ worker'[q].pc = "receiving" /\ worker'[q].chain = w.chain /\ worker'[q].from = w.from
        /\ worker'[q].ds = w.ds /\ worker'[q].left = w.left /\ worker'[q].mounts = w.mounts
        /\ w.pc = "locating"
    BY <1>1, <1>7 DEF Locate, Worker
  <2>2. UNCHANGED <<runs, have, outcomes, excuse, mounted>>
    BY <1>7 DEF Locate
  <2>3. Restorable(w.from, w.ds)' = Restorable(w.from, w.ds)
    <3>1. \A V, e : Restorable(V, e)' = Restorable(V, e)
      BY <2>2 DEF Restorable, Links, Merged, Base
    <3>2. PICK V, e : V = w.from /\ e = w.ds
      OBVIOUS
    <3>3. w.from' = V /\ w.ds' = e
      BY <2>1, <3>2
    <3> QED
      BY <3>1, <3>2, <3>3
  <2>4. UndisturbedOK(q)'
    BY <1>2, <2>1, <2>2, <2>3 DEF UndisturbedOK
  <2> QED
    BY <2>2, <2>4, CauseKept
<1>8. CASE Restored(q)
  <2>1. PICK ok, ex : ok = TRUE /\ ex = excuse[q]
    OBVIOUS
  <2>2. EndDataset(q, ok) /\ w.pc = "locating"
    BY <1>8, <2>1 DEF Restored
  <2> QED
    BY <1>2, <2>1, <2>2, CauseReported DEF EndDataset
<1>9. CASE NotConnected(q)
  <2>1. EndDataset(q, FALSE) /\ w.pc = "locating" /\ w.left # {} /\ ~StreamPresent(q)
    BY <1>9 DEF NotConnected
  <2>2. excuse[q] \in BOOLEAN /\ excuse[q]
    BY <1>2, <2>1, StreamThere
  <2> QED
    BY <2>1, <2>2, CauseReported DEF EndDataset
<1>10. CASE ReceiveFails(q)
  <2> DEFINE refused == ~Receivable(w.ds, Least(w.left))
             ex == excuse[q] \/ ~refused
  <2>1. /\ worker' = [worker EXCEPT ![q].pc = "choosing", ![q].todo = @ \ {w.ds},
                                    ![q].ds = None, ![q].left = {}]
        /\ outcomes' = outcomes \cup
             {[ds |-> w.ds, from |-> w.from, chain |-> w.chain[w.ds], ok |-> FALSE, excused |-> ex]}
        /\ UNCHANGED <<runs, have, attached, mounted, excuse>> /\ w.pc = "receiving"
    BY <1>10 DEF ReceiveFails
  <2>2. w.left # {}
    BY <2>1, WorkerTyped DEF TypeInv
  <2>3. ex \in BOOLEAN
    BY <1>2
  <2>4. ex \/ ~Restorable(w.from, w.ds)
    BY <1>2, <2>1, <2>2, NextReceivable
  <2> HIDE DEF ex
  <2> QED
    BY <2>1, <2>3, <2>4, CauseReported
<1> QED
  BY <1>3, <1>4, <1>5, <1>6, <1>7, <1>8, <1>9, <1>10, ReceiveCause DEF TaskStep

LEMMA OthersCause ==
  ASSUME TypeInv, CauseInv,
         Scan \/ PlanPool \/ Crash \/ \E v \in Volumes : Plug(v) \/ Unplug(v)
  PROVE  CauseInv'
<1>1. CASE Scan \/ PlanPool
  <2>1. /\ UNCHANGED <<runs, attached, have, worker, outcomes>>
        /\ mounted' = AfterScan /\ excuse' = Disturbed
    BY <1>1 DEF Scan, PlanPool
  <2>2. ASSUME NEW q \in Requests PROVE UndisturbedOK(q)'
    <3> DEFINE w == worker[q]
    <3>1. ~excuse'[q] => ~excuse[q] /\ w.mounts \cap (mounted \ Busy) = {}
      BY <2>1 DEF Disturbed
    <3>2. ~excuse'[q] /\ w.mounts \subseteq mounted => w.mounts \subseteq mounted'
      BY <2>1, <3>1 DEF AfterScan
    <3>3. \A V, d : Restorable(V, d)' = Restorable(V, d)
      BY <2>1 DEF Restorable, Links, Merged, Base
    <3>4. \A s : VolumesOf(s)' = VolumesOf(s)
      BY <2>1 DEF VolumesOf, ListedOn, SetId
    <3> QED
      BY <2>1, <3>1, <3>2, <3>3, <3>4 DEF CauseInv, UndisturbedOK
  <2> QED
    BY <2>1, <2>2, CauseKeptByAll
<1>2. ASSUME NEW v \in Volumes, Plug(v) PROVE CauseInv'
  <2>1. UNCHANGED <<runs, mounted, have, worker, excuse, outcomes>> /\ attached \subseteq attached'
    BY <1>2 DEF Plug
  <2>2. \A s : VolumesOf(s) \subseteq VolumesOf(s)'
    BY <2>1 DEF VolumesOf, ListedOn, SetId
  <2>3. \A V, d : Restorable(V, d)' = Restorable(V, d)
    BY <2>1 DEF Restorable, Links, Merged, Base
  <2>4. \A q \in Requests : UndisturbedOK(q)'
    BY <2>1, <2>2, <2>3 DEF CauseInv, UndisturbedOK
  <2> QED
    BY <2>1, <2>4, CauseKeptByAll
<1>3. ASSUME NEW v \in Volumes, Unplug(v) PROVE CauseInv'
  <2>1. UNCHANGED <<runs, outcomes>> /\ \A q \in Requests : excuse'[q]
    BY <1>3 DEF Unplug
  <2>2. \A q \in Requests : UndisturbedOK(q)'
    BY <2>1 DEF UndisturbedOK
  <2> QED
    BY <2>1, <2>2, CauseKeptByAll
<1>4. CASE Crash
  <2>1. \A r \in Requests : worker'[r].pc = "idle"
    BY <1>4 DEF Crash, Idle
  <2>2. outcomes' = {}
    BY <1>4 DEF Crash
  <2> QED
    BY <2>1, <2>2 DEF CauseInv, UndisturbedOK, FailureHasCause
<1> QED
  BY <1>1, <1>2, <1>3, <1>4

\* Where one restore is under way at a time, a dataset is only given up when what
\* is listed cannot be restored or something disturbed it.
THEOREM FailureHasCauseCorrect == SoleRequest /\ Spec => []FailureHasCause
<1> SUFFICES ASSUME SoleRequest PROVE Spec => []FailureHasCause
  OBVIOUS
<1>1. Init => CauseInv
  BY DEF Init, CauseInv, UndisturbedOK, FailureHasCause, Idle
<1>2. TypeInv /\ ChainInv /\ CauseInv /\ [Next]_vars => CauseInv'
  <2> SUFFICES ASSUME TypeInv, ChainInv, CauseInv, [Next]_vars PROVE CauseInv'
    OBVIOUS
  <2>1. CASE UNCHANGED vars
    <3>1. \A V, d : Restorable(V, d)' = Restorable(V, d)
      BY <2>1 DEF vars, Restorable, Links, Merged, Base
    <3>2. \A s : VolumesOf(s)' = VolumesOf(s)
      BY <2>1 DEF vars, VolumesOf, ListedOn, SetId
    <3>3. UNCHANGED <<mounted, have, worker, excuse, outcomes>>
      BY <2>1 DEF vars
    <3>4. \A q \in Requests : UndisturbedOK(q)'
      BY <3>1, <3>2, <3>3 DEF CauseInv, UndisturbedOK
    <3> QED
      BY <3>1, <3>3, <3>4 DEF CauseInv, FailureHasCause
  <2> QED
    BY <2>1, RequestCause, TaskCause, OthersCause DEF Next
<1>3. CauseInv => FailureHasCause
  BY DEF CauseInv
<1> QED
  BY <1>1, <1>2, <1>3, TypeInvariant, ChainInvariant, PTL DEF Spec

=============================================================================
