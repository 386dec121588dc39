------------------------ MODULE BackupGroups_proofs ------------------------
(***************************************************************************)
(* Proofs about BackupGroups, for every value of its constants: what       *)
(* group_sets returns; that a running session can rely on the cycle it     *)
(* read and on the pointer it healed; that a cycle keeps its order; that a *)
(* set keeps its active disk, and is realigned when it loses it.           *)
(***************************************************************************)
EXTENDS BackupGroups, TLAPS, FiniteSetTheorems, SequenceTheorems, WellFoundedInduction

\* A table of sets whose rows are typed.
Table(R) == DOMAIN R \subseteq Ids /\ \A s \in DOMAIN R : R[s] \in SetRow

-----------------------------------------------------------------------------
(* The order of a cycle *)

LEMMA SetsFinite ==
  ASSUME NEW R, Table(R), NEW g
  PROVE  /\ SetsIn(R, g) \subseteq DOMAIN R /\ IsFiniteSet(SetsIn(R, g))
         /\ Cardinality(SetsIn(R, g)) \in Nat
<1>1. IsFiniteSet(1..MaxSets)
  BY RegistryAssumption, FS_Interval
<1>2. SetsIn(R, g) \in SUBSET (1..MaxSets)
  BY DEF Table, SetsIn, Ids
<1>3. IsFiniteSet(SetsIn(R, g))
  BY <1>1, <1>2, FS_Subset
<1> QED
  BY <1>3, FS_CardinalityType DEF SetsIn

\* Ids that differ are never at the same place, whatever their positions.
LEMMA PrecedesOrders ==
  ASSUME NEW R, Table(R), NEW s \in DOMAIN R, NEW t \in DOMAIN R
  PROVE  /\ ~ Precedes(R, s, s)
         /\ s # t => Precedes(R, s, t) \/ Precedes(R, t, s)
         /\ \A u \in DOMAIN R : Precedes(R, u, s) /\ Precedes(R, s, t) => Precedes(R, u, t)
<1>1. \A u \in DOMAIN R : u \in Nat /\ R[u].position \in Nat
  BY RegistryAssumption DEF Table, Ids, SetRow
<1> QED
  BY <1>1 DEF Precedes

\* A set that comes before another in the cycle has the lower rank.
LEMMA RankOrders ==
  ASSUME NEW R, Table(R), NEW g, NEW s \in SetsIn(R, g), NEW t \in SetsIn(R, g),
         Precedes(R, s, t)
  PROVE  Rank(R, s) < Rank(R, t)
<1> DEFINE S == SetsIn(R, g)
           B(x) == { u \in S : Precedes(R, u, x) }
<1>1. S \subseteq DOMAIN R /\ IsFiniteSet(S)
  BY SetsFinite
<1>2. Rank(R, s) = Cardinality(B(s)) /\ Rank(R, t) = Cardinality(B(t))
  BY DEF Rank, SetsIn
<1>3. /\ IsFiniteSet(B(s)) /\ Cardinality(B(s)) \in Nat
      /\ IsFiniteSet(B(t)) /\ Cardinality(B(t)) \in Nat
  BY <1>1, FS_Subset, FS_CardinalityType
<1>4. s \in DOMAIN R /\ t \in DOMAIN R
  BY <1>1
<1>5. /\ ~ Precedes(R, s, s)
      /\ \A u \in DOMAIN R : Precedes(R, u, s) /\ Precedes(R, s, t) => Precedes(R, u, t)
  BY <1>4, PrecedesOrders
<1>6. s \notin B(s) /\ B(s) \cup {s} \in SUBSET B(t)
  BY <1>1, <1>5
<1>7. Cardinality(B(s) \cup {s}) = Cardinality(B(s)) + 1
  BY <1>3, <1>6, FS_AddElement
<1>8. Cardinality(B(s) \cup {s}) <= Cardinality(B(t))
  BY <1>3, <1>6, FS_Subset
<1> HIDE DEF B
<1> QED
  BY <1>2, <1>3, <1>7, <1>8

\* Each of the n places 0 .. n-1 of a cycle is the rank of one of its n sets.
LEMMA RankPlaces ==
  ASSUME NEW R, Table(R), NEW g
  PROVE  LET S == SetsIn(R, g)
             n == Cardinality(S)
         IN  /\ \A s \in S : Rank(R, s) \in 0..(n - 1)
             /\ \A p \in 0..(n - 1) : \E s \in S : Rank(R, s) = p
<1> DEFINE S == SetsIn(R, g)
           n == Cardinality(S)
           B(s) == { t \in S : Precedes(R, t, s) }
<1>1. S \subseteq DOMAIN R /\ IsFiniteSet(S) /\ n \in Nat
  BY SetsFinite
<1>0. /\ \A s \in S : ~ Precedes(R, s, s)
      /\ \A s, t \in S : s # t => Precedes(R, s, t) \/ Precedes(R, t, s)
  BY <1>1, PrecedesOrders
<1>2. \A s \in S : Rank(R, s) = Cardinality(B(s))
  BY DEF Rank, SetsIn
<1>3. \A s \in S : IsFiniteSet(B(s)) /\ Cardinality(B(s)) \in Nat
  BY <1>1, FS_Subset, FS_CardinalityType
<1>4. \A s \in S : Cardinality(B(s)) \in 0..(n - 1)
  <2>1. TAKE s \in S
  <2>2. IsFiniteSet(S \ {s}) /\ Cardinality(S \ {s}) = n - 1
    BY <1>1, FS_RemoveElement
  <2>3. B(s) \in SUBSET (S \ {s})
    BY <1>0
  <2>4. Cardinality(B(s)) <= n - 1
    BY <2>2, <2>3, FS_Subset
  <2>5. n \in Nat /\ Cardinality(B(s)) \in Nat
    BY <1>1, <1>3
  <2> HIDE DEF B, n
  <2> QED
    BY <2>4, <2>5
<1>5. \A s, t \in S : Precedes(R, s, t) => Cardinality(B(s)) < Cardinality(B(t))
  BY <1>2, RankOrders
<1> DEFINE rank == [s \in S |-> Rank(R, s)]
<1>6. rank \in Injection(S, 0..(n - 1))
  <2>1. rank \in [S -> 0..(n - 1)]
    BY <1>2, <1>4
  <2>3. ASSUME NEW s \in S, NEW t \in S, s # t
        PROVE  Cardinality(B(s)) # Cardinality(B(t))
    <3>1. Cardinality(B(s)) < Cardinality(B(t)) \/ Cardinality(B(t)) < Cardinality(B(s))
      BY <1>0, <1>5, <2>3
    <3>2. Cardinality(B(s)) \in Nat /\ Cardinality(B(t)) \in Nat
      BY <1>3
    <3> HIDE DEF B
    <3> QED
      BY <3>1, <3>2
  <2>4. \A s, t \in S : rank[s] = rank[t] => s = t
    BY <1>2, <2>3
  <2> QED
    BY <2>1, <2>4 DEF Injection, IsInjective
<1>7. IsFiniteSet(0..(n - 1)) /\ Cardinality(0..(n - 1)) = n
  BY <1>1, FS_Interval
<1>8. rank \in Surjection(S, 0..(n - 1))
  BY <1>6, <1>7, FS_Injection
<1>9. \A p \in 0..(n - 1) : \E s \in S : rank[s] = p
  BY <1>8 DEF Surjection
<1> QED
  BY <1>2, <1>4, <1>9

\* group_sets returns the sets of the group, one at every index.
LEMMA OrderTyped ==
  ASSUME NEW R, Table(R), NEW g
  PROVE  InOrder(R, g) \in [1..Cardinality(SetsIn(R, g)) -> SetsIn(R, g)]
<1> DEFINE S == SetsIn(R, g)
           n == Cardinality(S)
<1>1. n \in Nat
  BY SetsFinite
<1>2. \A i \in 1..n : \E s \in S : Rank(R, s) = i - 1
  BY <1>1, RankPlaces
<1>3. \A i \in 1..n : (CHOOSE s \in S : Rank(R, s) = i - 1) \in S
  BY <1>2
<1> QED
  BY <1>3 DEF InOrder

LEMMA CycleNotEmpty ==
  ASSUME NEW R, Table(R), NEW g, SetsIn(R, g) # {}
  PROVE  Cardinality(SetsIn(R, g)) \in Nat \ {0} /\ InOrder(R, g)[1] \in SetsIn(R, g)
<1>1. Cardinality(SetsIn(R, g)) \in Nat \ {0}
  BY SetsFinite, FS_EmptySet
<1>2. 1 \in 1..Cardinality(SetsIn(R, g))
  BY <1>1
<1> QED
  BY <1>1, <1>2, OrderTyped

\* Renumbering changes the positions of a table and nothing else of it.
LEMMA RenumberTyped ==
  ASSUME NEW R, Table(R), NEW g
  PROVE  /\ Table(AfterRenumber(R, g)) /\ DOMAIN AfterRenumber(R, g) = DOMAIN R
         /\ \A s \in DOMAIN R : AfterRenumber(R, g)[s].group = R[s].group
<1>1. \A s \in DOMAIN R : Rank(R, s) \in Nat
  <2>1. TAKE s \in DOMAIN R
  <2>2. s \in SetsIn(R, R[s].group)
    BY DEF SetsIn
  <2>3. Rank(R, s) \in 0..(Cardinality(SetsIn(R, R[s].group)) - 1)
    BY <2>2, RankPlaces
  <2> QED
    BY <2>3, SetsFinite
<1>2. DOMAIN Renumbered(R, g) = DOMAIN R
  BY DEF Renumbered
<1>3. \A s \in DOMAIN R : Renumbered(R, g)[s] \in SetRow /\ Renumbered(R, g)[s].group = R[s].group
  <2>1. TAKE s \in DOMAIN R
  <2>2. R[s] \in SetRow /\ Rank(R, s) \in Nat
    BY <1>1 DEF Table
  <2>3. Renumbered(R, g)[s] = IF R[s].group = g THEN [R[s] EXCEPT !.position = Rank(R, s)] ELSE R[s]
    BY DEF Renumbered
  <2> QED
    BY <2>2, <2>3 DEF SetRow
<1> QED
  BY <1>2, <1>3 DEF AfterRenumber, Table

LEMMA SmallestNat ==
  ASSUME NEW S \in SUBSET Nat, S # {}
  PROVE  \E x \in S : \A y \in S : x <= y
<1> DEFINE R == { p \in Nat \X Nat : p[1] < p[2] }
<1>1. IsWellFoundedOn(R, Nat)
  BY NatLessThanWellFounded DEF OpToRel
<1>2. \A x, y \in S : <<y, x>> \notin R => x <= y
  OBVIOUS
<1> HIDE DEF R
<1>3. PICK x \in S : \A y \in S : <<y, x>> \notin R
  BY <1>1, WFMin
<1> QED
  BY <1>2, <1>3

LEMMA LargestId ==
  ASSUME NEW S \in SUBSET Ids, S # {}
  PROVE  \E x \in S : \A y \in S : y <= x
<1> DEFINE D == { MaxSets - x : x \in S }
<1>1. MaxSets \in Nat /\ \A x \in S : x \in Nat /\ x <= MaxSets
  BY RegistryAssumption DEF Ids
<1>2. D \in SUBSET Nat /\ D # {}
  BY <1>1
<1>3. \E d \in D : \A e \in D : d <= e
  BY <1>2, SmallestNat
<1>4. PICK x \in S : \A e \in D : MaxSets - x <= e
  BY <1>3
<1>5. \A y \in S : MaxSets - x <= MaxSets - y
  BY <1>4
<1> HIDE DEF D
<1>6. \A y \in S : y <= x
  BY <1>1, <1>5
<1> QED
  BY <1>6

LEMMA FirstDiskTyped ==
  ASSUME NEW K \in SUBSET Disks
  PROVE  FirstDisk(K) \in Disks \cup {None} /\ (K # {} => FirstDisk(K) \in K)
<1>1. CASE K = {}
  BY <1>1 DEF FirstDisk
<1>2. CASE K # {}
  <2>1. K \in SUBSET Nat
    BY RegistryAssumption
  <2>2. \E x \in K : \A y \in K : x <= y
    BY <1>2, <2>1, SmallestNat
  <2>3. Least(K) \in K
    BY <2>2 DEF Least
  <2> QED
    BY <1>2, <2>3 DEF FirstDisk
<1> QED
  BY <1>1, <1>2

-----------------------------------------------------------------------------
(* The inductive invariant *)

FiledOK ==
  /\ DOMAIN filed \subseteq Disks /\ \A k \in DOMAIN filed : filed[k] \in Ids \cup {None}
  /\ DOMAIN leaving \subseteq DOMAIN filed

LocalsOK ==
  /\ groups \subseteq Groups /\ running \subseteq groups
  /\ activeSet \in [Groups -> Ids \cup {None}]
  /\ needsDisk \in [Groups -> BOOLEAN]
  /\ plan \in [Groups -> Seq(Ids)]
  /\ trying \in [Groups -> [set : Ids \cup {None}, disks : SUBSET Disks]]

\* A session holds a plan only while its row says running, and a group cannot
\* lose its last set while one runs: without the first DeleteSet could take a
\* set of a plan, without the second Resolve could read an empty cycle.
SessionsOK ==
  /\ PlanIntact /\ HealedInSession
  /\ \A g \in Groups : plan[g] # NoPlan => g \in running
  /\ \A g \in running : SetsOf(g) # {}

RegistryInv == Table(sets) /\ FiledOK /\ LocalsOK /\ SessionsOK

LEMMA RegistryInvTyped == RegistryInv => TypeOK
BY DEF RegistryInv, TypeOK, Table, FiledOK, LocalsOK

\* The sets of a running group stay, and stay in it.
SetsKept ==
  \A s \in DOMAIN sets : sets[s].group \in running =>
    s \in DOMAIN sets' /\ sets'[s].group = sets[s].group

\* What a step outside of the sessions has to show.
LEMMA SessionsUndisturbed ==
  ASSUME SessionsOK, SetsKept, running \subseteq Groups,
         plan' = plan, running' = running,
         \A g \in running : plan[g] # NoPlan => activeSet'[g] \in SetsIn(sets', g)
  PROVE  SessionsOK'
<1>1. \A g \in running : SetsIn(sets, g) \subseteq SetsIn(sets', g)
  BY DEF SetsKept, SetsIn
<1>2. PlanIntact'
  <2>1. SUFFICES ASSUME NEW g \in Groups, NEW i \in DOMAIN plan[g]
                 PROVE  plan[g][i] \in SetsIn(sets', g)
    BY DEF PlanIntact, SetsOf
  <2>2. plan[g] # NoPlan
    BY DEF NoPlan
  <2>3. g \in running
    BY <2>2 DEF SessionsOK
  <2>4. plan[g][i] \in SetsIn(sets, g)
    BY DEF SessionsOK, PlanIntact, SetsOf
  <2> QED
    BY <1>1, <2>3, <2>4
<1>3. HealedInSession'
  BY DEF SessionsOK, HealedInSession, SetsOf
<1>4. \A g \in running : SetsIn(sets, g) # {}
  BY DEF SessionsOK, SetsOf
<1>5. \A g \in running : SetsIn(sets', g) # {}
  BY <1>1, <1>4
<1> QED
  BY <1>2, <1>3, <1>5 DEF SessionsOK, SetsOf

\* A step that leaves the groups of the sets and the pointers of the running
\* groups alone does not disturb a session.
LEMMA GroupsOfSetsKept ==
  ASSUME RegistryInv, DOMAIN sets' = DOMAIN sets,
         \A s \in DOMAIN sets : sets'[s].group = sets[s].group,
         plan' = plan, running' = running, activeSet' = activeSet
  PROVE  SessionsOK'
<1>1. SetsKept
  BY DEF SetsKept
<1>2. \A g \in Groups : SetsIn(sets', g) = SetsIn(sets, g)
  BY DEF SetsIn
<1>3. SessionsOK /\ running \subseteq Groups
  BY DEF RegistryInv, LocalsOK
<1>4. \A g \in running : plan[g] # NoPlan => activeSet'[g] \in SetsIn(sets', g)
  BY <1>2, <1>3 DEF SessionsOK, HealedInSession, SetsOf
<1> QED
  BY <1>1, <1>3, <1>4, SessionsUndisturbed

-----------------------------------------------------------------------------
(* Groups and sets *)

LEMMA CreateGroupInv ==
  ASSUME RegistryInv, NEW g \in Groups, CreateGroup(g)
  PROVE  RegistryInv'
<1>1. Table(sets)' /\ FiledOK'
  BY DEF RegistryInv, CreateGroup, Table, FiledOK
<1>2. LocalsOK'
  BY DEF RegistryInv, CreateGroup, LocalsOK
<1>3. SessionsOK /\ running \subseteq groups /\ groups \subseteq Groups
  BY DEF RegistryInv, LocalsOK
<1>4. \A h \in running : activeSet'[h] = activeSet[h]
  BY <1>3 DEF RegistryInv, CreateGroup, LocalsOK
<1>5. \A h \in running : plan[h] # NoPlan => activeSet[h] \in SetsIn(sets, h)
  BY <1>3 DEF SessionsOK, HealedInSession, SetsOf
<1>6. SetsKept /\ sets' = sets /\ plan' = plan /\ running' = running
  BY DEF CreateGroup, SetsKept
<1>7. SessionsOK'
  BY <1>3, <1>4, <1>5, <1>6, SessionsUndisturbed
<1> QED
  BY <1>1, <1>2, <1>7 DEF RegistryInv

LEMMA DeleteGroupInv ==
  ASSUME RegistryInv, NEW g \in Groups, DeleteGroup(g)
  PROVE  RegistryInv'
<1>1. Table(sets)'
  BY DEF RegistryInv, DeleteGroup, Table, Without
<1>2. FiledOK'
  BY DEF RegistryInv, DeleteGroup, FiledOK
<1>3. LocalsOK'
  BY DEF RegistryInv, DeleteGroup, LocalsOK
<1>4. SessionsOK /\ running \subseteq groups /\ groups \subseteq Groups
  BY DEF RegistryInv, LocalsOK
<1>5. sets' = Without(sets, SetsOf(g)) /\ g \notin running
  BY DEF DeleteGroup
<1>6. SetsKept
  BY <1>5 DEF SetsKept, Without, SetsOf, SetsIn
<1>7. \A h \in running : plan[h] # NoPlan => activeSet[h] \in SetsIn(sets, h)
  BY <1>4 DEF SessionsOK, HealedInSession, SetsOf
<1>8. \A h \in running : SetsIn(sets, h) \subseteq SetsIn(sets', h)
  BY <1>6 DEF SetsKept, SetsIn
<1>9. SessionsOK'
  BY <1>4, <1>6, <1>7, <1>8, SessionsUndisturbed DEF DeleteGroup
<1> QED
  BY <1>1, <1>2, <1>3, <1>9 DEF RegistryInv

\* SQLite gives no new set the id of one that is there ...
LEMMA NextIdFresh ==
  ASSUME RegistryInv
  PROVE  NextId \notin DOMAIN sets
<1>1. SUFFICES ASSUME NextId \in DOMAIN sets
               PROVE  FALSE
  OBVIOUS
<1> DEFINE m == Greatest(DOMAIN sets)
<1>2. DOMAIN sets \in SUBSET Ids /\ Ids \subseteq Nat
  BY RegistryAssumption DEF RegistryInv, Table, Ids
<1>3. \E x \in DOMAIN sets : \A y \in DOMAIN sets : y <= x
  BY <1>1, <1>2, LargestId
<1>4. m \in DOMAIN sets /\ \A y \in DOMAIN sets : y <= m
  BY <1>3 DEF Greatest
<1>5. NextId = m + 1 /\ NextId <= m
  BY <1>1, <1>4 DEF NextId
<1>6. m \in Nat
  BY <1>2, <1>4
<1> HIDE DEF m
<1> QED
  BY <1>5, <1>6

\* ... so that inserting its row leaves the others as they are.
LEMMA NewTable ==
  ASSUME RegistryInv, NEW g \in Groups, NEW p \in 0..MaxPosition, NextId \in Ids
  PROVE  LET row == [group |-> g, position |-> p, active |-> None]
             R == Override(sets, [t \in {NextId} |-> row])
         IN  Table(R) /\ DOMAIN R = DOMAIN sets \cup {NextId}
             /\ \A t \in DOMAIN sets : R[t] = sets[t]
<1> DEFINE s == NextId
           row == [group |-> g, position |-> p, active |-> None]
           R == Override(sets, [t \in {s} |-> row])
<1>1. s \notin DOMAIN sets
  BY NextIdFresh
<1>2. DOMAIN R = DOMAIN sets \cup {s} /\ R[s] = row /\ \A t \in DOMAIN sets : R[t] = sets[t]
  BY <1>1 DEF Override
<1>3. row \in SetRow
  BY RegistryAssumption DEF SetRow
<1>4. Table(R)
  BY <1>2, <1>3 DEF RegistryInv, Table
<1> QED
  BY <1>2, <1>4

LEMMA CreateSetInv ==
  ASSUME RegistryInv, NEW g \in Groups, NEW p \in 0..MaxPosition, CreateSet(g, p)
  PROVE  RegistryInv'
<1> DEFINE s == NextId
           row == [group |-> g, position |-> p, active |-> None]
           R == Override(sets, [t \in {s} |-> row])
<1>1. /\ s \in Ids /\ sets' = AfterRenumber(R, g)
      /\ activeSet' \in {activeSet, [activeSet EXCEPT ![g] = s]}
      /\ activeSet[g] # None => activeSet' = activeSet
      /\ filed' = filed /\ leaving' = leaving /\ plan' = plan /\ running' = running
      /\ groups' = groups /\ needsDisk' = needsDisk /\ trying' = trying
  BY DEF CreateSet
<1>2. Table(R) /\ DOMAIN R = DOMAIN sets \cup {s} /\ \A t \in DOMAIN sets : R[t] = sets[t]
  BY <1>1, NewTable
<1> HIDE DEF R, row, s
<1>3. Table(sets')
  BY <1>1, <1>2, RenumberTyped
<1>4. DOMAIN sets' = DOMAIN sets \cup {s}
      /\ \A t \in DOMAIN sets : sets'[t].group = sets[t].group
  BY <1>1, <1>2, RenumberTyped
<1>5. FiledOK' /\ LocalsOK'
  BY <1>1 DEF RegistryInv, FiledOK, LocalsOK
<1>6. SessionsOK'
  <2>1. SessionsOK /\ running \subseteq Groups
    BY DEF RegistryInv, LocalsOK
  <2>2. SetsKept
    BY <1>4 DEF SetsKept
  <2>3. \A h \in running : SetsIn(sets, h) \subseteq SetsIn(sets', h)
    BY <2>2 DEF SetsKept, SetsIn
  <2>4. ASSUME NEW h \in running, plan[h] # NoPlan
        PROVE  activeSet[h] \in SetsIn(sets, h) /\ activeSet'[h] = activeSet[h]
    <3>1. activeSet[h] \in SetsIn(sets, h)
      BY <2>1, <2>4 DEF SessionsOK, HealedInSession, SetsOf
    <3>2. activeSet[h] # None
      BY <3>1, RegistryAssumption DEF RegistryInv, Table, SetsIn, Ids
    <3> QED
      BY <1>1, <3>1, <3>2 DEF RegistryInv, LocalsOK
  <2> QED
    BY <1>1, <2>1, <2>2, <2>3, <2>4, SessionsUndisturbed
<1> QED
  BY <1>3, <1>5, <1>6 DEF RegistryInv

LEMMA UpdateSetInv ==
  ASSUME RegistryInv, NEW s \in DOMAIN sets, NEW p \in 0..MaxPosition, UpdateSet(s, p)
  PROVE  RegistryInv'
<1> DEFINE R == [sets EXCEPT ![s].position = p]
<1>1. /\ sets' = AfterRenumber(R, sets[s].group) /\ filed' = filed /\ leaving' = leaving
      /\ plan' = plan /\ running' = running /\ activeSet' = activeSet
      /\ groups' = groups /\ needsDisk' = needsDisk /\ trying' = trying
  BY DEF UpdateSet
<1>2. p \in Nat
  BY RegistryAssumption
<1>3. \A t \in DOMAIN sets : sets[t] \in SetRow
  BY DEF RegistryInv, Table
<1>4. DOMAIN R = DOMAIN sets
      /\ \A t \in DOMAIN sets : R[t] = IF t = s THEN [sets[s] EXCEPT !.position = p] ELSE sets[t]
  OBVIOUS
<1>5. \A t \in DOMAIN sets : R[t] \in SetRow /\ R[t].group = sets[t].group
  BY <1>2, <1>3, <1>4 DEF SetRow
<1>6. Table(R)
  BY <1>4, <1>5 DEF RegistryInv, Table
<1> HIDE DEF R
<1>7. Table(sets') /\ DOMAIN sets' = DOMAIN sets
      /\ \A t \in DOMAIN sets : sets'[t].group = sets[t].group
  BY <1>1, <1>4, <1>5, <1>6, RenumberTyped
<1>8. FiledOK' /\ LocalsOK'
  BY <1>1 DEF RegistryInv, FiledOK, LocalsOK
<1>9. SessionsOK'
  BY <1>1, <1>7, GroupsOfSetsKept
<1> QED
  BY <1>7, <1>8, <1>9 DEF RegistryInv

LEMMA DeleteSetInv ==
  ASSUME RegistryInv, NEW s \in DOMAIN sets, DeleteSet(s)
  PROVE  RegistryInv'
<1> DEFINE g == sets[s].group
           R == Without(sets, {s})
           first == IF SetsIn(R, g) = {} THEN None ELSE InOrder(R, g)[1]
<1>1. /\ g \notin running /\ sets' = AfterRenumber(R, g)
      /\ filed' = [k \in DOMAIN filed |-> IF filed[k] = s THEN None ELSE filed[k]]
      /\ activeSet' \in {activeSet, [activeSet EXCEPT ![g] = first]}
      /\ needsDisk' \in {needsDisk, [needsDisk EXCEPT ![g] = FALSE]}
      /\ leaving' = leaving /\ plan' = plan /\ running' = running
      /\ groups' = groups /\ trying' = trying
  BY DEF DeleteSet
<1>2. DOMAIN R = DOMAIN sets \ {s} /\ \A t \in DOMAIN R : R[t] = sets[t]
  BY DEF Without
<1>3. Table(R)
  BY <1>2 DEF RegistryInv, Table
<1>4. first \in Ids \cup {None}
  BY <1>3, CycleNotEmpty DEF Table, SetsIn
<1> HIDE DEF R, first
<1>5. Table(sets')
  BY <1>1, <1>3, RenumberTyped
<1>6. DOMAIN sets' = DOMAIN sets \ {s} /\ \A t \in DOMAIN sets' : sets'[t].group = sets[t].group
  BY <1>1, <1>2, <1>3, RenumberTyped
<1>7. FiledOK'
  BY <1>1 DEF RegistryInv, FiledOK
<1>8. LocalsOK'
  <2>1. LocalsOK
    BY DEF RegistryInv
  <2>2. activeSet' \in [Groups -> Ids \cup {None}]
    BY <1>1, <1>4, <2>1 DEF LocalsOK
  <2>3. needsDisk' \in [Groups -> BOOLEAN]
    BY <1>1, <2>1 DEF LocalsOK
  <2> QED
    BY <1>1, <2>1, <2>2, <2>3 DEF LocalsOK
<1>9. SessionsOK'
  <2>1. SessionsOK /\ running \subseteq Groups
    BY DEF RegistryInv, LocalsOK
  <2>2. SetsKept
    BY <1>1, <1>6 DEF SetsKept
  <2>3. \A h \in running : SetsIn(sets, h) \subseteq SetsIn(sets', h)
    BY <2>2 DEF SetsKept, SetsIn
  <2>4. \A h \in running : activeSet'[h] = activeSet[h]
    BY <1>1, <2>1 DEF RegistryInv, LocalsOK
  <2>5. \A h \in running : plan[h] # NoPlan => activeSet[h] \in SetsIn(sets, h)
    BY <2>1 DEF SessionsOK, HealedInSession, SetsOf
  <2> QED
    BY <1>1, <2>1, <2>2, <2>3, <2>4, <2>5, SessionsUndisturbed
<1> QED
  BY <1>5, <1>7, <1>8, <1>9 DEF RegistryInv

LEMMA ActivateSetInv ==
  ASSUME RegistryInv, NEW s \in DOMAIN sets, ActivateSet(s)
  PROVE  RegistryInv'
<1> DEFINE g == sets[s].group
<1>1. /\ activeSet' = [activeSet EXCEPT ![g] = s]
      /\ needsDisk' = [needsDisk EXCEPT ![g] = FALSE]
      /\ sets' = sets /\ filed' = filed /\ leaving' = leaving /\ plan' = plan
      /\ running' = running /\ groups' = groups /\ trying' = trying
  BY DEF ActivateSet
<1>2. s \in Ids /\ Table(sets') /\ s \in SetsIn(sets, g)
  BY <1>1 DEF RegistryInv, Table, SetsIn
<1>3. FiledOK' /\ LocalsOK'
  BY <1>1, <1>2 DEF RegistryInv, FiledOK, LocalsOK
<1>4. SessionsOK'
  <2>1. SessionsOK /\ running \subseteq Groups
    BY DEF RegistryInv, LocalsOK
  <2>2. SetsKept
    BY <1>1 DEF SetsKept
  <2>3. \A h \in running : plan[h] # NoPlan => activeSet[h] \in SetsIn(sets, h)
    BY <2>1 DEF SessionsOK, HealedInSession, SetsOf
  <2>4. \A h \in running : activeSet'[h] = IF h = g THEN s ELSE activeSet[h]
    BY <1>1, <2>1 DEF RegistryInv, LocalsOK
  <2>5. \A h \in running : plan[h] # NoPlan => activeSet'[h] \in SetsIn(sets', h)
    BY <1>1, <1>2, <2>3, <2>4
  <2> QED
    BY <1>1, <2>1, <2>2, <2>5, SessionsUndisturbed
<1> QED
  BY <1>2, <1>3, <1>4 DEF RegistryInv

-----------------------------------------------------------------------------
(* Disks *)

\* A step that changes at most the active disk of sets.
LEMMA ActiveDiskStep ==
  ASSUME RegistryInv, DOMAIN sets' = DOMAIN sets,
         \A s \in DOMAIN sets :
           \E a \in Disks \cup {None} : sets'[s] = [sets[s] EXCEPT !.active = a],
         plan' = plan, running' = running, activeSet' = activeSet
  PROVE  Table(sets') /\ SessionsOK'
<1>1. \A s \in DOMAIN sets : sets[s] \in SetRow
  BY DEF RegistryInv, Table
<1>2. \A s \in DOMAIN sets : sets'[s] \in SetRow /\ sets'[s].group = sets[s].group
  BY <1>1 DEF SetRow
<1>3. Table(sets')
  BY <1>2 DEF RegistryInv, Table
<1> QED
  BY <1>2, <1>3, GroupsOfSetsKept

\* A set to which a step gives the active disk a, the others being left alone.
LEMMA OneActiveDisk ==
  ASSUME RegistryInv, NEW s, NEW a \in Disks \cup {None},
         sets' = [sets EXCEPT ![s].active = a],
         plan' = plan, running' = running, activeSet' = activeSet
  PROVE  Table(sets') /\ SessionsOK'
<1>1. \A t \in DOMAIN sets : sets[t] \in SetRow
  BY DEF RegistryInv, Table
<1>2. \A t \in DOMAIN sets : sets[t] = [sets[t] EXCEPT !.active = sets[t].active]
                             /\ sets[t].active \in Disks \cup {None}
  BY <1>1 DEF SetRow
<1>3. \A t \in DOMAIN sets :
        \E b \in Disks \cup {None} : sets'[t] = [sets[t] EXCEPT !.active = b]
  BY <1>2
<1> QED
  BY <1>3, ActiveDiskStep

LEMMA NoActiveDisk ==
  ASSUME RegistryInv, sets' = sets, plan' = plan, running' = running, activeSet' = activeSet
  PROVE  Table(sets') /\ SessionsOK'
BY GroupsOfSetsKept DEF RegistryInv

LEMMA DeclareDiskInv ==
  ASSUME RegistryInv, NEW k \in Disks, NEW s \in DOMAIN sets \cup {None}, DeclareDisk(k, s)
  PROVE  RegistryInv'
<1>1. /\ filed' = Override(filed, [x \in {k} |-> s])
      /\ sets' = sets \/ sets' = [sets EXCEPT ![s].active = k]
      /\ activeSet' = activeSet /\ needsDisk' = needsDisk /\ leaving' = leaving
      /\ plan' = plan /\ running' = running /\ groups' = groups /\ trying' = trying
  BY DEF DeclareDisk
<1>2. Table(sets') /\ SessionsOK'
  BY <1>1, OneActiveDisk, NoActiveDisk
<1>3. FiledOK'
  BY <1>1 DEF RegistryInv, FiledOK, Table, Override
<1>4. LocalsOK'
  BY <1>1 DEF RegistryInv, LocalsOK
<1> QED
  BY <1>2, <1>3, <1>4 DEF RegistryInv

LEMMA AttachDiskInv ==
  ASSUME RegistryInv, NEW s \in DOMAIN sets, NEW k \in DOMAIN filed, AttachDisk(s, k)
  PROVE  RegistryInv'
<1> DEFINE from == filed[k]
           moved == [filed EXCEPT ![k] = s]
           left == DisksIn(moved, from)
           R == IF sets[s].active = None THEN [sets EXCEPT ![s].active = k] ELSE sets
           leaves == from \in DOMAIN sets \ {s}
<1>1. /\ filed' = moved
      /\ sets' = IF leaves THEN [R EXCEPT ![from].active = RealignedActive(@, left)] ELSE R
      /\ needsDisk' \in {needsDisk, [needsDisk EXCEPT ![sets[from].group] = TRUE]}
      /\ activeSet' = activeSet /\ leaving' = leaving
      /\ plan' = plan /\ running' = running /\ groups' = groups /\ trying' = trying
  BY DEF AttachDisk
<1>2. FiledOK'
  BY <1>1 DEF RegistryInv, FiledOK, Table
<1>3. LocalsOK'
  BY <1>1 DEF RegistryInv, LocalsOK
<1>4. k \in Disks /\ left \in SUBSET Disks
  BY DEF RegistryInv, FiledOK, DisksIn
<1> HIDE DEF left
<1>5. \A t \in DOMAIN sets : sets[t] \in SetRow
  BY DEF RegistryInv, Table
<1>6. \A t \in DOMAIN sets : sets[t] = [sets[t] EXCEPT !.active = sets[t].active]
                             /\ sets[t].active \in Disks \cup {None}
  BY <1>5 DEF SetRow
<1>7. RealignedActive(sets[from].active, left) \in Disks \cup {None} \/ from \notin DOMAIN sets
  BY <1>4, <1>6, FirstDiskTyped DEF RealignedActive
<1>8. DOMAIN sets' = DOMAIN sets
  BY <1>1
<1>9. ASSUME NEW t \in DOMAIN sets
      PROVE  \E a \in Disks \cup {None} : sets'[t] = [sets[t] EXCEPT !.active = a]
  <2>1. CASE leaves /\ t = from
    <3>1. sets'[t] = [sets[t] EXCEPT !.active = RealignedActive(sets[t].active, left)]
      BY <1>1, <2>1
    <3> QED
      BY <1>7, <2>1, <3>1
  <2>2. CASE t = s /\ sets[s].active = None
    <3>1. sets'[t] = [sets[t] EXCEPT !.active = k]
      BY <1>1, <2>2
    <3> QED
      BY <1>4, <3>1
  <2>3. CASE ~ (leaves /\ t = from) /\ ~ (t = s /\ sets[s].active = None)
    <3>1. sets'[t] = sets[t]
      BY <1>1, <2>3
    <3> QED
      BY <1>6, <3>1
  <2> QED
    BY <2>1, <2>2, <2>3
<1>10. Table(sets') /\ SessionsOK'
  BY <1>1, <1>8, <1>9, ActiveDiskStep
<1> QED
  BY <1>2, <1>3, <1>10 DEF RegistryInv

LEMMA BeginDeregisterInv ==
  ASSUME RegistryInv, NEW k \in DOMAIN filed, BeginDeregister(k)
  PROVE  RegistryInv'
<1>1. Table(sets') /\ SessionsOK'
  BY NoActiveDisk DEF BeginDeregister
<1>2. FiledOK'
  BY DEF RegistryInv, BeginDeregister, FiledOK, Override
<1>3. LocalsOK'
  BY DEF RegistryInv, BeginDeregister, LocalsOK
<1> QED
  BY <1>1, <1>2, <1>3 DEF RegistryInv

LEMMA DetachDiskInv ==
  ASSUME RegistryInv, NEW s \in DOMAIN sets, NEW k \in DOMAIN filed, DetachDisk(s, k)
  PROVE  RegistryInv'
<1>1. Table(sets') /\ SessionsOK'
  BY NoActiveDisk DEF DetachDisk
<1>2. FiledOK'
  BY DEF RegistryInv, DetachDisk, FiledOK, Override
<1>3. LocalsOK'
  BY DEF RegistryInv, DetachDisk, LocalsOK
<1> QED
  BY <1>1, <1>2, <1>3 DEF RegistryInv

LEMMA EndDeregisterInv ==
  ASSUME RegistryInv, NEW k \in DOMAIN leaving, EndDeregister(k)
  PROVE  RegistryInv'
<1> DEFINE s == leaving[k]
           rest == DisksIn(filed, s) \ {k}
<1>1. /\ filed' = Without(filed, {k}) /\ leaving' = Without(leaving, {k})
      /\ sets' = sets \/ sets' = [sets EXCEPT ![s].active = FirstDisk(rest)]
      /\ needsDisk' \in {needsDisk, [needsDisk EXCEPT ![sets[s].group] = TRUE]}
      /\ activeSet' = activeSet
      /\ plan' = plan /\ running' = running /\ groups' = groups /\ trying' = trying
  BY DEF EndDeregister
<1>2. rest \in SUBSET Disks
  BY DEF RegistryInv, FiledOK, DisksIn
<1>3. FirstDisk(rest) \in Disks \cup {None}
  BY <1>2, FirstDiskTyped
<1>4. Table(sets') /\ SessionsOK'
  BY <1>1, <1>3, OneActiveDisk, NoActiveDisk
<1>5. FiledOK'
  BY <1>1 DEF RegistryInv, FiledOK, Without
<1>6. LocalsOK'
  BY <1>1 DEF RegistryInv, LocalsOK
<1> QED
  BY <1>4, <1>5, <1>6 DEF RegistryInv

LEMMA ChooseActiveDiskInv ==
  ASSUME RegistryInv, NEW s \in DOMAIN sets, NEW k \in DOMAIN filed, ChooseActiveDisk(s, k)
  PROVE  RegistryInv'
<1>1. k \in Disks
  BY DEF RegistryInv, FiledOK
<1>2. Table(sets') /\ SessionsOK'
  BY <1>1, OneActiveDisk DEF ChooseActiveDisk
<1>3. FiledOK' /\ LocalsOK'
  BY DEF RegistryInv, ChooseActiveDisk, FiledOK, LocalsOK
<1> QED
  BY <1>2, <1>3 DEF RegistryInv

-----------------------------------------------------------------------------
(* Sessions *)

LEMMA StartSessionInv ==
  ASSUME RegistryInv, NEW g \in Groups, StartSession(g)
  PROVE  RegistryInv'
<1>1. /\ g \in groups /\ SetsIn(sets, g) # {} /\ running' = running \cup {g}
      /\ sets' = sets /\ filed' = filed /\ leaving' = leaving /\ activeSet' = activeSet
      /\ plan' = plan /\ groups' = groups /\ needsDisk' = needsDisk /\ trying' = trying
  BY DEF StartSession, SetsOf
<1>2. Table(sets') /\ FiledOK' /\ LocalsOK'
  BY <1>1 DEF RegistryInv, FiledOK, LocalsOK
<1>3. PlanIntact' /\ HealedInSession'
  BY <1>1 DEF RegistryInv, SessionsOK, PlanIntact, HealedInSession, SetsOf
<1>4. /\ \A h \in Groups : plan[h] # NoPlan => h \in running
      /\ \A h \in running : SetsIn(sets, h) # {}
  BY DEF RegistryInv, SessionsOK, SetsOf
<1>5. SessionsOK'
  BY <1>1, <1>3, <1>4 DEF SessionsOK, SetsOf
<1> QED
  BY <1>2, <1>5 DEF RegistryInv

\* The plan is the cycle turned: its places all hold sets of the group.
LEMMA ResolveInv ==
  ASSUME RegistryInv, NEW g \in Groups, Resolve(g)
  PROVE  RegistryInv'
<1> DEFINE S == SetsIn(sets, g)
           n == Cardinality(S)
           order == InOrder(sets, g)
           start == IF activeSet[g] \in S THEN Rank(sets, activeSet[g]) ELSE 0
           turned == [i \in 1..n |-> order[((start + i - 1) % n) + 1]]
<1>1. /\ g \in running
      /\ plan' = [plan EXCEPT ![g] = turned]
      /\ activeSet' = [activeSet EXCEPT ![g] = order[start + 1]]
      /\ sets' = sets /\ filed' = filed /\ leaving' = leaving /\ running' = running
      /\ groups' = groups /\ needsDisk' = needsDisk /\ trying' = trying
  BY DEF Resolve, SetsOf
<1>2. Table(sets) /\ S # {}
  BY <1>1 DEF RegistryInv, SessionsOK, SetsOf
<1>3. n \in Nat \ {0} /\ order \in [1..n -> S]
  BY <1>2, CycleNotEmpty, OrderTyped
<1>4. \A s \in S : Rank(sets, s) \in 0..(n - 1)
  BY <1>2, RankPlaces
<1>5. start \in 0..(n - 1)
  BY <1>3, <1>4
<1>6. S \subseteq Ids
  BY <1>2 DEF Table, SetsIn
<1> HIDE DEF S, n, order, start
<1>7. \A i \in 1..n : (start + i - 1) % n \in 0..(n - 1)
  BY <1>3, <1>5
<1>8. \A i \in 1..n : ((start + i - 1) % n) + 1 \in 1..n
  BY <1>3, <1>7
<1>9. start + 1 \in 1..n
  BY <1>3, <1>5
<1>10. order[start + 1] \in S
  BY <1>3, <1>9
<1>11. turned \in [1..n -> S]
  BY <1>3, <1>8
<1>12. turned \in Seq(Ids) /\ DOMAIN turned = 1..n /\ \A i \in DOMAIN turned : turned[i] \in S
  BY <1>3, <1>6, <1>11
<1> HIDE DEF turned
<1>13. \A h \in Groups : plan'[h] = IF h = g THEN turned ELSE plan[h]
  BY <1>1 DEF RegistryInv, LocalsOK
<1>14. \A h \in Groups : activeSet'[h] = IF h = g THEN order[start + 1] ELSE activeSet[h]
  BY <1>1 DEF RegistryInv, LocalsOK
<1>15. Table(sets') /\ FiledOK'
  BY <1>1 DEF RegistryInv, FiledOK
<1>16. LocalsOK'
  <2>1. order[start + 1] \in Ids /\ LocalsOK
    BY <1>6, <1>10 DEF RegistryInv
  <2>2. activeSet' \in [Groups -> Ids \cup {None}]
    BY <1>1, <2>1 DEF LocalsOK
  <2>3. plan' \in [Groups -> Seq(Ids)]
    BY <1>1, <1>12, <2>1 DEF LocalsOK
  <2> QED
    BY <1>1, <2>1, <2>2, <2>3 DEF LocalsOK
<1>17. SessionsOK'
  <2>1. SessionsOK
    BY DEF RegistryInv
  <2>2. \A i \in DOMAIN turned : turned[i] \in SetsIn(sets, g)
    BY <1>12 DEF S
  <2>3. PlanIntact'
    BY <1>1, <1>13, <2>1, <2>2 DEF SessionsOK, PlanIntact, SetsOf
  <2>4. order[start + 1] \in SetsIn(sets, g)
    BY <1>10 DEF S
  <2>5. HealedInSession'
    BY <1>1, <1>13, <1>14, <2>1, <2>4 DEF SessionsOK, HealedInSession, SetsOf
  <2>6. \A h \in Groups : plan'[h] # NoPlan => h \in running
    BY <1>1, <1>13, <2>1 DEF SessionsOK
  <2>7. \A h \in running : SetsIn(sets', h) # {}
    BY <1>1, <2>1 DEF SessionsOK, SetsOf
  <2> QED
    BY <1>1, <2>3, <2>5, <2>6, <2>7 DEF SessionsOK, SetsOf
<1> QED
  BY <1>15, <1>16, <1>17 DEF RegistryInv

\* The steps of a session between Resolve and its end that touch no set.
LEMMA TryDisksInv ==
  ASSUME RegistryInv, NEW g \in Groups, NEW s \in DOMAIN sets, TryDisks(g, s)
  PROVE  RegistryInv'
<1>1. /\ trying' = [trying EXCEPT ![g] = [set |-> s, disks |-> DisksIn(filed, s)]]
      /\ sets' = sets /\ filed' = filed /\ leaving' = leaving /\ activeSet' = activeSet
      /\ plan' = plan /\ running' = running /\ groups' = groups /\ needsDisk' = needsDisk
  BY DEF TryDisks
<1>2. Table(sets') /\ SessionsOK'
  BY <1>1, NoActiveDisk
<1>3. s \in Ids /\ DisksIn(filed, s) \in SUBSET Disks
  BY DEF RegistryInv, Table, FiledOK, DisksIn
<1>4. FiledOK' /\ LocalsOK'
  BY <1>1, <1>3 DEF RegistryInv, FiledOK, LocalsOK
<1> QED
  BY <1>2, <1>4 DEF RegistryInv

LEMMA DiskMountedInv ==
  ASSUME RegistryInv, NEW g \in Groups, NEW k \in Disks, DiskMounted(g, k)
  PROVE  RegistryInv'
<1>1. /\ sets' = [sets EXCEPT ![trying[g].set].active = k]
      /\ trying' = [trying EXCEPT ![g] = NoTry]
      /\ filed' = filed /\ leaving' = leaving /\ activeSet' = activeSet
      /\ plan' = plan /\ running' = running /\ groups' = groups /\ needsDisk' = needsDisk
  BY DEF DiskMounted
<1>2. Table(sets') /\ SessionsOK'
  BY <1>1, OneActiveDisk
<1>3. FiledOK' /\ LocalsOK'
  BY <1>1 DEF RegistryInv, FiledOK, LocalsOK, NoTry
<1> QED
  BY <1>2, <1>3 DEF RegistryInv

LEMMA NoneMountsInv ==
  ASSUME RegistryInv, NEW g \in Groups, NoneMounts(g)
  PROVE  RegistryInv'
<1>1. /\ trying' = [trying EXCEPT ![g] = NoTry]
      /\ sets' = sets /\ filed' = filed /\ leaving' = leaving /\ activeSet' = activeSet
      /\ plan' = plan /\ running' = running /\ groups' = groups /\ needsDisk' = needsDisk
  BY DEF NoneMounts
<1>2. Table(sets') /\ SessionsOK'
  BY <1>1, NoActiveDisk
<1>3. FiledOK' /\ LocalsOK'
  BY <1>1 DEF RegistryInv, FiledOK, LocalsOK, NoTry
<1> QED
  BY <1>2, <1>3 DEF RegistryInv

\* The plans and the running rows of the groups a step ends are gone; the
\* other groups keep theirs, and their pointers.
LEMMA SessionsEnd ==
  ASSUME RegistryInv, sets' = sets, NEW E \in SUBSET Groups,
         running' = running \ E,
         plan' = [g \in Groups |-> IF g \in E THEN NoPlan ELSE plan[g]],
         \A g \in Groups \ E : activeSet'[g] = activeSet[g]
  PROVE  SessionsOK' /\ plan' \in [Groups -> Seq(Ids)]
<1>1. SessionsOK /\ running \subseteq Groups
  BY DEF RegistryInv, LocalsOK
<1>2. PlanIntact'
  BY <1>1 DEF SessionsOK, PlanIntact, NoPlan, SetsOf
<1>3. HealedInSession'
  BY <1>1 DEF SessionsOK, HealedInSession, SetsOf
<1>4. SessionsOK'
  BY <1>1, <1>2, <1>3 DEF SessionsOK, SetsOf
<1>5. NoPlan \in Seq(Ids)
  BY DEF NoPlan
<1>6. plan' \in [Groups -> Seq(Ids)]
  BY <1>5 DEF RegistryInv, LocalsOK
<1> QED
  BY <1>4, <1>6

\* The place after the last target, counted round the cycle.
LEMMA RotateInv ==
  ASSUME RegistryInv, NEW g \in Groups, Rotate(g)
  PROVE  RegistryInv'
<1> DEFINE L == Len(plan[g])
           next == plan[g][(Written(g) % L) + 1]
<1>1. /\ activeSet' = [activeSet EXCEPT ![g] = next]
      /\ needsDisk' = [needsDisk EXCEPT ![g] = FALSE]
      /\ plan' = [plan EXCEPT ![g] = NoPlan] /\ running' = running \ {g}
      /\ sets' = sets /\ filed' = filed /\ leaving' = leaving
      /\ groups' = groups /\ trying' = trying /\ plan[g] # NoPlan
  BY DEF Rotate
<1>2. plan[g] \in Seq(Ids)
  BY DEF RegistryInv, LocalsOK
<1>3. L \in Nat /\ L > 0 /\ DOMAIN plan[g] = 1..L
  BY <1>1, <1>2 DEF NoPlan
<1>4. Written(g) \in Nat
  BY <1>3, RegistryAssumption DEF Written
<1> HIDE DEF L
<1>5. Written(g) % L \in 0..(L - 1)
  BY <1>3, <1>4
<1>6. (Written(g) % L) + 1 \in 1..L
  BY <1>3, <1>5
<1>7. next \in Ids
  BY <1>2, <1>3, <1>6
<1> HIDE DEF next
<1>8. plan' = [h \in Groups |-> IF h \in {g} THEN NoPlan ELSE plan[h]]
  BY <1>1 DEF RegistryInv, LocalsOK
<1>9. \A h \in Groups \ {g} : activeSet'[h] = activeSet[h]
  BY <1>1 DEF RegistryInv, LocalsOK
<1>10. SessionsOK' /\ plan' \in [Groups -> Seq(Ids)]
  BY <1>1, <1>8, <1>9, SessionsEnd
<1>11. Table(sets') /\ FiledOK' /\ LocalsOK'
  BY <1>1, <1>7, <1>10 DEF RegistryInv, FiledOK, LocalsOK
<1> QED
  BY <1>10, <1>11 DEF RegistryInv

LEMMA StopSessionInv ==
  ASSUME RegistryInv, NEW g \in Groups, NEW blocked \in BOOLEAN, StopSession(g, blocked)
  PROVE  RegistryInv'
<1>1. /\ needsDisk' \in {needsDisk, [needsDisk EXCEPT ![g] = TRUE]}
      /\ plan' = [plan EXCEPT ![g] = NoPlan] /\ running' = running \ {g}
      /\ sets' = sets /\ filed' = filed /\ leaving' = leaving /\ activeSet' = activeSet
      /\ groups' = groups /\ trying' = trying
  BY DEF StopSession
<1>2. plan' = [h \in Groups |-> IF h \in {g} THEN NoPlan ELSE plan[h]]
  BY <1>1 DEF RegistryInv, LocalsOK
<1>3. SessionsOK' /\ plan' \in [Groups -> Seq(Ids)]
  BY <1>1, <1>2, SessionsEnd
<1>4. Table(sets') /\ FiledOK' /\ LocalsOK'
  BY <1>1, <1>3 DEF RegistryInv, FiledOK, LocalsOK
<1> QED
  BY <1>3, <1>4 DEF RegistryInv

LEMMA RestartInv ==
  ASSUME RegistryInv, Restart
  PROVE  RegistryInv'
<1>1. /\ running' = {} /\ plan' = [g \in Groups |-> NoPlan]
      /\ trying' = [g \in Groups |-> NoTry] /\ leaving' = << >>
      /\ sets' = sets /\ filed' = filed /\ activeSet' = activeSet
      /\ groups' = groups /\ needsDisk' = needsDisk
  BY DEF Restart
<1>2. running' = running \ Groups
  BY <1>1 DEF RegistryInv, LocalsOK
<1>3. SessionsOK' /\ plan' \in [Groups -> Seq(Ids)]
  BY <1>1, <1>2, SessionsEnd
<1>4. Table(sets') /\ FiledOK' /\ LocalsOK'
  BY <1>1, <1>3 DEF RegistryInv, FiledOK, LocalsOK, NoTry
<1> QED
  BY <1>3, <1>4 DEF RegistryInv

-----------------------------------------------------------------------------
(* The theorems *)

LEMMA EditingInv == RegistryInv /\ Editing => RegistryInv'
BY CreateGroupInv, DeleteGroupInv, CreateSetInv, UpdateSetInv, DeleteSetInv, ActivateSetInv
   DEF Editing

LEMMA FilingInv == RegistryInv /\ Filing => RegistryInv'
<1>1. SUFFICES ASSUME RegistryInv, Filing
               PROVE  RegistryInv'
  OBVIOUS
<1>2. CASE \E k \in Disks, s \in DOMAIN sets \cup {None} : DeclareDisk(k, s)
  BY <1>1, <1>2, DeclareDiskInv
<1>3. CASE \E s \in DOMAIN sets, k \in DOMAIN filed :
             AttachDisk(s, k) \/ DetachDisk(s, k) \/ ChooseActiveDisk(s, k)
  BY <1>1, <1>3, AttachDiskInv, DetachDiskInv, ChooseActiveDiskInv
<1>4. CASE \E k \in DOMAIN filed : BeginDeregister(k)
  BY <1>1, <1>4, BeginDeregisterInv
<1>5. CASE \E k \in DOMAIN leaving : EndDeregister(k)
  BY <1>1, <1>5, EndDeregisterInv
<1> QED
  BY <1>1, <1>2, <1>3, <1>4, <1>5 DEF Filing

LEMMA WorkingInv == ASSUME RegistryInv, NEW g \in Groups, Working(g) PROVE RegistryInv'
<1>1. CASE StartSession(g) \/ Resolve(g)
  BY <1>1, StartSessionInv, ResolveInv
<1>2. CASE \E s \in DOMAIN sets : TryDisks(g, s)
  BY <1>2, TryDisksInv
<1>3. CASE \E k \in Disks : DiskMounted(g, k)
  BY <1>3, DiskMountedInv
<1>4. CASE NoneMounts(g) \/ Rotate(g)
  BY <1>4, NoneMountsInv, RotateInv
<1>5. CASE \E blocked \in BOOLEAN : StopSession(g, blocked)
  BY <1>5, StopSessionInv
<1> QED
  BY <1>1, <1>2, <1>3, <1>4, <1>5 DEF Working

\* The invariant of the registry: requests may come at any point of a session.
THEOREM RegistryInvariant == Spec => []RegistryInv
<1>1. Init => RegistryInv
  <2>1. SUFFICES ASSUME Init
                 PROVE  RegistryInv
    OBVIOUS
  <2>2. DOMAIN sets = {} /\ DOMAIN filed = {} /\ DOMAIN leaving = {}
    BY <2>1 DEF Init
  <2>3. NoPlan \in Seq(Ids) /\ DOMAIN NoPlan = {}
    BY DEF NoPlan
  <2>4. Table(sets) /\ FiledOK
    BY <2>2 DEF Table, FiledOK
  <2>5. LocalsOK
    BY <2>1, <2>3 DEF Init, LocalsOK, NoTry
  <2>6. SessionsOK
    BY <2>1, <2>3 DEF Init, SessionsOK, PlanIntact, HealedInSession
  <2> QED
    BY <2>4, <2>5, <2>6 DEF RegistryInv
<1>2. RegistryInv /\ [Next]_vars => RegistryInv'
  <2>1. SUFFICES ASSUME RegistryInv, [Next]_vars
                 PROVE  RegistryInv'
    OBVIOUS
  <2>2. CASE UNCHANGED vars
    BY <2>1, <2>2 DEF vars, RegistryInv, Table, FiledOK, LocalsOK, SessionsOK,
       PlanIntact, HealedInSession, SetsOf, SetsIn
  <2>3. CASE Next
    BY <2>1, <2>3, EditingInv, FilingInv, WorkingInv, RestartInv DEF Next
  <2> QED
    BY <2>1, <2>2, <2>3
<1> QED
  BY <1>1, <1>2, PTL DEF Spec

\* The rows and locals of the registry are typed.
THEOREM RegistryTyped == Spec => []TypeOK
BY RegistryInvariant, RegistryInvTyped, PTL

\* No request can take a set of its cycle from a running session, so that
\* _rotate always moves its group to a set the group still has.
THEOREM PlanIntactCorrect == Spec => []PlanIntact
<1>1. RegistryInv => PlanIntact
  BY DEF RegistryInv, SessionsOK
<1> QED
  BY <1>1, RegistryInvariant, PTL

\* A session that has begun has a pointer into its cycle until it ends, even if
\* earlier deletions had left the pointer dangling.
THEOREM HealedCorrect == Spec => []HealedInSession
<1>1. RegistryInv => HealedInSession
  BY DEF RegistryInv, SessionsOK
<1> QED
  BY <1>1, RegistryInvariant, PTL

-----------------------------------------------------------------------------
(* Ids and pointers *)

LEMMA SetIds ==
  ASSUME RegistryInv
  PROVE  None \notin DOMAIN sets /\ None \notin Disks
<1>1. DOMAIN sets \subseteq Nat
  BY RegistryAssumption DEF RegistryInv, Table, Ids
<1> QED
  BY <1>1, RegistryAssumption

LEMMA RenumberKeepsActive ==
  ASSUME NEW R, NEW g, Table(R), NEW s \in DOMAIN R
  PROVE  AfterRenumber(R, g)[s].active = R[s].active
<1>1. R[s] \in SetRow
  BY DEF Table
<1>2. Renumbered(R, g)[s] = R[s] \/ Renumbered(R, g)[s] = [R[s] EXCEPT !.position = Rank(R, s)]
  BY DEF Renumbered
<1> QED
  BY <1>1, <1>2 DEF AfterRenumber, SetRow

-----------------------------------------------------------------------------
(* What a step leaves as it was *)

\* Renumbering a cycle keeps the order of any two sets of one group.
LEMMA RenumberKeepsOrder ==
  ASSUME NEW R, Table(R), NEW h, NEW s \in DOMAIN R, NEW t \in DOMAIN R,
         R[s].group = R[t].group, Precedes(R, s, t)
  PROVE  Precedes(AfterRenumber(R, h), s, t)
<1>1. R[s] \in SetRow /\ R[t] \in SetRow
  BY DEF Table
<1>2. CASE R[s].group = h /\ ~ RenumberFails(R, h)
  <2>1. s \in SetsIn(R, h) /\ t \in SetsIn(R, h)
    BY <1>2 DEF SetsIn
  <2>2. Rank(R, s) < Rank(R, t)
    BY <2>1, RankOrders
  <2>3. /\ AfterRenumber(R, h)[s] = [R[s] EXCEPT !.position = Rank(R, s)]
        /\ AfterRenumber(R, h)[t] = [R[t] EXCEPT !.position = Rank(R, t)]
    BY <1>2 DEF AfterRenumber, Renumbered
  <2>4. /\ AfterRenumber(R, h)[s].position = Rank(R, s)
        /\ AfterRenumber(R, h)[t].position = Rank(R, t)
    BY <1>1, <2>3 DEF SetRow
  <2> QED
    BY <2>2, <2>4 DEF Precedes
<1>3. CASE ~ (R[s].group = h /\ ~ RenumberFails(R, h))
  <2>1. AfterRenumber(R, h)[s] = R[s] /\ AfterRenumber(R, h)[t] = R[t]
    BY <1>3 DEF AfterRenumber, Renumbered
  <2> QED
    BY <2>1 DEF Precedes
<1> QED
  BY <1>2, <1>3

\* A step that leaves the table of sets to a renumbering of R: R has the rows
\* of the sets that stay, but for the place of one that is being moved.
Renumbers(R, h) ==
  /\ Table(R) /\ sets' = AfterRenumber(R, h)
  /\ \A s \in DOMAIN sets \cap DOMAIN R :
       /\ R[s].active = sets[s].active
       /\ R[s] = sets[s] \/ \E p \in 0..MaxPosition : UpdateSet(s, p)

LEMMA EditingSteps ==
  ASSUME RegistryInv, Editing
  PROVE  \/ \A s \in DOMAIN sets \cap DOMAIN sets' : sets'[s] = sets[s]
         \/ \E R, h : Renumbers(R, h)
<1> DEFINE Rows == \A s \in DOMAIN sets \cap DOMAIN sets' : sets'[s] = sets[s]
<1>1. ASSUME NEW g \in Groups, CreateGroup(g) \/ DeleteGroup(g)
      PROVE  Rows
  BY <1>1 DEF CreateGroup, DeleteGroup, Without
<1>2. ASSUME NEW g \in Groups, NEW p \in 0..MaxPosition, CreateSet(g, p)
      PROVE  \E R, h : Renumbers(R, h)
  <2> DEFINE s == NextId
             row == [group |-> g, position |-> p, active |-> None]
             R == Override(sets, [t \in {s} |-> row])
  <2>1. sets' = AfterRenumber(R, g) /\ s \in Ids
    BY <1>2 DEF CreateSet
  <2>2. Table(R) /\ \A t \in DOMAIN sets : R[t] = sets[t]
    BY <2>1, NewTable
  <2> HIDE DEF R
  <2> QED
    BY <2>1, <2>2 DEF Renumbers
<1>3. ASSUME NEW x \in DOMAIN sets, NEW p \in 0..MaxPosition, UpdateSet(x, p)
      PROVE  \E R, h : Renumbers(R, h)
  <2> DEFINE R == [sets EXCEPT ![x].position = p]
  <2>1. sets' = AfterRenumber(R, sets[x].group)
    BY <1>3 DEF UpdateSet
  <2>2. p \in Nat /\ \A t \in DOMAIN sets : sets[t] \in SetRow
    BY RegistryAssumption DEF RegistryInv, Table
  <2>3. /\ DOMAIN R = DOMAIN sets
        /\ \A t \in DOMAIN sets : R[t] = IF t = x THEN [sets[x] EXCEPT !.position = p] ELSE sets[t]
    OBVIOUS
  <2>4. \A t \in DOMAIN sets : R[t] \in SetRow /\ R[t].active = sets[t].active
    BY <2>2, <2>3 DEF SetRow
  <2>5. Table(R)
    BY <2>3, <2>4 DEF RegistryInv, Table
  <2>6. \A t \in DOMAIN sets : R[t] = sets[t] \/ t = x
    BY <2>3
  <2> HIDE DEF R
  <2>7. Renumbers(R, sets[x].group)
    BY <1>3, <2>1, <2>4, <2>5, <2>6 DEF Renumbers
  <2> QED
    BY <2>7
<1>4. ASSUME NEW x \in DOMAIN sets, DeleteSet(x)
      PROVE  \E R, h : Renumbers(R, h)
  <2> DEFINE R == Without(sets, {x})
  <2>1. sets' = AfterRenumber(R, sets[x].group)
    BY <1>4 DEF DeleteSet
  <2>2. DOMAIN R = DOMAIN sets \ {x} /\ \A t \in DOMAIN R : R[t] = sets[t]
    BY DEF Without
  <2>3. Table(R)
    BY <2>2 DEF RegistryInv, Table
  <2> HIDE DEF R
  <2> QED
    BY <2>1, <2>2, <2>3 DEF Renumbers
<1>5. ASSUME NEW x \in DOMAIN sets, ActivateSet(x)
      PROVE  Rows
  BY <1>5 DEF ActivateSet
<1> QED
  BY <1>1, <1>2, <1>3, <1>4, <1>5 DEF Editing

\* Nothing else moves a set, adds or removes one.
LEMMA OtherSteps ==
  ASSUME RegistryInv, Filing \/ (\E g \in Groups : Working(g)) \/ Restart
  PROVE  /\ DOMAIN sets' = DOMAIN sets
         /\ \A s \in DOMAIN sets : sets'[s].position = sets[s].position
<1>1. \A s \in DOMAIN sets : sets[s] \in SetRow
  BY DEF RegistryInv, Table
<1>2. ASSUME NEW s, NEW k, sets' \in {sets, [sets EXCEPT ![s].active = k]}
      PROVE  DOMAIN sets' = DOMAIN sets
             /\ \A t \in DOMAIN sets : sets'[t].position = sets[t].position
  <2>1. DOMAIN sets' = DOMAIN sets
    BY <1>2
  <2>2. \A t \in DOMAIN sets : sets'[t] = sets[t] \/ sets'[t] = [sets[t] EXCEPT !.active = k]
    BY <1>2
  <2> QED
    BY <1>1, <2>1, <2>2 DEF SetRow
<1>3. ASSUME NEW k \in Disks, NEW s \in DOMAIN sets \cup {None}, DeclareDisk(k, s)
      PROVE  sets' \in {sets, [sets EXCEPT ![s].active = k]}
  BY <1>3 DEF DeclareDisk
<1>4. ASSUME NEW s \in DOMAIN sets, NEW k \in DOMAIN filed, AttachDisk(s, k)
      PROVE  DOMAIN sets' = DOMAIN sets
             /\ \A t \in DOMAIN sets : sets'[t].position = sets[t].position
  <2> DEFINE from == filed[k]
             left == DisksIn([filed EXCEPT ![k] = s], from)
             R == IF sets[s].active = None THEN [sets EXCEPT ![s].active = k] ELSE sets
             leaves == from \in DOMAIN sets \ {s}
  <2>1. sets' = IF leaves THEN [R EXCEPT ![from].active = RealignedActive(@, left)] ELSE R
    BY <1>4 DEF AttachDisk
  <2>2. DOMAIN R = DOMAIN sets
        /\ \A t \in DOMAIN sets : R[t] = sets[t] \/ R[t] = [sets[t] EXCEPT !.active = k]
    OBVIOUS
  <2>3. \A t \in DOMAIN sets : DOMAIN R[t] = DOMAIN sets[t] /\ R[t].position = sets[t].position
    BY <1>1, <2>2 DEF SetRow
  <2> HIDE DEF R, left
  <2>4. DOMAIN sets' = DOMAIN sets
    BY <2>1, <2>2
  <2>5. \A t \in DOMAIN sets :
          sets'[t] = R[t] \/ sets'[t] = [R[t] EXCEPT !.active = RealignedActive(R[t].active, left)]
    BY <2>1, <2>2
  <2>6. \A t \in DOMAIN sets : "position" \in DOMAIN R[t]
    BY <1>1, <2>3 DEF SetRow
  <2> QED
    BY <2>3, <2>4, <2>5, <2>6
<1>5. ASSUME NEW s \in DOMAIN sets, NEW k \in DOMAIN filed, DetachDisk(s, k)
      PROVE  sets' = sets
  BY <1>5 DEF DetachDisk
<1>6. ASSUME NEW s \in DOMAIN sets, NEW k \in DOMAIN filed, ChooseActiveDisk(s, k)
      PROVE  sets' = [sets EXCEPT ![s].active = k]
  BY <1>6 DEF ChooseActiveDisk
<1>7. ASSUME NEW k \in DOMAIN filed, BeginDeregister(k)
      PROVE  sets' = sets
  BY <1>7 DEF BeginDeregister
<1>8. ASSUME NEW k \in DOMAIN leaving, EndDeregister(k)
      PROVE  \E s, a : sets' \in {sets, [sets EXCEPT ![s].active = a]}
  BY <1>8 DEF EndDeregister
<1>9. ASSUME Filing
      PROVE  DOMAIN sets' = DOMAIN sets
             /\ \A t \in DOMAIN sets : sets'[t].position = sets[t].position
  BY <1>2, <1>3, <1>4, <1>5, <1>6, <1>7, <1>8, <1>9 DEF Filing
<1>10. ASSUME NEW g \in Groups, Working(g)
       PROVE  DOMAIN sets' = DOMAIN sets
              /\ \A t \in DOMAIN sets : sets'[t].position = sets[t].position
  <2>1. \E s, a : sets' \in {sets, [sets EXCEPT ![s].active = a]}
    BY <1>10 DEF Working, StartSession, Resolve, TryDisks, DiskMounted, NoneMounts, Rotate,
       StopSession
  <2> QED
    BY <1>2, <2>1
<1>11. CASE Restart
  BY <1>11 DEF Restart
<1> QED
  BY <1>9, <1>10, <1>11

-----------------------------------------------------------------------------
(* The cycle keeps its order *)

\* What CycleOrderKept says of a step.
OrderStep ==
  \A s, t \in DOMAIN sets \cap DOMAIN sets' :
    sets[s].group = sets[t].group /\ Precedes(sets, s, t) /\ ~ Precedes(sets', s, t)
      => \E x \in {s, t}, p \in 0..MaxPosition : UpdateSet(x, p)

\* Deleting a set or adding one closes or opens a gap; only the set an operator
\* moves changes places with another.
THEOREM CycleOrderCorrect == Spec => CycleOrderKept
<1>1. RegistryInv /\ [Next]_vars => [OrderStep]_vars
  <2> SUFFICES ASSUME RegistryInv, Next
               PROVE  OrderStep
    OBVIOUS
  <2>1. CASE Editing
    <3>1. CASE \A s \in DOMAIN sets \cap DOMAIN sets' : sets'[s] = sets[s]
      BY <3>1 DEF OrderStep, Precedes
    <3>2. ASSUME NEW R, NEW h, Renumbers(R, h)
          PROVE  OrderStep
      <4>1. Table(R) /\ sets' = AfterRenumber(R, h) /\ DOMAIN sets' = DOMAIN R
        BY <3>2, RenumberTyped DEF Renumbers
      <4>2. ASSUME NEW s \in DOMAIN sets \cap DOMAIN sets', NEW t \in DOMAIN sets \cap DOMAIN sets',
                   sets[s].group = sets[t].group, Precedes(sets, s, t),
                   ~ \E x \in {s, t}, p \in 0..MaxPosition : UpdateSet(x, p)
            PROVE  Precedes(sets', s, t)
        <5>1. R[s] = sets[s] /\ R[t] = sets[t]
          BY <3>2, <4>1, <4>2 DEF Renumbers
        <5>2. s \in DOMAIN R /\ t \in DOMAIN R /\ R[s].group = R[t].group /\ Precedes(R, s, t)
          BY <4>1, <4>2, <5>1 DEF Precedes
        <5> QED
          BY <4>1, <5>2, RenumberKeepsOrder
      <4> QED
        BY <4>2 DEF OrderStep
    <3> QED
      BY <2>1, <3>1, <3>2, EditingSteps
  <2>2. CASE Filing \/ (\E g \in Groups : Working(g)) \/ Restart
    BY <2>2, OtherSteps DEF OrderStep, Precedes
  <2> QED
    BY <2>1, <2>2 DEF Next
<1> QED
  BY <1>1, RegistryInvariant, PTL DEF Spec, CycleOrderKept, OrderStep

-----------------------------------------------------------------------------
(* The active disk of a set *)

\* What ActiveDiskKept says of a step.
ActiveStep ==
  \A s \in DOMAIN sets \cap DOMAIN sets' :
    sets[s].active \in DisksIn(filed, s) \cap DisksIn(filed', s)
      /\ sets'[s].active # sets[s].active
      => \/ \E k \in Disks : ChooseActiveDisk(s, k)
         \/ \E g \in Groups, k \in Disks : trying[g].set = s /\ DiskMounted(g, k)

LEMMA EditingPointers ==
  ASSUME RegistryInv, Editing
  PROVE  \A s \in DOMAIN sets \cap DOMAIN sets' : sets'[s].active = sets[s].active
<1>1. ASSUME NEW R, NEW h, Renumbers(R, h)
      PROVE  \A s \in DOMAIN sets \cap DOMAIN sets' : sets'[s].active = sets[s].active
  <2>1. Table(R) /\ sets' = AfterRenumber(R, h) /\ DOMAIN sets' = DOMAIN R
    BY <1>1, RenumberTyped DEF Renumbers
  <2>2. \A s \in DOMAIN R : sets'[s].active = R[s].active
    BY <2>1, RenumberKeepsActive
  <2>3. \A s \in DOMAIN sets \cap DOMAIN R : R[s].active = sets[s].active
    BY <1>1 DEF Renumbers
  <2> QED
    BY <2>1, <2>2, <2>3
<1> QED
  BY <1>1, EditingSteps

LEMMA EditingActive ==
  ASSUME RegistryInv, Editing
  PROVE  ActiveStep
BY EditingPointers DEF ActiveStep

LEMMA DeclareDiskActive ==
  ASSUME RegistryInv, NEW k \in Disks, NEW s \in DOMAIN sets \cup {None}, DeclareDisk(k, s)
  PROVE  ActiveStep
<1>1. sets' = IF s # None /\ sets[s].active = None
              THEN [sets EXCEPT ![s].active = k] ELSE sets
  BY DEF DeclareDisk
<1>2. None \notin DOMAIN filed
  BY SetIds DEF RegistryInv, FiledOK
<1>3. ASSUME NEW t \in DOMAIN sets, sets[t].active \in DisksIn(filed, t)
      PROVE  sets'[t] = sets[t]
  <2>1. sets[t].active # None
    BY <1>2, <1>3 DEF DisksIn
  <2> QED
    BY <1>1, <2>1
<1> QED
  BY <1>3 DEF ActiveStep

\* A set whose active disk is still filed in it is realigned to that disk.
LEMMA AttachDiskActive ==
  ASSUME RegistryInv, NEW s \in DOMAIN sets, NEW k \in DOMAIN filed, AttachDisk(s, k)
  PROVE  ActiveStep
<1> DEFINE from == filed[k]
           left == DisksIn(filed', from)
           R == IF sets[s].active = None THEN [sets EXCEPT ![s].active = k] ELSE sets
           leaves == from \in DOMAIN sets \ {s}
<1>1. sets' = IF leaves THEN [R EXCEPT ![from].active = RealignedActive(@, left)] ELSE R
  BY DEF AttachDisk
<1>2. None \notin DOMAIN filed
  BY SetIds DEF RegistryInv, FiledOK
<1>3. \A t \in DOMAIN sets : sets[t] \in SetRow
  BY DEF RegistryInv, Table
<1>4. ASSUME NEW t \in DOMAIN sets, sets[t].active \in DisksIn(filed, t),
             sets[t].active \in DisksIn(filed', t)
      PROVE  sets'[t].active = sets[t].active
  <2>1. sets[t].active # None
    BY <1>2, <1>4 DEF DisksIn
  <2>2. DOMAIN R = DOMAIN sets /\ R[t] = sets[t]
    BY <2>1
  <2>3. CASE leaves /\ t = from
    <3>1. RealignedActive(sets[t].active, left) = sets[t].active
      BY <1>4, <2>3 DEF RealignedActive
    <3> HIDE DEF R, left
    <3>2. sets'[t] = [sets[t] EXCEPT !.active = RealignedActive(sets[t].active, left)]
      BY <1>1, <2>2, <2>3
    <3> QED
      BY <1>3, <3>1, <3>2 DEF SetRow
  <2>4. CASE ~ (leaves /\ t = from)
    <3> HIDE DEF R, left
    <3> QED
      BY <1>1, <2>2, <2>4
  <2> QED
    BY <2>3, <2>4
<1> QED
  BY <1>4 DEF ActiveStep

\* The disk that leaves is the only one a deregistration takes a pointer from.
LEMMA EndDeregisterActive ==
  ASSUME RegistryInv, NEW k \in DOMAIN leaving, EndDeregister(k)
  PROVE  ActiveStep
<1> DEFINE s == leaving[k]
           rest == DisksIn(filed, s) \ {k}
           points == s \in DOMAIN sets /\ sets[s].active = k
<1>1. /\ filed' = Without(filed, {k})
      /\ sets' = IF points THEN [sets EXCEPT ![s].active = FirstDisk(rest)] ELSE sets
  BY DEF EndDeregister
<1>2. k \notin DOMAIN filed'
  BY <1>1 DEF Without
<1>3. ASSUME NEW t \in DOMAIN sets, sets[t].active \in DisksIn(filed', t)
      PROVE  sets'[t] = sets[t]
  <2>1. sets[t].active # k
    BY <1>2, <1>3 DEF DisksIn
  <2> QED
    BY <1>1, <2>1
<1> QED
  BY <1>3 DEF ActiveStep

LEMMA FilingActive ==
  ASSUME RegistryInv, Filing
  PROVE  ActiveStep
<1>1. ASSUME NEW s \in DOMAIN sets, NEW k \in DOMAIN filed, DetachDisk(s, k)
      PROVE  ActiveStep
  BY <1>1 DEF DetachDisk, ActiveStep
<1>2. ASSUME NEW s \in DOMAIN sets, NEW k \in DOMAIN filed, ChooseActiveDisk(s, k)
      PROVE  ActiveStep
  <2>1. k \in Disks
    BY DEF RegistryInv, FiledOK
  <2>2. \A t \in DOMAIN sets \ {s} : sets'[t] = sets[t]
    BY <1>2 DEF ChooseActiveDisk
  <2> QED
    BY <1>2, <2>1, <2>2 DEF ActiveStep
<1>3. ASSUME NEW k \in DOMAIN filed, BeginDeregister(k)
      PROVE  ActiveStep
  BY <1>3 DEF BeginDeregister, ActiveStep
<1> QED
  BY <1>1, <1>2, <1>3, DeclareDiskActive, AttachDiskActive, EndDeregisterActive DEF Filing

LEMMA WorkingActive ==
  ASSUME RegistryInv, NEW g \in Groups, Working(g)
  PROVE  ActiveStep
<1>1. ASSUME NEW k \in Disks, DiskMounted(g, k)
      PROVE  ActiveStep
  <2>1. \A t \in DOMAIN sets \ {trying[g].set} : sets'[t] = sets[t]
    BY <1>1 DEF DiskMounted
  <2> QED
    BY <1>1, <2>1 DEF ActiveStep
<1>2. CASE ~ \E k \in Disks : DiskMounted(g, k)
  <2>1. sets' = sets
    BY <1>2 DEF Working, StartSession, Resolve, TryDisks, NoneMounts, Rotate, StopSession
  <2> QED
    BY <2>1 DEF ActiveStep
<1> QED
  BY <1>1, <1>2

\* A set stays on the disk it is writing to while that disk is filed in it,
\* whatever else happens to the set and its other disks: only the operator or
\* a session that mounts another disk moves it on.
THEOREM ActiveDiskCorrect == Spec => ActiveDiskKept
<1>1. RegistryInv /\ [Next]_vars => [ActiveStep]_vars
  <2> SUFFICES ASSUME RegistryInv, Next
               PROVE  ActiveStep
    OBVIOUS
  <2>1. CASE Editing \/ Filing \/ \E g \in Groups : Working(g)
    BY <2>1, EditingActive, FilingActive, WorkingActive
  <2>2. CASE Restart
    BY <2>2 DEF Restart, ActiveStep
  <2> QED
    BY <2>1, <2>2 DEF Next
<1> QED
  BY <1>1, RegistryInvariant, PTL DEF Spec, ActiveDiskKept, ActiveStep

-----------------------------------------------------------------------------
(* Realigning a set that loses a disk *)

\* What RealignedOnLoss says of a step: of a set whose disks and pointer it leaves
\* alone, nothing.
AimStep ==
  \A s \in DOMAIN sets \cap DOMAIN sets' :
    Aimed(sets, filed, s) => Realigned(s) \/ Unaligned(s)

LEMMA AimKept ==
  ASSUME \A s \in DOMAIN sets \cap DOMAIN sets' :
           DisksIn(filed', s) = DisksIn(filed, s) /\ sets'[s].active = sets[s].active
  PROVE  AimStep
BY DEF AimStep, Realigned, Aimed

LEMMA EditingAims ==
  ASSUME RegistryInv, Editing
  PROVE  AimStep
<1>1. ASSUME NEW s \in DOMAIN sets \cap DOMAIN sets'
      PROVE  DisksIn(filed', s) = DisksIn(filed, s)
  <2>1. s # None
    BY SetIds
  <2>2. CASE filed' = filed
    BY <2>2
  <2>3. ASSUME NEW g \in Groups, DeleteGroup(g)
        PROVE  DisksIn(filed', s) = DisksIn(filed, s)
    <3>1. s \notin SetsOf(g)
      BY <1>1, <2>3 DEF DeleteGroup, Without
    <3> QED
      BY <2>1, <2>3, <3>1 DEF DeleteGroup, DisksIn
  <2>4. ASSUME NEW t \in DOMAIN sets, DeleteSet(t)
        PROVE  DisksIn(filed', s) = DisksIn(filed, s)
    <3>1. Table(Without(sets, {t})) /\ DOMAIN Without(sets, {t}) = DOMAIN sets \ {t}
      BY DEF RegistryInv, Table, Without
    <3>2. sets' = AfterRenumber(Without(sets, {t}), sets[t].group)
      BY <2>4 DEF DeleteSet
    <3>3. s # t
      BY <1>1, <3>1, <3>2, RenumberTyped
    <3>4. filed' = [k \in DOMAIN filed |-> IF filed[k] = t THEN None ELSE filed[k]]
      BY <2>4 DEF DeleteSet
    <3> QED
      BY <2>1, <3>3, <3>4 DEF DisksIn
  <2> QED
    BY <2>2, <2>3, <2>4 DEF Editing, CreateGroup, CreateSet, UpdateSet, ActivateSet
<1> QED
  BY <1>1, EditingPointers, AimKept

LEMMA DeclareDiskAims ==
  ASSUME RegistryInv, NEW k \in Disks, NEW s \in DOMAIN sets \cup {None}, DeclareDisk(k, s)
  PROVE  AimStep
<1>1. /\ k \notin DOMAIN filed /\ filed' = Override(filed, [x \in {k} |-> s])
      /\ sets' = IF s # None /\ sets[s].active = None
                 THEN [sets EXCEPT ![s].active = k] ELSE sets
  BY DEF DeclareDisk
<1>2. /\ DOMAIN filed' = DOMAIN filed \cup {k} /\ filed'[k] = s
      /\ \A x \in DOMAIN filed : filed'[x] = filed[x]
  BY <1>1 DEF Override
<1>3. \A t \in DOMAIN sets : sets[t] \in SetRow
  BY DEF RegistryInv, Table
<1>4. ASSUME NEW t \in DOMAIN sets, t # s
      PROVE  DisksIn(filed', t) = DisksIn(filed, t) /\ sets'[t] = sets[t]
  BY <1>1, <1>2, <1>4 DEF DisksIn
<1>5. ASSUME NEW t \in DOMAIN sets, t = s, Aimed(sets, filed, t)
      PROVE  Realigned(t)
  <2>1. DisksIn(filed', t) = DisksIn(filed, t) \cup {k} /\ t # None
    BY <1>2, <1>5, SetIds DEF DisksIn
  <2>2. CASE sets[t].active = None
    <3>1. sets'[t].active = k
      BY <1>1, <1>3, <1>5, <2>1, <2>2 DEF SetRow
    <3> QED
      BY <2>1, <3>1 DEF Realigned, Aimed
  <2>3. CASE sets[t].active # None
    <3>1. sets'[t].active = sets[t].active /\ sets[t].active \in DisksIn(filed, t)
      BY <1>1, <1>5, <2>3 DEF Aimed
    <3> QED
      BY <2>1, <3>1 DEF Realigned, Aimed
  <2> QED
    BY <2>2, <2>3
<1> QED
  BY <1>4, <1>5 DEF AimStep, Realigned, Aimed

\* The set the disk leaves takes one of those it has left, the set it joins has a
\* pointer already or takes this disk.
LEMMA AttachDiskAims ==
  ASSUME RegistryInv, NEW s \in DOMAIN sets, NEW k \in DOMAIN filed, AttachDisk(s, k)
  PROVE  AimStep
<1> DEFINE from == filed[k]
           moved == [filed EXCEPT ![k] = s]
           left == DisksIn(moved, from)
           R == IF sets[s].active = None THEN [sets EXCEPT ![s].active = k] ELSE sets
           leaves == from \in DOMAIN sets \ {s}
<1>1. /\ filed' = moved
      /\ sets' = IF leaves THEN [R EXCEPT ![from].active = RealignedActive(@, left)] ELSE R
      /\ needsDisk' = IF leaves /\ left = {}
                      THEN [needsDisk EXCEPT ![sets[from].group] = TRUE] ELSE needsDisk
  BY DEF AttachDisk
<1>2. DOMAIN filed' = DOMAIN filed
      /\ \A x \in DOMAIN filed : filed'[x] = IF x = k THEN s ELSE filed[x]
  BY <1>1
<1>3. \A t \in DOMAIN sets : sets[t] \in SetRow
  BY DEF RegistryInv, Table
<1>4. k \in Disks /\ left \in SUBSET Disks /\ needsDisk \in [Groups -> BOOLEAN]
  BY DEF RegistryInv, FiledOK, LocalsOK, DisksIn
<1>5. ASSUME NEW t \in DOMAIN sets, Aimed(sets, filed, t), leaves /\ t = from
      PROVE  Realigned(t)
  <2>1. DisksIn(filed, t) # {} /\ sets[t].active \in DisksIn(filed, t)
    BY <1>5 DEF Aimed, DisksIn
  <2>2. sets[t].active # None
    BY <2>1, SetIds DEF RegistryInv, FiledOK, DisksIn
  <2>3. sets'[t] = [sets[t] EXCEPT !.active = RealignedActive(sets[t].active, left)]
    BY <1>1, <1>5
  <2>4. left = DisksIn(filed', t)
    BY <1>1, <1>5
  <2>5. left = {} => needsDisk'[sets[t].group]
    <3>1. sets[t].group \in Groups
      BY <1>3 DEF SetRow
    <3> QED
      BY <1>1, <1>4, <1>5, <3>1
  <2> HIDE DEF left
  <2>6. sets'[t].active = RealignedActive(sets[t].active, left)
    BY <1>3, <2>3 DEF SetRow
  <2>7. CASE left = {}
    BY <2>2, <2>4, <2>5, <2>6, <2>7 DEF Realigned, Aimed, RealignedActive, FirstDisk
  <2>8. CASE left # {}
    <3>1. FirstDisk(left) \in left
      BY <1>4, <2>8, FirstDiskTyped
    <3>2. RealignedActive(sets[t].active, left) \in left
      BY <2>2, <3>1 DEF RealignedActive
    <3> QED
      BY <2>4, <2>6, <2>8, <3>2 DEF Realigned, Aimed
  <2> QED
    BY <2>7, <2>8
<1>6. ASSUME NEW t \in DOMAIN sets, Aimed(sets, filed, t), ~ (leaves /\ t = from)
      PROVE  Realigned(t)
  <2>1. sets'[t] = R[t]
    BY <1>1, <1>6
  <2>2. CASE t = s
    <3>1. DisksIn(filed', t) = DisksIn(filed, t) \cup {k}
      BY <1>2, <2>2 DEF DisksIn
    <3>2. CASE sets[t].active = None
      <4>1. sets'[t].active = k
        BY <1>3, <2>1, <2>2, <3>2 DEF SetRow
      <4> QED
        BY <3>1, <4>1 DEF Realigned, Aimed
    <3>3. CASE sets[t].active # None
      <4>1. sets'[t].active = sets[t].active /\ sets[t].active \in DisksIn(filed, t)
        BY <1>6, <2>1, <2>2, <3>3 DEF Aimed
      <4> QED
        BY <3>1, <4>1 DEF Realigned, Aimed
    <3> QED
      BY <3>2, <3>3
  <2>3. CASE t # s
    <3>1. from # t
      BY <1>6, <2>3
    <3>2. DisksIn(filed', t) = DisksIn(filed, t) /\ sets'[t] = sets[t]
      BY <1>2, <2>1, <2>3, <3>1 DEF DisksIn
    <3> QED
      BY <1>6, <3>2 DEF Realigned, Aimed
  <2> QED
    BY <2>2, <2>3
<1>7. DOMAIN sets' = DOMAIN sets
  BY <1>1
<1> QED
  BY <1>5, <1>6, <1>7 DEF AimStep

\* The set that was read is realigned if the disk is still in it; a set the disk was
\* moved to since is not.
LEMMA EndDeregisterAims ==
  ASSUME RegistryInv, NEW k \in DOMAIN leaving, EndDeregister(k)
  PROVE  AimStep
<1> DEFINE s == leaving[k]
           rest == DisksIn(filed, s) \ {k}
           points == s \in DOMAIN sets /\ sets[s].active = k
<1>1. /\ filed' = Without(filed, {k})
      /\ sets' = IF points THEN [sets EXCEPT ![s].active = FirstDisk(rest)] ELSE sets
      /\ needsDisk' = IF points /\ rest = {}
                      THEN [needsDisk EXCEPT ![sets[s].group] = TRUE] ELSE needsDisk
  BY DEF EndDeregister
<1>2. /\ DOMAIN filed' = DOMAIN filed \ {k} /\ \A x \in DOMAIN filed' : filed'[x] = filed[x]
      /\ k \in DOMAIN filed /\ DOMAIN sets' = DOMAIN sets
  BY <1>1 DEF Without, RegistryInv, FiledOK
<1>3. (\A t \in DOMAIN sets : sets[t] \in SetRow) /\ needsDisk \in [Groups -> BOOLEAN]
  BY DEF RegistryInv, Table, LocalsOK
<1>4. rest \in SUBSET Disks
  BY DEF RegistryInv, FiledOK, DisksIn
<1>5. ASSUME NEW t \in DOMAIN sets
      PROVE  DisksIn(filed', t) = DisksIn(filed, t) \ {k}
  BY <1>2 DEF DisksIn
<1>6. ASSUME NEW t \in DOMAIN sets, Aimed(sets, filed, t), sets[t].active # k
      PROVE  Realigned(t)
  <2>1. sets'[t] = sets[t]
    BY <1>1, <1>6
  <2>2. DisksIn(filed, t) # {} => DisksIn(filed', t) # {} /\ sets[t].active \in DisksIn(filed', t)
    BY <1>5, <1>6 DEF Aimed
  <2> QED
    BY <1>5, <1>6, <2>1, <2>2 DEF Realigned, Aimed
<1>7. ASSUME NEW t \in DOMAIN sets, Aimed(sets, filed, t), sets[t].active = k
      PROVE  Realigned(t) \/ Unaligned(t)
  <2>1. k \in DisksIn(filed, t)
    BY <1>2, <1>7, SetIds DEF Aimed, RegistryInv, FiledOK
  <2>2. CASE t = s
    <3>1. points /\ rest = DisksIn(filed', t)
      BY <1>5, <1>7, <2>2
    <3>2. sets'[t] = [sets[t] EXCEPT !.active = FirstDisk(rest)]
      BY <1>1, <2>2, <3>1
    <3>3. rest = {} => needsDisk'[sets[t].group]
      <4>1. sets[t].group \in Groups
        BY <1>3 DEF SetRow
      <4> QED
        BY <1>1, <1>3, <2>2, <3>1, <4>1
    <3> HIDE DEF rest
    <3>4. sets'[t].active = FirstDisk(rest)
      BY <1>3, <3>2 DEF SetRow
    <3>5. FirstDisk(rest) \in rest \/ (rest = {} /\ FirstDisk(rest) = None)
      BY <1>4, FirstDiskTyped DEF FirstDisk
    <3> QED
      BY <3>1, <3>3, <3>4, <3>5 DEF Realigned, Aimed
  <2>3. CASE t # s
    BY <2>1, <2>3 DEF Unaligned, DisksIn
  <2> QED
    BY <2>2, <2>3
<1> QED
  BY <1>2, <1>6, <1>7 DEF AimStep

LEMMA FilingAims ==
  ASSUME RegistryInv, Filing
  PROVE  AimStep
<1>1. ASSUME NEW s \in DOMAIN sets, NEW k \in DOMAIN filed, DetachDisk(s, k)
      PROVE  AimStep
  <2>1. k \in Disks
    BY DEF RegistryInv, FiledOK
  <2>2. sets' = sets /\ filed' = [filed EXCEPT ![k] = None] /\ filed[k] = s
    BY <1>1 DEF DetachDisk, DisksIn
  <2>3. ASSUME NEW t \in DOMAIN sets, t # s
        PROVE  DisksIn(filed', t) = DisksIn(filed, t)
    BY <2>2, <2>3, SetIds DEF DisksIn
  <2> QED
    BY <1>1, <2>1, <2>2, <2>3 DEF AimStep, Realigned, Aimed, Unaligned
<1>2. ASSUME NEW s \in DOMAIN sets, NEW k \in DOMAIN filed, ChooseActiveDisk(s, k)
      PROVE  AimStep
  <2>1. sets' = [sets EXCEPT ![s].active = k] /\ filed' = filed /\ k \in DisksIn(filed, s)
    BY <1>2 DEF ChooseActiveDisk
  <2>2. sets[s] \in SetRow
    BY DEF RegistryInv, Table
  <2>3. sets'[s].active = k /\ \A t \in DOMAIN sets \ {s} : sets'[t] = sets[t]
    BY <2>1, <2>2 DEF SetRow
  <2> QED
    BY <2>1, <2>3 DEF AimStep, Realigned, Aimed
<1>3. ASSUME NEW k \in DOMAIN filed, BeginDeregister(k)
      PROVE  AimStep
  BY <1>3, AimKept DEF BeginDeregister
<1> QED
  BY <1>1, <1>2, <1>3, DeclareDiskAims, AttachDiskAims, EndDeregisterAims DEF Filing

LEMMA WorkingAims ==
  ASSUME RegistryInv, NEW g \in Groups, Working(g)
  PROVE  AimStep
<1>1. ASSUME NEW k \in Disks, DiskMounted(g, k)
      PROVE  AimStep
  <2>1. sets' = [sets EXCEPT ![trying[g].set].active = k] /\ filed' = filed
    BY <1>1 DEF DiskMounted
  <2>2. \A t \in DOMAIN sets : sets[t] \in SetRow
    BY DEF RegistryInv, Table
  <2>3. ASSUME NEW t \in DOMAIN sets, t # trying[g].set
        PROVE  sets'[t] = sets[t]
    BY <2>1, <2>3
  <2>4. ASSUME NEW t \in DOMAIN sets, t = trying[g].set, k \in DisksIn(filed, t)
        PROVE  Realigned(t)
    <3>1. sets'[t].active = k
      BY <2>1, <2>2, <2>4 DEF SetRow
    <3> QED
      BY <2>1, <2>4, <3>1 DEF Realigned, Aimed
  <2>5. ASSUME NEW t \in DOMAIN sets, t = trying[g].set, k \notin DisksIn(filed, t)
        PROVE  Unaligned(t)
    BY <1>1, <2>5 DEF Unaligned
  <2> QED
    BY <2>1, <2>3, <2>4, <2>5 DEF AimStep, Realigned, Aimed
<1>2. CASE ~ \E k \in Disks : DiskMounted(g, k)
  <2>1. sets' = sets /\ filed' = filed
    BY <1>2 DEF Working, StartSession, Resolve, TryDisks, NoneMounts, Rotate, StopSession
  <2> QED
    BY <2>1, AimKept
<1> QED
  BY <1>1, <1>2

\* A set that aims at one of its disks goes on to, and its group learns when it has
\* none left, however requests, both halves of deregistrations and the mounts of
\* sessions are interleaved; the three steps that Unaligned names are the only ones
\* that take a disk from a set, or point it at one, without realigning it.
THEOREM RealignedCorrect == Spec => RealignedOnLoss
<1>1. RegistryInv /\ [Next]_vars => [AimStep]_vars
  <2> SUFFICES ASSUME RegistryInv, Next
               PROVE  AimStep
    OBVIOUS
  <2>1. CASE Editing \/ Filing \/ \E g \in Groups : Working(g)
    BY <2>1, EditingAims, FilingAims, WorkingAims
  <2>2. CASE Restart
    BY <2>2, AimKept DEF Restart
  <2> QED
    BY <2>1, <2>2 DEF Next
<1> QED
  BY <1>1, RegistryInvariant, PTL DEF Spec, RealignedOnLoss, AimStep
=============================================================================
