--------------------------- MODULE MCBackupGroups ---------------------------
(***************************************************************************)
(* Registries for model checking BackupGroups: disk ids are numbers.       *)
(***************************************************************************)
EXTENDS BackupGroups, TLC

CONSTANTS g1, g2

OneGroup == {g1}
TwoGroups == {g1, g2}
OneCopy == [g \in Groups |-> 1]

\* Nothing tells the groups of a registry apart.
SameGroups == Permutations(TwoGroups)

\* Bound: deregistrations under way at a time.
OneLeaves == Cardinality(DOMAIN leaving) <= 1

\* Bound: two groups and two sets at two positions, or a group that was always alone
\* and three sets at three positions, over one disk; a group that was always alone and
\* two sets, in the order of their ids, over three disks, the third while there is a
\* session or a deregistration but not both.
Low == \A s \in DOMAIN sets : s \in 1..2 /\ sets[s].position <= 1
Alone(g) ==
  /\ groups \subseteq {g}
  /\ \A h \in Groups \ {g} : activeSet[h] = None /\ ~needsDisk[h]
OneDisk ==
  /\ DOMAIN filed \subseteq {1} /\ \A s \in DOMAIN sets : sets[s].active \in {1, None}
  /\ Low \/ \E g \in Groups : Alone(g)
ThreeDisks ==
  /\ Low /\ \E g \in Groups : Alone(g) /\ activeSet[g] # 3
  /\ \A s \in DOMAIN sets : sets[s].position < s
  /\ Cardinality(DOMAIN filed) + Cardinality(DOMAIN leaving) + Cardinality(running) <= 4
FewAtATime == OneDisk \/ ThreeDisks

=============================================================================
