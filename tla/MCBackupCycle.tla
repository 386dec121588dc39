--------------------------- MODULE MCBackupCycle ---------------------------
(***************************************************************************)
(* Topologies for model checking BackupCycle.                              *)
(***************************************************************************)
EXTENDS BackupCycle

CONSTANTS g1, g2, s1, s2, s3, k1, k2, k3, d1

OneGroup == {g1}
TwoGroups == {g1, g2}

\* Sets, disks and what is written of them.
TwoSets == {s1, s2}
ThreeDisks == {k1, k2, k3}
OneDataset == [g \in Groups |-> <<d1>>]
OneCopy == [g \in Groups |-> 1]
TwoCopies == [g \in Groups |-> 2]

\* One group, one set of two disks.
OneSet == {s1}
TwoDisks == {k1, k2}
CycleOfOne == [g \in Groups |-> <<s1>>]
BothDisks == [s \in Sets |-> {k1, k2}]

\* One group, three sets of one disk each.
ThreeSets == {s1, s2, s3}
CycleOfThree == [g \in Groups |-> <<s1, s2, s3>>]
DiskEach == [s \in Sets |-> CASE s = s1 -> {k1} [] s = s2 -> {k2} [] OTHER -> {k3}]

\* Two groups with one set of one disk each.
CycleEach == [g \in Groups |-> IF g = g1 THEN <<s1>> ELSE <<s2>>]

=============================================================================
