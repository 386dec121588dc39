--------------------------- MODULE MCSystemRestore ---------------------------
(***************************************************************************)
(* Histories for model checking SystemRestore.                             *)
(***************************************************************************)
EXTENDS SystemRestore, TLC

CONSTANTS v1, v2, d1, d2, s1, s2, q1, q2, p1, p2

\* One dataset, two sets: every legal history of up to three runs, so a volume
\* may have been moved from one set to the other.  Two datasets: up to a full
\* and an incremental of one, and a run of the other, all of one set.
Upto(n, R) == UNION { [1..k -> R] : k \in 1..n }
OneDataset ==
  { h \in Upto(3, [set : {s1, s2}, ds : {d1}, full : BOOLEAN, vol : {v1, v2, None}]) : Legal(h) }
TwoDatasets ==
  { h \in Upto(3, [set : {s1}, ds : {d1, d2}, full : BOOLEAN, vol : {v1, v2}]) :
      Legal(h) /\ \E i, j \in DOMAIN h : h[i].ds # h[j].ds }
AllHistories == {<< >>} \cup OneDataset \cup TwoDatasets

\* Nothing tells the volumes apart.
SameVolumes == Permutations({v1, v2})

=============================================================================
