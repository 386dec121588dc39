----------------------------- MODULE MCPoolShares -----------------------------
(* A pool "tank" with a dataset and a dataset under it. *)
EXTENDS PoolShares, TLC

CONSTANTS tank, data, sub

TwoChildren == {data, sub}
Nested == [d \in TwoChildren |-> IF d = data THEN tank ELSE data]

Alike == Permutations(Tasks)
===============================================================================
