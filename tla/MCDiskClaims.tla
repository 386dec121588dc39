----------------------------- MODULE MCDiskClaims -----------------------------
(***************************************************************************)
(* Disks, kernel names and requests for model checking DiskClaims.         *)
(***************************************************************************)
EXTENDS DiskClaims, TLC

CONSTANTS d1, d2, sda, sdb, tank, t1, t2

Alike == Permutations({d1, d2}) \cup Permutations({sda, sdb}) \cup Permutations({t1, t2})

=============================================================================
