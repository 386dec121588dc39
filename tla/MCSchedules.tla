----------------------------- MODULE MCSchedules -----------------------------
(***************************************************************************)
(* Groups and crons for model checking Schedules.                          *)
(***************************************************************************)
EXTENDS Schedules, TLC

CONSTANTS g1, g2, nightly, never

OneGroup == {g1}
TwoGroups == {g1, g2}
Alike == Permutations({g1, g2})

=============================================================================
