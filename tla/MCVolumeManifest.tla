-------------------------- MODULE MCVolumeManifest --------------------------
(***************************************************************************)
(* A volume for model checking VolumeManifest.                             *)
(***************************************************************************)
EXTENDS VolumeManifest, TLC

CONSTANTS first, second, v1

TwoStreams == {first, second}
OneVisitor == {v1}

\* Nothing tells two streams apart.
Alike == Permutations(TwoStreams)

=============================================================================
