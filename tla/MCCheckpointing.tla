---------------------------- MODULE MCCheckpointing ----------------------------
(***************************************************************************)
(* Instances of CheckpointingSegmentTree for TLC.                          *)
(***************************************************************************)
EXTENDS CheckpointingSegmentTree

\* Sizes 0 to 3; the least value, whose leaf can collect tags beyond the width.
SmallArrays == {<<>>, <<-8>>, <<-8, 1>>, <<1, 1, 2>>, <<7, 1, -2>>}
SmallDeltas == {-4, 0, 7}
SmallIntervals == {1, 2, 3}

=============================================================================
