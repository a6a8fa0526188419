------------------------------- MODULE MCFatNode -------------------------------
(***************************************************************************)
(* Instances of FatNodePersistentSegmentTree for TLC.                      *)
(***************************************************************************)
EXTENDS FatNodePersistentSegmentTree

\* Sizes 0 to 3; the least value, whose leaf can collect tags beyond the width.
SmallArrays == {<<>>, <<-8>>, <<-8, 1>>, <<0, -1>>, <<2, 2, 3>>, <<7, 1, -2>>}
SmallDeltas == {-2, 0, 7}

=============================================================================
