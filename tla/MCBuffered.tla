------------------------------ MODULE MCBuffered ------------------------------
(***************************************************************************)
(* Instances of BufferedPathCopyingSegmentTree for TLC.                    *)
(***************************************************************************)
EXTENDS BufferedPathCopyingSegmentTree

\* Four updates of every range of up to three elements: buffers fill and are
\* flushed, leaves are copied below a root whose own buffer has room, both halves
\* of a tree are entered, zero deltas share roots between them, some updates
\* overflow, and so do two constructions, in the root, and below a root that
\* would be representable.
SmallArrays == {<<>>, <<1>>, <<7, 1>>, <<6, -3>>, <<7, 1, -2>>, <<0, 1, 0>>}
UnitDeltas == {0, 1}

\* Updates near the width whose tags leave it although the elements do not.
EdgeArrays == {<<-4, -4, 0>>}
EdgeDeltas == {2, 3, -4}

=============================================================================
