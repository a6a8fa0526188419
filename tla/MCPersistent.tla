----------------------------- MODULE MCPersistent -----------------------------
(***************************************************************************)
(* Instances of PersistentLazySegmentTree for TLC.                         *)
(***************************************************************************)
EXTENDS PersistentLazySegmentTree

\* Sizes 0 to 3 and 5: small elements, elements at both ends of the width, and
\* two arrays whose construction overflows, in the root, and below a root whose
\* own sum would be representable.  The largest, a tree of uneven depth, admits
\* about half of the updates.
SmallArrays == {<<>>, <<1>>, <<-8>>, <<-2, -2>>, <<7, 1>>, <<0, 1, 0>>, <<-2, -2, -2>>,
                <<7, 1, -2>>, <<7, 0, 0, 0, -7>>}
SmallDeltas == {-4, 0, 1, 6}

ZeroArray == {<<0, 0, 0>>}
TagDeltas == {-2, 2}

=============================================================================
