------------------------------- MODULE Frontier -------------------------------
(***************************************************************************)
(* include/valseg/frontier.hpp: how many nodes one range update visits in  *)
(* the canonical tree over n elements, by executing the recursion and in   *)
(* closed form along the two boundary paths, and how many nodes meet the   *)
(* range at all.  All counts are far below the width of std::size_t here.  *)
(***************************************************************************)
EXTENDS CanonicalTree

(***************************************************************************)
(* countFrontier: an invocation either ends at a node the range covers or  *)
(* is partial and continues in the children that meet the range.           *)
(***************************************************************************)
NoNodes == [partial |-> 0, decomposition |-> 0]

FrontierCounts(n, left, right) ==
  LET counts[c \in Interval(n)] ==
        IF Covers(left, right, c) THEN [partial |-> 0, decomposition |-> 1]
        ELSE LET inLeft == IF left <= Midpoint(c) THEN counts[LeftHalf(c)] ELSE NoNodes
                 inRight == IF right > Midpoint(c) THEN counts[RightHalf(c)] ELSE NoNodes
             IN  [partial |-> 1 + inLeft.partial + inRight.partial,
                  decomposition |-> inLeft.decomposition + inRight.decomposition]
  IN  counts[Root(n)]

FrontierSize(counts) == counts.partial + counts.decomposition

(***************************************************************************)
(* nodesContainingBoth: the nodes on the path from the root that hold both *)
(* positions.                                                              *)
(***************************************************************************)
NodesContainingBoth(n, first, second) ==
  LET path[c \in Interval(n)] ==
        IF IsLeaf(c) THEN 1
        ELSE IF first <= Midpoint(c) /\ second <= Midpoint(c) THEN 1 + path[LeftHalf(c)]
        ELSE IF first > Midpoint(c) /\ second > Midpoint(c) THEN 1 + path[RightHalf(c)]
        ELSE 1
  IN  path[Root(n)]

\* Seeded bug: the other boundary is not looked at.
DecompositionIgnoringOther(n, outer, inner, otherBoundaryExists, otherOuter) ==
  LET along[c \in Interval(n)] ==
        LET innerOnLeft == inner <= Midpoint(c)
        IN  IF innerOnLeft # (outer <= Midpoint(c)) THEN 1
            ELSE (IF (inner < outer) # innerOnLeft THEN 1 ELSE 0)
                 + along[IF innerOnLeft THEN LeftHalf(c) ELSE RightHalf(c)]
  IN  along[Root(n)]

(***************************************************************************)
(* decompositionAlongBoundary: the covered children that hang off the path *)
(* to the boundary between outer and inner, inner being in the range.      *)
(***************************************************************************)
DecompositionAlongBoundary(n, outer, inner, otherBoundaryExists, otherOuter) ==
  LET containsOther(c) == otherBoundaryExists /\ c[1] <= otherOuter /\ otherOuter <= c[2]
      along[c \in Interval(n)] ==
        LET innerOnLeft == inner <= Midpoint(c)
        IN  IF innerOnLeft # (outer <= Midpoint(c))
            THEN IF containsOther(c) THEN 0 ELSE 1
            ELSE (IF ~containsOther(c) /\ (inner < outer) # innerOnLeft THEN 1 ELSE 0)
                 + along[IF innerOnLeft THEN LeftHalf(c) ELSE RightHalf(c)]
  IN  along[Root(n)]

(***************************************************************************)
(* closedFormFrontier.                                                     *)
(***************************************************************************)
ClosedFormFrontier(n, left, right) ==
  LET leftBoundary == left > 1
      rightBoundary == right < n
      onLeft == NodesContainingBoth(n, left - 1, left)
                + DecompositionAlongBoundary(n, left - 1, left, rightBoundary, right + 1)
      onRight == NodesContainingBoth(n, right, right + 1)
                 + DecompositionAlongBoundary(n, right + 1, right, leftBoundary, left - 1)
  IN  CASE ~leftBoundary /\ ~rightBoundary -> 1
        [] leftBoundary /\ ~rightBoundary  -> onLeft
        [] ~leftBoundary /\ rightBoundary  -> onRight
        [] OTHER -> onLeft + onRight - NodesContainingBoth(n, left - 1, right + 1)

(***************************************************************************)
(* intersectingNodes: the records a tagless path-copying update allocates. *)
(***************************************************************************)
IntersectingNodes(n, left, right) ==
  LET counts == FrontierCounts(n, left, right)
      leaves == right - left + 1
  IN  counts.partial + leaves + (leaves - counts.decomposition)

\* Seeded bug: one node too few on the path.
MaximumFrontierTooSmall(height) == IF height = 0 THEN 1 ELSE 4 * (height - 1)

(***************************************************************************)
(* maximumFrontier: the most nodes an update visits in a tree of a height. *)
(***************************************************************************)
MaximumFrontier(height) ==
  CASE height = 0 -> 1
    [] height = 1 -> 2
    [] OTHER -> 4 * (height - 1) + 1

-----------------------------------------------------------------------------
(***************************************************************************)
(* triangularNumber, without its overflow-avoiding order of operations.    *)
(***************************************************************************)
TriangularNumber(n) == (n * (n + 1)) \div 2

(***************************************************************************)
(* allRangesCounter and fixedWidthCounter: of all the ranges, or of the    *)
(* windows of one width, how many meet and how many contain a segment.     *)
(* The indices a and b are the code's, counted from 0.                     *)
(***************************************************************************)
AllRangesCounter(n, c) ==
  LET a == c[1] - 1
      b == c[2] - 1
  IN  [intersecting |-> TriangularNumber(n) - TriangularNumber(a)
                        - TriangularNumber(n - 1 - b),
       containing |-> (a + 1) * (n - b)]

FixedWidthCounter(n, width, c) ==
  LET a == c[1] - 1
      b == c[2] - 1
      lastStart == n - width
      clipped(high) == IF high < lastStart THEN high ELSE lastStart
      windowsIn(low, high) ==
        IF low <= clipped(high) THEN clipped(high) - low + 1 ELSE 0
      firstStart(x) == IF x > width THEN x - width ELSE 0
  IN  [intersecting |-> windowsIn(firstStart(a + 1), b),
       containing |-> IF b - a + 1 <= width THEN windowsIn(firstStart(b + 1), a) ELSE 0]

=============================================================================
