---------------------------- MODULE CanonicalTree ----------------------------
(***************************************************************************)
(* The canonical recursive partition of an array of n elements on which    *)
(* every segment tree of the library is laid out, and the geometry of one  *)
(* inclusive range over it.                                                *)
(*                                                                         *)
(* A segment is a pair <<first, last>> of positions.  Positions are        *)
(* 1 .. n: position p is index p - 1 of the code.                          *)
(***************************************************************************)
EXTENDS Integers, FiniteSets

Interval(n) == {c \in (1 .. n) \X (1 .. n) : c[1] <= c[2]}

Root(n) == <<1, n>>

Length(c) == c[2] - c[1] + 1

IsLeaf(c) == c[1] = c[2]

Midpoint(c) == c[1] + (c[2] - c[1]) \div 2

LeftHalf(c)  == <<c[1], Midpoint(c)>>
RightHalf(c) == <<Midpoint(c) + 1, c[2]>>

Covers(left, right, c)   == left <= c[1] /\ c[2] <= right
Disjoint(left, right, c) == c[2] < left \/ c[1] > right

(***************************************************************************)
(* The segments of the partition: the whole array, and the two halves of   *)
(* each segment of two or more elements.                                   *)
(***************************************************************************)
Segments(n) ==
  LET below[c \in Interval(n)] ==
        IF IsLeaf(c) THEN {c}
        ELSE {c} \cup below[LeftHalf(c)] \cup below[RightHalf(c)]
  IN  IF n = 0 THEN {} ELSE below[Root(n)]

(***************************************************************************)
(* The segments an update of left .. right visits: those that meet the     *)
(* range and lie below no segment the range covers.                        *)
(***************************************************************************)
Visited(n, left, right) ==
  {c \in Segments(n) :
     /\ ~Disjoint(left, right, c)
     /\ \A a \in Segments(n) :
          a[1] <= c[1] /\ c[2] <= a[2] /\ a # c => ~Covers(left, right, a)}

(***************************************************************************)
(* treeHeight: ceil(log2(n)) for positive n, by halving n - 1 down to 0.   *)
(***************************************************************************)
Height(n) ==
  LET height[m \in 0 .. n - 1] == IF m = 0 THEN 0 ELSE height[m \div 2] + 1
  IN  height[n - 1]

CanonicalNodeCount(n) == IF n = 0 THEN 0 ELSE 2 * n - 1

=============================================================================
