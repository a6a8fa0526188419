------------------------------ MODULE FrontierSum ------------------------------
(***************************************************************************)
(* frontierSum (include/valseg/frontier.hpp): the frontier summed over a   *)
(* family of ranges, by one visit of each canonical node with an explicit  *)
(* stack and without enumerating the ranges.                               *)
(***************************************************************************)
EXTENDS Frontier, Sequences, FiniteSetsExt

CONSTANT MaxSize     \* the largest number of elements

ASSUME MaxSizeAssumption == MaxSize \in Nat \ {0}

VARIABLES n,        \* the number of elements
          width,    \* the width of the family's windows, or 0 for all ranges
          stack,    \* the nodes still to be visited
          sum       \* the contributions so far

vars == <<n, width, stack, sum>>

Counter(c) == IF width = 0 THEN AllRangesCounter(n, c)
              ELSE FixedWidthCounter(n, width, c)

Frame(c, parentContaining) == [segment |-> c, parentContaining |-> parentContaining]

Init ==
  /\ n \in 1 .. MaxSize
  /\ width \in 0 .. n
  /\ stack = <<Frame(Root(n), 0)>>
  /\ sum = 0

\* Seeded bug: the ranges that end at the parent are counted again.
ContributionForgetsParent(f) == Counter(f.segment).intersecting

(***************************************************************************)
(* One turn of the loop; a counter that violates containment is rejected.  *)
(***************************************************************************)
Contribution(f) ==
  LET counts == Counter(f.segment)
  IN  (counts.intersecting - counts.containing)
      + (counts.containing - f.parentContaining)

Contained(f) ==
  LET counts == Counter(f.segment)
  IN  counts.containing <= counts.intersecting /\ f.parentContaining <= counts.containing

Pushed(f) ==
  IF IsLeaf(f.segment) THEN <<>>
  ELSE <<Frame(LeftHalf(f.segment), Counter(f.segment).containing),
         Frame(RightHalf(f.segment), Counter(f.segment).containing)>>

Visit ==
  /\ stack # <<>>
  /\ LET f == stack[Len(stack)]
     IN  /\ Contained(f)
         /\ sum' = sum + Contribution(f)
         /\ stack' = SubSeq(stack, 1, Len(stack) - 1) \o Pushed(f)
  /\ UNCHANGED <<n, width>>

Spec == Init /\ [][Visit]_vars

-----------------------------------------------------------------------------
\* The ranges of the family: those whose frontiers are summed.
Family ==
  {r \in Interval(n) : width = 0 \/ Length(r) = width}

(***************************************************************************)
(* When the loop ends, the sum is that of the frontiers of all the ranges  *)
(* of the family, enumerated; and it does end, because neither of the two  *)
(* counters is ever rejected for violating containment.                    *)
(***************************************************************************)
SumOfFamily ==
  IF stack # <<>> THEN Contained(stack[Len(stack)])
  ELSE sum = MapThenSumSet(LAMBDA r : FrontierSize(FrontierCounts(n, r[1], r[2])), Family)

(***************************************************************************)
(* For every range, the closed form along the boundary paths counts the    *)
(* invocations of the recursion (docs/proof.md, Proposition 10.2), which   *)
(* visits exactly the segments that meet the range and lie below no        *)
(* covered one; and the tagless update visits all that meet it.            *)
(***************************************************************************)
CountsAreOfSegments ==
  stack = <<>> =>
    \A r \in Family :
      LET visited == FrontierSize(FrontierCounts(n, r[1], r[2]))
      IN  /\ ClosedFormFrontier(n, r[1], r[2]) = visited
          /\ visited = Cardinality(Visited(n, r[1], r[2]))
          /\ IntersectingNodes(n, r[1], r[2])
               = Cardinality({c \in Segments(n) : ~Disjoint(r[1], r[2], c)})

(***************************************************************************)
(* No range of a tree of height h visits more than maximumFrontier(h)      *)
(* nodes; 2 .. n - 1 visits that many when n is a power of two greater     *)
(* than two, and no range does for another n (Proposition 10.3).           *)
(***************************************************************************)
MaximumIsTight ==
  stack = <<>> =>
    LET maximum == MaximumFrontier(Height(n))
        isPower == 2 ^ Height(n) = n
        visited(r) == FrontierSize(FrontierCounts(n, r[1], r[2]))
    IN  \A r \in Family :
          /\ visited(r) <= maximum
          /\ n > 2 /\ visited(r) = maximum => isPower
          /\ n > 2 /\ isPower /\ r = <<2, n - 1>> => visited(r) = maximum

=============================================================================
