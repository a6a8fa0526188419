------------------ MODULE FatNodePersistentSegmentTree_proofs ------------------
(***************************************************************************)
(* Proofs about FatNodePersistentSegmentTree for every width, every array, *)
(* every sequence of calls and every reservation that fails.               *)
(***************************************************************************)
EXTENDS FatNodePersistentSegmentTree, SegmentTrees_proofs

-----------------------------------------------------------------------------
(***************************************************************************)
(* How many nodes an update visits.                                        *)
(***************************************************************************)

(* The loop of treeHeight ends. *)
LEMMA HeightSteps ==
  ASSUME NEW n \in Nat \ {0}
  PROVE  \E H : /\ Height(n) = H[n - 1]
                /\ \A m \in 0 .. n - 1 :
                     /\ H[m] \in Nat
                     /\ H[m] = IF m = 0 THEN 0 ELSE H[m \div 2] + 1
<1> DEFINE D == [segment : Interval(n)]
           base == [at \in D |-> 0]
           toLeft == [at \in D |-> [segment |-> LeftHalf(at.segment)]]
           toRight == [at \in D |-> [segment |-> RightHalf(at.segment)]]
           join == [x \in Nat \X Nat |-> x[1] + 1]
           First(m) == [segment |-> <<1, m + 1>>]
           Solved(h) == [m \in 0 .. n - 1 |-> IF m = 0 THEN 0 ELSE h[m \div 2] + 1]
<1>1. VisitRecursion(n, D, Nat, {}, base, toLeft, toRight, join)
  <2>1. ASSUME NEW at \in D
        PROVE  /\ at.segment \in Interval(n)
               /\ ~IsLeaf(at.segment) =>
                    /\ toLeft[at] \in D /\ toLeft[at].segment = LeftHalf(at.segment)
                    /\ toRight[at] \in D /\ toRight[at].segment = RightHalf(at.segment)
    BY Halves
  <2>2. base \in [D -> Nat] /\ join \in [Nat \X Nat -> Nat]
    OBVIOUS
  <2> HIDE DEF D, base, toLeft, toRight, join
  <2> QED BY <2>1, <2>2 DEF VisitRecursion, Visits
<1>2. PICK f : VisitSolution(f, D, Nat, {}, base, toLeft, toRight, join)
  <2> HIDE DEF D, base, toLeft, toRight, join
  <2> QED BY <1>1, VisitRecursionSolved
<1>3. PICK h : h = [m \in 0 .. n - 1 |-> f[First(m)]]
  OBVIOUS
<1>4. ASSUME NEW m \in 0 .. n - 1
      PROVE  h[m] \in Nat /\ h[m] = IF m = 0 THEN 0 ELSE h[m \div 2] + 1
  <2>1. <<1, m + 1>> \in Interval(n) /\ First(m) \in D
    BY DEF Interval
  <2>2. h[m] = f[First(m)] /\ h[m] \in Nat
    BY <1>2, <1>3, <2>1 DEF VisitSolution
  <2>3. CASE m = 0
    <3>1. IsLeaf(First(m).segment)
      BY <2>3 DEF IsLeaf
    <3>2. f[First(m)] = base[First(m)]
      BY <1>2, <2>1, <3>1 DEF VisitSolution
    <3> QED BY <2>1, <2>2, <2>3, <3>2
  <2>4. CASE m # 0
    <3>1. ~IsLeaf(First(m).segment)
      BY <2>4 DEF IsLeaf
    <3>2. m \div 2 \in 0 .. n - 1 /\ LeftHalf(<<1, m + 1>>) = <<1, m \div 2 + 1>>
      BY DEF LeftHalf, Midpoint
    <3>3. toLeft[First(m)] = First(m \div 2) /\ toLeft[First(m)] \in D
      BY <2>1, <3>1, <3>2, Halves
    <3>4. toRight[First(m)] \in D
      BY <2>1, <3>1, Halves
    <3>5. f[First(m)] = join[<<f[First(m \div 2)], f[toRight[First(m)]]>>]
      BY <1>2, <2>1, <3>1, <3>3 DEF VisitSolution
    <3>6. f[First(m \div 2)] \in Nat /\ f[toRight[First(m)]] \in Nat
      BY <1>2, <3>3, <3>4 DEF VisitSolution
    <3>7. f[First(m)] = f[First(m \div 2)] + 1
      BY <3>5, <3>6
    <3> QED BY <1>3, <2>2, <2>4, <3>2, <3>7
  <2> QED BY <2>3, <2>4
<1>5. h = Solved(h)
  BY <1>3, <1>4
<1>6. PICK H : H = Solved(H) /\ Height(n) = H[n - 1]
  <2>1. \E g : g = Solved(g)
    BY <1>5
  <2> QED BY <2>1 DEF Height
<1>7. \A m \in 0 .. n - 1 : H[m] = IF m = 0 THEN 0 ELSE H[m \div 2] + 1
  BY <1>6
<1>8. \A m \in 0 .. n - 1 : H[m] \in Nat
  <2> DEFINE T == {k \in Nat : \A m \in 0 .. n - 1 : m <= k => H[m] \in Nat}
  <2>1. 0 \in T
    BY <1>7
  <2>2. ASSUME NEW k \in Nat, k \in T PROVE k + 1 \in T
    <3> SUFFICES ASSUME NEW m \in 0 .. n - 1, m <= k + 1 PROVE H[m] \in Nat
      OBVIOUS
    <3>1. m # 0 => m \div 2 \in 0 .. n - 1 /\ m \div 2 <= k
      OBVIOUS
    <3> QED BY <1>7, <2>2, <3>1
  <2>3. Nat \subseteq T
    <3> HIDE DEF T
    <3> QED BY <2>1, <2>2, SetInduction
  <2>4. \A k \in Nat : \A m \in 0 .. n - 1 : m <= k => H[m] \in Nat
    BY <2>3
  <2> QED BY <2>4
<1> QED BY <1>6, <1>7, <1>8

(***************************************************************************)
(* The nodes an update of left .. right visits below each segment.         *)
(***************************************************************************)
VisitCount(n, left, right) ==
  LET count[c \in Interval(n)] ==
        IF Disjoint(left, right, c) THEN 0
        ELSE IF Covers(left, right, c) THEN 1
             ELSE count[LeftHalf(c)] + count[RightHalf(c)] + 1
  IN  count

LEMMA VisitCountStep ==
  ASSUME NEW n \in Nat, NEW left \in Int, NEW right \in Int
  PROVE  \A c \in Interval(n) :
           /\ VisitCount(n, left, right)[c] \in Nat
           /\ VisitCount(n, left, right)[c]
                = IF Disjoint(left, right, c) THEN 0
                  ELSE IF Covers(left, right, c) THEN 1
                       ELSE VisitCount(n, left, right)[LeftHalf(c)]
                            + VisitCount(n, left, right)[RightHalf(c)] + 1
<1> DEFINE D == [segment : Interval(n)]
           At(c) == [segment |-> c]
           stop == {at \in D : \/ Disjoint(left, right, at.segment)
                               \/ Covers(left, right, at.segment)}
           base == [at \in D |-> IF Disjoint(left, right, at.segment) THEN 0 ELSE 1]
           toLeft == [at \in D |-> [segment |-> LeftHalf(at.segment)]]
           toRight == [at \in D |-> [segment |-> RightHalf(at.segment)]]
           join == [x \in Nat \X Nat |-> x[1] + x[2] + 1]
           Solved(f) == [c \in Interval(n) |->
                          IF Disjoint(left, right, c) THEN 0
                          ELSE IF Covers(left, right, c) THEN 1
                               ELSE f[LeftHalf(c)] + f[RightHalf(c)] + 1]
<1>1. VisitRecursion(n, D, Nat, stop, base, toLeft, toRight, join)
  <2>1. ASSUME NEW at \in D
        PROVE  /\ at.segment \in Interval(n)
               /\ ~IsLeaf(at.segment) =>
                    /\ toLeft[at] \in D /\ toLeft[at].segment = LeftHalf(at.segment)
                    /\ toRight[at] \in D /\ toRight[at].segment = RightHalf(at.segment)
    BY Halves
  <2>2. base \in [D -> Nat] /\ join \in [Nat \X Nat -> Nat]
    OBVIOUS
  <2> HIDE DEF D, base, toLeft, toRight, join
  <2> QED BY <2>1, <2>2 DEF VisitRecursion, Visits
<1>2. PICK f : VisitSolution(f, D, Nat, stop, base, toLeft, toRight, join)
  <2> HIDE DEF D, stop, base, toLeft, toRight, join
  <2> QED BY <1>1, VisitRecursionSolved
<1>3. PICK g : g = [c \in Interval(n) |-> f[At(c)]]
  OBVIOUS
<1>4. ASSUME NEW c \in Interval(n)
      PROVE  g[c] = Solved(g)[c]
  <2>1. At(c) \in D /\ g[c] = f[At(c)]
    BY <1>3
  <2>2. CASE Disjoint(left, right, c) \/ Covers(left, right, c)
    <3>1. At(c) \in stop
      BY <2>1, <2>2
    <3>2. f[At(c)] = base[At(c)]
      BY <1>2, <2>1, <3>1 DEF VisitSolution
    <3> QED BY <2>1, <2>2, <3>2
  <2>3. CASE ~Disjoint(left, right, c) /\ ~Covers(left, right, c)
    <3>1. ~IsLeaf(c) /\ At(c) \notin stop
      BY <2>3, LeafCovered
    <3>2. LeftHalf(c) \in Interval(n) /\ RightHalf(c) \in Interval(n)
      BY <3>1, Halves
    <3>3. toLeft[At(c)] = At(LeftHalf(c)) /\ toRight[At(c)] = At(RightHalf(c))
      BY <2>1
    <3>4. At(c).segment = c
      OBVIOUS
    <3>5. f[At(c)] = join[<<f[toLeft[At(c)]], f[toRight[At(c)]]>>]
      <4> HIDE DEF D, At, stop, base, toLeft, toRight, join
      <4> QED BY <1>2, <2>1, <3>1, <3>4 DEF VisitSolution
    <3>6. At(LeftHalf(c)) \in D /\ At(RightHalf(c)) \in D
      BY <3>2
    <3>7. f[At(LeftHalf(c))] \in Nat /\ f[At(RightHalf(c))] \in Nat
      <4> HIDE DEF D, At, stop, base, toLeft, toRight, join
      <4> QED BY <1>2, <3>6 DEF VisitSolution
    <3>8. f[At(c)] = f[At(LeftHalf(c))] + f[At(RightHalf(c))] + 1
      BY <3>3, <3>5, <3>7
    <3> QED BY <1>3, <2>1, <2>3, <3>2, <3>8
  <2> QED BY <2>2, <2>3
<1>5. g = Solved(g)
  <2>1. g = [c \in Interval(n) |-> g[c]]
    BY <1>3
  <2> HIDE DEF At
  <2> QED BY <1>4, <2>1
<1>6. PICK count : count = Solved(count) /\ VisitCount(n, left, right) = count
  <2>1. \E h : h = Solved(h)
    BY <1>5
  <2> QED BY <2>1 DEF VisitCount
<1>7. \A c \in Interval(n) :
        count[c] = IF Disjoint(left, right, c) THEN 0
                   ELSE IF Covers(left, right, c) THEN 1
                        ELSE count[LeftHalf(c)] + count[RightHalf(c)] + 1
  BY <1>6
<1> DEFINE T == {c \in Interval(n) : count[c] \in Nat}
<1>8. ASSUME NEW c \in Interval(n),
             IsLeaf(c) \/ (LeftHalf(c) \in T /\ RightHalf(c) \in T)
      PROVE  c \in T
  BY <1>7, <1>8, LeafCovered
<1>9. Interval(n) \subseteq T
  <2> HIDE DEF T
  <2> QED BY <1>8, SegmentInduction
<1> QED BY <1>6, <1>7, <1>9

(***************************************************************************)
(* On each level a segment is visited below which the range has both, one  *)
(* or none of its ends; those with one end below lead to one such segment  *)
(* on the next level.                                                      *)
(***************************************************************************)
VisitBound(left, right, c, height) ==
  IF Covers(left, right, c) THEN 1
  ELSE IF left <= c[1] \/ c[2] <= right THEN 2 * height + 1
       ELSE 4 * height + 1

LEMMA VisitBoundStep ==
  ASSUME NEW n \in Nat, NEW c \in Interval(n), ~IsLeaf(c),
         NEW left \in Int, NEW right \in Int, left <= right,
         ~Disjoint(left, right, c), ~Covers(left, right, c),
         NEW height \in Nat, NEW l \in Nat, NEW r \in Nat,
         IF Disjoint(left, right, LeftHalf(c)) THEN l = 0
         ELSE l <= VisitBound(left, right, LeftHalf(c), height),
         IF Disjoint(left, right, RightHalf(c)) THEN r = 0
         ELSE r <= VisitBound(left, right, RightHalf(c), height)
  PROVE  l + r + 1 <= VisitBound(left, right, c, height + 1)
<1> DEFINE a == c[1]
           m == Midpoint(c)
           b == c[2]
<1>1. a \in Int /\ b \in Int /\ m \in Int /\ a <= m /\ m < b
  BY Halves
<1>2. /\ LeftHalf(c)[1] = a /\ LeftHalf(c)[2] = m
      /\ RightHalf(c)[1] = m + 1 /\ RightHalf(c)[2] = b
  BY DEF LeftHalf, RightHalf
<1>3. left <= b /\ a <= right /\ ~(left <= a /\ b <= right)
  BY <1>1 DEF Disjoint, Covers
<1>4. IF m < left THEN l = 0
      ELSE IF left <= a /\ m <= right THEN l <= 1
      ELSE IF left <= a \/ m <= right THEN l <= 2 * height + 1
      ELSE l <= 4 * height + 1
  BY <1>1, <1>2, <1>3 DEF Disjoint, Covers, VisitBound
<1>5. IF right < m + 1 THEN r = 0
      ELSE IF left <= m + 1 /\ b <= right THEN r <= 1
      ELSE IF left <= m + 1 \/ b <= right THEN r <= 2 * height + 1
      ELSE r <= 4 * height + 1
  BY <1>1, <1>2, <1>3 DEF Disjoint, Covers, VisitBound
<1>6. VisitBound(left, right, c, height + 1)
        = IF left <= a \/ b <= right THEN 2 * height + 3 ELSE 4 * height + 5
  BY <1>3 DEF VisitBound, Covers
<1> HIDE DEF a, m, b
<1>7. CASE left <= a \/ b <= right
  BY <1>1, <1>3, <1>4, <1>5, <1>6, <1>7
<1>8. CASE ~(left <= a \/ b <= right)
  BY <1>1, <1>3, <1>4, <1>5, <1>6, <1>8
<1> QED BY <1>7, <1>8

(***************************************************************************)
(* "A range update visits at most 4 nodes per level" (the comment of       *)
(* reserveForUpdate): the number of nodes an update of any range visits is *)
(* at most the number of slots reserveForUpdate makes room for.            *)
(***************************************************************************)
THEOREM VisitLimitSuffices ==
  ASSUME NEW n \in Nat \ {0}, NEW left \in Int, NEW right \in Int, left <= right
  PROVE  /\ Height(n) \in Nat
         /\ VisitCount(n, left, right)[Root(n)] <= 4 * (Height(n) + 1)
<1> DEFINE count == VisitCount(n, left, right)
<1>1. PICK H : /\ Height(n) = H[n - 1]
               /\ \A m \in 0 .. n - 1 : /\ H[m] \in Nat
                                        /\ H[m] = IF m = 0 THEN 0 ELSE H[m \div 2] + 1
  BY HeightSteps
<1> DEFINE Bounded(c) ==
             \A m \in 0 .. n - 1 : c[2] - c[1] <= m =>
               IF Disjoint(left, right, c) THEN count[c] = 0
               ELSE count[c] <= VisitBound(left, right, c, H[m])
           T == {c \in Interval(n) : Bounded(c)}
<1>2. \A c \in Interval(n) :
        /\ count[c] \in Nat
        /\ count[c] = IF Disjoint(left, right, c) THEN 0
                      ELSE IF Covers(left, right, c) THEN 1
                           ELSE count[LeftHalf(c)] + count[RightHalf(c)] + 1
  BY VisitCountStep
<1> HIDE DEF count
<1>3. ASSUME NEW c \in Interval(n),
             IsLeaf(c) \/ (LeftHalf(c) \in T /\ RightHalf(c) \in T)
      PROVE  c \in T
  <2> SUFFICES ASSUME NEW m \in 0 .. n - 1, c[2] - c[1] <= m, ~Disjoint(left, right, c)
               PROVE  count[c] <= VisitBound(left, right, c, H[m])
    BY <1>2
  <2>1. CASE Covers(left, right, c)
    BY <1>2, <2>1 DEF VisitBound
  <2>2. CASE ~Covers(left, right, c)
    <3>1. ~IsLeaf(c)
      BY <2>2, LeafCovered
    <3>2. /\ c[1] \in Int /\ c[2] \in Int /\ c[1] < c[2]
          /\ c[1] <= Midpoint(c) /\ Midpoint(c) < c[2]
          /\ LeftHalf(c) \in Interval(n) /\ RightHalf(c) \in Interval(n)
      BY <3>1, Halves
    <3>3. m # 0 /\ m \div 2 \in 0 .. n - 1 /\ H[m] = H[m \div 2] + 1 /\ H[m \div 2] \in Nat
      <4>1. m # 0 /\ m \div 2 \in 0 .. n - 1
        BY <3>2
      <4> HIDE DEF T
      <4> QED BY <1>1, <4>1
    <3>4. /\ LeftHalf(c)[2] - LeftHalf(c)[1] <= m \div 2
          /\ RightHalf(c)[2] - RightHalf(c)[1] <= m \div 2
      BY <3>2 DEF LeftHalf, RightHalf, Midpoint
    <3>5. /\ IF Disjoint(left, right, LeftHalf(c)) THEN count[LeftHalf(c)] = 0
             ELSE count[LeftHalf(c)] <= VisitBound(left, right, LeftHalf(c), H[m \div 2])
          /\ IF Disjoint(left, right, RightHalf(c)) THEN count[RightHalf(c)] = 0
             ELSE count[RightHalf(c)] <= VisitBound(left, right, RightHalf(c), H[m \div 2])
      BY <1>3, <3>1, <3>3, <3>4
    <3>6. count[LeftHalf(c)] \in Nat /\ count[RightHalf(c)] \in Nat
      BY <1>2, <3>2
    <3>7. count[LeftHalf(c)] + count[RightHalf(c)] + 1
            <= VisitBound(left, right, c, H[m \div 2] + 1)
      <4> DEFINE l == count[LeftHalf(c)]
                 r == count[RightHalf(c)]
                 height == H[m \div 2]
      <4>1. height \in Nat /\ l \in Nat /\ r \in Nat
        BY <3>3, <3>6
      <4>2. /\ IF Disjoint(left, right, LeftHalf(c)) THEN l = 0
               ELSE l <= VisitBound(left, right, LeftHalf(c), height)
            /\ IF Disjoint(left, right, RightHalf(c)) THEN r = 0
               ELSE r <= VisitBound(left, right, RightHalf(c), height)
        BY <3>5
      <4> HIDE DEF l, r, height, T
      <4>3. l + r + 1 <= VisitBound(left, right, c, height + 1)
        BY <2>2, <3>1, <4>1, <4>2, VisitBoundStep
      <4> QED BY <4>3 DEF l, r, height
    <3> QED BY <1>2, <2>2, <3>3, <3>7
  <2> QED BY <2>1, <2>2
<1>4. Root(n) \in T
  <2>1. Interval(n) \subseteq T
    <3> HIDE DEF T
    <3> QED BY <1>3, SegmentInduction
  <2> QED BY <2>1, RootIsSegment
<1>5. Root(n)[2] - Root(n)[1] <= n - 1 /\ n - 1 \in 0 .. n - 1
  BY DEF Root
<1>6. H[n - 1] \in Nat
  BY <1>1, <1>5
<1>7. count[Root(n)] <= 4 * (H[n - 1] + 1)
  <2>1. IF Disjoint(left, right, Root(n)) THEN count[Root(n)] = 0
        ELSE count[Root(n)] <= VisitBound(left, right, Root(n), H[n - 1])
    BY <1>4, <1>5
  <2>2. count[Root(n)] \in Nat
    BY <1>2, <1>4
  <2> QED BY <1>6, <2>1, <2>2 DEF VisitBound
<1> QED BY <1>1, <1>6, <1>7 DEF count

-----------------------------------------------------------------------------
(***************************************************************************)
(* The inductive invariant.                                                *)
(***************************************************************************)

(***************************************************************************)
(* Histories: a node that the running update has written to has one state  *)
(* with the new stamp, its last one.                                       *)
(***************************************************************************)
HistoryOK(node) ==
  /\ Len(node) \in 1 .. HISTORY_CAPACITY
  /\ \A k \in 2 .. Len(node) : node[k - 1].version < node[k].version
  /\ LatestState(node).version <= Len(roots) + 1

HistoriesOK == \A i \in DOMAIN nodes : HistoryOK(nodes[i])

Written == {i \in DOMAIN nodes : LatestState(nodes[i]).version > Len(roots)}

Old == {i \in DOMAIN nodes : nodes[i][1].version <= Len(roots)}

(* The state of an old node before the running update. *)
Settled(i) ==
  IF i \in Written THEN nodes[i][Len(nodes[i]) - 1] ELSE LatestState(nodes[i])

(***************************************************************************)
(* The trees: all states of a node were made for one segment seg[i], and   *)
(* link to nodes for its halves; those that are settled link to old nodes. *)
(***************************************************************************)
NodeFor(seg, i, c) == i \in DOMAIN nodes /\ seg[i] = c

StateOK(seg, c, state) ==
  ~IsLeaf(c) =>
    /\ NodeFor(seg, state.leftChild, LeftHalf(c))
    /\ NodeFor(seg, state.rightChild, RightHalf(c))
    /\ state.version <= Len(roots) => state.leftChild \in Old /\ state.rightChild \in Old

Shaped(seg) ==
  /\ seg \in [DOMAIN nodes -> Interval(arraySize)]
  /\ \A i \in DOMAIN nodes : \A k \in DOMAIN nodes[i] : StateOK(seg, seg[i], nodes[i][k])
  /\ arraySize # 0 => \A v \in DOMAIN roots :
                        NodeFor(seg, roots[v], Root(arraySize)) /\ roots[v] \in Old

(***************************************************************************)
(* The dry run: foreseen[i] is the sum that validateUpdate has computed    *)
(* for the old node i.                                                     *)
(***************************************************************************)
Foreseen(seg, foreseen) ==
  \A i \in Old :
    foreseen[i] =
      IF Disjoint(call.left, call.right, seg[i]) THEN Settled(i).sum
      ELSE IF Covers(call.left, call.right, seg[i])
           THEN IF CheckedAdd(Settled(i).lazy, call.value) = Overflow THEN Overflow
                ELSE Apply(call.value, Settled(i).sum, Length(seg[i]))
           ELSE Apply(Settled(i).lazy,
                      CheckedAdd(foreseen[Settled(i).leftChild],
                                 foreseen[Settled(i).rightChild]),
                      Length(seg[i]))

(***************************************************************************)
(* The frames: each works on an old node not yet written to; a half that   *)
(* is done has the sum that was foreseen for it.                           *)
(***************************************************************************)
OldChild(f, side) ==
  IF side = "left" THEN Settled(f.node).leftChild ELSE Settled(f.node).rightChild

SideOK(seg, foreseen, f, side) ==
  IF side \in f.todo \/ Covers(call.left, call.right, f.segment)
  THEN Child(f, side) = OldChild(f, side)
  ELSE /\ NodeFor(seg, Child(f, side), Half(f.segment, side))
       /\ LatestState(nodes[Child(f, side)]).sum = foreseen[OldChild(f, side)]
       /\ \/ Child(f, side) \in Written
          \/ Disjoint(call.left, call.right, Half(f.segment, side))

FrameOK(seg, foreseen, f) ==
  /\ f.node \in Old /\ f.node \notin Written
  /\ seg[f.node] = f.segment
  /\ ~Disjoint(call.left, call.right, f.segment)
  /\ Covers(call.left, call.right, f.segment) => f.todo = {}
  /\ \A side \in f.todo : ~Disjoint(call.left, call.right, Half(f.segment, side))
  /\ foreseen[f.node] # Overflow
  /\ ~IsLeaf(f.segment) =>
       SideOK(seg, foreseen, f, "left") /\ SideOK(seg, foreseen, f, "right")

FrameInPlace(k) ==
  IF k = 1 THEN stack[k].segment = Root(arraySize)
  ELSE /\ stack[k].segment = Half(stack[k - 1].segment, NextSide(stack[k - 1]))
       /\ stack[k].node = Child(stack[k - 1], NextSide(stack[k - 1]))

(***************************************************************************)
(* The reservation: ahead of a frame are its own node and the nodes of the *)
(* halves it has still to do; later[k] counts those that are left when     *)
(* frame k has returned.  There is a slot for each of them.                *)
(***************************************************************************)
VisitsOf == VisitCount(arraySize, call.left, call.right)

Cost(f, side) == IF side \in f.todo THEN VisitsOf[Half(f.segment, side)] ELSE 0

Ahead(f) == Cost(f, "left") + Cost(f, "right") + 1

RoomOK(later) ==
  /\ later \in [DOMAIN stack -> Nat]
  /\ \A k \in DOMAIN stack : k > 1 =>
       later[k] = later[k - 1] + Ahead(stack[k - 1]) - VisitsOf[stack[k].segment]
  /\ stack # <<>> => Len(nodes) + later[Len(stack)] + Ahead(Top) <= capacity

Done(seg) == {seg[i] : i \in Written}

UpdateOK(seg, foreseen) ==
  /\ Nested(stack)
  /\ Passed(stack, Done(seg))
  /\ \A i \in Written : ~Disjoint(call.left, call.right, seg[i])
  /\ \A k \in DOMAIN stack : FrameOK(seg, foreseen, stack[k]) /\ FrameInPlace(k)
  /\ \E later : RoomOK(later)
  /\ stack = <<>> => NodeFor(seg, call.root, Root(arraySize))

CallOK ==
  /\ call.phase # "update" => stack = <<>> /\ Written = {}
  /\ call.phase # "idle" =>
       /\ call.left <= call.right /\ call.right <= arraySize
       /\ call.version = Len(roots) + 1
       /\ roots # <<>>
  /\ call.phase = "update" => Len(roots) < rootCapacity

FInv ==
  /\ TypeOK /\ HistoriesOK /\ CallOK /\ Len(roots) <= rootCapacity
  /\ \E seg :
       /\ Shaped(seg)
       /\ call.phase # "idle" => \E foreseen :
            /\ Foreseen(seg, foreseen)
            /\ foreseen[Last(roots)] # Overflow
            /\ call.phase = "update" => UpdateOK(seg, foreseen)

-----------------------------------------------------------------------------
(***************************************************************************)
(* What the invariant says of one node.                                    *)
(***************************************************************************)
(* An overflow of an operand is one of the result. *)
LEMMA OverflowsPropagate ==
  \A a, b, c, k : Apply(k, CheckedAdd(a, b), c) # Overflow => a # Overflow /\ b # Overflow
  BY DEF Apply, CheckedAdd

LEMMA ModificationFacts ==
  \A state \in Modification :
    /\ state.version \in Nat /\ state.leftChild \in Nat /\ state.rightChild \in Nat
    /\ state.sum \in Value /\ state.lazy \in Value
  BY DEF Modification

(* Every node has a latest state. *)
LEMMA NodeFacts ==
  ASSUME TypeOK, HistoriesOK
  PROVE  /\ arraySize \in Nat /\ Len(roots) \in Nat /\ DOMAIN roots = 1 .. Len(roots)
         /\ DOMAIN nodes = 1 .. Len(nodes) /\ Len(nodes) \in Nat
         /\ \A i \in DOMAIN nodes :
              /\ nodes[i] \in Seq(Modification)
              /\ Len(nodes[i]) \in 1 .. HISTORY_CAPACITY
              /\ DOMAIN nodes[i] = 1 .. Len(nodes[i])
              /\ \A k \in 1 .. Len(nodes[i]) : nodes[i][k] \in Modification
              /\ LatestState(nodes[i]) = nodes[i][Len(nodes[i])]
              /\ LatestState(nodes[i]) \in Modification
<1>1. /\ arraySize \in Nat /\ Len(roots) \in Nat /\ DOMAIN roots = 1 .. Len(roots)
      /\ DOMAIN nodes = 1 .. Len(nodes) /\ Len(nodes) \in Nat
  BY LenProperties DEF TypeOK
<1>2. ASSUME NEW i \in DOMAIN nodes
      PROVE  /\ nodes[i] \in Seq(Modification)
             /\ Len(nodes[i]) \in 1 .. HISTORY_CAPACITY
             /\ DOMAIN nodes[i] = 1 .. Len(nodes[i])
             /\ \A k \in 1 .. Len(nodes[i]) : nodes[i][k] \in Modification
             /\ LatestState(nodes[i]) = nodes[i][Len(nodes[i])]
             /\ LatestState(nodes[i]) \in Modification
  <2>1. nodes[i] \in Seq(Modification)
    BY <1>1, ElementOfSeq DEF TypeOK
  <2>2. Len(nodes[i]) \in 1 .. HISTORY_CAPACITY
    BY DEF HistoriesOK, HistoryOK
  <2>3. DOMAIN nodes[i] = 1 .. Len(nodes[i])
    BY <2>1, LenProperties
  <2>4. \A k \in 1 .. Len(nodes[i]) : nodes[i][k] \in Modification
    BY <2>1, ElementOfSeq
  <2>5. LatestState(nodes[i]) = nodes[i][Len(nodes[i])]
    BY DEF LatestState, Last
  <2>6. Len(nodes[i]) \in 1 .. Len(nodes[i])
    <3>1. PICK m : m = Len(nodes[i]) /\ m \in 1 .. HISTORY_CAPACITY
      BY <2>2
    <3>2. m \in 1 .. m
      BY <3>1 DEF HISTORY_CAPACITY
    <3> QED BY <3>1, <3>2
  <2> QED BY <2>1, <2>2, <2>3, <2>4, <2>5, <2>6
<1> QED BY <1>1, <1>2

LEMMA LatestFacts ==
  ASSUME TypeOK, HistoriesOK, NEW i
  PROVE  Latest(i) \in Modification
<1>1. [version |-> 0, leftChild |-> 0, rightChild |-> 0, sum |-> 0, lazy |-> 0]
        \in Modification
  BY ValueFacts DEF Modification
<1>2. (CHOOSE state \in Modification : TRUE) \in Modification
  BY <1>1
<1> QED BY <1>2, NodeFacts DEF Latest

(* The stamps of one node, and which of its states is the settled one. *)
LEMMA SettledFacts ==
  ASSUME TypeOK, HistoriesOK, NEW i \in Old
  PROVE  /\ i \in DOMAIN nodes
         /\ \E k \in DOMAIN nodes[i] :
              Settled(i) = nodes[i][k] /\ nodes[i][k].version <= Len(roots)
         /\ Settled(i) \in Modification
<1>1. i \in DOMAIN nodes /\ nodes[i][1].version <= Len(roots)
  BY DEF Old
<1> DEFINE n == Len(nodes[i])
<1>2. /\ n \in Nat /\ n >= 1 /\ DOMAIN nodes[i] = 1 .. n
      /\ LatestState(nodes[i]) = nodes[i][n] /\ Len(roots) \in Nat
      /\ \A k \in 1 .. n : nodes[i][k] \in Modification /\ nodes[i][k].version \in Nat
  BY <1>1, NodeFacts, ModificationFacts DEF HISTORY_CAPACITY
<1>3. CASE i \in Written
  <2>1. nodes[i][n].version > Len(roots)
    BY <1>2, <1>3 DEF Written
  <2>2. n # 1
    BY <1>1, <1>2, <2>1
  <2>3. n \in 2 .. n /\ n - 1 \in 1 .. n
    <3> HIDE DEF n
    <3> QED BY <1>2, <2>2
  <2>4. /\ nodes[i][n - 1].version < nodes[i][n].version
        /\ nodes[i][n].version <= Len(roots) + 1
    BY <1>1, <1>2, <2>3 DEF HistoriesOK, HistoryOK
  <2>5. nodes[i][n - 1].version <= Len(roots)
    <3>1. nodes[i][n - 1].version \in Nat /\ nodes[i][n].version \in Nat
      BY <1>2, <2>3
    <3> QED BY <1>2, <2>4, <3>1
  <2> QED BY <1>1, <1>2, <1>3, <2>3, <2>5 DEF Settled
<1>4. CASE i \notin Written
  <2>1. nodes[i][n].version <= Len(roots)
    <3>1. ~(nodes[i][n].version > Len(roots))
      BY <1>1, <1>2, <1>4 DEF Written
    <3>2. nodes[i][n].version \in Nat
      BY <1>2
    <3> QED BY <1>2, <3>1, <3>2
  <2>2. n \in 1 .. n
    BY <1>2
  <2> QED BY <1>1, <1>2, <1>4, <2>1, <2>2 DEF Settled
<1> QED BY <1>3, <1>4

(* A settled state links to old nodes for the halves. *)
LEMMA OldLinks ==
  ASSUME TypeOK, HistoriesOK, NEW seg, Shaped(seg), NEW i \in Old, ~IsLeaf(seg[i])
  PROVE  /\ NodeFor(seg, Settled(i).leftChild, LeftHalf(seg[i]))
         /\ NodeFor(seg, Settled(i).rightChild, RightHalf(seg[i]))
         /\ Settled(i).leftChild \in Old /\ Settled(i).rightChild \in Old
<1>1. PICK k \in DOMAIN nodes[i] :
        Settled(i) = nodes[i][k] /\ nodes[i][k].version <= Len(roots)
  BY SettledFacts
<1>2. i \in DOMAIN nodes
  BY DEF Old
<1>3. StateOK(seg, seg[i], nodes[i][k])
  BY <1>2 DEF Shaped
<1> QED BY <1>1, <1>3 DEF StateOK

-----------------------------------------------------------------------------
(***************************************************************************)
(* The recursions over the latest states.                                  *)
(***************************************************************************)
LEMMA LatestVisits ==
  ASSUME TypeOK, HistoriesOK, NEW tags \in [Visit -> Int]
  PROVE  \A at \in Visit :
           /\ at.segment \in Interval(arraySize)
           /\ LeftVisit(at, Latest(at.node), tags[at]).segment = LeftHalf(at.segment)
           /\ RightVisit(at, Latest(at.node), tags[at]).segment = RightHalf(at.segment)
           /\ ~IsLeaf(at.segment) =>
                /\ LeftVisit(at, Latest(at.node), tags[at]) \in Visit
                /\ RightVisit(at, Latest(at.node), tags[at]) \in Visit
<1> SUFFICES ASSUME NEW at \in Visit
             PROVE  /\ at.segment \in Interval(arraySize)
                    /\ LeftVisit(at, Latest(at.node), tags[at]).segment = LeftHalf(at.segment)
                    /\ RightVisit(at, Latest(at.node), tags[at]).segment = RightHalf(at.segment)
                    /\ ~IsLeaf(at.segment) =>
                         /\ LeftVisit(at, Latest(at.node), tags[at]) \in Visit
                         /\ RightVisit(at, Latest(at.node), tags[at]) \in Visit
  OBVIOUS
<1>1. at.segment \in Interval(arraySize) /\ arraySize \in Nat
  BY DEF Visit, TypeOK
<1>2. Latest(at.node).leftChild \in Nat /\ Latest(at.node).rightChild \in Nat
  BY LatestFacts, ModificationFacts
<1>3. ~IsLeaf(at.segment) => /\ LeftHalf(at.segment) \in Interval(arraySize)
                             /\ RightHalf(at.segment) \in Interval(arraySize)
  BY <1>1, Halves
<1> QED BY <1>1, <1>2, <1>3 DEF LeftVisit, RightVisit, Visit

(* A recursion over the latest states has a solution. *)
LatestAsked(tags, V, base, join) ==
  /\ tags \in [Visit -> Int] /\ base \in [Visit -> V]
  /\ join \in [Visit \X V \X V -> V]

LatestAnswered(f, tags, V, stop, base, join) ==
  /\ f \in [Visit -> V]
  /\ \A at \in Visit :
       f[at] = IF IsLeaf(at.segment) \/ at \in stop THEN base[at]
               ELSE join[<<at, f[LeftVisit(at, Latest(at.node), tags[at])],
                               f[RightVisit(at, Latest(at.node), tags[at])]>>]

LEMMA LatestSolved ==
  ASSUME TypeOK, HistoriesOK
  PROVE  \A tags, V, stop, base, join :
           LatestAsked(tags, V, base, join) =>
             \E f : LatestAnswered(f, tags, V, stop, base, join)
<1> SUFFICES ASSUME NEW tags, NEW V, NEW stop, NEW base, NEW join,
                    LatestAsked(tags, V, base, join)
             PROVE  \E f : LatestAnswered(f, tags, V, stop, base, join)
  OBVIOUS
<1> DEFINE toLeft == [at \in Visit |-> LeftVisit(at, Latest(at.node), tags[at])]
           toRight == [at \in Visit |-> RightVisit(at, Latest(at.node), tags[at])]
<1>1. /\ tags \in [Visit -> Int] /\ base \in [Visit -> V]
      /\ join \in [Visit \X V \X V -> V] /\ arraySize \in Nat
  BY DEF LatestAsked, TypeOK
<1>2. \A at \in Visit : /\ toLeft[at] = LeftVisit(at, Latest(at.node), tags[at])
                        /\ toRight[at] = RightVisit(at, Latest(at.node), tags[at])
  OBVIOUS
<1> HIDE DEF toLeft, toRight
<1>3. \A at \in Visit :
        /\ at.segment \in Interval(arraySize)
        /\ ~IsLeaf(at.segment) =>
             /\ toLeft[at] \in Visit /\ toLeft[at].segment = LeftHalf(at.segment)
             /\ toRight[at] \in Visit /\ toRight[at].segment = RightHalf(at.segment)
  BY <1>1, <1>2, LatestVisits
<1>4. NodeRecursion(arraySize, Visit, V, stop, base, toLeft, toRight, join)
  BY <1>1, <1>3 DEF NodeRecursion, Visits
<1>5. PICK f : NodeSolution(f, Visit, V, stop, base, toLeft, toRight, join)
  BY <1>4, NodeRecursionSolved
<1>6. \A at \in Visit :
        f[at] = IF IsLeaf(at.segment) \/ at \in stop THEN base[at]
                ELSE join[<<at, f[LeftVisit(at, Latest(at.node), tags[at])],
                                f[RightVisit(at, Latest(at.node), tags[at])]>>]
  BY <1>2, <1>5 DEF NodeSolution
<1> QED BY <1>5, <1>6 DEF NodeSolution, LatestAnswered

(* materialize returns one value or overflow for every element. *)
LEMMA MaterializeType ==
  ASSUME TypeOK, HistoriesOK, NEW root \in Nat
  PROVE  Materialize(root) \in Seq(Outcome)
<1> DEFINE V == Seq(Outcome)
           tags == [at \in Visit |-> CheckedAdd(at.inherited, Latest(at.node).lazy)]
           base == [at \in Visit |-> <<Apply(at.inherited, Latest(at.node).sum, 1)>>]
           join == [x \in Visit \X V \X V |-> x[2] \o x[3]]
           L(at) == LeftVisit(at, Latest(at.node), CheckedAdd(at.inherited, Latest(at.node).lazy))
           R(at) == RightVisit(at, Latest(at.node), CheckedAdd(at.inherited, Latest(at.node).lazy))
           Solved(f) == [at \in Visit |->
                          IF IsLeaf(at.segment)
                          THEN <<Apply(at.inherited, Latest(at.node).sum, 1)>>
                          ELSE f[L(at)] \o f[R(at)]]
<1>1. \A at : Apply(at.inherited, Latest(at.node).sum, 1) \in Outcome
  BY CheckedAddOutcome DEF Apply
<1>2. base \in [Visit -> V]
  BY <1>1
<1>3. join \in [Visit \X V \X V -> V]
  BY ConcatProperties
<1>4. tags \in [Visit -> Int]
  BY CheckedAddOutcome, OutcomeFacts
<1>5. PICK f : LatestAnswered(f, tags, V, {}, base, join)
  <2>1. LatestAsked(tags, V, base, join)
    BY <1>2, <1>3, <1>4 DEF LatestAsked
  <2> HIDE DEF V, tags, base, join
  <2> QED BY <2>1, LatestSolved
<1>6. \A at \in Visit :
        /\ tags[at] = CheckedAdd(at.inherited, Latest(at.node).lazy)
        /\ ~IsLeaf(at.segment) => L(at) \in Visit /\ R(at) \in Visit
        /\ L(at).segment = LeftHalf(at.segment) /\ R(at).segment = RightHalf(at.segment)
  <2>1. \A at \in Visit : tags[at] = CheckedAdd(at.inherited, Latest(at.node).lazy)
    OBVIOUS
  <2> HIDE DEF tags
  <2> QED BY <1>4, <2>1, LatestVisits
<1>7. \A at \in Visit : f[at] = Solved(f)[at]
  <2> TAKE at \in Visit
  <2>1. CASE IsLeaf(at.segment)
    <3>1. f[at] = base[at]
      BY <1>5, <2>1 DEF LatestAnswered
    <3> QED BY <2>1, <3>1
  <2>2. CASE ~IsLeaf(at.segment)
    <3>1. f[at] = join[<<at, f[L(at)], f[R(at)]>>]
      <4> HIDE DEF tags, base, join, V
      <4> QED BY <1>5, <1>6, <2>2 DEF LatestAnswered
    <3>2. f[L(at)] \in V /\ f[R(at)] \in V
      <4> HIDE DEF tags, base, join, V, L, R
      <4> QED BY <1>5, <1>6, <2>2 DEF LatestAnswered
    <3> QED BY <2>2, <3>1, <3>2
  <2> QED BY <2>1, <2>2
<1>8. f = Solved(f)
  <2>1. f \in [Visit -> V]
    BY <1>5 DEF LatestAnswered
  <2> HIDE DEF L, R, V
  <2> QED BY <1>7, <2>1
<1>9. PICK g : /\ g = Solved(g)
               /\ Materialize(root) = IF arraySize = 0 THEN <<>> ELSE g[RootVisit(root)]
  <2>1. \E h : h = Solved(h)
    BY <1>8
  <2> QED BY <2>1 DEF Materialize
<1>10. \A at \in Visit :
         g[at] = IF IsLeaf(at.segment) THEN <<Apply(at.inherited, Latest(at.node).sum, 1)>>
                 ELSE g[L(at)] \o g[R(at)]
  <2> HIDE DEF L, R
  <2> QED BY <1>9
<1> HIDE DEF L, R, V
<1>11. \A c \in Interval(arraySize) : \A at \in Visit : at.segment = c => g[at] \in V
  <2> DEFINE T == {c \in Interval(arraySize) :
                     \A at \in Visit : at.segment = c => g[at] \in V}
  <2>1. ASSUME NEW c \in Interval(arraySize),
               IsLeaf(c) \/ (LeftHalf(c) \in T /\ RightHalf(c) \in T)
        PROVE  c \in T
    <3> SUFFICES ASSUME NEW at \in Visit, at.segment = c PROVE g[at] \in V
      OBVIOUS
    <3>1. CASE IsLeaf(c)
      <4>1. g[at] = <<Apply(at.inherited, Latest(at.node).sum, 1)>>
        BY <1>10, <3>1
      <4>2. Apply(at.inherited, Latest(at.node).sum, 1) \in Outcome
        BY <1>1
      <4> QED BY <4>1, <4>2 DEF V
    <3>2. CASE ~IsLeaf(c)
      <4>1. g[L(at)] \in V /\ g[R(at)] \in V
        BY <1>6, <2>1, <3>2
      <4>2. g[at] = g[L(at)] \o g[R(at)]
        BY <1>10, <3>2
      <4> QED BY <4>1, <4>2, ConcatProperties DEF V
    <3> QED BY <3>1, <3>2
  <2>2. Interval(arraySize) \subseteq T
    <3> HIDE DEF T
    <3> QED BY <2>1, SegmentInduction DEF TypeOK
  <2> QED BY <2>2
<1>12. CASE arraySize = 0
  BY <1>9, <1>12, EmptySeq
<1>13. CASE arraySize # 0
  <2>1. RootVisit(root) \in Visit /\ RootVisit(root).segment \in Interval(arraySize)
    BY <1>13, RootIsSegment DEF RootVisit, Visit, TypeOK
  <2> QED BY <1>9, <1>11, <1>13, <2>1 DEF V
<1> QED BY <1>12, <1>13

(* The recursion of validateUpdate. *)
LEMMA ValidateUpdateSteps ==
  ASSUME TypeOK, HistoriesOK, NEW root, NEW left \in Int, NEW right \in Int, NEW value
  PROVE  \E sum :
           /\ ValidateUpdate(root, left, right, value) <=> sum[RootVisit(root)] # Overflow
           /\ \A at \in Visit :
                LET current == Latest(at.node)
                IN  sum[at] =
                      IF Disjoint(left, right, at.segment) THEN current.sum
                      ELSE IF Covers(left, right, at.segment)
                           THEN IF CheckedAdd(current.lazy, value) = Overflow THEN Overflow
                                ELSE Apply(value, current.sum, Length(at.segment))
                           ELSE Apply(current.lazy,
                                      CheckedAdd(sum[LeftVisit(at, current, 0)],
                                                 sum[RightVisit(at, current, 0)]),
                                      Length(at.segment))
<1> DEFINE Cur(at) == Latest(at.node)
           Outer(at) == Disjoint(left, right, at.segment)
           Inner(at) == Covers(left, right, at.segment)
           Own(at) == IF CheckedAdd(Cur(at).lazy, value) = Overflow THEN Overflow
                      ELSE Apply(value, Cur(at).sum, Length(at.segment))
           L(at) == LeftVisit(at, Cur(at), 0)
           R(at) == RightVisit(at, Cur(at), 0)
           tags == [at \in Visit |-> 0]
           stop == {at \in Visit : Outer(at) \/ Inner(at)}
           base == [at \in Visit |-> IF Outer(at) THEN Cur(at).sum ELSE Own(at)]
           join == [x \in Visit \X Outcome \X Outcome |->
                      Apply(Cur(x[1]).lazy, CheckedAdd(x[2], x[3]), Length(x[1].segment))]
           Solved(f) == [at \in Visit |->
                          LET current == Latest(at.node)
                          IN  IF Disjoint(left, right, at.segment) THEN current.sum
                              ELSE IF Covers(left, right, at.segment)
                                   THEN IF CheckedAdd(current.lazy, value) = Overflow
                                        THEN Overflow
                                        ELSE Apply(value, current.sum, Length(at.segment))
                                   ELSE Apply(current.lazy,
                                              CheckedAdd(f[LeftVisit(at, current, 0)],
                                                         f[RightVisit(at, current, 0)]),
                                              Length(at.segment))]
<1>1. base \in [Visit -> Outcome]
  <2>1. \A at \in Visit : Cur(at).sum \in Outcome
    BY LatestFacts, ModificationFacts, OutcomeFacts
  <2>2. \A at \in Visit : Own(at) \in Outcome
    BY CheckedAddOutcome, OutcomeFacts DEF Apply
  <2> HIDE DEF Cur, Own, Outer
  <2> QED BY <2>1, <2>2
<1>2. join \in [Visit \X Outcome \X Outcome -> Outcome]
  <2>1. \A k, s, n : Apply(k, s, n) \in Outcome
    BY CheckedAddOutcome DEF Apply
  <2> QED BY <2>1
<1>3. tags \in [Visit -> Int]
  OBVIOUS
<1>4. PICK f : LatestAnswered(f, tags, Outcome, stop, base, join)
  <2>1. LatestAsked(tags, Outcome, base, join)
    BY <1>1, <1>2, <1>3 DEF LatestAsked
  <2> HIDE DEF tags, base, join, stop
  <2> QED BY <2>1, LatestSolved
<1>5. ASSUME NEW at \in Visit
      PROVE  f[at] = IF Outer(at) THEN Cur(at).sum ELSE IF Inner(at) THEN Own(at)
                     ELSE Apply(Cur(at).lazy, CheckedAdd(f[L(at)], f[R(at)]),
                                Length(at.segment))
  <2>1. CASE Outer(at) \/ Inner(at)
    <3>1. f[at] = base[at]
      BY <1>4, <2>1 DEF LatestAnswered
    <3> HIDE DEF Cur, Outer, Inner, Own
    <3> QED BY <2>1, <3>1
  <2>2. CASE ~Outer(at) /\ ~Inner(at)
    <3>1. at.segment \in Interval(arraySize) /\ arraySize \in Nat
      BY DEF Visit, TypeOK
    <3>2. ~IsLeaf(at.segment)
      BY <2>2, <3>1, LeafCovered
    <3>3. at \notin stop
      BY <2>2
    <3>4. tags[at] = 0
      OBVIOUS
    <3>5. f[at] = join[<<at, f[L(at)], f[R(at)]>>]
      <4>1. f[at] = join[<<at, f[LeftVisit(at, Latest(at.node), tags[at])],
                               f[RightVisit(at, Latest(at.node), tags[at])]>>]
        <5> HIDE DEF tags, base, join, stop
        <5> QED BY <1>4, <3>2, <3>3 DEF LatestAnswered
      <4> HIDE DEF tags, join
      <4> QED BY <3>4, <4>1
    <3>6. L(at) \in Visit /\ R(at) \in Visit
      <4> HIDE DEF tags
      <4> QED BY <1>3, <3>2, <3>4, LatestVisits
    <3>7. f[L(at)] \in Outcome /\ f[R(at)] \in Outcome
      <4> HIDE DEF L, R, tags, base, join, stop
      <4> QED BY <1>4, <3>6 DEF LatestAnswered
    <3> HIDE DEF L, R, Cur, Outer, Inner, Own
    <3> QED BY <2>2, <3>5, <3>7
  <2> QED BY <2>1, <2>2
<1>6. f = Solved(f)
  <2>1. f = [at \in Visit |-> f[at]]
    BY <1>4 DEF LatestAnswered
  <2>2. \A at \in Visit : f[at] = Solved(f)[at]
    BY <1>5
  <2> QED BY <2>1, <2>2
<1>7. PICK g : /\ g = Solved(g)
               /\ ValidateUpdate(root, left, right, value) <=> g[RootVisit(root)] # Overflow
  <2>1. \E h : h = Solved(h)
    BY <1>6
  <2> QED BY <2>1 DEF ValidateUpdate
<1>8. \A at \in Visit : g[at] = Solved(g)[at]
  BY <1>7
<1> QED BY <1>7, <1>8

-----------------------------------------------------------------------------
(***************************************************************************)
(* The frames of update.                                                   *)
(***************************************************************************)
LEMMA CallFacts ==
  ASSUME TypeOK, call.phase # "idle"
  PROVE  /\ call.left \in Nat \ {0} /\ call.right \in Nat
         /\ call.value \in Value /\ call.value \in Deltas
         /\ call.version \in Nat /\ call.root \in Nat /\ call.nextBound \in Bound
         /\ call.phase \in {"reserve", "update"}
         /\ call = [phase |-> call.phase, left |-> call.left, right |-> call.right,
                    value |-> call.value, version |-> call.version, root |-> call.root,
                    nextBound |-> call.nextBound]
<1>1. call \in [phase : {"reserve", "update"}, left : Nat \ {0}, right : Nat,
                value : Deltas, version : Nat, root : Nat, nextBound : Bound]
  BY DEF TypeOK, Call, Idle
<1> QED BY <1>1, DeltasAssumption

(* An invocation begins on an old node that meets the range. *)
LEMMA FrameBegins ==
  ASSUME TypeOK, HistoriesOK, call.phase # "idle", NEW seg, NEW foreseen,
         Shaped(seg), Foreseen(seg, foreseen),
         \A i \in Written : ~Disjoint(call.left, call.right, seg[i]),
         NEW i \in Old, i \notin Written, ~Disjoint(call.left, call.right, seg[i]),
         foreseen[i] # Overflow
  PROVE  LET f == UpdateFrame(i, seg[i], call.left, call.right)
         IN  /\ f \in Frame /\ f.segment = seg[i] /\ f.node = i
             /\ f.todo # {} => ~IsLeaf(f.segment)
             /\ FrameOK(seg, foreseen, f)
             /\ Ahead(f) = VisitsOf[seg[i]]
<1> DEFINE c == seg[i]
           f == UpdateFrame(i, c, call.left, call.right)
<1>1. /\ call.left \in Int /\ call.right \in Int /\ arraySize \in Nat
      /\ i \in DOMAIN nodes /\ i \in Nat /\ c \in Interval(arraySize)
  BY CallFacts, NodeFacts DEF Old, Shaped
<1>2. /\ LatestState(nodes[i]) = Settled(i)
      /\ Settled(i).leftChild \in Nat /\ Settled(i).rightChild \in Nat
  BY SettledFacts, ModificationFacts DEF Settled
<1>3. /\ f.segment = c /\ f.node = i
      /\ f.newLeft = Settled(i).leftChild /\ f.newRight = Settled(i).rightChild
      /\ f.todo = IF Covers(call.left, call.right, c) THEN {}
                  ELSE MeetingSides(c, call.left, call.right)
  BY <1>2 DEF UpdateFrame
<1>4. f.todo \in SUBSET Sides
  BY <1>3 DEF MeetingSides
<1>5. f \in Frame
  <2>1. c \in Nat \X Nat
    BY <1>1, Halves
  <2> HIDE DEF c
  <2> QED BY <1>1, <1>2, <1>3, <1>4, <2>1 DEF UpdateFrame, Frame
<1> HIDE DEF f
<1>6. f.todo # {} => ~IsLeaf(c) /\ ~Covers(call.left, call.right, c)
  BY <1>1, <1>3, LeafCovered
<1>7. \A side \in Sides : ~IsLeaf(c) /\ ~Covers(call.left, call.right, c) =>
        (side \in f.todo <=> ~Disjoint(call.left, call.right, Half(c, side)))
  <2> HIDE DEF c
  <2> QED BY <1>1, <1>3, MeetingHalves DEF c
<1>8. \A side \in Sides : Child(f, side) = OldChild(f, side)
  BY <1>3 DEF Child, OldChild
<1>9. ASSUME ~IsLeaf(c), NEW side \in Sides
      PROVE  SideOK(seg, foreseen, f, side)
  <2>1. CASE side \in f.todo \/ Covers(call.left, call.right, c)
    BY <1>3, <1>8, <2>1 DEF SideOK
  <2>2. CASE side \notin f.todo /\ ~Covers(call.left, call.right, c)
    <3> DEFINE j == OldChild(f, side)
    <3>1. Disjoint(call.left, call.right, Half(c, side))
      BY <1>7, <1>9, <2>2
    <3>2. NodeFor(seg, j, Half(c, side)) /\ j \in Old
      <4>1. /\ NodeFor(seg, Settled(i).leftChild, LeftHalf(c))
            /\ NodeFor(seg, Settled(i).rightChild, RightHalf(c))
            /\ Settled(i).leftChild \in Old /\ Settled(i).rightChild \in Old
        BY <1>9, OldLinks
      <4> QED BY <1>3, <4>1 DEF OldChild, Half, Sides
    <3>3. Disjoint(call.left, call.right, seg[j])
      BY <3>1, <3>2 DEF NodeFor
    <3>4. j \notin Written
      BY <3>3
    <3>5. foreseen[j] = LatestState(nodes[j]).sum
      <4>1. foreseen[j] = Settled(j).sum
        BY <3>2, <3>3 DEF Foreseen
      <4> QED BY <3>4, <4>1 DEF Settled
    <3> HIDE DEF j
    <3> QED BY <1>3, <1>8, <2>2, <3>1, <3>2, <3>5 DEF SideOK, j
  <2> QED BY <2>1, <2>2
<1>10. FrameOK(seg, foreseen, f)
  <2>1. \A side \in f.todo : ~Disjoint(call.left, call.right, Half(c, side))
    BY <1>4, <1>6, <1>7
  <2>2. Covers(call.left, call.right, c) => f.todo = {}
    BY <1>3
  <2>3. ~IsLeaf(c) => SideOK(seg, foreseen, f, "left") /\ SideOK(seg, foreseen, f, "right")
    BY <1>9 DEF Sides
  <2> QED BY <1>3, <2>1, <2>2, <2>3 DEF FrameOK
<1>11. Ahead(f) = VisitsOf[c]
  <2>1. \A d \in Interval(arraySize) :
          /\ VisitsOf[d] \in Nat
          /\ VisitsOf[d] = IF Disjoint(call.left, call.right, d) THEN 0
                           ELSE IF Covers(call.left, call.right, d) THEN 1
                                ELSE VisitsOf[LeftHalf(d)] + VisitsOf[RightHalf(d)] + 1
    BY <1>1, VisitCountStep DEF VisitsOf
  <2>2. CASE Covers(call.left, call.right, c)
    <3>1. f.todo = {} /\ VisitsOf[c] = 1
      BY <1>1, <1>3, <2>1, <2>2
    <3> QED BY <3>1 DEF Ahead, Cost
  <2>3. CASE ~Covers(call.left, call.right, c)
    <3>1. ~IsLeaf(c)
      BY <1>1, <2>3, LeafCovered
    <3>2. LeftHalf(c) \in Interval(arraySize) /\ RightHalf(c) \in Interval(arraySize)
      BY <1>1, <3>1, Halves
    <3>3. Cost(f, "left") = VisitsOf[LeftHalf(c)]
      <4>1. "left" \in f.todo <=> ~Disjoint(call.left, call.right, LeftHalf(c))
        BY <1>7, <2>3, <3>1 DEF Half, Sides
      <4> QED BY <1>3, <2>1, <3>2, <4>1 DEF Cost, Half
    <3>4. Cost(f, "right") = VisitsOf[RightHalf(c)]
      <4>1. "right" \in f.todo <=> ~Disjoint(call.left, call.right, RightHalf(c))
        BY <1>7, <2>3, <3>1 DEF Half, Sides
      <4> QED BY <1>3, <2>1, <3>2, <4>1 DEF Cost, Half
    <3>5. VisitsOf[c] = VisitsOf[LeftHalf(c)] + VisitsOf[RightHalf(c)] + 1
      BY <1>1, <2>1, <2>3
    <3> QED BY <3>3, <3>4, <3>5 DEF Ahead
  <2> QED BY <2>2, <2>3
<1>12. f.todo # {} => ~IsLeaf(f.segment)
  BY <1>3, <1>6
<1> QED BY <1>3, <1>5, <1>10, <1>11, <1>12 DEF f

(* A finished invocation records the sum that was foreseen for its node. *)
LEMMA FinishedState ==
  ASSUME TypeOK, HistoriesOK, CallOK, call.phase # "idle", NEW seg, NEW foreseen,
         Shaped(seg), Foreseen(seg, foreseen),
         NEW f \in Frame, f.todo = {}, f.segment \in Interval(arraySize),
         FrameOK(seg, foreseen, f)
  PROVE  /\ Computed(NextState(f))
         /\ NextState(f) \in Modification
         /\ NextState(f).version = Len(roots) + 1
         /\ NextState(f).sum = foreseen[f.node]
         /\ ~IsLeaf(f.segment) =>
              /\ NodeFor(seg, NextState(f).leftChild, LeftHalf(f.segment))
              /\ NodeFor(seg, NextState(f).rightChild, RightHalf(f.segment))
<1> DEFINE c == f.segment
           i == f.node
           now == Settled(i)
<1>1. /\ call.left \in Int /\ call.right \in Int /\ arraySize \in Nat
      /\ call.version \in Nat /\ call.version = Len(roots) + 1
      /\ i \in Old /\ i \notin Written /\ seg[i] = c
      /\ ~Disjoint(call.left, call.right, c) /\ foreseen[i] # Overflow
      /\ f.newLeft \in Nat /\ f.newRight \in Nat
  BY CallFacts DEF TypeOK, CallOK, FrameOK, Frame
<1>2. LatestState(nodes[i]) = now /\ now \in Modification
  BY <1>1, SettledFacts DEF Settled
<1>3. NextState(f) =
        [version |-> call.version, leftChild |-> f.newLeft, rightChild |-> f.newRight,
         sum |-> IF Covers(call.left, call.right, c) THEN Apply(call.value, now.sum, Length(c))
                 ELSE Apply(now.lazy,
                            CheckedAdd(LatestState(nodes[f.newLeft]).sum,
                                       LatestState(nodes[f.newRight]).sum),
                            Length(c)),
         lazy |-> IF Covers(call.left, call.right, c) THEN CheckedAdd(now.lazy, call.value)
                  ELSE now.lazy]
  <2> HIDE DEF now
  <2> QED BY <1>2 DEF NextState
<1>4. foreseen[i] =
        IF Covers(call.left, call.right, c)
        THEN IF CheckedAdd(now.lazy, call.value) = Overflow THEN Overflow
             ELSE Apply(call.value, now.sum, Length(c))
        ELSE Apply(now.lazy, CheckedAdd(foreseen[now.leftChild], foreseen[now.rightChild]),
                   Length(c))
  BY <1>1 DEF Foreseen
<1> HIDE DEF now
<1>5. CASE Covers(call.left, call.right, c)
  <2>1. /\ NextState(f).sum = foreseen[i]
        /\ NextState(f).lazy = CheckedAdd(now.lazy, call.value)
        /\ NextState(f).lazy # Overflow
    BY <1>1, <1>3, <1>4, <1>5
  <2>2. NextState(f).sum \in Value /\ NextState(f).lazy \in Value
    <3>1. NextState(f).sum \in Outcome /\ NextState(f).lazy \in Outcome
      BY <1>3, <1>5, CheckedAddOutcome DEF Apply
    <3> QED BY <1>1, <2>1, <3>1, OutcomeValue
  <2>3. NextState(f) \in Modification
    BY <1>1, <1>3, <2>2 DEF Modification
  <2>4. ASSUME ~IsLeaf(c)
        PROVE  /\ NodeFor(seg, NextState(f).leftChild, LeftHalf(c))
               /\ NodeFor(seg, NextState(f).rightChild, RightHalf(c))
    <3>1. f.newLeft = now.leftChild /\ f.newRight = now.rightChild
      BY <1>5, <2>4 DEF FrameOK, SideOK, Child, OldChild, now
    <3>2. /\ NodeFor(seg, now.leftChild, LeftHalf(c))
          /\ NodeFor(seg, now.rightChild, RightHalf(c))
      BY <1>1, <2>4, OldLinks DEF now
    <3> QED BY <1>3, <3>1, <3>2
  <2> QED BY <1>1, <1>3, <2>1, <2>3, <2>4 DEF Computed
<1>6. CASE ~Covers(call.left, call.right, c)
  <2>1. ~IsLeaf(c)
    BY <1>1, <1>6, LeafCovered
  <2>2. /\ SideOK(seg, foreseen, f, "left") /\ SideOK(seg, foreseen, f, "right")
        /\ "left" \notin f.todo /\ "right" \notin f.todo
    BY <2>1 DEF FrameOK
  <2>3. /\ NodeFor(seg, f.newLeft, LeftHalf(c))
        /\ LatestState(nodes[f.newLeft]).sum = foreseen[now.leftChild]
    BY <1>6, <2>2 DEF SideOK, Child, OldChild, Half, now
  <2>4. /\ NodeFor(seg, f.newRight, RightHalf(c))
        /\ LatestState(nodes[f.newRight]).sum = foreseen[now.rightChild]
    BY <1>6, <2>2 DEF SideOK, Child, OldChild, Half, now
  <2>5. NextState(f).sum = foreseen[i] /\ NextState(f).lazy = now.lazy
    BY <1>3, <1>4, <1>6, <2>3, <2>4
  <2>6. now.lazy \in Value
    BY <1>2, ModificationFacts
  <2>7. NextState(f).sum \in Value /\ NextState(f).lazy \in Value
    <3>1. NextState(f).sum \in Outcome
      BY <1>3, <1>6, CheckedAddOutcome DEF Apply
    <3> QED BY <1>1, <2>5, <2>6, <3>1, OutcomeValue
  <2>8. NextState(f) \in Modification
    BY <1>1, <1>3, <2>7 DEF Modification
  <2>9. NextState(f).sum # Overflow /\ NextState(f).lazy # Overflow
    BY <2>7, ValueFacts
  <2> QED BY <1>1, <1>3, <2>3, <2>4, <2>5, <2>8, <2>9 DEF Computed
<1> QED BY <1>5, <1>6

-----------------------------------------------------------------------------
(***************************************************************************)
(* Steps that leave the nodes alone.                                       *)
(***************************************************************************)

(* The last state of a node has its largest stamp. *)
LEMMA StampBounds ==
  ASSUME TypeOK, HistoriesOK, NEW i \in DOMAIN nodes, NEW k \in DOMAIN nodes[i]
  PROVE  nodes[i][k].version \in Nat /\ nodes[i][k].version <= Len(roots) + 1
<1> DEFINE n == Len(nodes[i])
           T == {d \in Nat : \A m \in 1 .. n : n - m = d =>
                               nodes[i][m].version <= Len(roots) + 1}
<1>1. /\ n \in Nat /\ n >= 1 /\ DOMAIN nodes[i] = 1 .. n
      /\ LatestState(nodes[i]) = nodes[i][n] /\ Len(roots) \in Nat
      /\ \A m \in 1 .. n : nodes[i][m].version \in Nat
  BY NodeFacts, ModificationFacts DEF HISTORY_CAPACITY
<1>2. /\ nodes[i][n].version <= Len(roots) + 1
      /\ \A m \in 2 .. n : nodes[i][m - 1].version < nodes[i][m].version
  BY <1>1 DEF HistoriesOK, HistoryOK
<1> HIDE DEF n
<1>3. 0 \in T
  <2>1. ASSUME NEW m \in 1 .. n, n - m = 0 PROVE nodes[i][m].version <= Len(roots) + 1
    <3>1. m = n
      BY <1>1, <2>1
    <3> QED BY <1>2, <3>1
  <2> QED BY <2>1
<1>4. ASSUME NEW d \in Nat, d \in T PROVE d + 1 \in T
  <2> SUFFICES ASSUME NEW m \in 1 .. n, n - m = d + 1
               PROVE  nodes[i][m].version <= Len(roots) + 1
    OBVIOUS
  <2>1. m + 1 \in 2 .. n /\ n - (m + 1) = d /\ (m + 1) - 1 = m /\ m + 1 \in 1 .. n
    BY <1>1
  <2>2. nodes[i][m].version < nodes[i][m + 1].version
    BY <1>2, <2>1
  <2>3. nodes[i][m + 1].version <= Len(roots) + 1
    BY <1>4, <2>1
  <2>4. nodes[i][m].version \in Nat /\ nodes[i][m + 1].version \in Nat
    BY <1>1, <2>1
  <2> QED BY <1>1, <2>2, <2>3, <2>4
<1>5. Nat \subseteq T
  <2> HIDE DEF T
  <2> QED BY <1>3, <1>4, SetInduction
<1>6. k \in 1 .. n /\ n - k \in Nat
  BY <1>1
<1> QED BY <1>1, <1>5, <1>6

LEMMA SameArena ==
  ASSUME UNCHANGED <<nodes, roots, arraySize>>
  PROVE  /\ Old' = Old /\ Written' = Written
         /\ \A i : Settled(i)' = Settled(i)
         /\ HistoriesOK' <=> HistoriesOK
         /\ \A seg : Done(seg)' = Done(seg)
         /\ \A seg : Shaped(seg) => Shaped(seg)'
<1>1. Old' = Old /\ Written' = Written
  BY DEF Old, Written
<1>2. \A i : Settled(i)' = Settled(i)
  BY <1>1 DEF Settled
<1>3. HistoriesOK' <=> HistoriesOK
  BY DEF HistoriesOK, HistoryOK
<1>4. \A seg : Done(seg)' = Done(seg)
  BY <1>1 DEF Done
<1>5. ASSUME NEW seg, Shaped(seg) PROVE Shaped(seg)'
  BY <1>1, <1>5 DEF Shaped, StateOK, NodeFor
<1> QED BY <1>1, <1>2, <1>3, <1>4, <1>5

LEMMA SameCall ==
  ASSUME UNCHANGED <<nodes, roots, arraySize>>,
         call'.left = call.left, call'.right = call.right, call'.value = call.value
  PROVE  /\ VisitsOf' = VisitsOf
         /\ \A f : Ahead(f)' = Ahead(f)
         /\ \A seg, foreseen : Foreseen(seg, foreseen) => Foreseen(seg, foreseen)'
         /\ \A seg, foreseen, f : FrameOK(seg, foreseen, f) => FrameOK(seg, foreseen, f)'
<1>1. Old' = Old /\ Written' = Written /\ \A i : Settled(i)' = Settled(i)
  BY SameArena
<1>2. VisitsOf' = VisitsOf
  BY DEF VisitsOf
<1>3. \A f : Ahead(f)' = Ahead(f)
  BY <1>2 DEF Ahead, Cost
<1>4. ASSUME NEW seg, NEW foreseen, Foreseen(seg, foreseen)
      PROVE  Foreseen(seg, foreseen)'
  BY <1>1, <1>4 DEF Foreseen
<1>5. ASSUME NEW seg, NEW foreseen, NEW f, NEW side
      PROVE  SideOK(seg, foreseen, f, side)' <=> SideOK(seg, foreseen, f, side)
  <2>1. OldChild(f, side)' = OldChild(f, side)
    BY <1>1 DEF OldChild
  <2> QED BY <1>1, <2>1 DEF SideOK, NodeFor
<1>6. ASSUME NEW seg, NEW foreseen, NEW f, FrameOK(seg, foreseen, f)
      PROVE  FrameOK(seg, foreseen, f)'
  BY <1>1, <1>5, <1>6 DEF FrameOK
<1> QED BY <1>2, <1>3, <1>4, <1>6

(* When a version is published every node becomes an old one. *)
LEMMA NewVersion ==
  ASSUME TypeOK, HistoriesOK, NEW seg, Shaped(seg), UNCHANGED <<nodes, arraySize>>,
         NEW root \in Nat, roots' = Append(roots, root),
         arraySize # 0 => NodeFor(seg, root, Root(arraySize))
  PROVE  /\ Len(roots') = Len(roots) + 1 /\ roots' \in Seq(Nat) /\ roots' # <<>>
         /\ HistoriesOK' /\ Written' = {} /\ Shaped(seg)'
<1>1. /\ roots \in Seq(Nat) /\ Len(roots) \in Nat /\ DOMAIN roots = 1 .. Len(roots)
      /\ arraySize \in Nat
  BY NodeFacts DEF TypeOK
<1>2. /\ Len(roots') = Len(roots) + 1 /\ roots' \in Seq(Nat)
      /\ DOMAIN roots' = 1 .. Len(roots) + 1
      /\ \A v \in 1 .. Len(roots) : roots'[v] = roots[v]
      /\ roots'[Len(roots) + 1] = root
  BY <1>1, AppendProperties, LenProperties
<1>3. \A i \in DOMAIN nodes : \A k \in DOMAIN nodes[i] :
        nodes[i][k].version \in Nat /\ nodes[i][k].version <= Len(roots) + 1
  BY StampBounds
<1>4. \A i \in DOMAIN nodes :
        /\ LatestState(nodes[i]).version \in Nat
        /\ LatestState(nodes[i]).version <= Len(roots) + 1
        /\ 1 \in DOMAIN nodes[i]
  <2> SUFFICES ASSUME NEW i \in DOMAIN nodes
               PROVE  /\ LatestState(nodes[i]).version \in Nat
                      /\ LatestState(nodes[i]).version <= Len(roots) + 1
                      /\ 1 \in DOMAIN nodes[i]
    OBVIOUS
  <2>1. LatestState(nodes[i]) \in Modification
    BY NodeFacts
  <2>2. LatestState(nodes[i]).version <= Len(roots) + 1
    BY DEF HistoriesOK, HistoryOK
  <2>3. Len(nodes[i]) \in 1 .. HISTORY_CAPACITY /\ DOMAIN nodes[i] = 1 .. Len(nodes[i])
    BY NodeFacts
  <2> QED BY <2>1, <2>2, <2>3, ModificationFacts DEF HISTORY_CAPACITY
<1>5. HistoriesOK'
  <2>1. ASSUME NEW i \in DOMAIN nodes PROVE HistoryOK(nodes[i])'
    BY <1>1, <1>2, <1>4 DEF HistoriesOK, HistoryOK
  <2> QED BY <2>1 DEF HistoriesOK, HistoryOK
<1>6. Written' = {}
  <2>1. ASSUME NEW i \in DOMAIN nodes PROVE ~(LatestState(nodes[i]).version > Len(roots) + 1)
    BY <1>1, <1>4
  <2> QED BY <1>2, <2>1 DEF Written
<1>7. Old' = DOMAIN nodes
  <2>1. \A i \in DOMAIN nodes : nodes[i][1].version <= Len(roots) + 1
    BY <1>3, <1>4
  <2>2. \A i \in DOMAIN nodes' : nodes'[i][1].version <= Len(roots')
    BY <1>2, <2>1
  <2> QED BY <2>2 DEF Old
<1>8. Shaped(seg)'
  <2>1. seg \in [DOMAIN nodes -> Interval(arraySize)]
    BY DEF Shaped
  <2>2. ASSUME NEW i \in DOMAIN nodes, NEW k \in DOMAIN nodes[i]
        PROVE  StateOK(seg, seg[i], nodes[i][k])'
    <3>1. StateOK(seg, seg[i], nodes[i][k])
      BY DEF Shaped
    <3> QED BY <1>7, <3>1 DEF StateOK, NodeFor
  <2>3. ASSUME arraySize # 0, NEW v \in 1 .. Len(roots) + 1
        PROVE  NodeFor(seg, roots'[v], Root(arraySize))
    BY <1>1, <1>2, <2>3 DEF Shaped
  <2>4. \A v \in DOMAIN roots' : arraySize # 0 =>
          NodeFor(seg, roots'[v], Root(arraySize)) /\ roots'[v] \in Old'
    BY <1>2, <1>7, <2>3 DEF NodeFor
  <2> QED BY <2>1, <2>2, <2>4 DEF Shaped, NodeFor, StateOK
<1>9. roots' # <<>>
  BY <1>1, <1>2
<1> QED BY <1>2, <1>5, <1>6, <1>8, <1>9

-----------------------------------------------------------------------------
(***************************************************************************)
(* One lemma for each action: it preserves the inductive invariant.        *)
(***************************************************************************)
LEMMA InitFInv == Init => FInv
<1> SUFFICES ASSUME Init PROVE FInv
  OBVIOUS
<1>1. /\ nodes = <<>> /\ roots = <<>> /\ stack = <<>> /\ arraySize = 0 /\ bound = 0
      /\ capacity = 0 /\ rootCapacity = 0 /\ call = Idle /\ call.phase = "idle"
      /\ call \in Call
  BY DEF Init, Idle, Call
<1>2. 0 \in Bound
  BY MaxValAssumption DEF Bound, MaxBound
<1>3. TypeOK
  BY <1>1, <1>2, EmptySeq DEF TypeOK
<1>4. HistoriesOK /\ CallOK /\ Len(roots) <= rootCapacity
  BY <1>1 DEF HistoriesOK, CallOK, Written
<1>5. PICK seg : seg = [i \in {} |-> Root(0)]
  OBVIOUS
<1>6. Shaped(seg)
  BY <1>1, <1>5 DEF Shaped
<1> QED BY <1>1, <1>3, <1>4, <1>6 DEF FInv

LEMMA RangeAddZeroFInv ==
  ASSUME FInv, NEW left, NEW right, RangeAddZero(left, right)
  PROVE  FInv'
<1>1. /\ TypeOK /\ HistoriesOK /\ CallOK /\ Len(roots) <= rootCapacity
      /\ call = Idle /\ call' = Idle /\ call.phase = "idle" /\ roots # <<>>
      /\ roots' = Append(roots, Last(roots)) /\ rootCapacity' = GrownRoots
      /\ UNCHANGED <<nodes, capacity, arraySize, bound, call, stack>>
  BY DEF FInv, RangeAddZero, ValidRangeAdd, Idle
<1>2. PICK seg : Shaped(seg)
  BY DEF FInv
<1>3. /\ Len(roots) \in Nat /\ Len(roots) >= 1 /\ DOMAIN roots = 1 .. Len(roots)
      /\ Last(roots) = roots[Len(roots)] /\ Last(roots) \in Nat /\ Len(roots) \in DOMAIN roots
  <2>1. roots \in Seq(Nat) /\ Len(roots) \in Nat /\ DOMAIN roots = 1 .. Len(roots)
    BY <1>1, NodeFacts DEF TypeOK
  <2>2. Len(roots) >= 1
    BY <1>1, <2>1, EmptySeq
  <2> QED BY <2>1, <2>2, ElementOfSeq DEF Last
<1>4. arraySize # 0 => NodeFor(seg, Last(roots), Root(arraySize))
  BY <1>2, <1>3 DEF Shaped
<1>5. /\ Len(roots') = Len(roots) + 1 /\ roots' \in Seq(Nat) /\ roots' # <<>>
      /\ HistoriesOK' /\ Written' = {} /\ Shaped(seg)'
  BY <1>1, <1>2, <1>3, <1>4, NewVersion
<1>6. GrownRoots \in Nat /\ Len(roots) + 1 <= GrownRoots
  BY <1>1, <1>3 DEF GrownRoots, TypeOK
<1>7. TypeOK'
  BY <1>1, <1>5, <1>6 DEF TypeOK
<1>8. CallOK' /\ Len(roots') <= rootCapacity'
  <2>1. stack = <<>>
    BY <1>1 DEF CallOK
  <2>2. CallOK'
    BY <1>1, <1>5, <2>1 DEF CallOK
  <2> QED BY <1>1, <1>5, <1>6, <2>2
<1> QED BY <1>1, <1>5, <1>7, <1>8 DEF FInv

LEMMA PublishFInv == FInv /\ Publish => FInv'
<1> SUFFICES ASSUME FInv, Publish PROVE FInv'
  OBVIOUS
<1>1. /\ TypeOK /\ HistoriesOK /\ CallOK /\ Len(roots) <= rootCapacity
      /\ call.phase = "update" /\ stack = <<>> /\ Len(roots) < rootCapacity
      /\ roots' = Append(roots, call.root) /\ bound' = call.nextBound
      /\ call' = Idle /\ call'.phase = "idle"
      /\ UNCHANGED <<nodes, capacity, rootCapacity, arraySize, stack>>
  BY DEF FInv, Publish, Idle
<1>2. PICK seg : Shaped(seg) /\ \E foreseen : UpdateOK(seg, foreseen)
  BY <1>1 DEF FInv
<1>3. NodeFor(seg, call.root, Root(arraySize))
  BY <1>1, <1>2 DEF UpdateOK
<1>4. call.root \in Nat /\ call.nextBound \in Bound /\ Len(roots) \in Nat /\ rootCapacity \in Nat
  BY <1>1, CallFacts, NodeFacts DEF TypeOK
<1>5. /\ Len(roots') = Len(roots) + 1 /\ roots' \in Seq(Nat)
      /\ HistoriesOK' /\ Written' = {} /\ Shaped(seg)'
  BY <1>1, <1>2, <1>3, <1>4, NewVersion
<1>6. TypeOK'
  <2>1. Idle \in Call
    BY DEF Call
  <2> QED BY <1>1, <1>4, <1>5, <2>1 DEF TypeOK
<1>7. CallOK' /\ Len(roots') <= rootCapacity'
  BY <1>1, <1>4, <1>5 DEF CallOK
<1> QED BY <1>1, <1>5, <1>6, <1>7 DEF FInv

LEMMA LastRoot ==
  ASSUME TypeOK, HistoriesOK, NEW seg, Shaped(seg), roots # <<>>
  PROVE  /\ Len(roots) \in Nat \ {0} /\ Last(roots) = roots[Len(roots)] /\ Last(roots) \in Nat
         /\ arraySize # 0 => NodeFor(seg, Last(roots), Root(arraySize)) /\ Last(roots) \in Old
<1>1. roots \in Seq(Nat) /\ Len(roots) \in Nat /\ DOMAIN roots = 1 .. Len(roots)
  BY NodeFacts DEF TypeOK
<1>2. Len(roots) >= 1
  BY <1>1, EmptySeq
<1>3. Last(roots) = roots[Len(roots)] /\ Last(roots) \in Nat /\ Len(roots) \in DOMAIN roots
  BY <1>1, <1>2, ElementOfSeq DEF Last
<1> QED BY <1>1, <1>2, <1>3 DEF Shaped

(* The dry run has foreseen the sum of every old node below the root. *)
LEMMA ValidateUpdateForesees ==
  ASSUME TypeOK, HistoriesOK, NEW seg, Shaped(seg), Written = {}, arraySize # 0,
         roots # <<>>, NEW left \in Int, NEW right \in Int, NEW value,
         ValidateUpdate(Last(roots), left, right, value)
  PROVE  \E foreseen :
           /\ foreseen[Last(roots)] # Overflow
           /\ \A i \in Old :
                foreseen[i] =
                  IF Disjoint(left, right, seg[i]) THEN Settled(i).sum
                  ELSE IF Covers(left, right, seg[i])
                       THEN IF CheckedAdd(Settled(i).lazy, value) = Overflow THEN Overflow
                            ELSE Apply(value, Settled(i).sum, Length(seg[i]))
                       ELSE Apply(Settled(i).lazy,
                                  CheckedAdd(foreseen[Settled(i).leftChild],
                                             foreseen[Settled(i).rightChild]),
                                  Length(seg[i]))
<1>1. PICK sum :
        /\ sum[RootVisit(Last(roots))] # Overflow
        /\ \A at \in Visit :
             LET current == Latest(at.node)
             IN  sum[at] =
                   IF Disjoint(left, right, at.segment) THEN current.sum
                   ELSE IF Covers(left, right, at.segment)
                        THEN IF CheckedAdd(current.lazy, value) = Overflow THEN Overflow
                             ELSE Apply(value, current.sum, Length(at.segment))
                        ELSE Apply(current.lazy,
                                   CheckedAdd(sum[LeftVisit(at, current, 0)],
                                              sum[RightVisit(at, current, 0)]),
                                   Length(at.segment))
  BY ValidateUpdateSteps
<1> DEFINE Place(i) == [node |-> i, segment |-> seg[i], inherited |-> 0]
<1>2. PICK foreseen : foreseen = [i \in Old |-> sum[Place(i)]]
  OBVIOUS
<1>3. /\ Last(roots) \in Old /\ seg[Last(roots)] = Root(arraySize)
  BY LastRoot DEF NodeFor
<1>4. foreseen[Last(roots)] # Overflow
  <2>1. Place(Last(roots)) = RootVisit(Last(roots))
    BY <1>3 DEF RootVisit
  <2> QED BY <1>1, <1>2, <1>3, <2>1
<1>5. ASSUME NEW i \in Old
      PROVE  foreseen[i] =
               IF Disjoint(left, right, seg[i]) THEN Settled(i).sum
               ELSE IF Covers(left, right, seg[i])
                    THEN IF CheckedAdd(Settled(i).lazy, value) = Overflow THEN Overflow
                         ELSE Apply(value, Settled(i).sum, Length(seg[i]))
                    ELSE Apply(Settled(i).lazy,
                               CheckedAdd(foreseen[Settled(i).leftChild],
                                          foreseen[Settled(i).rightChild]),
                               Length(seg[i]))
  <2> DEFINE at == Place(i)
             now == Settled(i)
  <2>1. /\ i \in DOMAIN nodes /\ i \in Nat /\ seg[i] \in Interval(arraySize) /\ arraySize \in Nat
        /\ Latest(i) = Settled(i)
    <3>1. i \in DOMAIN nodes /\ i \notin Written
      BY DEF Old
    <3> QED BY <3>1, NodeFacts DEF Shaped, Latest, Settled
  <2>2. at \in Visit /\ at.node = i /\ at.segment = seg[i] /\ foreseen[i] = sum[at]
    BY <1>2, <2>1 DEF Visit
  <2>3. sum[at] =
          IF Disjoint(left, right, seg[i]) THEN now.sum
          ELSE IF Covers(left, right, seg[i])
               THEN IF CheckedAdd(now.lazy, value) = Overflow THEN Overflow
                    ELSE Apply(value, now.sum, Length(seg[i]))
               ELSE Apply(now.lazy,
                          CheckedAdd(sum[LeftVisit(at, now, 0)], sum[RightVisit(at, now, 0)]),
                          Length(seg[i]))
    <3> HIDE DEF at, now
    <3> QED BY <1>1, <2>1, <2>2 DEF now
  <2>4. CASE Disjoint(left, right, seg[i]) \/ Covers(left, right, seg[i])
    <3> HIDE DEF at
    <3> QED BY <2>2, <2>3, <2>4
  <2>5. CASE ~Disjoint(left, right, seg[i]) /\ ~Covers(left, right, seg[i])
    <3>1. ~IsLeaf(seg[i])
      BY <2>1, <2>5, LeafCovered
    <3>2. /\ NodeFor(seg, now.leftChild, LeftHalf(seg[i]))
          /\ NodeFor(seg, now.rightChild, RightHalf(seg[i]))
          /\ now.leftChild \in Old /\ now.rightChild \in Old
      BY <3>1, OldLinks
    <3>3. /\ LeftVisit(at, now, 0) = Place(now.leftChild)
          /\ RightVisit(at, now, 0) = Place(now.rightChild)
      BY <3>2 DEF LeftVisit, RightVisit, NodeFor
    <3>4. /\ sum[LeftVisit(at, now, 0)] = foreseen[now.leftChild]
          /\ sum[RightVisit(at, now, 0)] = foreseen[now.rightChild]
      <4> HIDE DEF at, now
      <4> QED BY <1>2, <3>2, <3>3
    <3> HIDE DEF at
    <3> QED BY <2>2, <2>3, <2>5, <3>4
  <2> QED BY <2>4, <2>5
<1> QED BY <1>4, <1>5

LEMMA BeginRangeAddFInv ==
  ASSUME FInv, NEW left \in 1 .. arraySize, NEW right \in 1 .. arraySize,
         NEW value \in Deltas, BeginRangeAdd(left, right, value)
  PROVE  FInv'
<1> DEFINE leaves == Materialize(Last(roots))
<1>1. /\ TypeOK /\ HistoriesOK /\ CallOK /\ Len(roots) <= rootCapacity
      /\ call = Idle /\ call.phase = "idle" /\ roots # <<>> /\ right \in left .. arraySize
      /\ ValidateUpdate(Last(roots), left, right, value)
      /\ call' = [phase |-> "reserve", left |-> left, right |-> right, value |-> value,
                  version |-> Len(roots) + 1, root |-> NoNode,
                  nextBound |-> NextBound(bound, leaves, left, right, value)]
      /\ UNCHANGED <<nodes, roots, capacity, rootCapacity, arraySize, bound, stack>>
  BY DEF FInv, BeginRangeAdd, ValidRangeAdd, Idle
<1> HIDE DEF leaves
<1>2. PICK seg : Shaped(seg)
  BY DEF FInv
<1>3. /\ stack = <<>> /\ Written = {} /\ arraySize \in Nat /\ arraySize # 0 /\ Len(roots) \in Nat
      /\ left \in Nat \ {0} /\ right \in Nat /\ left <= right /\ right <= arraySize
      /\ value \in Value
  BY <1>1, NodeFacts, DeltasAssumption DEF CallOK
<1>4. NextBound(bound, leaves, left, right, value) \in Bound
  <2>1. leaves \in Seq(Outcome)
    BY <1>1, <1>2, LastRoot, MaterializeType DEF leaves
  <2> QED BY <1>1, <1>3, <2>1, NextBoundType DEF TypeOK
<1>5. call' \in Call
  BY <1>1, <1>3, <1>4 DEF Call, NoNode
<1>6. TypeOK'
  BY <1>1, <1>5 DEF TypeOK
<1>7. /\ Old' = Old /\ Written' = Written /\ \A i : Settled(i)' = Settled(i)
      /\ HistoriesOK' /\ Shaped(seg)'
  BY <1>1, <1>2, SameArena
<1>8. CallOK'
  BY <1>1, <1>3, <1>7 DEF CallOK
<1>9. PICK foreseen :
        /\ foreseen[Last(roots)] # Overflow
        /\ \A i \in Old :
             foreseen[i] =
               IF Disjoint(left, right, seg[i]) THEN Settled(i).sum
               ELSE IF Covers(left, right, seg[i])
                    THEN IF CheckedAdd(Settled(i).lazy, value) = Overflow THEN Overflow
                         ELSE Apply(value, Settled(i).sum, Length(seg[i]))
                    ELSE Apply(Settled(i).lazy,
                               CheckedAdd(foreseen[Settled(i).leftChild],
                                          foreseen[Settled(i).rightChild]),
                               Length(seg[i]))
  BY <1>1, <1>2, <1>3, ValidateUpdateForesees
<1>10. call'.left = left /\ call'.right = right /\ call'.value = value /\ call'.phase = "reserve"
  BY <1>1
<1>11. Foreseen(seg, foreseen)'
  BY <1>7, <1>9, <1>10 DEF Foreseen
<1>12. foreseen[Last(roots')] # Overflow
  BY <1>1, <1>9
<1>13. Len(roots') <= rootCapacity'
  BY <1>1
<1> QED BY <1>6, <1>7, <1>8, <1>10, <1>11, <1>12, <1>13 DEF FInv

(* The reservation leaves a slot for every node the update visits. *)
LEMMA GrownNodesSuffice ==
  ASSUME TypeOK, HistoriesOK, CallOK, call.phase # "idle"
  PROVE  /\ GrownNodes \in Nat
         /\ Len(nodes) + VisitsOf[Root(arraySize)] <= GrownNodes
<1>1. /\ capacity \in Nat /\ Len(nodes) \in Nat /\ arraySize \in Nat \ {0}
      /\ call.left \in Int /\ call.right \in Int /\ call.left <= call.right
  BY NodeFacts, CallFacts DEF TypeOK, CallOK
<1>2. /\ Height(arraySize) \in Nat
      /\ VisitsOf[Root(arraySize)] <= VisitLimit
  BY <1>1, VisitLimitSuffices DEF VisitsOf, VisitLimit
<1>3. VisitsOf[Root(arraySize)] \in Nat
  BY <1>1, RootIsSegment, VisitCountStep DEF VisitsOf
<1>4. VisitLimit \in Nat
  BY <1>2 DEF VisitLimit
<1>5. CASE capacity - Len(nodes) < VisitLimit
  <2> DEFINE S == {2 * capacity, Len(nodes) + VisitLimit}
  <2>1. Max(S) \in S /\ \A x \in S : Max(S) >= x
    <3>1. \E x \in S : \A y \in S : x >= y
      <4>1. CASE 2 * capacity >= Len(nodes) + VisitLimit
        BY <1>1, <1>4, <4>1
      <4>2. CASE ~(2 * capacity >= Len(nodes) + VisitLimit)
        BY <1>1, <1>4, <4>2
      <4> QED BY <4>1, <4>2
    <3> HIDE DEF S
    <3> QED BY <3>1 DEF Max
  <2>2. Max(S) \in Nat /\ Max(S) >= Len(nodes) + VisitLimit
    BY <1>1, <1>4, <2>1
  <2>3. GrownNodes = Max(S)
    BY <1>5 DEF GrownNodes
  <2> HIDE DEF S
  <2> QED BY <1>1, <1>2, <1>3, <1>4, <2>2, <2>3
<1>6. CASE ~(capacity - Len(nodes) < VisitLimit)
  BY <1>1, <1>2, <1>3, <1>4, <1>6 DEF GrownNodes
<1> QED BY <1>5, <1>6

LEMMA ReserveFInv == FInv /\ Reserve => FInv'
<1> SUFFICES ASSUME FInv, Reserve PROVE FInv'
  OBVIOUS
<1>0. PICK f : f = UpdateFrame(Last(roots), Root(arraySize), call.left, call.right)
  OBVIOUS
<1>1. /\ TypeOK /\ HistoriesOK /\ CallOK /\ Len(roots) <= rootCapacity
      /\ call.phase = "reserve" /\ capacity' = GrownNodes /\ rootCapacity' = GrownRoots
      /\ call' = [call EXCEPT !.phase = "update"] /\ stack' = <<f>>
      /\ UNCHANGED <<nodes, roots, arraySize, bound>>
  BY <1>0 DEF FInv, Reserve
<1>2. PICK seg, foreseen : /\ Shaped(seg) /\ Foreseen(seg, foreseen)
                           /\ foreseen[Last(roots)] # Overflow
  BY <1>1 DEF FInv
<1>3. /\ Written = {} /\ roots # <<>> /\ arraySize \in Nat \ {0} /\ Len(roots) \in Nat \ {0}
      /\ rootCapacity \in Nat
      /\ call.left \in Nat \ {0} /\ call.right \in Nat
      /\ call.left <= call.right /\ call.right <= arraySize
      /\ call.version = Len(roots) + 1
  BY <1>1, <1>2, CallFacts, NodeFacts, LastRoot DEF CallOK, TypeOK
<1>4. /\ Last(roots) \in Old /\ seg[Last(roots)] = Root(arraySize)
      /\ Root(arraySize) \in Interval(arraySize)
      /\ ~Disjoint(call.left, call.right, Root(arraySize))
  BY <1>1, <1>2, <1>3, LastRoot, RootIsSegment DEF NodeFor, Disjoint, Root
<1>5. /\ f \in Frame /\ f.segment = Root(arraySize) /\ f.node = Last(roots)
      /\ FrameOK(seg, foreseen, f) /\ Ahead(f) = VisitsOf[Root(arraySize)]
  BY <1>0, <1>1, <1>2, <1>3, <1>4, FrameBegins
<1>6. /\ call' \in Call
      /\ call'.phase = "update" /\ call'.left = call.left /\ call'.right = call.right
      /\ call'.value = call.value /\ call'.version = call.version
  BY <1>1, CallFacts DEF Call
<1>7. /\ stack' \in Seq(Frame) /\ Len(stack') = 1 /\ DOMAIN stack' = {1} /\ stack'[1] = f
      /\ stack' # <<>>
  BY <1>1, <1>5
<1>8. /\ GrownNodes \in Nat /\ Len(nodes) + VisitsOf[Root(arraySize)] <= GrownNodes
  BY <1>1, GrownNodesSuffice
<1>9. GrownRoots \in Nat /\ Len(roots) < GrownRoots
  BY <1>1, <1>3 DEF GrownRoots
<1>10. TypeOK'
  BY <1>1, <1>6, <1>7, <1>8, <1>9 DEF TypeOK
<1>11. /\ Old' = Old /\ Written' = Written /\ HistoriesOK' /\ Shaped(seg)'
       /\ Done(seg)' = Done(seg)
  BY <1>1, <1>2, SameArena
<1>12. /\ VisitsOf' = VisitsOf /\ Ahead(f)' = Ahead(f)
       /\ Foreseen(seg, foreseen)' /\ FrameOK(seg, foreseen, f)'
  <2>1. /\ UNCHANGED <<nodes, roots, arraySize>>
        /\ call'.left = call.left /\ call'.right = call.right /\ call'.value = call.value
    BY <1>1, <1>6
  <2> QED BY <1>2, <1>5, <2>1, SameCall
<1>13. CallOK'
  BY <1>1, <1>3, <1>6, <1>9 DEF CallOK
<1>14. UpdateOK(seg, foreseen)'
  <2>1. Nested(stack')
    BY <1>7 DEF Nested
  <2>2. Done(seg)' = {} /\ Written' = {}
    BY <1>3, <1>11 DEF Done
  <2>3. Passed(stack', {})
    BY DEF Passed
  <2>4. (\A k \in DOMAIN stack : FrameOK(seg, foreseen, stack[k]) /\ FrameInPlace(k))'
    <3>1. FrameInPlace(1)'
      BY <1>1, <1>5, <1>7 DEF FrameInPlace
    <3>2. FrameOK(seg, foreseen, stack[1])'
      BY <1>7, <1>12
    <3> QED BY <1>7, <3>1, <3>2
  <2>5. PICK later : later = [k \in {1} |-> 0]
    OBVIOUS
  <2>6. RoomOK(later)'
    <3>1. later \in [DOMAIN stack' -> Nat] /\ later[1] = 0
      BY <1>7, <2>5
    <3>2. Top' = f
      BY <1>7 DEF Top
    <3>3. Ahead(Top)' = VisitsOf[Root(arraySize)]
      <4>1. Ahead(f)' = VisitsOf[Root(arraySize)]
        BY <1>5, <1>12
      <4> QED BY <1>12, <3>2, <4>1 DEF Ahead, Cost
    <3>4. Len(nodes) \in Nat /\ VisitsOf[Root(arraySize)] \in Nat
      BY <1>1, <1>3, <1>4, NodeFacts, VisitCountStep DEF VisitsOf
    <3> QED BY <1>1, <1>7, <1>8, <3>1, <3>3, <3>4 DEF RoomOK
  <2>7. (\A i \in Written : ~Disjoint(call.left, call.right, seg[i]))'
    BY <2>2
  <2>8. (\E h : RoomOK(h))'
    BY <2>6
  <2>9. Passed(stack', Done(seg)')
    BY <2>2, <2>3
  <2> QED BY <1>7, <2>1, <2>4, <2>7, <2>8, <2>9 DEF UpdateOK
<1>15. foreseen[Last(roots')] # Overflow
  BY <1>1, <1>2
<1>16. Len(roots') <= rootCapacity'
  BY <1>1, <1>3, <1>9
<1> QED BY <1>10, <1>11, <1>12, <1>13, <1>14, <1>15, <1>16 DEF FInv

(***************************************************************************)
(* The frames of a running update.                                         *)
(***************************************************************************)
Running(seg, foreseen) ==
  /\ TypeOK /\ HistoriesOK /\ CallOK /\ Len(roots) <= rootCapacity
  /\ Shaped(seg) /\ Foreseen(seg, foreseen) /\ foreseen[Last(roots)] # Overflow
  /\ call.phase = "update" /\ UpdateOK(seg, foreseen)

LEMMA WhileRunning ==
  ASSUME FInv, stack # <<>>
  PROVE  \E seg, foreseen : Running(seg, foreseen)
<1>1. call.phase = "update"
  BY DEF FInv, CallOK
<1>2. call.phase # "idle"
  BY <1>1
<1> QED BY <1>1, <1>2 DEF FInv, Running

LEMMA RunningFInv ==
  ASSUME NEW seg, NEW foreseen, Running(seg, foreseen)
  PROVE  FInv
  BY DEF FInv, Running

LEMMA TopFrame ==
  ASSUME NEW seg, NEW foreseen, Running(seg, foreseen), stack # <<>>
  PROVE  /\ stack \in Seq(Frame) /\ Len(stack) \in Nat \ {0}
         /\ DOMAIN stack = 1 .. Len(stack) /\ Len(stack) \in DOMAIN stack
         /\ Top = stack[Len(stack)] /\ Top \in Frame /\ FrameOK(seg, foreseen, Top)
         /\ \A k \in DOMAIN stack : stack[k] \in Frame /\ FrameOK(seg, foreseen, stack[k])
         /\ arraySize \in Nat \ {0} /\ Top.segment \in Interval(arraySize)
         /\ FramesIn(stack, arraySize) /\ Done(seg) \in SUBSET Interval(arraySize)
<1>1. /\ stack \in Seq(Frame) /\ Len(stack) \in Nat \ {0}
      /\ DOMAIN stack = 1 .. Len(stack) /\ Len(stack) \in DOMAIN stack
      /\ \A k \in DOMAIN stack : stack[k] \in Frame /\ FrameOK(seg, foreseen, stack[k])
  <2>1. stack \in Seq(Frame)
    BY DEF Running, TypeOK
  <2>2. Len(stack) \in Nat /\ DOMAIN stack = 1 .. Len(stack)
    BY <2>1, LenProperties
  <2>3. Len(stack) # 0
    BY <2>1, EmptySeq
  <2> QED BY <2>1, <2>2, <2>3, ElementOfSeq DEF Running, UpdateOK
<1>2. /\ arraySize \in Nat \ {0} /\ seg \in [DOMAIN nodes -> Interval(arraySize)]
      /\ call.left \in Int /\ call.right \in Int
  BY CallFacts DEF Running, TypeOK, CallOK, Shaped
<1>3. ASSUME NEW k \in DOMAIN stack
      PROVE  /\ stack[k].segment \in Interval(arraySize)
             /\ stack[k].todo # {} => ~IsLeaf(stack[k].segment)
  <2>1. PICK f : f = stack[k]
    OBVIOUS
  <2>2. f.segment \in Interval(arraySize)
    BY <1>1, <1>2, <2>1 DEF FrameOK, Old
  <2>3. f.todo # {} => ~IsLeaf(f.segment)
    BY <1>1, <1>2, <2>1, <2>2, LeafCovered DEF FrameOK
  <2> QED BY <2>1, <2>2, <2>3
<1>4. Done(seg) \in SUBSET Interval(arraySize)
  BY <1>2 DEF Done, Written
<1> QED BY <1>1, <1>2, <1>3, <1>4 DEF Top, FramesIn

LEMMA VisitsOfType ==
  ASSUME TypeOK, call.phase # "idle"
  PROVE  \A c \in Interval(arraySize) : VisitsOf[c] \in Nat
  BY CallFacts, VisitCountStep DEF VisitsOf, TypeOK

(* The half a frame descends to next. *)
LEMMA NextHalf ==
  ASSUME NEW seg, NEW foreseen, Running(seg, foreseen), stack # <<>>, Top.todo # {}
  PROVE  LET side == NextSide(Top)
             half == Half(Top.segment, side)
             i == Child(Top, side)
         IN  /\ side \in Top.todo /\ side \in Sides /\ half \in Interval(arraySize)
             /\ i = OldChild(Top, side) /\ i \in Old /\ i \notin Written
             /\ NodeFor(seg, i, half) /\ ~Disjoint(call.left, call.right, half)
             /\ foreseen[i] # Overflow
<1> DEFINE side == NextSide(Top)
           half == Half(Top.segment, side)
           i == Child(Top, side)
<1>1. /\ TypeOK /\ HistoriesOK /\ Shaped(seg) /\ Foreseen(seg, foreseen)
      /\ Top \in Frame /\ FrameOK(seg, foreseen, Top) /\ arraySize \in Nat
      /\ Top.segment \in Interval(arraySize) /\ ~IsLeaf(Top.segment)
      /\ Len(stack) \in DOMAIN stack /\ Top = stack[Len(stack)]
      /\ Passed(stack, Done(seg))
  BY TopFrame DEF Running, FramesIn, UpdateOK
<1>2. side \in Top.todo /\ side \in Sides /\ (side = "left" \/ side = "right")
  BY <1>1 DEF Frame, NextSide, Sides
<1>3. /\ Top.node \in Old /\ seg[Top.node] = Top.segment
      /\ ~Disjoint(call.left, call.right, Top.segment)
      /\ ~Covers(call.left, call.right, Top.segment)
      /\ foreseen[Top.node] # Overflow
  BY <1>1 DEF FrameOK
<1> HIDE DEF side
<1>4. i = OldChild(Top, side)
  BY <1>1, <1>2 DEF FrameOK, SideOK
<1>5. i \in Old /\ NodeFor(seg, i, half)
  <2>1. /\ NodeFor(seg, Settled(Top.node).leftChild, LeftHalf(Top.segment))
        /\ NodeFor(seg, Settled(Top.node).rightChild, RightHalf(Top.segment))
        /\ Settled(Top.node).leftChild \in Old /\ Settled(Top.node).rightChild \in Old
    BY <1>1, <1>3, OldLinks
  <2> QED BY <1>2, <1>4, <2>1 DEF OldChild, Half
<1>6. half \in Interval(arraySize)
  BY <1>1, <1>2, HalfFacts
<1>7. ~Disjoint(call.left, call.right, half)
  BY <1>1, <1>2 DEF FrameOK
<1>8. i \notin Written
  <2> SUFFICES ASSUME i \in Written PROVE FALSE
    OBVIOUS
  <2>1. half \in Done(seg)
    BY <1>5 DEF NodeFor, Done
  <2>2. half[2] < half[1]
    BY <1>1, <1>2, <2>1 DEF Passed
  <2>3. half[1] \in Int /\ half[2] \in Int /\ half[1] <= half[2]
    BY <1>6 DEF Interval
  <2> QED BY <2>2, <2>3
<1>9. foreseen[i] # Overflow
  <2>1. foreseen[Top.node] =
          Apply(Settled(Top.node).lazy,
                CheckedAdd(foreseen[Settled(Top.node).leftChild],
                           foreseen[Settled(Top.node).rightChild]),
                Length(Top.segment))
    BY <1>1, <1>3 DEF Foreseen
  <2>2. /\ foreseen[Settled(Top.node).leftChild] # Overflow
        /\ foreseen[Settled(Top.node).rightChild] # Overflow
    BY <1>3, <2>1, OverflowsPropagate
  <2> QED BY <1>4, <2>2 DEF OldChild
<1> QED BY <1>2, <1>4, <1>5, <1>6, <1>7, <1>8, <1>9 DEF side

LEMMA DescendFInv == FInv /\ Descend => FInv'
<1> SUFFICES ASSUME FInv, Descend PROVE FInv'
  OBVIOUS
<1>1. /\ stack # <<>> /\ Top.todo # {}
      /\ UNCHANGED <<nodes, roots, capacity, rootCapacity, arraySize, bound, call>>
  BY DEF Descend
<1>2. PICK seg, foreseen : Running(seg, foreseen)
  BY <1>1, WhileRunning
<1>3. PICK half, i :
        /\ half = Half(Top.segment, NextSide(Top)) /\ i = Child(Top, NextSide(Top))
        /\ NextSide(Top) \in Top.todo /\ NextSide(Top) \in Sides
        /\ half \in Interval(arraySize) /\ i \in Old /\ i \notin Written
        /\ NodeFor(seg, i, half) /\ ~Disjoint(call.left, call.right, half)
        /\ foreseen[i] # Overflow
  BY <1>1, <1>2, NextHalf
<1>4. PICK g : g = UpdateFrame(i, half, call.left, call.right)
  OBVIOUS
<1>5. stack' = Append(stack, g)
  BY <1>3, <1>4 DEF Descend
<1>6. /\ TypeOK /\ HistoriesOK /\ CallOK /\ Len(roots) <= rootCapacity
      /\ Shaped(seg) /\ Foreseen(seg, foreseen) /\ foreseen[Last(roots)] # Overflow
      /\ call.phase = "update" /\ call.phase # "idle" /\ UpdateOK(seg, foreseen)
  BY <1>2 DEF Running
<1>7. PICK l \in Nat \ {0} :
        /\ l = Len(stack) /\ stack \in Seq(Frame) /\ DOMAIN stack = 1 .. l /\ l \in DOMAIN stack
        /\ Top = stack[l] /\ Top \in Frame
        /\ FramesIn(stack, arraySize) /\ Done(seg) \in SUBSET Interval(arraySize)
        /\ arraySize \in Nat
  BY <1>1, <1>2, TopFrame
<1>8. /\ g \in Frame /\ g.segment = half /\ g.node = i /\ (g.todo # {} => ~IsLeaf(g.segment))
      /\ FrameOK(seg, foreseen, g) /\ Ahead(g) = VisitsOf[half]
  <2>1. seg[i] = half /\ \A j \in Written : ~Disjoint(call.left, call.right, seg[j])
    BY <1>3, <1>6 DEF NodeFor, UpdateOK
  <2> QED BY <1>3, <1>4, <1>6, <2>1, FrameBegins
<1>9. /\ stack' \in Seq(Frame) /\ Len(stack') = l + 1 /\ DOMAIN stack' = 1 .. l + 1
      /\ \A k \in 1 .. l : stack'[k] = stack[k]
      /\ stack'[l + 1] = g /\ stack' # <<>> /\ Top' = g
  <2>1. /\ stack' \in Seq(Frame) /\ Len(stack') = l + 1 /\ DOMAIN stack' = 1 .. l + 1
        /\ \A k \in 1 .. l : stack'[k] = stack[k] /\ stack'[l + 1] = g
    BY <1>5, <1>7, <1>8, AppendProperties, LenProperties
  <2> QED BY <1>7, <2>1, EmptySeq DEF Top
<1>10. TypeOK'
  BY <1>1, <1>6, <1>9 DEF TypeOK
<1>11. /\ Written' = Written /\ HistoriesOK' /\ Shaped(seg)' /\ Done(seg)' = Done(seg)
  BY <1>1, <1>6, SameArena
<1>12. /\ VisitsOf' = VisitsOf /\ (\A f : Ahead(f)' = Ahead(f)) /\ Foreseen(seg, foreseen)'
       /\ \A f : FrameOK(seg, foreseen, f) => FrameOK(seg, foreseen, f)'
  <2>1. /\ UNCHANGED <<nodes, roots, arraySize>>
        /\ call'.left = call.left /\ call'.right = call.right /\ call'.value = call.value
    BY <1>1
  <2> QED BY <1>6, <2>1, SameCall
<1>13. CallOK'
  BY <1>1, <1>6, <1>11 DEF CallOK
<1>14. PICK later : RoomOK(later)
  BY <1>6 DEF UpdateOK
<1>15. UpdateOK(seg, foreseen)'
  <2>1. g.segment = Half(stack[Len(stack)].segment, NextSide(stack[Len(stack)]))
        /\ stack[Len(stack)].todo # {} /\ Len(stack) > 0
    BY <1>1, <1>3, <1>7, <1>8
  <2>2. Nested(stack')
    BY <1>5, <1>6, <1>7, <1>8, <2>1, NestedAppend DEF UpdateOK
  <2>3. Passed(stack', Done(seg)')
    <3>1. PICK done \in SUBSET Interval(arraySize) : done = Done(seg)
      BY <1>7
    <3>2. Passed(stack, done)
      BY <1>6, <3>1 DEF UpdateOK
    <3> QED BY <1>5, <1>7, <1>8, <1>11, <2>1, <3>1, <3>2, PassedAppend
  <2>4. (\A j \in Written : ~Disjoint(call.left, call.right, seg[j]))'
    BY <1>1, <1>6, <1>11 DEF UpdateOK
  <2>5. ASSUME NEW k \in 1 .. l + 1
        PROVE  FrameOK(seg, foreseen, stack[k])' /\ FrameInPlace(k)'
    <3>1. CASE k \in 1 .. l
      <4>1. stack'[k] = stack[k] /\ (k # 1 => stack'[k - 1] = stack[k - 1])
        BY <1>9, <3>1
      <4>2. FrameOK(seg, foreseen, stack[k]) /\ FrameInPlace(k)
        BY <1>6, <1>7, <3>1 DEF UpdateOK
      <4>3. FrameInPlace(k)'
        BY <1>1, <4>1, <4>2 DEF FrameInPlace
      <4>4. PICK f : f = stack[k]
        OBVIOUS
      <4>5. FrameOK(seg, foreseen, f)'
        BY <1>12, <4>2, <4>4
      <4> QED BY <4>1, <4>3, <4>4, <4>5
    <3>2. CASE k = l + 1
      <4>1. k # 1 /\ k - 1 = l /\ stack'[k - 1] = Top /\ stack'[k] = g
        BY <1>7, <1>9, <3>2
      <4>2. FrameOK(seg, foreseen, g)'
        BY <1>8, <1>12
      <4>3. FrameInPlace(k)'
        BY <1>3, <1>8, <4>1 DEF FrameInPlace
      <4> QED BY <4>1, <4>2, <4>3
    <3> QED BY <1>7, <3>1, <3>2
  <2>6. (\E h : RoomOK(h))'
    <3>1. PICK h : h = [k \in 1 .. l + 1 |->
                         IF k = l + 1 THEN later[l] + Ahead(Top) - VisitsOf[half] ELSE later[k]]
      OBVIOUS
    <3>2. /\ later \in [1 .. l -> Nat] /\ later[l] \in Nat
          /\ \A k \in 1 .. l : k > 1 =>
               later[k] = later[k - 1] + Ahead(stack[k - 1]) - VisitsOf[stack[k].segment]
          /\ Len(nodes) + later[l] + Ahead(Top) <= capacity
      BY <1>1, <1>7, <1>14 DEF RoomOK
    <3>3. Ahead(Top) \in Nat /\ VisitsOf[half] \in Nat /\ Ahead(Top) >= VisitsOf[half]
      <4>1. \A c \in Interval(arraySize) : VisitsOf[c] \in Nat
        BY <1>6, VisitsOfType
      <4>2. ASSUME NEW side \in Sides PROVE Cost(Top, side) \in Nat
        <5>1. CASE side \in Top.todo
          <6>1. ~IsLeaf(Top.segment) /\ Top.segment \in Interval(arraySize)
            BY <1>7, <5>1 DEF FramesIn
          <6>2. Half(Top.segment, side) \in Interval(arraySize)
            BY <1>7, <6>1, HalfFacts
          <6> QED BY <4>1, <5>1, <6>2 DEF Cost
        <5>2. CASE side \notin Top.todo
          BY <5>2 DEF Cost
        <5> QED BY <5>1, <5>2
      <4>3. Cost(Top, NextSide(Top)) = VisitsOf[half]
        BY <1>3 DEF Cost
      <4>4. Cost(Top, "left") \in Nat /\ Cost(Top, "right") \in Nat
        BY <4>2 DEF Sides
      <4>5. Cost(Top, "left") = VisitsOf[half] \/ Cost(Top, "right") = VisitsOf[half]
        BY <1>3, <4>3 DEF Sides
      <4> QED BY <1>3, <4>1, <4>4, <4>5 DEF Ahead
    <3>4. h \in [1 .. l + 1 -> Nat]
      <4>1. later[l] + Ahead(Top) - VisitsOf[half] \in Nat
        BY <3>2, <3>3
      <4>2. \A k \in 1 .. l + 1 : k # l + 1 => later[k] \in Nat
        BY <3>2
      <4> HIDE DEF Top, Ahead, VisitsOf
      <4> QED BY <3>1, <4>1, <4>2
    <3>5. ASSUME NEW k \in 1 .. l + 1, k > 1
          PROVE  h[k] = h[k - 1] + Ahead(stack'[k - 1]) - VisitsOf[stack'[k].segment]
      <4>1. k - 1 \in 1 .. l /\ k - 1 # l + 1 /\ stack'[k - 1] = stack[k - 1]
        BY <1>9, <3>5
      <4>2. h[k - 1] = later[k - 1]
        BY <3>1, <4>1
      <4>3. CASE k = l + 1
        <5>1. k - 1 = l /\ stack'[k] = g
          BY <1>9, <4>3
        <5>2. h[k] = later[l] + Ahead(Top) - VisitsOf[half]
          BY <3>1, <4>3
        <5> QED BY <1>7, <1>8, <4>1, <4>2, <5>1, <5>2
      <4>4. CASE k # l + 1
        <5>1. k \in 1 .. l /\ stack'[k] = stack[k] /\ h[k] = later[k]
          BY <1>9, <3>1, <4>4
        <5> QED BY <3>2, <3>5, <4>1, <4>2, <5>1
      <4> QED BY <4>3, <4>4
    <3>6. Len(nodes) + h[l + 1] + Ahead(g) <= capacity
      <4>1. h[l + 1] = later[l] + Ahead(Top) - VisitsOf[half]
        BY <3>1
      <4>2. Len(nodes) \in Nat /\ capacity \in Nat
        BY <1>6, NodeFacts DEF TypeOK
      <4> QED BY <1>8, <3>2, <3>3, <4>1, <4>2
    <3>7. \A f : Ahead(f)' = Ahead(f)
      BY <1>12
    <3>8. RoomOK(h)'
      <4>1. (\A k \in DOMAIN stack : k > 1 =>
               h[k] = h[k - 1] + Ahead(stack[k - 1]) - VisitsOf[stack[k].segment])'
        <5> SUFFICES ASSUME NEW k \in 1 .. l + 1, k > 1
                     PROVE  (h[k] = h[k - 1] + Ahead(stack[k - 1])
                                    - VisitsOf[stack[k].segment])'
          BY <1>9
        <5>1. PICK f : f = stack'[k - 1]
          OBVIOUS
        <5>2. h[k] = h[k - 1] + Ahead(f) - VisitsOf[stack'[k].segment]
          BY <3>5, <5>1
        <5>3. Ahead(f)' = Ahead(f)
          BY <3>7
        <5> QED BY <1>12, <5>1, <5>2, <5>3
      <4>2. (h \in [DOMAIN stack -> Nat])'
        BY <1>9, <3>4
      <4>3. (Len(nodes) + h[Len(stack)] + Ahead(Top) <= capacity)'
        <5>1. Ahead(g)' = Ahead(g)
          BY <3>7
        <5>2. Ahead(Top)' = Ahead(g)
          BY <1>9, <5>1 DEF Ahead, Cost
        <5> QED BY <1>1, <1>9, <3>6, <5>2
      <4> QED BY <4>1, <4>2, <4>3 DEF RoomOK
    <3> QED BY <3>8
  <2>7. (stack = <<>> => NodeFor(seg, call.root, Root(arraySize)))'
    BY <1>9
  <2>8. (\A k \in DOMAIN stack : FrameOK(seg, foreseen, stack[k]) /\ FrameInPlace(k))'
    BY <1>9, <2>5
  <2> QED BY <2>2, <2>3, <2>4, <2>6, <2>7, <2>8 DEF UpdateOK
<1>16. call'.phase = "update" /\ foreseen[Last(roots')] # Overflow /\ Len(roots') <= rootCapacity'
  BY <1>1, <1>6
<1> QED BY <1>10, <1>11, <1>12, <1>13, <1>15, <1>16 DEF FInv

(* An invocation that has come back from its halves can record its state. *)
LEMMA Finishes ==
  ASSUME NEW seg, NEW foreseen, Running(seg, foreseen), stack # <<>>, Top.todo = {}
  PROVE  /\ Computed(NextState(Top)) /\ NextState(Top) \in Modification
         /\ NextState(Top).version = Len(roots) + 1
         /\ NextState(Top).sum = foreseen[Top.node]
         /\ ~IsLeaf(Top.segment) =>
              /\ NodeFor(seg, NextState(Top).leftChild, LeftHalf(Top.segment))
              /\ NodeFor(seg, NextState(Top).rightChild, RightHalf(Top.segment))
         /\ Ahead(Top) = 1 /\ Len(nodes) < capacity
<1>1. /\ TypeOK /\ HistoriesOK /\ CallOK /\ Shaped(seg) /\ Foreseen(seg, foreseen)
      /\ call.phase # "idle" /\ UpdateOK(seg, foreseen)
  BY DEF Running
<1>2. /\ Top \in Frame /\ Top.segment \in Interval(arraySize)
      /\ FrameOK(seg, foreseen, Top)
      /\ Len(stack) \in DOMAIN stack
  BY TopFrame
<1>3. PICK f \in Frame : f = Top
  BY <1>2
<1>4. /\ Computed(NextState(f)) /\ NextState(f) \in Modification
      /\ NextState(f).version = Len(roots) + 1
      /\ NextState(f).sum = foreseen[f.node]
      /\ ~IsLeaf(f.segment) =>
           /\ NodeFor(seg, NextState(f).leftChild, LeftHalf(f.segment))
           /\ NodeFor(seg, NextState(f).rightChild, RightHalf(f.segment))
  BY <1>1, <1>2, <1>3, FinishedState
<1>5. Ahead(Top) = 1
  BY DEF Ahead, Cost
<1>6. Len(nodes) < capacity
  <2>1. PICK later : RoomOK(later)
    BY <1>1 DEF UpdateOK
  <2>2. later[Len(stack)] \in Nat /\ Len(nodes) + later[Len(stack)] + Ahead(Top) <= capacity
    BY <1>2, <2>1 DEF RoomOK
  <2>3. Len(nodes) \in Nat /\ capacity \in Nat
    BY <1>1, NodeFacts DEF TypeOK
  <2> QED BY <1>5, <2>2, <2>3
<1> QED BY <1>3, <1>4, <1>5, <1>6

(* The dry run and the reservation leave nothing that could throw. *)
LEMMA NothingThrows ==
  FInv /\ call.phase = "update" => ~OutOfRoom /\ ~Overflows
<1> SUFFICES ASSUME FInv, call.phase = "update" PROVE ~OutOfRoom /\ ~Overflows
  OBVIOUS
<1>1. CASE stack = <<>>
  <2>1. Len(roots) < rootCapacity /\ Len(roots) \in Nat /\ rootCapacity \in Nat
    BY NodeFacts DEF FInv, CallOK, TypeOK
  <2> QED BY <1>1, <2>1 DEF OutOfRoom, Overflows
<1>2. CASE stack # <<>>
  <2>1. PICK seg, foreseen : Running(seg, foreseen)
    BY <1>2, WhileRunning
  <2>2. Len(nodes) \in Nat /\ capacity \in Nat
    BY NodeFacts DEF FInv, TypeOK
  <2>3. Top.todo = {} => Computed(NextState(Top)) /\ Len(nodes) < capacity
    BY <1>2, <2>1, Finishes
  <2> QED BY <1>2, <2>2, <2>3 DEF OutOfRoom, Overflows
<1> QED BY <1>1, <1>2

LEMMA ThrowFInv == FInv /\ Throw => FInv' /\ call.phase = "reserve"
<1> SUFFICES ASSUME FInv, Throw PROVE FInv' /\ call.phase = "reserve"
  OBVIOUS
<1>1. /\ call.phase = "reserve" /\ ReservationFails
      /\ call' = Idle /\ stack' = <<>>
      /\ UNCHANGED <<nodes, roots, rootCapacity, arraySize, bound>>
  BY NothingThrows DEF Throw
<1>2. /\ TypeOK /\ HistoriesOK /\ CallOK /\ Len(roots) <= rootCapacity
      /\ call.phase # "idle" /\ call.phase # "update"
  BY <1>1 DEF FInv
<1>3. PICK seg : Shaped(seg)
  BY DEF FInv
<1>4. capacity' \in Nat
  <2>1. capacity \in Nat /\ GrownNodes \in Nat
    BY <1>2, GrownNodesSuffice DEF TypeOK
  <2> QED BY <1>1, <2>1 DEF ReservationFails
<1>5. call' \in Call /\ call'.phase = "idle" /\ stack' \in Seq(Frame)
  BY <1>1, EmptySeq DEF Call, Idle
<1>6. TypeOK'
  BY <1>1, <1>2, <1>4, <1>5 DEF TypeOK
<1>7. HistoriesOK' /\ Written' = Written /\ Shaped(seg)'
  BY <1>1, <1>2, <1>3, SameArena
<1>8. CallOK'
  BY <1>1, <1>2, <1>5, <1>7 DEF CallOK
<1>9. Len(roots') <= rootCapacity'
  BY <1>1, <1>2
<1> QED BY <1>1, <1>5, <1>6, <1>7, <1>8, <1>9 DEF FInv

-----------------------------------------------------------------------------
(***************************************************************************)
(* A recorded state: the arena when the innermost frame has recorded its   *)
(* state in the node index, which is the frame's own node or a new one.    *)
(***************************************************************************)
Recorded(seg, seg2, index) ==
  /\ index \in Nat
  /\ nodes' \in Seq(Seq(Modification)) /\ Len(nodes') <= Len(nodes) + 1
  /\ DOMAIN nodes' = DOMAIN nodes \cup {index}
  /\ \A i \in DOMAIN nodes : i # index => nodes'[i] = nodes[i]
  /\ \/ /\ index = Top.node
        /\ Len(nodes[index]) < HISTORY_CAPACITY
        /\ nodes'[index] = Append(nodes[index], NextState(Top))
     \/ /\ index \notin DOMAIN nodes
        /\ nodes'[index] = <<NextState(Top)>>
  /\ seg2 \in [DOMAIN nodes' -> Interval(arraySize)] /\ seg2[index] = Top.segment
  /\ \A i \in DOMAIN nodes : seg2[i] = seg[i]
  /\ UNCHANGED <<roots, capacity, rootCapacity, arraySize, bound>>
  /\ call' = IF Len(stack) = 1 THEN [call EXCEPT !.root = index] ELSE call
  /\ stack' = Resume(stack, index)

LEMMA RecordedCall ==
  ASSUME TypeOK, call.phase = "update", NEW seg, NEW seg2, NEW index,
         Recorded(seg, seg2, index)
  PROVE  /\ call' \in Call /\ call'.phase = "update"
         /\ call'.left = call.left /\ call'.right = call.right /\ call'.value = call.value
         /\ call'.version = call.version
         /\ Len(stack) = 1 => call'.root = index
         /\ VisitsOf' = VisitsOf
<1>1. /\ call.left \in Nat \ {0} /\ call.right \in Nat
      /\ call.value \in Deltas
      /\ call.version \in Nat /\ call.root \in Nat /\ call.nextBound \in Bound
      /\ call = [phase |-> "update", left |-> call.left, right |-> call.right,
                 value |-> call.value, version |-> call.version, root |-> call.root,
                 nextBound |-> call.nextBound]
  BY CallFacts
<1>2. index \in Nat /\ call' = IF Len(stack) = 1 THEN [call EXCEPT !.root = index] ELSE call
  BY DEF Recorded
<1>3. /\ call'.phase = "update" /\ call'.left = call.left /\ call'.right = call.right
      /\ call'.value = call.value /\ call'.version = call.version
      /\ call'.nextBound = call.nextBound
      /\ Len(stack) = 1 => call'.root = index
      /\ call'.root \in Nat
      /\ call' = [phase |-> "update", left |-> call.left, right |-> call.right,
                  value |-> call.value, version |-> call.version, root |-> call'.root,
                  nextBound |-> call.nextBound]
  <2>1. CASE Len(stack) = 1
    BY <1>1, <1>2, <2>1
  <2>2. CASE Len(stack) # 1
    BY <1>1, <1>2, <2>2
  <2> QED BY <2>1, <2>2
<1>4. call' \in Call
  BY <1>1, <1>3 DEF Call
<1>5. VisitsOf' = VisitsOf
  BY <1>3 DEF VisitsOf, Recorded
<1> QED BY <1>3, <1>4, <1>5

(* The node that holds the new state. *)
LEMMA RecordedNode ==
  ASSUME NEW seg, NEW foreseen, Running(seg, foreseen), stack # <<>>, Top.todo = {},
         NEW seg2, NEW index, Recorded(seg, seg2, index)
  PROVE  /\ index \notin Written
         /\ index \in DOMAIN nodes => index = Top.node /\ index \in Old
         /\ nodes'[index] \in Seq(Modification)
         /\ DOMAIN nodes'[index] = 1 .. Len(nodes'[index])
         /\ LatestState(nodes'[index]) = NextState(Top)
         /\ nodes'[index][Len(nodes'[index])] = NextState(Top)
         /\ \A k \in DOMAIN nodes'[index] :
              k # Len(nodes'[index]) =>
                index \in DOMAIN nodes /\ k \in DOMAIN nodes[index]
                /\ nodes'[index][k] = nodes[index][k]
         /\ HistoryOK(nodes'[index])
         /\ index \in DOMAIN nodes =>
              /\ Len(nodes'[index]) = Len(nodes[index]) + 1
              /\ nodes'[index][1] = nodes[index][1]
              /\ nodes'[index][Len(nodes'[index]) - 1] = LatestState(nodes[index])
         /\ index \notin DOMAIN nodes =>
              Len(nodes'[index]) = 1 /\ nodes'[index][1] = NextState(Top)
<1> DEFINE state == NextState(Top)
<1>1. /\ TypeOK /\ HistoriesOK /\ Top.node \in Old /\ Top.node \notin Written
      /\ state \in Modification /\ state.version = Len(roots) + 1 /\ Len(roots) \in Nat
  BY TopFrame, Finishes, NodeFacts DEF Running, FrameOK
<1>2. Top.node \in DOMAIN nodes
  BY <1>1 DEF Old
<1> HIDE DEF state
<1>3. CASE index = Top.node
  <2>1. PICK n \in 1 .. HISTORY_CAPACITY :
          /\ n = Len(nodes[index]) /\ n < HISTORY_CAPACITY
          /\ nodes[index] \in Seq(Modification) /\ DOMAIN nodes[index] = 1 .. n
          /\ LatestState(nodes[index]) = nodes[index][n]
          /\ \A k \in 1 .. n : nodes[index][k] \in Modification
          /\ HistoryOK(nodes[index])
    BY <1>1, <1>2, <1>3, NodeFacts DEF Recorded, HistoriesOK
  <2>2. nodes'[index] = Append(nodes[index], state)
    BY <1>2, <1>3 DEF Recorded, state
  <2>3. /\ n \in Nat \ {0} /\ n + 1 <= 3 /\ HISTORY_CAPACITY = 3
        /\ nodes'[index] \in Seq(Modification) /\ Len(nodes'[index]) = n + 1
        /\ DOMAIN nodes'[index] = 1 .. n + 1
        /\ \A k \in 1 .. n : nodes'[index][k] = nodes[index][k]
        /\ nodes'[index][n + 1] = state
    BY <1>1, <2>1, <2>2, AppendProperties, LenProperties DEF HISTORY_CAPACITY
  <2>4. LatestState(nodes'[index]) = state
    BY <2>3 DEF LatestState, Last
  <2>5. nodes[index][n].version \in Nat /\ nodes[index][n].version <= Len(roots)
    <3>1. nodes[index][n].version \in Nat
      BY <2>1, <2>3, ModificationFacts
    <3>2. ~(nodes[index][n].version > Len(roots))
      BY <1>1, <1>2, <1>3, <2>1 DEF Written
    <3> QED BY <1>1, <3>1, <3>2
  <2>6. HistoryOK(nodes'[index])
    <3>1. ASSUME NEW k \in 2 .. n + 1
          PROVE  nodes'[index][k - 1].version < nodes'[index][k].version
      <4>1. CASE k = n + 1
        <5>1. k - 1 = n /\ n \in 1 .. n
          BY <2>3, <4>1
        <5>2. nodes'[index][k - 1] = nodes[index][n] /\ nodes'[index][k] = state
          BY <2>3, <4>1, <5>1
        <5> QED BY <1>1, <2>5, <5>2
      <4>2. CASE k # n + 1
        <5>1. k - 1 \in 1 .. n /\ k \in 1 .. n /\ k \in 2 .. n
          BY <2>3, <4>2
        <5> QED BY <2>1, <2>3, <5>1 DEF HistoryOK
      <4> QED BY <4>1, <4>2
    <3>2. LatestState(nodes'[index]).version <= Len(roots) + 1
      BY <1>1, <2>4
    <3>3. Len(nodes'[index]) \in 1 .. HISTORY_CAPACITY
      BY <2>3
    <3> QED BY <2>3, <3>1, <3>2, <3>3 DEF HistoryOK
  <2>7. \A k \in DOMAIN nodes'[index] : k # Len(nodes'[index]) =>
          k \in DOMAIN nodes[index] /\ nodes'[index][k] = nodes[index][k]
    BY <2>1, <2>3
  <2>8. /\ Len(nodes'[index]) = Len(nodes[index]) + 1
        /\ nodes'[index][1] = nodes[index][1]
        /\ nodes'[index][Len(nodes'[index]) - 1] = LatestState(nodes[index])
    <3>1. 1 \in 1 .. n /\ n \in 1 .. n /\ (n + 1) - 1 = n
      BY <2>3
    <3> QED BY <2>1, <2>3, <3>1
  <2> QED BY <1>1, <1>2, <1>3, <2>3, <2>4, <2>6, <2>7, <2>8 DEF state
<1>4. CASE index \notin DOMAIN nodes
  <2>1. nodes'[index] = <<state>> /\ index \notin Written
    BY <1>2, <1>4 DEF Recorded, Written, state
  <2>2. /\ nodes'[index] \in Seq(Modification) /\ Len(nodes'[index]) = 1
        /\ DOMAIN nodes'[index] = 1 .. 1 /\ nodes'[index][1] = state
        /\ LatestState(nodes'[index]) = state
    BY <1>1, <2>1 DEF LatestState, Last
  <2>3. HistoryOK(nodes'[index])
    BY <1>1, <2>2 DEF HistoryOK, HISTORY_CAPACITY
  <2> QED BY <1>4, <2>1, <2>2, <2>3 DEF state
<1>5. index = Top.node \/ index \notin DOMAIN nodes
  BY DEF Recorded
<1> QED BY <1>3, <1>4, <1>5

LEMMA RecordedArena ==
  ASSUME NEW seg, NEW foreseen, Running(seg, foreseen), stack # <<>>, Top.todo = {},
         NEW seg2, NEW index, Recorded(seg, seg2, index)
  PROVE  /\ HistoriesOK' /\ Written' = Written \cup {index} /\ Old' = Old
         /\ \A i \in Old : Settled(i)' = Settled(i) /\ seg2[i] = seg[i]
         /\ \A i, c : NodeFor(seg, i, c) => NodeFor(seg2, i, c)'
         /\ Shaped(seg2)' /\ Foreseen(seg2, foreseen)'
         /\ Done(seg2)' = Done(seg) \cup {Top.segment}
<1>1. /\ TypeOK /\ HistoriesOK /\ Shaped(seg) /\ Foreseen(seg, foreseen)
      /\ Len(roots) \in Nat /\ Len(roots') = Len(roots) /\ roots' = roots
      /\ arraySize' = arraySize
      /\ DOMAIN nodes' = DOMAIN nodes \cup {index}
      /\ \A i \in DOMAIN nodes : i # index => nodes'[i] = nodes[i]
      /\ \A i \in DOMAIN nodes : seg2[i] = seg[i]
      /\ seg2[index] = Top.segment
      /\ seg2 \in [DOMAIN nodes' -> Interval(arraySize)]
  BY NodeFacts DEF Running, Recorded
<1>2. PICK state : /\ state = NextState(Top) /\ state.version = Len(roots) + 1
                   /\ ~IsLeaf(Top.segment) =>
                        /\ NodeFor(seg, state.leftChild, LeftHalf(Top.segment))
                        /\ NodeFor(seg, state.rightChild, RightHalf(Top.segment))
  BY Finishes
<1>3. /\ index \notin Written
      /\ index \in DOMAIN nodes => index = Top.node /\ index \in Old
      /\ DOMAIN nodes'[index] = 1 .. Len(nodes'[index])
      /\ LatestState(nodes'[index]) = state
      /\ nodes'[index][Len(nodes'[index])] = state
      /\ \A k \in DOMAIN nodes'[index] :
           k # Len(nodes'[index]) =>
             index \in DOMAIN nodes /\ k \in DOMAIN nodes[index]
             /\ nodes'[index][k] = nodes[index][k]
      /\ HistoryOK(nodes'[index])
      /\ index \in DOMAIN nodes =>
           /\ nodes'[index][1] = nodes[index][1]
           /\ nodes'[index][Len(nodes'[index]) - 1] = LatestState(nodes[index])
      /\ index \notin DOMAIN nodes => nodes'[index][1] = state
  BY <1>2, RecordedNode
<1>4. HistoriesOK'
  <2>1. ASSUME NEW i \in DOMAIN nodes' PROVE HistoryOK(nodes'[i])
    BY <1>1, <1>3 DEF HistoriesOK
  <2> QED BY <1>1, <2>1 DEF HistoriesOK, HistoryOK
<1>5. Written' = Written \cup {index}
  <2>1. state.version > Len(roots)
    BY <1>1, <1>2
  <2>2. \A i \in DOMAIN nodes' :
          LatestState(nodes'[i]).version > Len(roots) <=> i \in Written \cup {index}
    BY <1>1, <1>3, <2>1 DEF Written
  <2>3. Written \subseteq DOMAIN nodes'
    BY <1>1 DEF Written
  <2> QED BY <1>1, <2>2, <2>3 DEF Written
<1>6. Old' = Old
  <2>1. ~(state.version <= Len(roots))
    BY <1>1, <1>2
  <2>2. \A i \in DOMAIN nodes' : nodes'[i][1].version <= Len(roots) <=> i \in Old
    BY <1>1, <1>3, <2>1 DEF Old
  <2>3. Old \subseteq DOMAIN nodes'
    BY <1>1 DEF Old
  <2> QED BY <1>1, <2>2, <2>3 DEF Old
<1>7. ASSUME NEW i \in Old
      PROVE  Settled(i)' = Settled(i) /\ seg2[i] = seg[i]
  <2>1. i \in DOMAIN nodes
    BY DEF Old
  <2>2. CASE i = index
    BY <1>1, <1>3, <1>5, <2>1, <2>2 DEF Settled
  <2>3. CASE i # index
    <3>1. nodes'[i] = nodes[i] /\ (i \in Written' <=> i \in Written)
      BY <1>1, <1>5, <2>1, <2>3
    <3> QED BY <1>1, <2>1, <3>1 DEF Settled
  <2> QED BY <2>2, <2>3
<1>8. ASSUME NEW i, NEW c, NodeFor(seg, i, c) PROVE NodeFor(seg2, i, c)'
  BY <1>1, <1>8 DEF NodeFor
<1>9. Shaped(seg2)'
  <2>1. ASSUME NEW c, NEW s, StateOK(seg, c, s) PROVE StateOK(seg2, c, s)'
    BY <1>1, <1>6, <1>8, <2>1 DEF StateOK
  <2>2. ASSUME NEW c, c = Top.segment PROVE StateOK(seg2, c, state)'
    <3>1. ~(state.version <= Len(roots))
      BY <1>1, <1>2
    <3> QED BY <1>1, <1>2, <1>8, <2>2, <3>1 DEF StateOK
  <2>3. ASSUME NEW i \in DOMAIN nodes', NEW k \in DOMAIN nodes'[i], NEW c, NEW s,
               c = seg2[i], s = nodes'[i][k]
        PROVE  StateOK(seg2, c, s)'
    <3>1. CASE i = index /\ k = Len(nodes'[index])
      <4>1. c = Top.segment /\ s = state
        BY <1>1, <1>3, <2>3, <3>1
      <4> QED BY <2>2, <4>1
    <3>2. CASE ~(i = index /\ k = Len(nodes'[index]))
      <4>1. i \in DOMAIN nodes /\ k \in DOMAIN nodes[i] /\ s = nodes[i][k] /\ c = seg[i]
        <5>1. CASE i = index
          BY <1>1, <1>3, <2>3, <3>2, <5>1
        <5>2. CASE i # index
          BY <1>1, <2>3, <5>2
        <5> QED BY <5>1, <5>2
      <4>2. StateOK(seg, c, s)
        BY <1>1, <4>1 DEF Shaped
      <4> QED BY <2>1, <4>2
    <3> QED BY <3>1, <3>2
  <2>4. (\A i \in DOMAIN nodes : \A k \in DOMAIN nodes[i] : StateOK(seg2, seg2[i], nodes[i][k]))'
    BY <2>3
  <2>5. (arraySize # 0 => \A v \in DOMAIN roots :
                            NodeFor(seg2, roots[v], Root(arraySize)) /\ roots[v] \in Old)'
    <3> SUFFICES ASSUME arraySize # 0, NEW v \in DOMAIN roots
                 PROVE  (NodeFor(seg2, roots[v], Root(arraySize)) /\ roots[v] \in Old)'
      BY <1>1
    <3>1. PICK i : i = roots[v]
      OBVIOUS
    <3>2. NodeFor(seg, i, Root(arraySize)) /\ i \in Old
      BY <1>1, <3>1 DEF Shaped
    <3>3. PICK c : c = Root(arraySize)
      OBVIOUS
    <3>4. NodeFor(seg2, i, c)' /\ i \in Old'
      BY <1>6, <1>8, <3>2, <3>3
    <3> QED BY <1>1, <3>1, <3>3, <3>4
  <2>6. (seg2 \in [DOMAIN nodes -> Interval(arraySize)])'
    BY <1>1
  <2> QED BY <2>4, <2>5, <2>6 DEF Shaped
<1>10. Foreseen(seg2, foreseen)'
  <2>1. call'.left = call.left /\ call'.right = call.right /\ call'.value = call.value
    BY RecordedCall DEF Running
  <2> QED BY <1>1, <1>6, <1>7, <2>1 DEF Foreseen
<1>11. Done(seg2)' = Done(seg) \cup {Top.segment}
  <2>1. \A i \in Written : seg2[i] = seg[i]
    BY <1>1 DEF Written
  <2> QED BY <1>1, <1>5, <2>1 DEF Done
<1> QED BY <1>4, <1>5, <1>6, <1>7, <1>8, <1>9, <1>10, <1>11

(* The other frames do not work on the node, nor did they receive it.      *)
LEMMA FrameKept ==
  ASSUME NEW seg, NEW foreseen, Running(seg, foreseen), stack # <<>>, Top.todo = {},
         NEW seg2, NEW index, Recorded(seg, seg2, index),
         NEW k \in DOMAIN stack, k < Len(stack), NEW f, f = stack[k]
  PROVE  FrameOK(seg2, foreseen, f)'
<1>1. /\ stack \in Seq(Frame) /\ Len(stack) \in DOMAIN stack /\ Top = stack[Len(stack)]
      /\ f \in Frame /\ FrameOK(seg, foreseen, f)
      /\ arraySize \in Nat /\ Top.segment \in Interval(arraySize)
      /\ f.segment \in Interval(arraySize) /\ (f.todo # {} => ~IsLeaf(f.segment))
      /\ Nested(stack)
  BY TopFrame DEF FramesIn, Running, UpdateOK
<1>2. f.todo # {} /\ Within(Top.segment, Half(f.segment, NextSide(f)))
  BY <1>1 DEF Nested
<1>3. NextSide(f) \in f.todo /\ NextSide(f) \in Sides
  BY <1>1, <1>2 DEF NextSide, Frame, Sides
<1>4. /\ Written' = Written \cup {index} /\ Old' = Old
      /\ \A i \in Old : Settled(i)' = Settled(i) /\ seg2[i] = seg[i]
      /\ \A i, c : NodeFor(seg, i, c) => NodeFor(seg2, i, c)'
  BY RecordedArena
<1>5. call'.left = call.left /\ call'.right = call.right /\ call'.value = call.value
  BY RecordedCall DEF Running
<1>6. index \in DOMAIN nodes => seg[index] = Top.segment
  BY DEF Recorded
<1>7. \A i \in DOMAIN nodes : i # index => nodes'[i] = nodes[i]
  BY DEF Recorded
<1>8. /\ Top.segment[1] \in Int /\ Top.segment[2] \in Int /\ Top.segment[1] <= Top.segment[2]
      /\ f.segment[1] \in Int /\ f.segment[2] \in Int /\ Midpoint(f.segment) \in Int
      /\ f.segment[1] <= Midpoint(f.segment) /\ Midpoint(f.segment) < f.segment[2]
      /\ Half(f.segment, "left")[1] = f.segment[1]
      /\ Half(f.segment, "left")[2] = Midpoint(f.segment)
      /\ Half(f.segment, "right")[1] = Midpoint(f.segment) + 1
      /\ Half(f.segment, "right")[2] = f.segment[2]
  BY <1>1, <1>2, HalfFacts DEF Interval, Sides
<1>9. /\ Top.segment # f.segment
      /\ \A side \in Sides : side # NextSide(f) => Top.segment # Half(f.segment, side)
  <2>1. CASE NextSide(f) = "left"
    BY <1>2, <1>8, <2>1 DEF Within, Sides
  <2>2. CASE NextSide(f) = "right"
    BY <1>2, <1>8, <2>2 DEF Within, Sides
  <2> QED BY <1>3, <2>1, <2>2 DEF Sides
<1>10. f.node \in Old /\ f.node # index /\ f.node \notin Written
  BY <1>1, <1>6, <1>9 DEF FrameOK, Old
<1>11. ASSUME NEW side \in Sides, SideOK(seg, foreseen, f, side)
       PROVE  SideOK(seg2, foreseen, f, side)'
  <2>1. OldChild(f, side)' = OldChild(f, side)
    BY <1>4, <1>10 DEF OldChild
  <2>2. CASE side \in f.todo \/ Covers(call.left, call.right, f.segment)
    <3>1. Child(f, side) = OldChild(f, side)
      BY <1>11, <2>2 DEF SideOK
    <3> QED BY <1>5, <2>1, <2>2, <3>1 DEF SideOK
  <2>3. CASE ~(side \in f.todo \/ Covers(call.left, call.right, f.segment))
    <3>1. PICK c, h : c = Child(f, side) /\ h = Half(f.segment, side)
      OBVIOUS
    <3>2. /\ NodeFor(seg, c, h) /\ LatestState(nodes[c]).sum = foreseen[OldChild(f, side)]
          /\ c \in Written \/ Disjoint(call.left, call.right, h)
      BY <1>11, <2>3, <3>1 DEF SideOK
    <3>3. c # index /\ nodes'[c] = nodes[c]
      <4>1. c \in DOMAIN nodes /\ seg[c] = h /\ h # Top.segment
        BY <1>3, <1>9, <2>3, <3>1, <3>2 DEF NodeFor
      <4> QED BY <1>6, <1>7, <4>1
    <3>4. NodeFor(seg2, c, h)'
      BY <1>4, <3>2
    <3> QED BY <1>4, <1>5, <2>1, <2>3, <3>1, <3>2, <3>3, <3>4 DEF SideOK
  <2> QED BY <2>2, <2>3
<1> QED BY <1>1, <1>4, <1>5, <1>10, <1>11 DEF FrameOK, Sides

(* The caller receives the node for the half it waited for. *)
LEMMA CallerReceives ==
  ASSUME NEW seg, NEW foreseen, Running(seg, foreseen), stack # <<>>, Top.todo = {},
         NEW seg2, NEW index, Recorded(seg, seg2, index),
         NEW m \in Nat \ {0}, Len(stack) = m + 1, NEW f, f = stack[m],
         NEW g, g = Receive(f, index)
  PROVE  /\ FrameOK(seg2, foreseen, g)'
         /\ f \in Frame /\ f.todo # {}
         /\ g.segment = f.segment /\ g.node = f.node
         /\ Ahead(g)' = Ahead(f) - VisitsOf[Top.segment]
<1>1. /\ stack \in Seq(Frame) /\ DOMAIN stack = 1 .. m + 1 /\ Top = stack[m + 1]
      /\ m \in DOMAIN stack /\ m + 1 \in DOMAIN stack /\ m < m + 1 /\ m + 1 # 1
      /\ (m + 1) - 1 = m
      /\ f \in Frame /\ FrameOK(seg, foreseen, f)
      /\ Nested(stack) /\ FrameInPlace(m + 1)
  BY TopFrame DEF Running, UpdateOK
<1>2. /\ f.todo # {} /\ Top.segment = Half(f.segment, NextSide(f))
      /\ Top.node = Child(f, NextSide(f))
  BY <1>1 DEF Nested, FrameInPlace
<1>3. /\ index \in Nat /\ index \in DOMAIN nodes' /\ seg2[index] = Top.segment
  BY DEF Recorded
<1>4. /\ g.segment = f.segment /\ g.node = f.node /\ g.todo = f.todo \ {NextSide(f)}
      /\ NextSide(f) \in f.todo /\ NextSide(f) \in Sides
      /\ NextSide(f) = "left" => g.newLeft = index /\ g.newRight = f.newRight
      /\ NextSide(f) = "right" => g.newLeft = f.newLeft /\ g.newRight = index
  BY <1>1, <1>2, <1>3, ReceiveFacts
<1>5. FrameOK(seg2, foreseen, f)'
  BY <1>1, FrameKept
<1>6. ~Covers(call.left, call.right, f.segment)
  BY <1>1, <1>2 DEF FrameOK
<1>7. /\ call'.left = call.left /\ call'.right = call.right /\ VisitsOf' = VisitsOf
      /\ Written' = Written \cup {index}
      /\ \A i \in Old : Settled(i)' = Settled(i)
  BY RecordedCall, RecordedArena DEF Running
<1>8. ASSUME NEW side \in Sides, SideOK(seg2, foreseen, f, side)', ~IsLeaf(f.segment)
      PROVE  SideOK(seg2, foreseen, g, side)'
  <2>1. OldChild(g, side)' = OldChild(f, side)'
    BY <1>4 DEF OldChild
  <2>2. CASE side # NextSide(f)
    <3>1. Child(g, side) = Child(f, side) /\ (side \in g.todo <=> side \in f.todo)
      BY <1>4, <2>2 DEF Child, Sides
    <3> QED BY <1>4, <1>8, <2>1, <3>1 DEF SideOK
  <2>3. CASE side = NextSide(f)
    <3>1. Child(g, side) = index /\ side \notin g.todo
      BY <1>4, <2>3 DEF Child, Sides
    <3>2. Half(g.segment, side) = Top.segment
      BY <1>2, <1>4, <2>3
    <3>3. LatestState(nodes'[index]).sum = foreseen[Top.node]
      BY RecordedNode, Finishes
    <3>4. Top.node = OldChild(g, side)'
      <4>1. Child(f, side) = OldChild(f, side)
        <5>1. SideOK(seg, foreseen, f, side)
          BY <1>1, <1>8, <2>3 DEF FrameOK, Sides
        <5> QED BY <1>4, <2>3, <5>1 DEF SideOK
      <4>2. OldChild(f, side)' = OldChild(f, side)
        BY <1>1, <1>7 DEF OldChild, FrameOK
      <4> QED BY <1>2, <2>1, <2>3, <4>1, <4>2
    <3>5. PICK h : h = Half(g.segment, side)
      OBVIOUS
    <3>6. NodeFor(seg2, index, h)'
      BY <1>3, <3>2, <3>5 DEF NodeFor
    <3> QED BY <1>4, <1>6, <1>7, <3>1, <3>3, <3>4, <3>5, <3>6 DEF SideOK
  <2> QED BY <2>2, <2>3
<1>9. FrameOK(seg2, foreseen, g)'
  BY <1>4, <1>5, <1>6, <1>7, <1>8 DEF FrameOK, Sides
<1>10. Ahead(g)' = Ahead(f) - VisitsOf[Top.segment]
  <2>1. PICK visits : visits = VisitsOf
    OBVIOUS
  <2>2. \A c \in Interval(arraySize) : visits[c] \in Nat
    BY <2>1, VisitsOfType DEF Running
  <2>3. f.segment \in Interval(arraySize) /\ ~IsLeaf(f.segment) /\ arraySize \in Nat
    BY <1>1, <1>2, TopFrame DEF FramesIn
  <2>4. visits[Half(f.segment, "left")] \in Nat /\ visits[Half(f.segment, "right")] \in Nat
    BY <2>2, <2>3, HalfFacts DEF Sides
  <2>5. Ahead(f) = (IF "left" \in f.todo THEN visits[Half(f.segment, "left")] ELSE 0)
                   + (IF "right" \in f.todo THEN visits[Half(f.segment, "right")] ELSE 0) + 1
    BY <2>1 DEF Ahead, Cost
  <2>6. Ahead(g)' = (IF "left" \in g.todo THEN visits[Half(f.segment, "left")] ELSE 0)
                    + (IF "right" \in g.todo THEN visits[Half(f.segment, "right")] ELSE 0) + 1
    BY <1>4, <1>7, <2>1 DEF Ahead, Cost
  <2>7. CASE NextSide(f) = "left"
    <3>1. "left" \notin g.todo /\ "left" \in f.todo
          /\ ("right" \in g.todo <=> "right" \in f.todo)
      BY <1>4, <2>7
    <3> QED BY <1>2, <2>1, <2>4, <2>5, <2>6, <2>7, <3>1
  <2>8. CASE NextSide(f) = "right"
    <3>1. "right" \notin g.todo /\ "right" \in f.todo
          /\ ("left" \in g.todo <=> "left" \in f.todo)
      BY <1>4, <2>8
    <3> QED BY <1>2, <2>1, <2>4, <2>5, <2>6, <2>8, <3>1
  <2> QED BY <1>4, <2>7, <2>8 DEF Sides
<1> QED BY <1>1, <1>2, <1>4, <1>9, <1>10

LEMMA RecordedUpdateOK ==
  ASSUME NEW seg, NEW foreseen, Running(seg, foreseen), stack # <<>>, Top.todo = {},
         NEW seg2, NEW index, Recorded(seg, seg2, index)
  PROVE  stack' \in Seq(Frame) /\ UpdateOK(seg2, foreseen)'
<1>1. PICK l \in Nat \ {0} :
        /\ l = Len(stack) /\ stack \in Seq(Frame) /\ DOMAIN stack = 1 .. l
        /\ Top = stack[l] /\ FramesIn(stack, arraySize) /\ arraySize \in Nat
        /\ Done(seg) \in SUBSET Interval(arraySize)
        /\ ~Disjoint(call.left, call.right, Top.segment)
  BY TopFrame DEF FrameOK
<1>2. /\ Nested(stack) /\ Passed(stack, Done(seg))
      /\ \A i \in Written : ~Disjoint(call.left, call.right, seg[i])
      /\ \A k \in DOMAIN stack : FrameOK(seg, foreseen, stack[k]) /\ FrameInPlace(k)
      /\ \E later : RoomOK(later)
  BY DEF Running, UpdateOK
<1>3. /\ index \in Nat /\ stack' = Resume(stack, index) /\ arraySize' = arraySize
      /\ capacity' = capacity /\ index \in DOMAIN nodes' /\ seg2[index] = Top.segment
      /\ \A i \in DOMAIN nodes : seg2[i] = seg[i]
  BY DEF Recorded
<1>4. /\ call'.left = call.left /\ call'.right = call.right
      /\ Len(stack) = 1 => call'.root = index
      /\ VisitsOf' = VisitsOf
  BY RecordedCall DEF Running
<1>5. Written' = Written \cup {index} /\ Done(seg2)' = Done(seg) \cup {Top.segment}
  BY RecordedArena
<1>6. (\A i \in Written : ~Disjoint(call.left, call.right, seg2[i]))'
  <2>1. \A i \in Written : seg2[i] = seg[i]
    BY <1>3 DEF Written
  <2> QED BY <1>1, <1>2, <1>3, <1>4, <1>5, <2>1
<1>7. CASE l = 1
  <2>1. stack' = <<>> /\ DOMAIN stack' = {}
    BY <1>1, <1>3, <1>7, ResumedEmpty, EmptySeq
  <2>2. Nested(stack') /\ Passed(stack', Done(seg2)')
    BY <2>1 DEF Nested, Passed
  <2>3. (\E h : RoomOK(h))'
    <3>1. PICK h : h = [k \in {} |-> 0]
      OBVIOUS
    <3>2. RoomOK(h)'
      BY <2>1, <3>1 DEF RoomOK
    <3> QED BY <3>2
  <2>4. NodeFor(seg2, call.root, Root(arraySize))'
    <3>1. FrameInPlace(1) /\ Top.segment = stack[1].segment
      BY <1>1, <1>2, <1>7
    <3> QED BY <1>1, <1>3, <1>4, <1>7, <3>1 DEF FrameInPlace, NodeFor
  <2>5. (\A k \in DOMAIN stack : FrameOK(seg2, foreseen, stack[k]) /\ FrameInPlace(k))'
    BY <2>1
  <2> QED BY <1>6, <2>1, <2>2, <2>3, <2>4, <2>5, EmptySeq DEF UpdateOK
<1>8. CASE l # 1
  <2>1. PICK m \in Nat \ {0} : l = m + 1
    <3>1. l - 1 \in Nat \ {0} /\ l = (l - 1) + 1
      BY <1>8
    <3> QED BY <3>1
  <2>2. /\ Len(stack) = m + 1 /\ m \in 1 .. l /\ m + 1 \in 1 .. l /\ m < m + 1 /\ m < Len(stack)
        /\ m + 1 > 1 /\ (m + 1) - 1 = m
    BY <1>1, <2>1
  <2>3. PICK f, g : f = stack[m] /\ g = Receive(f, index)
    OBVIOUS
  <2>4. /\ FrameOK(seg2, foreseen, g)' /\ f \in Frame /\ f.todo # {}
        /\ g.segment = f.segment /\ g.node = f.node
        /\ Ahead(g)' = Ahead(f) - VisitsOf[Top.segment]
    BY <2>2, <2>3, CallerReceives
  <2>5. /\ stack' \in Seq(Frame) /\ DOMAIN stack' = 1 .. m /\ stack' # <<>> /\ Len(stack') = m
        /\ stack'[m] = g /\ \A k \in 1 .. m : k # m => stack'[k] = stack[k]
    BY <1>1, <1>3, <2>2, <2>3, <2>4, ResumedStack
  <2>6. Nested(stack')
    BY <1>1, <1>2, <1>3, <2>2, NestedResume
  <2>7. Passed(stack', Done(seg2)')
    <3>1. PICK done \in SUBSET Interval(arraySize) : done = Done(seg)
      BY <1>1
    <3>2. Passed(Resume(stack, index), done \cup {stack[m + 1].segment})
      BY <1>1, <1>2, <1>3, <2>2, <3>1, PassedResume
    <3> QED BY <1>1, <1>3, <1>5, <2>1, <3>1, <3>2
  <2>8. ASSUME NEW k \in 1 .. m
        PROVE  FrameOK(seg2, foreseen, stack[k])' /\ FrameInPlace(k)'
    <3>1. PICK e : e = stack'[k]
      OBVIOUS
    <3>2. k \in DOMAIN stack /\ k < Len(stack)
      BY <1>1, <2>1, <2>2
    <3>3. FrameOK(seg2, foreseen, e)' /\ e.segment = stack[k].segment /\ e.node = stack[k].node
      <4>1. CASE k = m
        BY <2>3, <2>4, <2>5, <3>1, <4>1
      <4>2. CASE k # m
        <5>1. e = stack[k]
          BY <2>5, <3>1, <4>2
        <5> QED BY <3>2, <5>1, FrameKept
      <4> QED BY <4>1, <4>2
    <3>4. k # 1 => k - 1 \in 1 .. m /\ k - 1 # m
      BY <2>2
    <3>5. k # 1 => stack'[k - 1] = stack[k - 1]
      BY <2>5, <3>4
    <3>6. FrameInPlace(k)
      BY <1>2, <3>2
    <3>7. FrameInPlace(k)'
      BY <1>3, <3>1, <3>3, <3>5, <3>6 DEF FrameInPlace
    <3> QED BY <3>1, <3>3, <3>7
  <2>9. (\E h : RoomOK(h))'
    <3>1. PICK later : RoomOK(later)
      BY <1>2
    <3>2. PICK h : h = [k \in 1 .. m |-> later[k]]
      OBVIOUS
    <3>3. /\ \A k \in 1 .. m + 1 : later[k] \in Nat
          /\ \A k \in 1 .. m + 1 : k > 1 =>
               later[k] = later[k - 1] + Ahead(stack[k - 1]) - VisitsOf[stack[k].segment]
          /\ Len(nodes) + later[m + 1] + Ahead(Top) <= capacity
      BY <1>1, <2>1, <3>1 DEF RoomOK
    <3>4. later[m + 1] = later[m] + Ahead(f) - VisitsOf[Top.segment]
      BY <1>1, <2>1, <2>2, <2>3, <3>3
    <3>5. (h \in [DOMAIN stack -> Nat])'
      <4>1. \A k \in 1 .. m : later[k] \in Nat
        BY <2>2, <3>3
      <4> QED BY <2>5, <3>2, <4>1
    <3>6. ASSUME NEW k \in 1 .. m, k > 1
          PROVE  (h[k] = h[k - 1] + Ahead(stack[k - 1]) - VisitsOf[stack[k].segment])'
      <4>1. k - 1 \in 1 .. m /\ k - 1 # m /\ k \in 1 .. m + 1
        BY <2>2, <3>6
      <4>2. PICK e : e = stack[k - 1]
        OBVIOUS
      <4>3. stack'[k - 1] = e /\ stack'[k].segment = stack[k].segment
        BY <2>3, <2>4, <2>5, <4>1, <4>2
      <4>4. Ahead(e)' = Ahead(e)
        BY <1>4 DEF Ahead, Cost
      <4>5. h[k] = later[k] /\ h[k - 1] = later[k - 1]
        BY <3>2, <4>1
      <4>6. later[k] = later[k - 1] + Ahead(e) - VisitsOf[stack[k].segment]
        BY <3>3, <3>6, <4>1, <4>2
      <4> QED BY <1>4, <4>3, <4>4, <4>5, <4>6
    <3>7. (Len(nodes) + h[Len(stack)] + Ahead(Top) <= capacity)'
      <4>1. Ahead(Top)' = Ahead(f) - VisitsOf[Top.segment]
        <5>1. Top' = g
          BY <2>5 DEF Top
        <5> QED BY <2>4, <5>1 DEF Ahead, Cost
      <4>2. h[m] = later[m]
        BY <2>2, <3>2
      <4>3. PICK a, v : a = Ahead(f) /\ v = VisitsOf[Top.segment]
        OBVIOUS
      <4>4. a \in Int /\ v \in Int
        <5>1. v \in Nat
          BY <4>3, TopFrame, VisitsOfType DEF Running
        <5>2. f.segment \in Interval(arraySize) /\ ~IsLeaf(f.segment)
          BY <1>1, <2>2, <2>3, <2>4 DEF FramesIn
        <5>3. /\ Half(f.segment, "left") \in Interval(arraySize)
              /\ Half(f.segment, "right") \in Interval(arraySize)
          BY <1>1, <5>2, HalfFacts DEF Sides
        <5>4. Cost(f, "left") \in Nat /\ Cost(f, "right") \in Nat
          BY <5>3, VisitsOfType DEF Cost, Running
        <5> QED BY <4>3, <5>1, <5>4 DEF Ahead
      <4>5. /\ Len(nodes) \in Nat /\ capacity \in Nat /\ Len(nodes') \in Nat
            /\ Len(nodes') <= Len(nodes) + 1 /\ Ahead(Top) = 1
            /\ later[m] \in Nat /\ later[m + 1] \in Nat
        <5>1. Len(nodes') \in Nat
          BY LenProperties DEF Recorded
        <5>2. Len(nodes) \in Nat /\ capacity \in Nat
          BY NodeFacts DEF Running, TypeOK
        <5>3. Len(nodes') <= Len(nodes) + 1
          BY DEF Recorded
        <5>4. later[m] \in Nat /\ later[m + 1] \in Nat
          BY <2>2, <3>3
        <5>5. Ahead(Top) = 1
          BY Finishes
        <5> QED BY <5>1, <5>2, <5>3, <5>4, <5>5
      <4>6. Len(nodes') + later[m] + (a - v) <= capacity
        <5>1. later[m + 1] = later[m] + a - v
          BY <3>4, <4>3
        <5>2. Len(nodes) + later[m + 1] + 1 <= capacity
          BY <3>3, <4>5
        <5>3. PICK x \in Nat, y \in Nat : x = later[m] /\ y = later[m + 1]
          BY <4>5
        <5>4. PICK p \in Nat, q \in Nat, o \in Nat :
                p = Len(nodes) /\ q = Len(nodes') /\ o = capacity
          BY <4>5
        <5>5. y = x + a - v /\ p + y + 1 <= o /\ q <= p + 1
          BY <4>5, <5>1, <5>2, <5>3, <5>4
        <5>6. q + x + (a - v) <= o
          BY <4>4, <5>5
        <5> QED BY <5>3, <5>4, <5>6
      <4> QED BY <1>3, <2>5, <4>1, <4>2, <4>3, <4>6
    <3>8. RoomOK(h)'
      BY <2>5, <3>5, <3>6, <3>7 DEF RoomOK
    <3> QED BY <3>8
  <2>10. (stack = <<>> => NodeFor(seg2, call.root, Root(arraySize)))'
    BY <2>5
  <2>11. (\A k \in DOMAIN stack : FrameOK(seg2, foreseen, stack[k]) /\ FrameInPlace(k))'
    BY <2>5, <2>8
  <2> QED BY <1>6, <2>5, <2>6, <2>7, <2>9, <2>10, <2>11 DEF UpdateOK
<1> QED BY <1>7, <1>8

LEMMA RecordedFInv ==
  ASSUME NEW seg, NEW foreseen, Running(seg, foreseen), stack # <<>>, Top.todo = {},
         NEW seg2, NEW index, Recorded(seg, seg2, index)
  PROVE  FInv'
<1>1. /\ TypeOK /\ HistoriesOK /\ CallOK /\ Len(roots) <= rootCapacity
      /\ call.phase = "update" /\ foreseen[Last(roots)] # Overflow
  BY DEF Running
<1>2. /\ nodes' \in Seq(Seq(Modification))
      /\ UNCHANGED <<roots, capacity, rootCapacity, arraySize, bound>>
  BY DEF Recorded
<1>3. /\ call' \in Call /\ call'.phase = "update"
      /\ call'.left = call.left /\ call'.right = call.right
      /\ call'.version = call.version
  BY <1>1, RecordedCall
<1>4. HistoriesOK' /\ Shaped(seg2)' /\ Foreseen(seg2, foreseen)'
  BY RecordedArena
<1>5. stack' \in Seq(Frame) /\ UpdateOK(seg2, foreseen)'
  BY RecordedUpdateOK
<1>6. TypeOK'
  BY <1>1, <1>2, <1>3, <1>5 DEF TypeOK
<1>7. CallOK'
  BY <1>1, <1>2, <1>3 DEF CallOK
<1>8. Len(roots') <= rootCapacity' /\ foreseen[Last(roots')] # Overflow
  BY <1>1, <1>2
<1> QED BY <1>3, <1>4, <1>5, <1>6, <1>7, <1>8 DEF FInv

Recording(seg, foreseen, seg2, index) ==
  /\ Running(seg, foreseen) /\ stack # <<>> /\ Top.todo = {}
  /\ Recorded(seg, seg2, index)

LEMMA RecordInPlaceIs ==
  ASSUME FInv, RecordInPlace
  PROVE  \E seg, foreseen, seg2, index : Recording(seg, foreseen, seg2, index)
<1>1. /\ stack # <<>> /\ Top.todo = {} /\ Len(nodes[Top.node]) < HISTORY_CAPACITY
      /\ nodes' = [nodes EXCEPT ![Top.node] = Append(@, NextState(Top))]
      /\ stack' = Resume(stack, Top.node)
      /\ call' = IF Len(stack) = 1 THEN [call EXCEPT !.root = Top.node] ELSE call
      /\ UNCHANGED <<roots, capacity, rootCapacity, arraySize, bound>>
  BY DEF RecordInPlace, Finishing, HasRoom, ReturnIndex
<1>2. PICK seg, foreseen : Running(seg, foreseen)
  BY <1>1, WhileRunning
<1>3. PICK index, state : index = Top.node /\ state = NextState(Top)
  OBVIOUS
<1>4. /\ TypeOK /\ HistoriesOK /\ index \in DOMAIN nodes /\ seg[index] = Top.segment
      /\ state \in Modification /\ seg \in [DOMAIN nodes -> Interval(arraySize)]
  BY <1>1, <1>2, <1>3, TopFrame, Finishes DEF Running, FrameOK, Old, Shaped
<1>5. PICK history : history = Append(nodes[index], state)
  OBVIOUS
<1>6. history \in Seq(Modification)
  BY <1>4, <1>5, NodeFacts, AppendProperties
<1>7. nodes' = [nodes EXCEPT ![index] = history]
  BY <1>1, <1>3, <1>5
<1>8. /\ nodes' \in Seq(Seq(Modification)) /\ Len(nodes') = Len(nodes)
      /\ DOMAIN nodes' = DOMAIN nodes /\ nodes'[index] = history
      /\ \A i \in DOMAIN nodes : i # index => nodes'[i] = nodes[i]
  <2>1. nodes \in Seq(Seq(Modification)) /\ index \in 1 .. Len(nodes)
    BY <1>4, NodeFacts DEF TypeOK
  <2>2. nodes' \in Seq(Seq(Modification)) /\ Len(nodes') = Len(nodes)
    BY <1>6, <1>7, <2>1, ExceptSeq
  <2> QED BY <1>4, <1>7, <2>2
<1>9. index \in Nat /\ Len(nodes) \in Nat
  BY <1>4, NodeFacts
<1>10. Recorded(seg, seg, index)
  BY <1>1, <1>3, <1>4, <1>5, <1>8, <1>9 DEF Recorded
<1> QED BY <1>1, <1>2, <1>10 DEF Recording

LEMMA RecordInCopyIs ==
  ASSUME FInv, RecordInCopy
  PROVE  \E seg, foreseen, seg2, index : Recording(seg, foreseen, seg2, index)
<1>1. /\ stack # <<>> /\ Top.todo = {}
      /\ nodes' = Append(nodes, <<NextState(Top)>>)
      /\ stack' = Resume(stack, Len(nodes'))
      /\ call' = IF Len(stack) = 1 THEN [call EXCEPT !.root = Len(nodes')] ELSE call
      /\ UNCHANGED <<roots, capacity, rootCapacity, arraySize, bound>>
  BY DEF RecordInCopy, Finishing, ReturnIndex
<1>2. PICK seg, foreseen : Running(seg, foreseen)
  BY <1>1, WhileRunning
<1>3. PICK state : state = NextState(Top)
  OBVIOUS
<1>4. /\ TypeOK /\ HistoriesOK /\ Top.segment \in Interval(arraySize)
      /\ state \in Modification /\ seg \in [DOMAIN nodes -> Interval(arraySize)]
      /\ Len(nodes) \in Nat /\ DOMAIN nodes = 1 .. Len(nodes)
  BY <1>1, <1>2, <1>3, TopFrame, Finishes, NodeFacts DEF Running, Shaped
<1>5. PICK index : index = Len(nodes) + 1
  OBVIOUS
<1>6. <<state>> \in Seq(Modification)
  BY <1>4
<1>7. /\ nodes' \in Seq(Seq(Modification)) /\ Len(nodes') = index
      /\ DOMAIN nodes' = DOMAIN nodes \cup {index} /\ nodes'[index] = <<state>>
      /\ \A i \in DOMAIN nodes : nodes'[i] = nodes[i]
      /\ index \notin DOMAIN nodes /\ index \in Nat
  <2>1. /\ nodes \in Seq(Seq(Modification)) /\ nodes' = Append(nodes, <<state>>)
    BY <1>1, <1>3, <1>4 DEF TypeOK
  <2>2. /\ nodes' \in Seq(Seq(Modification)) /\ Len(nodes') = Len(nodes) + 1
        /\ nodes'[Len(nodes) + 1] = <<state>>
        /\ \A i \in 1 .. Len(nodes) : nodes'[i] = nodes[i]
    BY <1>6, <2>1, AppendProperties
  <2>3. DOMAIN nodes' = 1 .. Len(nodes) + 1
    BY <2>2, LenProperties
  <2> QED BY <1>4, <1>5, <2>2, <2>3
<1>8. PICK seg2 : seg2 = [i \in DOMAIN nodes' |-> IF i \in DOMAIN nodes THEN seg[i]
                                                  ELSE Top.segment]
  OBVIOUS
<1>9. /\ seg2 \in [DOMAIN nodes' -> Interval(arraySize)] /\ seg2[index] = Top.segment
      /\ \A i \in DOMAIN nodes : seg2[i] = seg[i]
  BY <1>4, <1>7, <1>8
<1>10. Recorded(seg, seg2, index)
  BY <1>1, <1>3, <1>4, <1>5, <1>7, <1>9 DEF Recorded
<1> QED BY <1>1, <1>2, <1>10 DEF Recording

LEMMA RecordInPlaceFInv == FInv /\ RecordInPlace => FInv'
BY RecordInPlaceIs, RecordedFInv DEF Recording

LEMMA RecordInCopyFInv == FInv /\ RecordInCopy => FInv'
BY RecordInCopyIs, RecordedFInv DEF Recording

-----------------------------------------------------------------------------
(***************************************************************************)
(* initialize: what build makes of an admissible array.                    *)
(***************************************************************************)
BuiltState == [version : Nat, leftChild : Nat, rightChild : Nat, sum : Outcome, lazy : Value]

Trees == Seq(Seq(BuiltState))

LeafTree(value) ==
  <<<<[version |-> 1, leftChild |-> NoNode, rightChild |-> NoNode, sum |-> value, lazy |-> 0]>>>>

JoinedTree(leftTree, rightTree, offset) ==
  leftTree \o rightTree
    \o <<<<[version |-> 1,
            leftChild |-> offset + Len(leftTree),
            rightChild |-> offset + Len(leftTree) + Len(rightTree),
            sum |-> CheckedAdd(Last(leftTree)[1].sum, Last(rightTree)[1].sum),
            lazy |-> 0]>>>>

LEMMA LeafTreeType == \A value \in Value : LeafTree(value) \in Trees
<1> SUFFICES ASSUME NEW value \in Value PROVE LeafTree(value) \in Trees
  OBVIOUS
<1> PICK state : state = [version |-> 1, leftChild |-> NoNode, rightChild |-> NoNode,
                          sum |-> value, lazy |-> 0]
  OBVIOUS
<1>1. state \in BuiltState
  BY ValueFacts, OutcomeFacts DEF BuiltState, NoNode
<1> QED BY <1>1 DEF LeafTree, Trees

LEMMA JoinedTreeType ==
  \A leftTree, rightTree \in Trees, offset \in Nat :
    /\ JoinedTree(leftTree, rightTree, offset) \in Trees
    /\ Len(JoinedTree(leftTree, rightTree, offset)) = Len(leftTree) + Len(rightTree) + 1
    /\ \A i \in 1 .. Len(leftTree) : JoinedTree(leftTree, rightTree, offset)[i] = leftTree[i]
    /\ \A i \in 1 .. Len(rightTree) :
         JoinedTree(leftTree, rightTree, offset)[Len(leftTree) + i] = rightTree[i]
    /\ JoinedTree(leftTree, rightTree, offset)[Len(leftTree) + Len(rightTree) + 1]
         = <<[version |-> 1,
              leftChild |-> offset + Len(leftTree),
              rightChild |-> offset + Len(leftTree) + Len(rightTree),
              sum |-> CheckedAdd(Last(leftTree)[1].sum, Last(rightTree)[1].sum),
              lazy |-> 0]>>
<1> SUFFICES ASSUME NEW leftTree \in Trees, NEW rightTree \in Trees, NEW offset \in Nat
             PROVE  LET t == JoinedTree(leftTree, rightTree, offset)
                    IN /\ t \in Trees
                       /\ Len(t) = Len(leftTree) + Len(rightTree) + 1
                       /\ \A i \in 1 .. Len(leftTree) : t[i] = leftTree[i]
                       /\ \A i \in 1 .. Len(rightTree) : t[Len(leftTree) + i] = rightTree[i]
                       /\ t[Len(leftTree) + Len(rightTree) + 1]
                            = <<[version |-> 1,
                                 leftChild |-> offset + Len(leftTree),
                                 rightChild |-> offset + Len(leftTree) + Len(rightTree),
                                 sum |-> CheckedAdd(Last(leftTree)[1].sum,
                                                    Last(rightTree)[1].sum),
                                 lazy |-> 0]>>
  OBVIOUS
<1>1. PICK a, b : /\ a = Len(leftTree) /\ b = Len(rightTree) /\ a \in Nat /\ b \in Nat
  BY LenProperties DEF Trees
<1>2. PICK sum : sum = CheckedAdd(Last(leftTree)[1].sum, Last(rightTree)[1].sum)
  OBVIOUS
<1>3. PICK state : state = [version |-> 1, leftChild |-> offset + a,
                            rightChild |-> offset + a + b, sum |-> sum, lazy |-> 0]
  OBVIOUS
<1>4. state \in BuiltState
  <2>1. sum \in Outcome /\ 0 \in Value
    BY <1>2, CheckedAddOutcome, ValueFacts
  <2>2. offset + a \in Nat /\ offset + a + b \in Nat
    BY <1>1
  <2> QED BY <1>3, <2>1, <2>2 DEF BuiltState
<1>5. PICK both, root : both = leftTree \o rightTree /\ root = <<<<state>>>>
  OBVIOUS
<1>6. /\ both \in Trees /\ Len(both) = a + b
      /\ \A i \in 1 .. a : both[i] = leftTree[i]
      /\ \A i \in 1 .. b : both[a + i] = rightTree[i]
  <2>1. /\ both \in Trees /\ Len(both) = a + b
        /\ \A i \in 1 .. a + b : both[i] = IF i <= a THEN leftTree[i] ELSE rightTree[i - a]
    BY <1>1, <1>5, ConcatProperties DEF Trees
  <2>2. ASSUME NEW i \in 1 .. b PROVE both[a + i] = rightTree[i]
    <3>1. a + i \in 1 .. a + b /\ ~(a + i <= a) /\ (a + i) - a = i
      BY <1>1
    <3> QED BY <2>1, <3>1
  <2>3. \A i \in 1 .. a : i \in 1 .. a + b /\ i <= a
    BY <1>1
  <2> QED BY <2>1, <2>2, <2>3
<1>7. root \in Trees /\ Len(root) = 1 /\ root[1] = <<state>>
  BY <1>4, <1>5 DEF Trees
<1>8. PICK t : t = both \o root
  OBVIOUS
<1>9. /\ t \in Trees /\ Len(t) = a + b + 1
      /\ \A i \in 1 .. a + b : t[i] = both[i]
      /\ t[a + b + 1] = <<state>>
  <2>1. /\ t \in Trees /\ Len(t) = a + b + 1
        /\ \A i \in 1 .. a + b + 1 : t[i] = IF i <= a + b THEN both[i] ELSE root[i - (a + b)]
    <3>1. PICK l \in Nat : l = a + b
      BY <1>1
    <3>2. Len(both) = l /\ Len(root) = 1 /\ both \in Trees /\ root \in Trees
      BY <1>6, <1>7, <3>1
    <3>3. /\ both \o root \in Trees /\ Len(both \o root) = Len(both) + Len(root)
          /\ \A i \in 1 .. Len(both) + Len(root) :
               (both \o root)[i] = IF i <= Len(both) THEN both[i] ELSE root[i - Len(both)]
      BY <3>2, ConcatProperties DEF Trees
    <3> QED BY <1>8, <3>1, <3>2, <3>3
  <2>2. /\ a + b + 1 \in 1 .. a + b + 1 /\ ~(a + b + 1 <= a + b) /\ (a + b + 1) - (a + b) = 1
        /\ \A i \in 1 .. a + b : i \in 1 .. a + b + 1 /\ i <= a + b
    BY <1>1
  <2> QED BY <1>7, <2>1, <2>2
<1>10. t = JoinedTree(leftTree, rightTree, offset)
  BY <1>1, <1>2, <1>3, <1>5, <1>8 DEF JoinedTree
<1>11. /\ \A i \in 1 .. a : t[i] = leftTree[i]
       /\ \A i \in 1 .. b : t[a + i] = rightTree[i]
  <2>1. /\ \A i \in 1 .. a : i \in 1 .. a + b
        /\ \A i \in 1 .. b : a + i \in 1 .. a + b
    BY <1>1
  <2> QED BY <1>6, <1>9, <2>1
<1> QED BY <1>1, <1>2, <1>3, <1>9, <1>10, <1>11

LEMMA BuiltSteps ==
  ASSUME NEW values \in Seq(Value), values # <<>>
  PROVE  \E tree :
           /\ Built(values) = tree[Root(Len(values))][0]
           /\ \A c \in Interval(Len(values)) : \A offset \in Nat :
                tree[c][offset] =
                  IF IsLeaf(c) THEN LeafTree(values[c[1]])
                  ELSE JoinedTree(tree[LeftHalf(c)][offset],
                                  tree[RightHalf(c)][offset + Len(tree[LeftHalf(c)][offset])],
                                  offset)
<1> DEFINE n == Len(values)
           V == [Nat -> Trees]
           D == [segment : Interval(n)]
           base == [at \in D |-> [offset \in Nat |-> LeafTree(values[at.segment[1]])]]
           toLeft == [at \in D |-> [segment |-> LeftHalf(at.segment)]]
           toRight == [at \in D |-> [segment |-> RightHalf(at.segment)]]
           J(l, r) == [offset \in Nat |->
                        JoinedTree(l[offset], r[offset + Len(l[offset])], offset)]
           join == [x \in V \X V |-> J(x[1], x[2])]
           Solved(f) == [c \in Interval(n) |->
             IF IsLeaf(c)
             THEN [offset \in Nat |->
                     <<<<[version |-> 1, leftChild |-> NoNode, rightChild |-> NoNode,
                          sum |-> values[c[1]], lazy |-> 0]>>>>]
             ELSE [offset \in Nat |->
                     LET leftTree == f[LeftHalf(c)][offset]
                         leftRoot == offset + Len(leftTree)
                         rightTree == f[RightHalf(c)][leftRoot]
                         rightRoot == leftRoot + Len(rightTree)
                     IN  leftTree \o rightTree
                         \o <<<<[version |-> 1, leftChild |-> leftRoot,
                                 rightChild |-> rightRoot,
                                 sum |-> CheckedAdd(Last(leftTree)[1].sum,
                                                    Last(rightTree)[1].sum),
                                 lazy |-> 0]>>>>]]
<1>1. n \in Nat /\ \A p \in 1 .. n : values[p] \in Value
  BY LenProperties, ElementOfSeq
<1>2. base \in [D -> V]
  <2>1. \A at \in D : LeafTree(values[at.segment[1]]) \in Trees
    BY <1>1, Halves, LeafTreeType
  <2> QED BY <2>1
<1>3. \A l, r \in V : J(l, r) \in V
  <2> SUFFICES ASSUME NEW l \in V, NEW r \in V, NEW offset \in Nat
               PROVE  JoinedTree(l[offset], r[offset + Len(l[offset])], offset) \in Trees
    OBVIOUS
  <2>1. l[offset] \in Trees /\ Len(l[offset]) \in Nat
    BY LenProperties DEF Trees
  <2>2. r[offset + Len(l[offset])] \in Trees
    BY <2>1
  <2> QED BY <2>1, <2>2, JoinedTreeType
<1>4. join \in [V \X V -> V]
  <2> HIDE DEF V, J
  <2> QED BY <1>3
<1>5. VisitRecursion(n, D, V, {}, base, toLeft, toRight, join)
  <2>1. ASSUME NEW at \in D, ~IsLeaf(at.segment)
        PROVE  /\ toLeft[at] \in D /\ toLeft[at].segment = LeftHalf(at.segment)
               /\ toRight[at] \in D /\ toRight[at].segment = RightHalf(at.segment)
    BY <1>1, <2>1, Halves
  <2> HIDE DEF base, toLeft, toRight, join, V
  <2> QED BY <1>1, <1>2, <1>4, <2>1 DEF VisitRecursion, Visits
<1>6. \E g : \A c \in Interval(n) :
        /\ g[c] \in V
        /\ g[c] = IF IsLeaf(c) THEN [offset \in Nat |-> LeafTree(values[c[1]])]
                  ELSE J(g[LeftHalf(c)], g[RightHalf(c)])
  <2>1. PICK f : VisitSolution(f, D, V, {}, base, toLeft, toRight, join)
    <3> HIDE DEF D, V, base, toLeft, toRight, join
    <3> QED BY <1>5, VisitRecursionSolved
  <2>2. PICK g : g = [c \in Interval(n) |-> f[[segment |-> c]]]
    OBVIOUS
  <2>3. \A c \in Interval(n) : g[c] \in V /\ [segment |-> c] \in D /\ g[c] = f[[segment |-> c]]
    <3>1. \A c \in Interval(n) : [segment |-> c] \in D /\ g[c] = f[[segment |-> c]]
      BY <2>2
    <3> HIDE DEF D, V
    <3> QED BY <2>1, <3>1 DEF VisitSolution
  <2>4. ASSUME NEW c \in Interval(n)
        PROVE  g[c] = IF IsLeaf(c) THEN [offset \in Nat |-> LeafTree(values[c[1]])]
                      ELSE J(g[LeftHalf(c)], g[RightHalf(c)])
    <3>1. CASE IsLeaf(c)
      <4>1. f[[segment |-> c]] = base[[segment |-> c]]
        <5> HIDE DEF base, toLeft, toRight, join, V
        <5> QED BY <2>1, <2>3, <3>1 DEF VisitSolution
      <4>2. base[[segment |-> c]] = [offset \in Nat |-> LeafTree(values[c[1]])]
        BY <2>3
      <4> QED BY <2>3, <3>1, <4>1, <4>2
    <3>2. CASE ~IsLeaf(c)
      <4>1. LeftHalf(c) \in Interval(n) /\ RightHalf(c) \in Interval(n)
        BY <1>1, <3>2, Halves
      <4>2. /\ toLeft[[segment |-> c]] = [segment |-> LeftHalf(c)]
            /\ toRight[[segment |-> c]] = [segment |-> RightHalf(c)]
        BY <2>3
      <4>3. f[[segment |-> c]] = join[<<f[toLeft[[segment |-> c]]], f[toRight[[segment |-> c]]]>>]
        <5> HIDE DEF base, toLeft, toRight, join, V
        <5> QED BY <2>1, <2>3, <3>2 DEF VisitSolution
      <4>4. g[c] = join[<<g[LeftHalf(c)], g[RightHalf(c)]>>]
        <5> HIDE DEF base, toLeft, toRight, join, V, D
        <5> QED BY <2>3, <4>1, <4>2, <4>3
      <4>5. g[LeftHalf(c)] \in V /\ g[RightHalf(c)] \in V
        <5> HIDE DEF V
        <5> QED BY <2>3, <4>1
      <4> HIDE DEF V, J
      <4> QED BY <3>2, <4>4, <4>5
    <3> QED BY <3>1, <3>2
  <2> HIDE DEF V, J
  <2> QED BY <2>3, <2>4
<1>7. \E g : g = Solved(g)
  <2>1. PICK g : \A c \in Interval(n) :
                   /\ g[c] \in V
                   /\ g[c] = IF IsLeaf(c) THEN [offset \in Nat |-> LeafTree(values[c[1]])]
                             ELSE J(g[LeftHalf(c)], g[RightHalf(c)])
    <3> HIDE DEF V, J
    <3> QED BY <1>6
  <2>2. PICK h : h = [c \in Interval(n) |-> g[c]]
    OBVIOUS
  <2>3. ASSUME NEW c \in Interval(n) PROVE h[c] = Solved(h)[c]
    <3>1. CASE IsLeaf(c)
      BY <2>1, <2>2, <3>1 DEF LeafTree
    <3>2. CASE ~IsLeaf(c)
      <4>1. LeftHalf(c) \in Interval(n) /\ RightHalf(c) \in Interval(n)
        BY <1>1, <3>2, Halves
      <4>2. h[c] = J(h[LeftHalf(c)], h[RightHalf(c)])
        <5> HIDE DEF V, J
        <5> QED BY <2>1, <2>2, <3>2, <4>1
      <4> QED BY <3>2, <4>2 DEF JoinedTree
    <3> QED BY <3>1, <3>2
  <2>4. h = Solved(h)
    <3>1. h = [c \in Interval(n) |-> h[c]]
      BY <2>2
    <3> QED BY <2>3, <3>1
  <2> QED BY <2>4
<1>8. PICK tree : /\ tree = Solved(tree)
                  /\ Built(values) = tree[Root(n)][0]
  BY <1>7 DEF Built
<1>9. ASSUME NEW c \in Interval(n), NEW offset \in Nat
      PROVE  tree[c][offset] =
               IF IsLeaf(c) THEN LeafTree(values[c[1]])
               ELSE JoinedTree(tree[LeftHalf(c)][offset],
                               tree[RightHalf(c)][offset + Len(tree[LeftHalf(c)][offset])],
                               offset)
  <2>1. tree[c] = Solved(tree)[c]
    BY <1>8
  <2>2. CASE IsLeaf(c)
    BY <2>1, <2>2 DEF LeafTree
  <2>3. CASE ~IsLeaf(c)
    BY <2>1, <2>3 DEF JoinedTree
  <2> QED BY <2>2, <2>3
<1> QED BY <1>8, <1>9

(***************************************************************************)
(* The nodes of a segment c, at the indices after offset: each is for a    *)
(* segment seg[i] of its own, has the canonical sum and no tag, and links  *)
(* to nodes for the halves; none has overflowed when the sum of c has not. *)
(***************************************************************************)
NodeBuilt(sums, seg, node, i) ==
  /\ Len(node) = 1 /\ node[1].version = 1
  /\ node[1].sum = sums[seg[i]] /\ node[1].lazy = 0
  /\ ~IsLeaf(seg[i]) =>
       /\ node[1].leftChild \in DOMAIN seg /\ seg[node[1].leftChild] = LeftHalf(seg[i])
       /\ node[1].rightChild \in DOMAIN seg /\ seg[node[1].rightChild] = RightHalf(seg[i])

OneEach(seg, c) ==
  /\ \A i \in DOMAIN seg : Within(seg[i], c)
  /\ \A i, k \in DOMAIN seg : seg[i] = seg[k] => i = k

TreeBuilt(n, sums, t, offset, c, seg) ==
  /\ seg \in [offset + 1 .. offset + Len(t) -> Interval(n)]
  /\ seg[offset + Len(t)] = c
  /\ OneEach(seg, c)
  /\ \A i \in 1 .. Len(t) : /\ NodeBuilt(sums, seg, t[i], offset + i)
                            /\ sums[c] # Overflow => t[i][1].sum # Overflow

IsTreeOf(n, sums, t, offset, c) ==
  /\ t \in Trees /\ Len(t) \in Nat \ {0}
  /\ Last(t)[1].sum = sums[c]
  /\ \E seg : TreeBuilt(n, sums, t, offset, c, seg)

LEMMA HalvesShareNothing ==
  ASSUME NEW n \in Nat, NEW c \in Interval(n), ~IsLeaf(c),
         NEW x \in Interval(n), NEW y \in Interval(n)
  PROVE  /\ Within(x, LeftHalf(c)) /\ Within(y, RightHalf(c)) => x # y
         /\ Within(x, LeftHalf(c)) => Within(x, c) /\ x # c
         /\ Within(x, RightHalf(c)) => Within(x, c) /\ x # c
         /\ Within(c, c)
<1>1. /\ x[1] \in Int /\ x[2] \in Int /\ x[1] <= x[2]
      /\ y[1] \in Int /\ y[2] \in Int /\ y[1] <= y[2]
  BY Halves
<1>2. /\ c[1] \in Int /\ c[2] \in Int /\ Midpoint(c) \in Int
      /\ c[1] <= Midpoint(c) /\ Midpoint(c) < c[2]
  BY Halves
<1>3. /\ LeftHalf(c)[1] = c[1] /\ LeftHalf(c)[2] = Midpoint(c)
      /\ RightHalf(c)[1] = Midpoint(c) + 1 /\ RightHalf(c)[2] = c[2]
  BY DEF LeftHalf, RightHalf
<1> QED BY <1>1, <1>2, <1>3 DEF Within

LEMMA LeafIsTree ==
  ASSUME NEW n \in Nat, NEW c \in Interval(n), IsLeaf(c), NEW value \in Value,
         NEW offset \in Nat, NEW sums, sums[c] = value
  PROVE  IsTreeOf(n, sums, LeafTree(value), offset, c)
<1>1. PICK t : t = LeafTree(value)
  OBVIOUS
<1>2. /\ t \in Trees /\ Len(t) = 1 /\ Len(t[1]) = 1 /\ t[1][1].version = 1
      /\ t[1][1].sum = value /\ Last(t)[1].sum = value /\ t[1][1].lazy = 0
  BY <1>1, LeafTreeType DEF LeafTree, Last
<1>3. PICK seg : seg = [i \in offset + 1 .. offset + 1 |-> c]
  OBVIOUS
<1>4. seg[offset + 1] = c /\ seg \in [offset + 1 .. offset + Len(t) -> Interval(n)]
  BY <1>2, <1>3
<1>5. \A i \in 1 .. Len(t) : /\ NodeBuilt(sums, seg, t[i], offset + i)
                             /\ value # Overflow => t[i][1].sum # Overflow
  BY <1>2, <1>4 DEF NodeBuilt
<1>6. OneEach(seg, c)
  <2>1. \A i \in DOMAIN seg : i = offset + 1
    BY <1>3
  <2>2. c[1] \in Int /\ c[2] \in Int
    BY Halves
  <2> QED BY <1>4, <2>1, <2>2 DEF OneEach, Within
<1>7. TreeBuilt(n, sums, t, offset, c, seg)
  BY <1>2, <1>4, <1>5, <1>6 DEF TreeBuilt
<1> QED BY <1>1, <1>2, <1>7 DEF IsTreeOf

LEMMA JoinedIsTree ==
  ASSUME NEW n \in Nat, NEW c \in Interval(n), ~IsLeaf(c), NEW offset \in Nat,
         NEW sums, NEW leftTree, NEW rightTree,
         sums[c] = CheckedAdd(sums[LeftHalf(c)], sums[RightHalf(c)]),
         IsTreeOf(n, sums, leftTree, offset, LeftHalf(c)),
         IsTreeOf(n, sums, rightTree, offset + Len(leftTree), RightHalf(c))
  PROVE  IsTreeOf(n, sums, JoinedTree(leftTree, rightTree, offset), offset, c)
<1> PICK l, r : l = sums[LeftHalf(c)] /\ r = sums[RightHalf(c)]
  OBVIOUS
<1>0. PICK a \in Nat \ {0}, b \in Nat \ {0} : a = Len(leftTree) /\ b = Len(rightTree)
  BY DEF IsTreeOf
<1>1. PICK sum, t :
        /\ a = Len(leftTree) /\ b = Len(rightTree)
        /\ sum = CheckedAdd(l, r) /\ sum = sums[c]
        /\ t = JoinedTree(leftTree, rightTree, offset)
  BY <1>0
<1>2. /\ t \in Trees /\ Len(t) = a + b + 1
      /\ \A i \in 1 .. a : t[i] = leftTree[i]
      /\ \A i \in 1 .. b : t[a + i] = rightTree[i]
      /\ t[a + b + 1] = <<[version |-> 1, leftChild |-> offset + a,
                           rightChild |-> offset + a + b, sum |-> sum, lazy |-> 0]>>
  <2>1. leftTree \in Trees /\ rightTree \in Trees
        /\ Last(leftTree)[1].sum = l /\ Last(rightTree)[1].sum = r
    BY DEF IsTreeOf
  <2>2. /\ t \in Trees /\ Len(t) = a + b + 1
        /\ \A i \in 1 .. a : t[i] = leftTree[i]
        /\ \A i \in 1 .. b : t[a + i] = rightTree[i]
        /\ t[a + b + 1]
             = <<[version |-> 1, leftChild |-> offset + a, rightChild |-> offset + a + b,
                  sum |-> CheckedAdd(Last(leftTree)[1].sum, Last(rightTree)[1].sum),
                  lazy |-> 0]>>
    <3>1. /\ JoinedTree(leftTree, rightTree, offset) \in Trees
          /\ Len(JoinedTree(leftTree, rightTree, offset)) = Len(leftTree) + Len(rightTree) + 1
          /\ \A i \in 1 .. Len(leftTree) :
               JoinedTree(leftTree, rightTree, offset)[i] = leftTree[i]
          /\ \A i \in 1 .. Len(rightTree) :
               JoinedTree(leftTree, rightTree, offset)[Len(leftTree) + i] = rightTree[i]
          /\ JoinedTree(leftTree, rightTree, offset)[Len(leftTree) + Len(rightTree) + 1]
               = <<[version |-> 1,
                    leftChild |-> offset + Len(leftTree),
                    rightChild |-> offset + Len(leftTree) + Len(rightTree),
                    sum |-> CheckedAdd(Last(leftTree)[1].sum, Last(rightTree)[1].sum),
                    lazy |-> 0]>>
      BY <2>1, JoinedTreeType, Zenon
    <3> QED BY <1>1, <3>1
  <2> QED BY <1>1, <2>1, <2>2
<1>3. PICK segL : TreeBuilt(n, sums, leftTree, offset, LeftHalf(c), segL)
  BY DEF IsTreeOf
<1>4. PICK segR : TreeBuilt(n, sums, rightTree, offset + a, RightHalf(c), segR)
  BY <1>1 DEF IsTreeOf
<1>5. /\ segL \in [offset + 1 .. offset + a -> Interval(n)] /\ segL[offset + a] = LeftHalf(c)
      /\ OneEach(segL, LeftHalf(c))
      /\ \A i \in 1 .. a : NodeBuilt(sums, segL, leftTree[i], offset + i)
                           /\ (l # Overflow => leftTree[i][1].sum # Overflow)
  BY <1>1, <1>3 DEF TreeBuilt
<1>6. /\ segR \in [offset + a + 1 .. offset + a + b -> Interval(n)]
      /\ segR[offset + a + b] = RightHalf(c)
      /\ OneEach(segR, RightHalf(c))
      /\ \A i \in 1 .. b : NodeBuilt(sums, segR, rightTree[i], offset + a + i)
                           /\ (r # Overflow => rightTree[i][1].sum # Overflow)
  BY <1>1, <1>4 DEF TreeBuilt
<1>7. PICK seg : seg = [i \in offset + 1 .. offset + (a + b + 1) |->
                         IF i <= offset + a THEN segL[i]
                         ELSE IF i <= offset + a + b THEN segR[i] ELSE c]
  OBVIOUS
<1>8. /\ \A i \in offset + 1 .. offset + a : i \in DOMAIN seg /\ seg[i] = segL[i]
      /\ \A i \in offset + a + 1 .. offset + a + b : i \in DOMAIN seg /\ seg[i] = segR[i]
      /\ offset + (a + b + 1) \in DOMAIN seg /\ seg[offset + (a + b + 1)] = c
      /\ seg \in [offset + 1 .. offset + (a + b + 1) -> Interval(n)]
  <2>1. \A i \in offset + 1 .. offset + a : i \in offset + 1 .. offset + (a + b + 1)
    OBVIOUS
  <2>2. \A i \in offset + a + 1 .. offset + a + b :
          i \in offset + 1 .. offset + (a + b + 1) /\ ~(i <= offset + a) /\ i <= offset + a + b
    OBVIOUS
  <2>3. /\ offset + (a + b + 1) \in offset + 1 .. offset + (a + b + 1)
        /\ ~(offset + (a + b + 1) <= offset + a) /\ ~(offset + (a + b + 1) <= offset + a + b)
    OBVIOUS
  <2>4. \A i \in offset + 1 .. offset + (a + b + 1) :
          \/ i \in offset + 1 .. offset + a
          \/ i \in offset + a + 1 .. offset + a + b
          \/ i = offset + (a + b + 1)
    OBVIOUS
  <2>5. /\ \A i \in offset + 1 .. offset + a : i \in DOMAIN seg /\ seg[i] = segL[i]
        /\ \A i \in offset + a + 1 .. offset + a + b : i \in DOMAIN seg /\ seg[i] = segR[i]
        /\ offset + (a + b + 1) \in DOMAIN seg /\ seg[offset + (a + b + 1)] = c
    BY <1>7, <2>1, <2>2, <2>3
  <2>6. \A i \in offset + 1 .. offset + (a + b + 1) : seg[i] \in Interval(n)
    BY <1>5, <1>6, <2>4, <2>5
  <2> QED BY <1>7, <2>5, <2>6
<1>9. (l # Overflow /\ r # Overflow) \/ sum = Overflow
  BY <1>1 DEF CheckedAdd
<1>10. ASSUME NEW i \in 1 .. a + b + 1
       PROVE  /\ NodeBuilt(sums, seg, t[i], offset + i)
              /\ sum # Overflow => t[i][1].sum # Overflow
  <2>1. CASE i \in 1 .. a
    <3>1. /\ t[i] = leftTree[i] /\ offset + i \in offset + 1 .. offset + a
          /\ NodeBuilt(sums, segL, leftTree[i], offset + i)
          /\ sum # Overflow => leftTree[i][1].sum # Overflow
      BY <1>2, <1>5, <1>9, <2>1
    <3>2. DOMAIN segL = offset + 1 .. offset + a
      BY <1>5
    <3> QED BY <1>8, <3>1, <3>2 DEF NodeBuilt
  <2>2. CASE i \in a + 1 .. a + b
    <3>1. PICK k \in 1 .. b : i = a + k
      <4>1. i - a \in 1 .. b /\ i = a + (i - a)
        BY <2>2
      <4> QED BY <4>1
    <3>2. /\ t[i] = rightTree[k] /\ offset + i \in offset + a + 1 .. offset + a + b
          /\ offset + i = offset + a + k
          /\ NodeBuilt(sums, segR, rightTree[k], offset + a + k)
          /\ sum # Overflow => rightTree[k][1].sum # Overflow
      <4>1. t[i] = rightTree[k]
        BY <1>2, <3>1
      <4>2. offset + i \in offset + a + 1 .. offset + a + b /\ offset + i = offset + a + k
        BY <3>1
      <4>3. /\ NodeBuilt(sums, segR, rightTree[k], offset + a + k)
            /\ sum # Overflow => rightTree[k][1].sum # Overflow
        BY <1>6, <1>9
      <4> QED BY <4>1, <4>2, <4>3
    <3>3. DOMAIN segR = offset + a + 1 .. offset + a + b
      BY <1>6
    <3> QED BY <1>8, <3>2, <3>3 DEF NodeBuilt
  <2>3. CASE i = a + b + 1
    <3>1. /\ Len(t[i]) = 1 /\ t[i][1].version = 1 /\ t[i][1].sum = sum /\ t[i][1].lazy = 0
          /\ t[i][1].leftChild = offset + a /\ t[i][1].rightChild = offset + a + b
      <4>1. PICK state : state = [version |-> 1, leftChild |-> offset + a,
                                  rightChild |-> offset + a + b, sum |-> sum, lazy |-> 0]
        OBVIOUS
      <4>2. t[i] = <<state>>
        BY <1>2, <2>3, <4>1
      <4>3. Len(t[i]) = 1 /\ t[i][1] = state
        BY <4>2
      <4> QED BY <4>1, <4>3
    <3>2. offset + a \in offset + 1 .. offset + a
          /\ offset + a + b \in offset + a + 1 .. offset + a + b
      OBVIOUS
    <3>3. /\ offset + a \in DOMAIN seg /\ seg[offset + a] = LeftHalf(c)
          /\ offset + a + b \in DOMAIN seg /\ seg[offset + a + b] = RightHalf(c)
      BY <1>5, <1>6, <1>8, <3>2
    <3>4. seg[offset + i] = c
      BY <1>8, <2>3
    <3> QED BY <1>1, <3>1, <3>3, <3>4 DEF NodeBuilt
  <2>4. i \in 1 .. a \/ i \in a + 1 .. a + b \/ i = a + b + 1
    OBVIOUS
  <2> QED BY <2>1, <2>2, <2>3, <2>4
<1>11. OneEach(seg, c)
  <2>1. /\ \A i \in offset + 1 .. offset + a : seg[i] = segL[i] /\ Within(segL[i], LeftHalf(c))
        /\ \A i \in offset + a + 1 .. offset + a + b :
             seg[i] = segR[i] /\ Within(segR[i], RightHalf(c))
        /\ \A i, k \in offset + 1 .. offset + a : segL[i] = segL[k] => i = k
        /\ \A i, k \in offset + a + 1 .. offset + a + b : segR[i] = segR[k] => i = k
    BY <1>5, <1>6, <1>8 DEF OneEach
  <2>2. \A i \in DOMAIN seg : \/ i \in offset + 1 .. offset + a
                            \/ i \in offset + a + 1 .. offset + a + b
                            \/ i = offset + (a + b + 1)
    BY <1>8
  <2>3. \A i \in DOMAIN seg : seg[i] \in Interval(n)
    BY <1>8
  <2>4. \A i \in DOMAIN seg : Within(seg[i], c)
    BY <1>8, <2>1, <2>2, <2>3, HalvesShareNothing
  <2>5. ASSUME NEW i \in DOMAIN seg, NEW k \in DOMAIN seg, seg[i] = seg[k] PROVE i = k
    <3>1. seg[i] \in Interval(n) /\ seg[k] \in Interval(n)
      BY <2>3
    <3>2. CASE i \in offset + 1 .. offset + a
      BY <1>8, <2>1, <2>2, <2>5, <3>1, <3>2, HalvesShareNothing
    <3>3. CASE i \in offset + a + 1 .. offset + a + b
      BY <1>8, <2>1, <2>2, <2>5, <3>1, <3>3, HalvesShareNothing
    <3>4. CASE i = offset + (a + b + 1)
      BY <1>8, <2>1, <2>2, <2>5, <3>1, <3>4, HalvesShareNothing
    <3> QED BY <2>2, <3>2, <3>3, <3>4
  <2> QED BY <2>4, <2>5 DEF OneEach
<1>12. TreeBuilt(n, sums, t, offset, c, seg)
  BY <1>1, <1>2, <1>8, <1>10, <1>11 DEF TreeBuilt
<1>13. Last(t)[1].sum = sum /\ Len(t) \in Nat \ {0}
  BY <1>2 DEF Last
<1> QED BY <1>1, <1>2, <1>12, <1>13 DEF IsTreeOf

LEMMA BuiltTree ==
  ASSUME NEW values \in Seq(Value), values # <<>>, Admissible(values)
  PROVE  /\ IsTreeOf(Len(values), CanonicalSum(values), Built(values), 0, Root(Len(values)))
         /\ CanonicalSum(values)[Root(Len(values))] \in Value
<1> DEFINE n == Len(values)
           sums == CanonicalSum(values)
<1>1. n \in Nat \ {0} /\ \A p \in 1 .. n : values[p] \in Value
  BY LenProperties, ElementOfSeq, EmptySeq
<1>2. PICK tree :
        /\ Built(values) = tree[Root(n)][0]
        /\ \A c \in Interval(n) : \A offset \in Nat :
             tree[c][offset] =
               IF IsLeaf(c) THEN LeafTree(values[c[1]])
               ELSE JoinedTree(tree[LeftHalf(c)][offset],
                               tree[RightHalf(c)][offset + Len(tree[LeftHalf(c)][offset])],
                               offset)
  BY BuiltSteps
<1>3. \A c \in Interval(n) :
        /\ sums[c] \in Int
        /\ sums[c] = IF IsLeaf(c) THEN values[c[1]]
                     ELSE CheckedAdd(sums[LeftHalf(c)], sums[RightHalf(c)])
  <2>1. \A p \in 1 .. n : values[p] \in Int
    BY <1>1, ValueFacts
  <2> QED BY <1>1, <2>1, CanonicalSumStep
<1>4. \A c \in Interval(n) : sums[c] \in Outcome
  <2>1. \A c \in Interval(n) : IsLeaf(c) => values[c[1]] \in Outcome
    BY <1>1, Halves, OutcomeFacts
  <2> HIDE DEF sums
  <2> QED BY <1>3, <2>1, CheckedAddOutcome
<1> HIDE DEF sums
<1> DEFINE T == {c \in Interval(n) :
                   \A offset \in Nat : IsTreeOf(n, sums, tree[c][offset], offset, c)}
<1>5. ASSUME NEW c \in Interval(n), IsLeaf(c) \/ (LeftHalf(c) \in T /\ RightHalf(c) \in T)
      PROVE  c \in T
  <2> SUFFICES ASSUME NEW offset \in Nat
               PROVE  IsTreeOf(n, sums, tree[c][offset], offset, c)
    OBVIOUS
  <2>1. CASE IsLeaf(c)
    <3>1. /\ tree[c][offset] = LeafTree(values[c[1]]) /\ sums[c] = values[c[1]]
          /\ values[c[1]] \in Value
      BY <1>1, <1>2, <1>3, <2>1, Halves
    <3> QED BY <1>1, <2>1, <3>1, LeafIsTree
  <2>2. CASE ~IsLeaf(c)
    <3>1. PICK leftTree, rightTree :
            /\ leftTree = tree[LeftHalf(c)][offset]
            /\ rightTree = tree[RightHalf(c)][offset + Len(leftTree)]
      OBVIOUS
    <3>2. sums[c] = CheckedAdd(sums[LeftHalf(c)], sums[RightHalf(c)])
      BY <1>3, <2>2
    <3>3. IsTreeOf(n, sums, leftTree, offset, LeftHalf(c))
      BY <1>5, <2>2, <3>1
    <3>4. offset + Len(leftTree) \in Nat
      BY <3>3 DEF IsTreeOf
    <3>5. IsTreeOf(n, sums, rightTree, offset + Len(leftTree), RightHalf(c))
      BY <1>5, <2>2, <3>1, <3>4
    <3>6. IsTreeOf(n, sums, JoinedTree(leftTree, rightTree, offset), offset, c)
      BY <1>1, <2>2, <3>2, <3>3, <3>5, JoinedIsTree
    <3>7. tree[c][offset] = JoinedTree(leftTree, rightTree, offset)
      BY <1>2, <2>2, <3>1
    <3> QED BY <3>6, <3>7
  <2> QED BY <2>1, <2>2
<1>6. Root(n) \in T
  <2>1. Interval(n) \subseteq T
    <3> HIDE DEF T
    <3> QED BY <1>1, <1>5, SegmentInduction
  <2> QED BY <1>1, <2>1, RootIsSegment
<1>7. sums[Root(n)] \in Value
  <2>1. sums[Root(n)] # Overflow
    BY DEF Admissible, sums
  <2> QED BY <1>4, <1>6, <2>1, OutcomeValue
<1>8. IsTreeOf(n, sums, Built(values), 0, Root(n))
  BY <1>2, <1>6
<1> QED BY <1>7, <1>8 DEF sums

(* The arena that initialize swaps in. *)
LEMMA BuiltArena ==
  ASSUME NEW values \in Seq(Value), Admissible(values)
  PROVE  \E t, seg, n :
           /\ t = Built(values) /\ n = Len(values) /\ n \in Nat
           /\ t \in Seq(Seq(Modification)) /\ Len(t) \in Nat
           /\ seg \in [1 .. Len(t) -> Interval(n)]
           /\ \A i, k \in 1 .. Len(t) : seg[i] = seg[k] => i = k
           /\ n # 0 => Len(t) # 0 /\ seg[Len(t)] = Root(n)
           /\ \A i \in 1 .. Len(t) : NodeBuilt(CanonicalSum(values), seg, t[i], i)
<1>1. Len(values) \in Nat
  BY LenProperties
<1>2. CASE values = <<>>
  <2>1. Built(values) = <<>> /\ Len(values) = 0
    BY <1>2 DEF Built
  <2>2. PICK t, n, seg : t = <<>> /\ n = 0 /\ seg = [i \in 1 .. Len(t) |-> Root(0)]
    OBVIOUS
  <2>3. t \in Seq(Seq(Modification)) /\ Len(t) = 0
    BY <2>2, EmptySeq
  <2>4. seg \in [1 .. Len(t) -> Interval(n)]
    BY <2>2, <2>3
  <2>5. /\ \A i \in 1 .. Len(t) : NodeBuilt(CanonicalSum(values), seg, t[i], i)
        /\ \A i, k \in 1 .. Len(t) : seg[i] = seg[k] => i = k
    <3>1. 1 .. Len(t) = {}
      BY <2>3
    <3> QED BY <3>1
  <2>6. t = Built(values) /\ n = Len(values) /\ n \in Nat /\ ~(n # 0)
    BY <2>1, <2>2
  <2>7. t \in Seq(Seq(Modification)) /\ Len(t) \in Nat
    BY <2>3
  <2> QED BY <2>4, <2>5, <2>6, <2>7
<1>3. CASE values # <<>>
  <2>0. /\ IsTreeOf(Len(values), CanonicalSum(values), Built(values), 0, Root(Len(values)))
        /\ CanonicalSum(values)[Root(Len(values))] \in Value
    BY <1>3, BuiltTree
  <2>1. PICK t, n, sums : /\ t = Built(values) /\ n = Len(values) /\ sums = CanonicalSum(values)
                          /\ IsTreeOf(n, sums, t, 0, Root(n)) /\ sums[Root(n)] \in Value
    BY <2>0
  <2>2. PICK seg : TreeBuilt(n, sums, t, 0, Root(n), seg)
    BY <2>1 DEF IsTreeOf
  <2>3. t \in Seq(Seq(BuiltState)) /\ Len(t) \in Nat \ {0} /\ sums[Root(n)] # Overflow
    BY <2>1, ValueFacts DEF IsTreeOf, Trees
  <2>4. /\ seg \in [1 .. Len(t) -> Interval(n)] /\ seg[Len(t)] = Root(n)
        /\ OneEach(seg, Root(n))
        /\ \A i \in 1 .. Len(t) : NodeBuilt(sums, seg, t[i], i) /\ t[i][1].sum # Overflow
    <3>1. /\ seg \in [0 + 1 .. 0 + Len(t) -> Interval(n)] /\ seg[0 + Len(t)] = Root(n)
          /\ OneEach(seg, Root(n))
          /\ \A i \in 1 .. Len(t) : NodeBuilt(sums, seg, t[i], 0 + i) /\ t[i][1].sum # Overflow
      BY <2>2, <2>3 DEF TreeBuilt
    <3>2. /\ 0 + 1 = 1 /\ 0 + Len(t) = Len(t)
          /\ \A i \in 1 .. Len(t) : 0 + i = i
      BY <2>3
    <3> QED BY <3>1, <3>2
  <2>5. ASSUME NEW i \in 1 .. Len(t) PROVE t[i] \in Seq(Modification)
    <3>1. t[i] \in Seq(BuiltState) /\ Len(t[i]) = 1 /\ t[i][1].sum # Overflow
      BY <2>3, <2>4, ElementOfSeq DEF NodeBuilt
    <3>2. t[i][1] \in BuiltState
      BY <3>1, ElementOfSeq
    <3>3. t[i][1] \in Modification
      <4>1. t[i][1].sum \in Value
        BY <3>1, <3>2, OutcomeValue DEF BuiltState
      <4> QED BY <3>2, <4>1 DEF BuiltState, Modification
    <3>4. t[i] = [k \in 1 .. 1 |-> t[i][k]]
      BY <3>1, LenProperties
    <3>5. \A k \in 1 .. 1 : t[i][k] \in Modification
      BY <3>3
    <3>6. t[i] \in [1 .. 1 -> Modification]
      BY <3>4, <3>5
    <3>7. t[i] \in [1 .. Len(t[i]) -> Modification] /\ Len(t[i]) \in Nat
      BY <3>1, <3>6
    <3> QED BY <3>7, IsASeq
  <2>6. t \in Seq(Seq(Modification))
    <3>1. t = [i \in 1 .. Len(t) |-> t[i]]
      BY <2>3, LenProperties
    <3>2. PICK l : l = Len(t) /\ l \in Nat
      BY <2>3
    <3>3. \A i \in 1 .. l : t[i] \in Seq(Modification)
      BY <2>5, <3>2
    <3>4. [i \in 1 .. l |-> t[i]] \in Seq(Seq(Modification))
      BY <3>2, <3>3, IsASeq
    <3> QED BY <3>1, <3>2, <3>4
  <2>7. \A i, k \in 1 .. Len(t) : seg[i] = seg[k] => i = k
    BY <2>4 DEF OneEach
  <2> QED BY <1>1, <2>1, <2>3, <2>4, <2>6, <2>7
<1> QED BY <1>2, <1>3

LEMMA InitializeFInv ==
  ASSUME FInv, NEW values \in Arrays, Initialize(values)
  PROVE  FInv'
<1>1. /\ call = Idle /\ call.phase # "update" /\ Admissible(values) /\ values \in Seq(Value)
      /\ nodes' = Built(values) /\ roots' = <<Len(nodes')>>
      /\ capacity' = CanonicalNodeCount(Len(values)) /\ rootCapacity' = 1
      /\ arraySize' = Len(values) /\ bound' = MaxMagnitude(values)
      /\ UNCHANGED <<call, stack>>
  BY ArraysAssumption DEF Initialize, Idle
<1>2. TypeOK /\ stack = <<>>
  BY <1>1 DEF FInv, CallOK
<1>3. PICK seg, n, l, sums :
        /\ sums = CanonicalSum(values)
        /\ n = Len(values) /\ n \in Nat /\ l = Len(nodes') /\ l \in Nat
        /\ nodes' \in Seq(Seq(Modification))
        /\ seg \in [1 .. l -> Interval(n)]
        /\ n # 0 => l # 0 /\ seg[l] = Root(n)
        /\ \A i \in 1 .. l : NodeBuilt(sums, seg, nodes'[i], i)
  BY <1>1, BuiltArena
<1>4. DOMAIN nodes' = 1 .. l /\ roots' = <<l>> /\ Len(roots') = 1 /\ DOMAIN roots' = {1}
      /\ roots'[1] = l /\ roots' \in Seq(Nat) /\ arraySize' = n
  BY <1>1, <1>3, LenProperties
<1>5. MaxMagnitude(values) \in Bound
  <2>1. \A p \in DOMAIN values : values[p] \in Outcome
    BY <1>1, LenProperties, ElementOfSeq, OutcomeFacts
  <2> QED BY <2>1, MaxMagnitudeFacts
<1>6. TypeOK'
  <2>1. CanonicalNodeCount(n) \in Nat
    BY <1>3 DEF CanonicalNodeCount
  <2> QED BY <1>1, <1>2, <1>3, <1>4, <1>5, <2>1 DEF TypeOK
<1>7. \A i \in 1 .. l :
        /\ Len(nodes'[i]) = 1 /\ DOMAIN nodes'[i] = {1} /\ nodes'[i][1].version = 1
        /\ LatestState(nodes'[i]) = nodes'[i][1]
  <2> TAKE i \in 1 .. l
  <2>1. Len(nodes'[i]) = 1 /\ nodes'[i][1].version = 1 /\ nodes'[i] \in Seq(Modification)
    BY <1>3, ElementOfSeq DEF NodeBuilt
  <2> QED BY <2>1, LenProperties DEF LatestState, Last
<1>8. HistoriesOK'
  <2>1. ASSUME NEW i \in 1 .. l, NEW node, node = nodes'[i] PROVE HistoryOK(node)'
    <3>1. /\ Len(node) = 1 /\ node[1].version = 1 /\ LatestState(node) = node[1]
          /\ Len(roots') = 1
      BY <1>4, <1>7, <2>1
    <3> QED BY <3>1 DEF HistoryOK, HISTORY_CAPACITY
  <2>2. (\A i \in DOMAIN nodes : HistoryOK(nodes[i]))'
    BY <1>4, <2>1
  <2> QED BY <2>2 DEF HistoriesOK
<1>9. Written' = {} /\ Old' = 1 .. l
  BY <1>4, <1>7 DEF Written, Old
<1>10. Shaped(seg)'
  <2>1. ASSUME NEW i \in 1 .. l, NEW c, c = seg[i], NEW state, state = nodes'[i][1]
        PROVE  StateOK(seg, c, state)'
    <3>1. NodeBuilt(sums, seg, nodes'[i], i) /\ DOMAIN seg = 1 .. l
      BY <1>3
    <3> QED BY <1>4, <1>9, <2>1, <3>1 DEF StateOK, NodeFor, NodeBuilt
  <2>2. (\A i \in DOMAIN nodes : \A k \in DOMAIN nodes[i] : StateOK(seg, seg[i], nodes[i][k]))'
    <3> SUFFICES ASSUME NEW i \in 1 .. l
                 PROVE  (\A k \in DOMAIN nodes[i] : StateOK(seg, seg[i], nodes[i][k]))'
      BY <1>4
    <3>1. PICK c, state : c = seg[i] /\ state = nodes'[i][1]
      OBVIOUS
    <3>2. StateOK(seg, c, state)'
      BY <2>1, <3>1
    <3> QED BY <1>7, <3>1, <3>2
  <2>3. (seg \in [DOMAIN nodes -> Interval(arraySize)])'
    BY <1>3, <1>4
  <2>4. (arraySize # 0 => \A v \in DOMAIN roots :
                            NodeFor(seg, roots[v], Root(arraySize)) /\ roots[v] \in Old)'
    BY <1>3, <1>4, <1>9 DEF NodeFor
  <2> QED BY <2>2, <2>3, <2>4 DEF Shaped
<1>11. CallOK' /\ call'.phase = "idle"
  BY <1>1, <1>2, <1>9 DEF CallOK, Idle
<1> QED BY <1>1, <1>4, <1>6, <1>8, <1>10, <1>11 DEF FInv

LEMMA StutterFInv == FInv /\ UNCHANGED vars => FInv'
<1> SUFFICES ASSUME FInv, UNCHANGED vars PROVE FInv'
  OBVIOUS
<1>1. UNCHANGED <<nodes, roots, capacity, rootCapacity, arraySize, bound, call, stack>>
  BY DEF vars
<1>2. /\ TypeOK' /\ HistoriesOK' /\ CallOK' /\ Len(roots') <= rootCapacity'
      /\ Written' = Written /\ Old' = Old
  BY <1>1, SameArena DEF FInv, TypeOK, CallOK
<1>3. PICK seg : /\ Shaped(seg)
                 /\ call.phase # "idle" => \E foreseen :
                      /\ Foreseen(seg, foreseen)
                      /\ foreseen[Last(roots)] # Overflow
                      /\ call.phase = "update" => UpdateOK(seg, foreseen)
  BY DEF FInv
<1>4. Shaped(seg)'
  BY <1>1, <1>3, SameArena
<1>5. ASSUME NEW foreseen, Foreseen(seg, foreseen), foreseen[Last(roots)] # Overflow,
             call.phase = "update" => UpdateOK(seg, foreseen)
      PROVE  /\ Foreseen(seg, foreseen)' /\ foreseen[Last(roots')] # Overflow
             /\ call'.phase = "update" => UpdateOK(seg, foreseen)'
  <2>1. Foreseen(seg, foreseen)'
    BY <1>1, <1>5, SameCall
  <2>2. UpdateOK(seg, foreseen)' <=> UpdateOK(seg, foreseen)
    BY <1>1 DEF UpdateOK, Done, Written, Old, Settled, FrameOK, SideOK, OldChild, NodeFor,
                FrameInPlace, RoomOK, Ahead, Cost, VisitsOf, Top
  <2> QED BY <1>1, <1>5, <2>1, <2>2
<1> QED BY <1>1, <1>2, <1>3, <1>4, <1>5 DEF FInv

LEMMA NextFInv == FInv /\ [Next]_vars => FInv'
<1> SUFFICES ASSUME FInv, [Next]_vars PROVE FInv'
  OBVIOUS
<1>1. ASSUME NEW values \in Arrays, Initialize(values) PROVE FInv'
  BY <1>1, InitializeFInv
<1>2. ASSUME NEW left \in 1 .. arraySize, NEW right \in 1 .. arraySize,
             RangeAddZero(left, right)
      PROVE  FInv'
  BY <1>2, RangeAddZeroFInv
<1>3. ASSUME NEW left \in 1 .. arraySize, NEW right \in 1 .. arraySize, NEW value \in Deltas,
             BeginRangeAdd(left, right, value)
      PROVE  FInv'
  BY <1>3, BeginRangeAddFInv
<1>4. ASSUME Step PROVE FInv'
  BY <1>4, ReserveFInv, DescendFInv, RecordInPlaceFInv, RecordInCopyFInv, PublishFInv,
     ThrowFInv DEF Step
<1>5. CASE UNCHANGED vars
  BY <1>5, StutterFInv
<1> QED BY <1>1, <1>2, <1>3, <1>4, <1>5 DEF Next

(***************************************************************************)
(* The invariant of the node histories, their links, the dry run and the   *)
(* reservation holds of every state rangeAdd and initialize can reach.     *)
(***************************************************************************)
THEOREM InductiveInvariant == Spec => []FInv
<1>1. Init => FInv
  BY InitFInv
<1>2. FInv /\ [Next]_vars => FInv'
  BY NextFInv
<1> QED BY <1>1, <1>2, PTL DEF Spec

(***************************************************************************)
(* The states of a node fit its slots and their stamps increase strictly,  *)
(* so that the binary search of stateAt finds the state of a version.      *)
(***************************************************************************)
THEOREM StampsStayIncreasing == Spec => []StampsIncrease
<1>1. FInv => StampsIncrease
  BY DEF FInv, StampsIncrease, HistoriesOK, HistoryOK
<1> QED BY <1>1, InductiveInvariant, PTL

(***************************************************************************)
(* rangeAdd throws before its first write or not at all: the dry run has   *)
(* computed every sum the update computes, and reserveForUpdate has made   *)
(* a slot for every node it can copy, whatever the array and the call.     *)
(***************************************************************************)
THEOREM NothingThrowsAfterMutation == Spec => ThrowsBeforeMutation
<1>1. FInv /\ [Next]_vars => [Throw => call.phase = "reserve"]_vars
  BY ThrowFInv
<1> QED BY <1>1, InductiveInvariant, PTL DEF Spec, ThrowsBeforeMutation

=============================================================================
