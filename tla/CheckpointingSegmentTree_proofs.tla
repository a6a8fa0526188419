-------------------- MODULE CheckpointingSegmentTree_proofs --------------------
(***************************************************************************)
(* Proofs about CheckpointingSegmentTree for every width, every array,     *)
(* every interval, every sequence of calls and every allocation that       *)
(* fails.                                                                  *)
(***************************************************************************)
EXTENDS CheckpointingSegmentTree, SegmentTrees_proofs

-----------------------------------------------------------------------------
(***************************************************************************)
(* The layout: in preorder, every segment of the partition has a slot of   *)
(* its own.                                                                *)
(***************************************************************************)
Placed(n, slot) ==
  /\ slot \in [Segments(n) -> 1 .. CanonicalNodeCount(n)]
  /\ n # 0 => slot[Root(n)] = 1
  /\ \A c \in Segments(n) : ~IsLeaf(c) =>
       /\ slot[LeftHalf(c)] = LeftChild(slot[c])
       /\ slot[RightHalf(c)] = RightChild(slot[c], c)
  /\ \A c, d \in Segments(n) : slot[c] = slot[d] => c = d

(* A segment below another is below one of its halves. *)
LEMMA WithinHalves ==
  ASSUME NEW n \in Nat, NEW c \in Segments(n), NEW d \in Segments(n), Within(d, c)
  PROVE  /\ c \in Interval(n) /\ d \in Interval(n)
         /\ IsLeaf(c) => d = c
         /\ ~IsLeaf(c) =>
              /\ LeftHalf(c) \in Segments(n) /\ RightHalf(c) \in Segments(n)
              /\ LeftHalf(c) \in Interval(n) /\ RightHalf(c) \in Interval(n)
              /\ d = c \/ Within(d, LeftHalf(c)) \/ Within(d, RightHalf(c))
              /\ d = c => ~Within(d, LeftHalf(c)) /\ ~Within(d, RightHalf(c))
              /\ ~(Within(d, LeftHalf(c)) /\ Within(d, RightHalf(c)))
         /\ ~IsLeaf(d) => /\ LeftHalf(d) \in Segments(n) /\ RightHalf(d) \in Segments(n)
                          /\ LeftHalf(d) \in Interval(n) /\ RightHalf(d) \in Interval(n)
                          /\ Within(LeftHalf(d), d) /\ Within(RightHalf(d), d)
                          /\ Within(LeftHalf(d), c) /\ Within(RightHalf(d), c)
<1>1. n > 0
  BY DEF Segments
<1>2. /\ c \in Interval(n) /\ d \in Interval(n) /\ Closed(Segments(n))
      /\ Segments(n) \in SUBSET Interval(n)
  BY <1>1, SegmentsClosed
<1>3. Within(c, c) /\ Within(d, d)
  BY <1>2, Halves DEF Within
<1>4. Laminar(d, c)
  BY SegmentsLaminar
<1>5. ~Apart(d, c)
  BY <1>2, <1>3, InsideFacts
<1>6. Inside(c, d) => d = c
  <2>1. Inside(c, d) => Within(c, d)
    BY <1>2, InsideFacts
  <2> QED BY <1>2, <2>1, InsideFacts
<1>7. d = c \/ Inside(d, c)
  BY <1>4, <1>5, <1>6 DEF Laminar
<1>8. IsLeaf(c) => d = c
  BY <1>7 DEF Inside
<1>9. ASSUME ~IsLeaf(c)
      PROVE  /\ LeftHalf(c) \in Segments(n) /\ RightHalf(c) \in Segments(n)
             /\ LeftHalf(c) \in Interval(n) /\ RightHalf(c) \in Interval(n)
             /\ d = c \/ Within(d, LeftHalf(c)) \/ Within(d, RightHalf(c))
             /\ d = c => ~Within(d, LeftHalf(c)) /\ ~Within(d, RightHalf(c))
             /\ ~(Within(d, LeftHalf(c)) /\ Within(d, RightHalf(c)))
  <2>1. /\ LeftHalf(c) \in Segments(n) /\ RightHalf(c) \in Segments(n)
        /\ LeftHalf(c) \in Interval(n) /\ RightHalf(c) \in Interval(n)
    BY <1>2, <1>9 DEF Closed
  <2>2. /\ c[1] \in Int /\ c[2] \in Int /\ Midpoint(c) \in Int
        /\ c[1] <= Midpoint(c) /\ Midpoint(c) < c[2]
        /\ d[1] \in Int /\ d[2] \in Int /\ d[1] <= d[2]
    BY <1>2, <1>9, Halves
  <2>3. /\ LeftHalf(c)[1] = c[1] /\ LeftHalf(c)[2] = Midpoint(c)
        /\ RightHalf(c)[1] = Midpoint(c) + 1 /\ RightHalf(c)[2] = c[2]
    BY DEF LeftHalf, RightHalf
  <2> QED BY <1>7, <2>1, <2>2, <2>3 DEF Inside, Within
<1>10. ASSUME ~IsLeaf(d)
       PROVE  /\ LeftHalf(d) \in Segments(n) /\ RightHalf(d) \in Segments(n)
              /\ LeftHalf(d) \in Interval(n) /\ RightHalf(d) \in Interval(n)
              /\ Within(LeftHalf(d), d) /\ Within(RightHalf(d), d)
              /\ Within(LeftHalf(d), c) /\ Within(RightHalf(d), c)
  <2>1. /\ LeftHalf(d) \in Segments(n) /\ RightHalf(d) \in Segments(n)
        /\ LeftHalf(d) \in Interval(n) /\ RightHalf(d) \in Interval(n)
    BY <1>2, <1>10 DEF Closed
  <2>2. Within(LeftHalf(d), d) /\ Within(RightHalf(d), d)
    BY <1>2, <1>10, InsideFacts
  <2> QED BY <1>2, <2>1, <2>2, WithinTransitive
<1> QED BY <1>2, <1>8, <1>9, <1>10

(* The slots of the segments below one, from its own slot on. *)
Fills(n, slot, c, i) ==
  /\ slot[c] = i
  /\ \A d \in Segments(n) : Within(d, c) =>
       /\ slot[d] \in i .. i + 2 * Length(c) - 2
       /\ ~IsLeaf(d) => /\ slot[LeftHalf(d)] = slot[d] + 1
                        /\ slot[RightHalf(d)] = slot[d] + 2 * Length(LeftHalf(d))
  /\ \A d, e \in Segments(n) :
       Within(d, c) /\ Within(e, c) /\ slot[d] = slot[e] => d = e

JoinedSlots(n, c, i, below, above) ==
  [d \in Segments(n) |-> IF d = c THEN i
                         ELSE IF Within(d, LeftHalf(c)) THEN below[d] ELSE above[d]]

LEMMA JoinedFills ==
  ASSUME NEW n \in Nat, NEW c \in Segments(n), ~IsLeaf(c), NEW i \in Nat, NEW below, NEW above,
         Fills(n, below, LeftHalf(c), i + 1),
         Fills(n, above, RightHalf(c), i + 2 * Length(LeftHalf(c)))
  PROVE  Fills(n, JoinedSlots(n, c, i, below, above), c, i)
<1> DEFINE slot == JoinedSlots(n, c, i, below, above)
           l == LeftHalf(c)
           r == RightHalf(c)
<1>1. c \in Interval(n) /\ Within(c, c) /\ n > 0
  <2>1. n > 0
    BY DEF Segments
  <2>2. c \in Interval(n)
    BY <2>1, SegmentsClosed
  <2> QED BY <2>1, <2>2, Halves DEF Within
<1>2. PICK x, y \in Nat : /\ x = Length(l) /\ y = Length(r) /\ Length(c) = x + y
                          /\ x >= 1 /\ y >= 1
  <2>1. l \in Interval(n) /\ r \in Interval(n)
    BY <1>1, Halves
  <2>2. Length(c) = Length(l) + Length(r) /\ Length(l) >= 1 /\ Length(r) >= 1
        /\ Length(l) \in Nat /\ Length(r) \in Nat
    <3>1. Length(c) \in Nat /\ Length(l) \in Nat /\ Length(r) \in Nat
      BY <1>1, <2>1, Halves
    <3>2. /\ Length(c) = Length(l) + Length(r)
          /\ Length(l) \in 1 .. Length(c) - 1 /\ Length(r) \in 1 .. Length(c) - 1
      BY <1>1, HalvesLength
    <3> HIDE DEF l, r
    <3> QED BY <3>1, <3>2
  <2> QED BY <2>2
<1>3. ASSUME NEW d \in Segments(n)
      PROVE  /\ d = c => slot[d] = i
             /\ Within(d, l) => slot[d] = below[d] /\ below[d] \in i + 1 .. i + 2 * x - 1
             /\ Within(d, r) => slot[d] = above[d] /\ above[d] \in i + 2 * x .. i + 2 * x + 2 * y - 2
  <2>1. d = c => slot[d] = i
    BY DEF JoinedSlots
  <2>2. ASSUME Within(d, l) PROVE slot[d] = below[d] /\ below[d] \in i + 1 .. i + 2 * x - 1
    <3>1. d # c
      BY <1>1, <2>2, WithinHalves
    <3>2. slot[d] = below[d]
      BY <2>2, <3>1 DEF JoinedSlots
    <3>3. below[d] \in i + 1 .. (i + 1) + 2 * x - 2
      BY <1>2, <2>2 DEF Fills
    <3> QED BY <3>2, <3>3
  <2>3. ASSUME Within(d, r)
        PROVE  slot[d] = above[d] /\ above[d] \in i + 2 * x .. i + 2 * x + 2 * y - 2
    <3>1. d # c /\ ~Within(d, l)
      <4>1. Within(d, c)
        <5>1. d \in Interval(n) /\ r \in Interval(n)
          BY <1>1, SegmentsClosed, Halves
        <5>2. Within(r, c)
          BY <1>1, InsideFacts
        <5> QED BY <1>1, <2>3, <5>1, <5>2, WithinTransitive
      <4> QED BY <2>3, <4>1, WithinHalves
    <3>2. slot[d] = above[d]
      BY <3>1 DEF JoinedSlots
    <3>3. above[d] \in i + 2 * x .. (i + 2 * x) + 2 * y - 2
      BY <1>2, <2>3 DEF Fills
    <3> QED BY <3>2, <3>3
  <2> QED BY <2>1, <2>2, <2>3
<1>4. slot[l] = i + 1 /\ slot[r] = i + 2 * x
  <2>1. l \in Segments(n) /\ r \in Segments(n) /\ l \in Interval(n) /\ r \in Interval(n)
    BY <1>1, WithinHalves
  <2>2. Within(l, l) /\ Within(r, r)
    <3>1. l[1] \in Int /\ l[2] \in Int /\ r[1] \in Int /\ r[2] \in Int
      BY <2>1, Halves
    <3> QED BY <3>1 DEF Within
  <2>3. slot[l] = below[l] /\ slot[r] = above[r]
    BY <1>3, <2>1, <2>2
  <2>4. below[l] = i + 1 /\ above[r] = i + 2 * x
    BY <1>2 DEF Fills
  <2> QED BY <2>3, <2>4
<1>5. ASSUME NEW d \in Segments(n), Within(d, c)
      PROVE  /\ d = c \/ Within(d, l) \/ Within(d, r)
             /\ slot[d] \in i .. i + 2 * Length(c) - 2
             /\ ~IsLeaf(d) => /\ slot[LeftHalf(d)] = slot[d] + 1
                              /\ slot[RightHalf(d)] = slot[d] + 2 * Length(LeftHalf(d))
  <2>1. d = c \/ Within(d, l) \/ Within(d, r)
    BY <1>5, WithinHalves
  <2>2. slot[d] \in i .. i + 2 * Length(c) - 2
    <3> HIDE DEF slot, l, r
    <3> QED BY <1>2, <1>3, <2>1
  <2>3. ASSUME ~IsLeaf(d), NEW h, h = l \/ h = r, Within(d, h), NEW part, NEW k,
               \A e \in Segments(n) : Within(e, h) => slot[e] = part[e], Fills(n, part, h, k)
        PROVE  /\ slot[LeftHalf(d)] = slot[d] + 1
               /\ slot[RightHalf(d)] = slot[d] + 2 * Length(LeftHalf(d))
    <3>1. h \in Segments(n)
      BY <1>1, <2>3, WithinHalves
    <3>2. /\ LeftHalf(d) \in Segments(n) /\ RightHalf(d) \in Segments(n)
          /\ Within(LeftHalf(d), h) /\ Within(RightHalf(d), h)
      BY <2>3, <3>1, WithinHalves
    <3>3. /\ part[LeftHalf(d)] = part[d] + 1
          /\ part[RightHalf(d)] = part[d] + 2 * Length(LeftHalf(d))
      BY <2>3 DEF Fills
    <3> HIDE DEF slot
    <3> QED BY <2>3, <3>2, <3>3
  <2>4. ASSUME ~IsLeaf(d)
        PROVE  /\ slot[LeftHalf(d)] = slot[d] + 1
               /\ slot[RightHalf(d)] = slot[d] + 2 * Length(LeftHalf(d))
    <3>1. CASE d = c
      <4>1. slot[d] = i
        BY <1>3, <3>1
      <4> HIDE DEF slot
      <4> QED BY <1>2, <1>4, <3>1, <4>1
    <3>2. CASE Within(d, l)
      <4> HIDE DEF slot
      <4> QED BY <1>3, <2>3, <2>4, <3>2
    <3>3. CASE Within(d, r)
      <4> HIDE DEF slot
      <4> QED BY <1>3, <2>3, <2>4, <3>3
    <3> QED BY <2>1, <3>1, <3>2, <3>3
  <2> QED BY <2>1, <2>2, <2>4
<1>6. ASSUME NEW d \in Segments(n), NEW e \in Segments(n), Within(d, c), Within(e, c),
             slot[d] = slot[e]
      PROVE  d = e
  <2>1. /\ d = c \/ Within(d, l) \/ Within(d, r)
        /\ e = c \/ Within(e, l) \/ Within(e, r)
    BY <1>5, <1>6
  <2>2. CASE Within(d, l) /\ Within(e, l)
    <3>1. below[d] = below[e]
      BY <1>3, <1>6, <2>2
    <3> QED BY <2>2, <3>1 DEF Fills
  <2>3. CASE Within(d, r) /\ Within(e, r)
    <3>1. above[d] = above[e]
      BY <1>3, <1>6, <2>3
    <3> QED BY <2>3, <3>1 DEF Fills
  <2>4. PICK a, b \in Int : a = slot[d] /\ b = slot[e] /\ a = b
    <3>1. slot[d] \in Int
      <4>1. slot[d] \in i .. i + 2 * Length(c) - 2
        BY <1>5, <1>6
      <4> HIDE DEF slot
      <4> QED BY <1>2, <4>1
    <3> QED BY <1>6, <3>1
  <2>5. /\ d = c => a = i
        /\ Within(d, l) => a > i /\ a < i + 2 * x
        /\ Within(d, r) => a >= i + 2 * x
        /\ e = c => b = i
        /\ Within(e, l) => b > i /\ b < i + 2 * x
        /\ Within(e, r) => b >= i + 2 * x
    <3>1. /\ d = c => a = i
          /\ Within(d, l) => a \in i + 1 .. i + 2 * x - 1
          /\ Within(d, r) => a \in i + 2 * x .. i + 2 * x + 2 * y - 2
      BY <1>3, <2>4
    <3>2. /\ e = c => b = i
          /\ Within(e, l) => b \in i + 1 .. i + 2 * x - 1
          /\ Within(e, r) => b \in i + 2 * x .. i + 2 * x + 2 * y - 2
      BY <1>3, <2>4
    <3> HIDE DEF slot, l, r
    <3> QED BY <3>1, <3>2
  <2> HIDE DEF slot, l, r
  <2> QED BY <1>2, <2>1, <2>2, <2>3, <2>4, <2>5
<1>7. slot[c] = i
  BY <1>3
<1>8. Fills(n, slot, c, i)
  <2> HIDE DEF slot
  <2> QED BY <1>5, <1>6, <1>7 DEF Fills
<1> QED BY <1>8

LEMMA SlotsExist ==
  ASSUME NEW n \in Nat
  PROVE  \E slot : Placed(n, slot)
<1>1. CASE n = 0
  <2>1. Segments(n) = {}
    BY <1>1 DEF Segments
  <2>2. Placed(n, [c \in {} |-> 1])
    BY <1>1, <2>1 DEF Placed
  <2> QED BY <2>2
<1>2. CASE n # 0
  <2>1. /\ n > 0 /\ Root(n) \in Segments(n) /\ Segments(n) \in SUBSET Interval(n)
        /\ Closed(Segments(n))
    BY <1>2, SegmentsClosed
  <2> DEFINE T == {c \in Segments(n) : \A i \in Nat : \E slot : Fills(n, slot, c, i)}
  <2>2. ASSUME NEW c \in Segments(n),
               IsLeaf(c) \/ (LeftHalf(c) \in T /\ RightHalf(c) \in T),
               NEW i \in Nat
        PROVE  \E slot : Fills(n, slot, c, i)
    <3>1. CASE IsLeaf(c)
      <4>1. Length(c) = 1
        BY <2>1, <3>1, Halves DEF Length, IsLeaf
      <4>2. \A d \in Segments(n) : Within(d, c) => d = c
        BY <3>1, WithinHalves
      <4>3. PICK slot : slot = [d \in Segments(n) |-> i]
        OBVIOUS
      <4>4. \A d \in Segments(n) : slot[d] = i
        BY <4>3
      <4>5. i \in i .. i + 2 * Length(c) - 2
        BY <4>1
      <4>6. Fills(n, slot, c, i)
        BY <3>1, <4>2, <4>4, <4>5 DEF Fills
      <4> QED BY <4>6
    <3>2. CASE ~IsLeaf(c)
      <4>1. Length(LeftHalf(c)) \in Nat
        BY <2>1, <3>2, Halves
      <4>2. PICK below : Fills(n, below, LeftHalf(c), i + 1)
        BY <2>2, <3>2
      <4>3. PICK above : Fills(n, above, RightHalf(c), i + 2 * Length(LeftHalf(c)))
        <5>1. i + 2 * Length(LeftHalf(c)) \in Nat
          BY <4>1
        <5> QED BY <2>2, <3>2, <5>1
      <4> QED BY <3>2, <4>2, <4>3, JoinedFills
    <3> QED BY <3>1, <3>2
  <2>3. Segments(n) \subseteq T
    <3>1. ASSUME NEW c \in Segments(n),
                 IsLeaf(c) \/ (LeftHalf(c) \in T /\ RightHalf(c) \in T)
          PROVE  c \in T
      BY <2>2, <3>1
    <3> HIDE DEF T
    <3> QED BY <3>1, PartitionInduction
  <2>4. PICK f : Fills(n, f, Root(n), 1)
    BY <2>1, <2>3
  <2>5. PICK slot : slot = [c \in Segments(n) |-> f[c]]
    OBVIOUS
  <2>6. \A c \in Segments(n) : Within(c, Root(n))
    BY <2>1, Halves DEF Within, Root
  <2>7. Length(Root(n)) = n /\ CanonicalNodeCount(n) = 2 * n - 1
    BY <1>2 DEF Length, Root, CanonicalNodeCount
  <2>8. \A c \in Segments(n) : slot[c] = f[c] /\ f[c] \in 1 .. CanonicalNodeCount(n)
    <3>1. \A c \in Segments(n) : f[c] \in 1 .. 1 + 2 * n - 2
      BY <2>4, <2>6, <2>7 DEF Fills
    <3>2. 1 + 2 * n - 2 = 2 * n - 1
      OBVIOUS
    <3> QED BY <2>5, <2>7, <3>1, <3>2
  <2>9. ASSUME NEW c \in Segments(n), ~IsLeaf(c)
        PROVE  /\ slot[LeftHalf(c)] = LeftChild(slot[c])
               /\ slot[RightHalf(c)] = RightChild(slot[c], c)
    <3>1. LeftHalf(c) \in Segments(n) /\ RightHalf(c) \in Segments(n)
      BY <2>1, <2>9 DEF Closed
    <3>2. f[LeftHalf(c)] = f[c] + 1 /\ f[RightHalf(c)] = f[c] + 2 * Length(LeftHalf(c))
      BY <2>4, <2>6, <2>9 DEF Fills
    <3> QED BY <2>8, <3>1, <3>2 DEF LeftChild, RightChild
  <2>10. \A c, d \in Segments(n) : slot[c] = slot[d] => c = d
    BY <2>4, <2>6, <2>8 DEF Fills
  <2>11. slot[Root(n)] = 1
    BY <2>1, <2>4, <2>8 DEF Fills
  <2>12. slot \in [Segments(n) -> 1 .. CanonicalNodeCount(n)]
    BY <2>5, <2>8
  <2> QED BY <2>9, <2>10, <2>11, <2>12 DEF Placed
<1> QED BY <1>1, <1>2

-----------------------------------------------------------------------------
(***************************************************************************)
(* The labels of a tree laid out in preorder.  Besides the sums of its     *)
(* nodes, the sums that its inner nodes have without their own tags are    *)
(* values: update computes them.                                           *)
(***************************************************************************)
Slot(n) == CHOOSE slot : Placed(n, slot)

Labels(n, nodes) == [c \in Segments(n) |-> nodes[Slot(n)[c]]]

SumsFit(n, L) ==
  \A c \in Segments(n) : ~IsLeaf(c) => L[LeftHalf(c)].sum + L[RightHalf(c)].sum \in Value

TreeFor(n, nodes, w) ==
  /\ nodes \in Seq(Node) /\ Len(nodes) = CanonicalNodeCount(n)
  /\ TreeOf(n, Labels(n, nodes), w)
  /\ SumsFit(n, Labels(n, nodes))
  /\ Admissible(w)

LEMMA SlotPlaced ==
  ASSUME NEW n \in Nat
  PROVE  Placed(n, Slot(n))
BY SlotsExist DEF Slot

(***************************************************************************)
(* What a checked reading makes of an admissible array: the tags above a   *)
(* segment add up to a value, and no element overflows.                    *)
(***************************************************************************)
LEMMA TreeLeavesExact ==
  ASSUME NEW n \in Nat, n # 0, NEW L, NEW w, TreeOf(n, L, w), SumsFit(n, L), Admissible(w),
         NEW g, ReadsLeaves(n, L, g)
  PROVE  g[<<Root(n), 0>>] = w
<1>1. PICK E : StandsFor(n, L, E) /\ \A p \in 1 .. n : w[p] = E[Root(n)][p]
  BY DEF TreeOf
<1>2. /\ Labelled(n, L) /\ w \in Seq(Value) /\ Len(w) = n
      /\ \A p \in 1 .. n : w[p] \in Value /\ w[p] \in Int
  BY ElementOfSeq, ValueFacts DEF TreeOf
<1>3. PICK S : RunningSums(S, w, n)
  BY <1>2, PrefixSums
<1>13. Labelled(n, L)
  BY <1>2
<1> DEFINE A == [x \in Segments(n) \X Int |->
                   [p \in x[1][1] .. x[1][2] |->
                      IF CarriedBy(w, E, x[1], x[2]) /\ x[2] \in Value THEN {w[p]} ELSE Outcome]]
           next == [x \in Segments(n) \X Int |-> CheckedAdd(x[2], L[x[1]].lazy)]
<1>4. ASSUME NEW c \in Segments(n), NEW h \in Int
      PROVE  /\ \A p \in c[1] .. c[2] :
                  A[<<c, h>>][p] = IF CarriedBy(w, E, c, h) /\ h \in Value THEN {w[p]}
                                   ELSE Outcome
             /\ next[<<c, h>>] = CheckedAdd(h, L[c].lazy)
  OBVIOUS
<1> HIDE DEF A, next
<1>5. ASSUME NEW c \in Segments(n), NEW h \in Int, IsLeaf(c)
      PROVE  \E x \in Outcome : g[<<c, h>>] = <<x>> /\ x \in A[<<c, h>>][c[1]]
  <2>1. /\ c[1] \in c[1] .. c[2] /\ c[1] \in 1 .. n
        /\ L[c].sum \in Int /\ L[c].sum # Overflow /\ E[c][c[1]] = L[c].sum
    BY <1>1, <1>2, <1>5, LabelFacts DEF StandsFor
  <2>2. PICK x \in Outcome : x = Apply(h, L[c].sum, 1)
    BY CheckedAddOutcome DEF Apply
  <2>3. g[<<c, h>>] = <<x>>
    BY <1>5, <2>2 DEF ReadsLeaves
  <2>4. ASSUME CarriedBy(w, E, c, h), h \in Value PROVE x = w[c[1]]
    <3>1. w[c[1]] = h + L[c].sum /\ w[c[1]] \in Value
      BY <1>2, <2>1, <2>4 DEF CarriedBy
    <3>2. CheckedLength(1) = 1 /\ 1 # Overflow
      BY MaxValAssumption DEF CheckedLength, Overflow
    <3>3. h * 1 = h /\ h # Overflow
      BY <2>4, ValueFacts
    <3>4. CheckedMultiply(h, CheckedLength(1)) = h
      BY <2>4, <3>2, <3>3 DEF CheckedMultiply, Representable
    <3>5. L[c].sum + h = w[c[1]]
      BY <2>1, <3>1
    <3> QED BY <2>1, <2>2, <3>1, <3>3, <3>4, <3>5 DEF Apply, CheckedAdd, Representable
  <2>5. x \in A[<<c, h>>][c[1]]
    BY <1>4, <2>1, <2>2, <2>4
  <2> QED BY <2>3, <2>5
<1>6. ASSUME NEW c \in Segments(n), NEW h \in Int, ~IsLeaf(c)
      PROVE  /\ next[<<c, h>>] \in Int
             /\ g[<<c, h>>] = g[<<LeftHalf(c), next[<<c, h>>]>>]
                              \o g[<<RightHalf(c), next[<<c, h>>]>>]
             /\ \A p \in c[1] .. c[2] :
                  /\ p <= Midpoint(c) =>
                       A[<<LeftHalf(c), next[<<c, h>>]>>][p] \subseteq A[<<c, h>>][p]
                  /\ p > Midpoint(c) =>
                       A[<<RightHalf(c), next[<<c, h>>]>>][p] \subseteq A[<<c, h>>][p]
  <2>1. /\ L[c].lazy \in Int /\ L[c].lazy # Overflow
        /\ LeftHalf(c) \in Segments(n) /\ RightHalf(c) \in Segments(n)
        /\ c[1] \in 1 .. n /\ c[2] \in c[1] .. n /\ Midpoint(c) \in c[1] .. c[2] - 1
        /\ LeftHalf(c)[1] = c[1] /\ LeftHalf(c)[2] = Midpoint(c)
        /\ RightHalf(c)[1] = Midpoint(c) + 1 /\ RightHalf(c)[2] = c[2]
    BY <1>6, <1>13, LabelFacts
  <2>2. PICK k \in Int : k = next[<<c, h>>] /\ k = CheckedAdd(h, L[c].lazy)
    BY <1>4, <2>1, CheckedAddInt
  <2>3. g[<<c, h>>] = g[<<LeftHalf(c), k>>] \o g[<<RightHalf(c), k>>]
    BY <1>6, <2>2 DEF ReadsLeaves
  <2>4. ASSUME CarriedBy(w, E, c, h), h \in Value
        PROVE  /\ k \in Value /\ CarriedBy(w, E, LeftHalf(c), k)
               /\ CarriedBy(w, E, RightHalf(c), k)
    <3>1. PICK tag, l, r, length \in Int :
             /\ tag = L[c].lazy /\ l = L[LeftHalf(c)].sum /\ r = L[RightHalf(c)].sum
             /\ length = Length(c)
      <4>1. L[LeftHalf(c)].sum \in Int /\ L[RightHalf(c)].sum \in Int /\ Length(c) \in Int
        BY <1>13, <2>1, LabelFacts
      <4> QED BY <2>1, <4>1
    <3>2. ExactSum(w, c[1], c[2]) = S[c[2]] - S[c[1] - 1]
      BY <1>3, <2>1, ExactSumIs
    <3>3. S[c[2]] - S[c[1] - 1] = L[c].sum + h * Length(c)
      BY <1>1, <1>2, <1>3, <2>4, LabelSums
    <3>4. ExactSum(w, c[1], c[2]) \in Value
      BY <1>2, AdmissibleInDomain DEF InDomain, Representable
    <3>5. L[c].sum = l + r + tag * length
      BY <1>2, <1>6, <3>1, LabelFacts
    <3>6. ExactSum(w, c[1], c[2]) = l + r + (tag + h) * length
      <4>1. l + r + tag * length + h * length = l + r + (tag + h) * length
        BY <3>1, TagAbsorbed
      <4> QED BY <3>1, <3>2, <3>3, <3>5, <4>1
    <3>7. l + r \in Value
      BY <1>6, <3>1 DEF SumsFit
    <3>8. length \in Nat /\ length >= 2
      <4>1. c \in Interval(n)
        BY <1>2, LabelFacts
      <4> QED BY <1>6, <3>1, <4>1, HalvesLength
    <3>9. tag + h \in Value
      <4>1. PICK y \in Value : y = l + r
        BY <3>7
      <4>2. PICK k1 \in Int : k1 = tag + h
        OBVIOUS
      <4>3. ExactSum(w, c[1], c[2]) = y + k1 * length
        BY <3>6, <4>1, <4>2
      <4>4. k1 \in Value
        BY <3>4, <3>8, <4>3, TagFits
      <4> QED BY <4>2, <4>4
    <3>10. k = h + tag /\ k \in Value
      <4>1. h + tag = tag + h /\ h # Overflow
        BY <2>4, ValueFacts
      <4> QED BY <2>1, <2>2, <3>1, <3>9, <4>1 DEF CheckedAdd, Representable
    <3> QED BY <1>1, <1>2, <1>6, <2>4, <3>1, <3>10, CarriedDown
  <2>5. ASSUME NEW p \in c[1] .. c[2], p <= Midpoint(c)
        PROVE  A[<<LeftHalf(c), k>>][p] \subseteq A[<<c, h>>][p]
    <3>1. p \in LeftHalf(c)[1] .. LeftHalf(c)[2] /\ p \in 1 .. n
      BY <2>1, <2>5
    <3>2. w[p] \in Outcome
      BY <1>2, <3>1, OutcomeFacts
    <3>3. A[<<LeftHalf(c), k>>][p]
            = IF CarriedBy(w, E, LeftHalf(c), k) /\ k \in Value THEN {w[p]} ELSE Outcome
      BY <1>4, <2>1, <3>1
    <3>4. A[<<c, h>>][p] = IF CarriedBy(w, E, c, h) /\ h \in Value THEN {w[p]} ELSE Outcome
      BY <1>4
    <3> QED BY <2>4, <3>2, <3>3, <3>4
  <2>6. ASSUME NEW p \in c[1] .. c[2], p > Midpoint(c)
        PROVE  A[<<RightHalf(c), k>>][p] \subseteq A[<<c, h>>][p]
    <3>1. p \in RightHalf(c)[1] .. RightHalf(c)[2] /\ p \in 1 .. n
      BY <2>1, <2>6
    <3>2. w[p] \in Outcome
      BY <1>2, <3>1, OutcomeFacts
    <3>3. A[<<RightHalf(c), k>>][p]
            = IF CarriedBy(w, E, RightHalf(c), k) /\ k \in Value THEN {w[p]} ELSE Outcome
      BY <1>4, <2>1, <3>1
    <3>4. A[<<c, h>>][p] = IF CarriedBy(w, E, c, h) /\ h \in Value THEN {w[p]} ELSE Outcome
      BY <1>4
    <3> QED BY <2>4, <3>2, <3>3, <3>4
  <2> QED BY <2>2, <2>3, <2>5, <2>6
<1>7. Concatenates(n, g, Outcome, next, A)
  BY <1>5, <1>6 DEF Concatenates
<1>8. PICK c \in Segments(n) : c = Root(n) /\ c[1] = 1 /\ c[2] = n
  BY RootOfSegments
<1>9. PICK s : s = g[<<c, 0>>]
  OBVIOUS
<1>10. /\ s \in Seq(Outcome) /\ Len(s) = n
       /\ \A p \in 1 .. n : s[p] \in A[<<c, 0>>][p]
  <2>1. \A d \in Segments(n) : \A h \in Int :
          /\ g[<<d, h>>] \in Seq(Outcome) /\ Len(g[<<d, h>>]) = d[2] - d[1] + 1
          /\ \A p \in d[1] .. d[2] : g[<<d, h>>][p - d[1] + 1] \in A[<<d, h>>][p]
    BY <1>7, ReadInOrder
  <2>2. /\ s \in Seq(Outcome) /\ Len(s) = n - 1 + 1
        /\ \A p \in 1 .. n : s[p - 1 + 1] \in A[<<c, 0>>][p]
    <3>1. /\ s \in Seq(Outcome) /\ Len(s) = c[2] - c[1] + 1
          /\ \A p \in c[1] .. c[2] : s[p - c[1] + 1] \in A[<<c, 0>>][p]
      BY <1>9, <2>1
    <3> QED BY <1>8, <3>1
  <2>3. \A p \in 1 .. n : p - 1 + 1 = p
    OBVIOUS
  <2> QED BY <2>2, <2>3
<1>11. \A p \in 1 .. n : s[p] = w[p]
  <2>1. CarriedBy(w, E, c, 0)
    BY <1>1, <1>2, <1>8 DEF CarriedBy, StandsFor
  <2>2. 0 \in Value
    BY ValueFacts
  <2>3. ASSUME NEW p \in 1 .. n PROVE A[<<c, 0>>][p] = {w[p]}
    <3>1. 0 \in Int /\ p \in c[1] .. c[2]
      BY <1>8
    <3>2. A[<<c, 0>>][p] = IF CarriedBy(w, E, c, 0) /\ 0 \in Value THEN {w[p]} ELSE Outcome
      BY <1>4, <3>1
    <3> QED BY <2>1, <2>2, <3>2
  <2> QED BY <1>10, <2>3
<1>12. s = [p \in 1 .. n |-> s[p]] /\ w = [p \in 1 .. n |-> w[p]]
  BY <1>2, <1>10, LenProperties
<1> QED BY <1>8, <1>9, <1>11, <1>12

-----------------------------------------------------------------------------
(***************************************************************************)
(* The recursions over visits.                                             *)
(***************************************************************************)

LEMMA NodeAtType ==
  ASSUME NEW nodes \in Seq(Node)
  PROVE  \A i : /\ NodeAt(nodes, i) \in Node
                /\ NodeAt(nodes, i).sum \in Value /\ NodeAt(nodes, i).lazy \in Value
                /\ NodeAt(nodes, i).sum \in Int /\ NodeAt(nodes, i).lazy \in Int
                /\ NodeAt(nodes, i).sum \in Outcome
                /\ NodeAt(nodes, i).sum # Overflow /\ NodeAt(nodes, i).lazy # Overflow
<1> TAKE i
<1>1. [sum |-> 0, lazy |-> 0] \in Node
  BY ValueFacts DEF Node
<1>2. (CHOOSE node \in Node : TRUE) \in Node
  BY <1>1
<1>3. i \in DOMAIN nodes => nodes[i] \in Node
  BY ElementOfSeq, LenProperties
<1>4. NodeAt(nodes, i) \in Node
  BY <1>2, <1>3 DEF NodeAt
<1>5. NodeAt(nodes, i).sum \in Value /\ NodeAt(nodes, i).lazy \in Value
  BY <1>4 DEF Node
<1> QED BY <1>4, <1>5, ValueFacts, OutcomeFacts

LEMMA VisitTypes ==
  ASSUME arraySize \in Nat, NEW at \in Visit, NEW k \in Int
  PROVE  /\ at.segment \in Interval(arraySize) /\ at.node \in Nat /\ at.inherited \in Int
         /\ Length(at.segment) \in Nat
         /\ LeftVisit(at, k).segment = LeftHalf(at.segment)
         /\ RightVisit(at, k).segment = RightHalf(at.segment)
         /\ ~IsLeaf(at.segment) => LeftVisit(at, k) \in Visit /\ RightVisit(at, k) \in Visit
<1>1. at.segment \in Interval(arraySize) /\ at.node \in Nat /\ at.inherited \in Int
  BY DEF Visit
<1>2. Length(at.segment) \in Nat
  BY <1>1, Halves
<1>3. ASSUME ~IsLeaf(at.segment)
      PROVE  LeftVisit(at, k) \in Visit /\ RightVisit(at, k) \in Visit
  <2>1. LeftHalf(at.segment) \in Interval(arraySize) /\ RightHalf(at.segment) \in Interval(arraySize)
    BY <1>1, <1>3, Halves
  <2>2. LeftChild(at.node) \in Nat
    BY <1>1 DEF LeftChild
  <2>3. RightChild(at.node, at.segment) \in Nat
    <3>1. Length(LeftHalf(at.segment)) \in Nat
      BY <2>1, Halves
    <3> QED BY <1>1, <3>1 DEF RightChild
  <2> QED BY <2>1, <2>2, <2>3 DEF LeftVisit, RightVisit, Visit
<1> QED BY <1>1, <1>2, <1>3 DEF LeftVisit, RightVisit

Asked(tags, V, base, join) ==
  tags \in [Visit -> Int] /\ base \in [Visit -> V] /\ join \in [Visit \X V \X V -> V]

Answered(f, tags, V, stop, base, join) ==
  /\ f \in [Visit -> V]
  /\ \A at \in Visit :
       f[at] = IF IsLeaf(at.segment) \/ at \in stop THEN base[at]
               ELSE join[<<at, f[LeftVisit(at, tags[at])], f[RightVisit(at, tags[at])]>>]

LEMMA VisitsSolved ==
  ASSUME arraySize \in Nat
  PROVE  \A tags, V, stop, base, join :
           Asked(tags, V, base, join) => \E f : Answered(f, tags, V, stop, base, join)
<1> SUFFICES ASSUME NEW tags, NEW V, NEW stop, NEW base, NEW join, Asked(tags, V, base, join)
             PROVE  \E f : Answered(f, tags, V, stop, base, join)
  OBVIOUS
<1> DEFINE toLeft == [at \in Visit |-> LeftVisit(at, tags[at])]
           toRight == [at \in Visit |-> RightVisit(at, tags[at])]
<1>1. /\ tags \in [Visit -> Int] /\ base \in [Visit -> V] /\ join \in [Visit \X V \X V -> V]
  BY DEF Asked
<1>2. \A at \in Visit : toLeft[at] = LeftVisit(at, tags[at]) /\ toRight[at] = RightVisit(at, tags[at])
  OBVIOUS
<1> HIDE DEF toLeft, toRight
<1>3. \A at \in Visit :
        /\ at.segment \in Interval(arraySize)
        /\ ~IsLeaf(at.segment) =>
             /\ toLeft[at] \in Visit /\ toLeft[at].segment = LeftHalf(at.segment)
             /\ toRight[at] \in Visit /\ toRight[at].segment = RightHalf(at.segment)
  <2> TAKE at \in Visit
  <2>1. PICK k \in Int : k = tags[at]
    BY <1>1
  <2>2. toLeft[at] = LeftVisit(at, k) /\ toRight[at] = RightVisit(at, k)
    BY <1>2, <2>1
  <2> QED BY <2>2, VisitTypes
<1>4. NodeRecursion(arraySize, Visit, V, stop, base, toLeft, toRight, join)
  BY <1>1, <1>3 DEF NodeRecursion, Visits
<1>5. PICK f : NodeSolution(f, Visit, V, stop, base, toLeft, toRight, join)
  BY <1>4, NodeRecursionSolved
<1>6. \A at \in Visit :
        f[at] = IF IsLeaf(at.segment) \/ at \in stop THEN base[at]
                ELSE join[<<at, f[LeftVisit(at, tags[at])], f[RightVisit(at, tags[at])]>>]
  BY <1>2, <1>5 DEF NodeSolution
<1> QED BY <1>5, <1>6 DEF NodeSolution, Answered

(* The recursion of materialize. *)
LeavesRead(nodes, f) ==
  \A at \in Visit :
    f[at] = IF IsLeaf(at.segment)
            THEN <<Apply(at.inherited, NodeAt(nodes, at.node).sum, 1)>>
            ELSE f[LeftVisit(at, CheckedAdd(at.inherited, NodeAt(nodes, at.node).lazy))]
                 \o f[RightVisit(at, CheckedAdd(at.inherited, NodeAt(nodes, at.node).lazy))]

LEMMA MaterializeSteps ==
  ASSUME arraySize \in Nat, NEW nodes \in Seq(Node)
  PROVE  \E f : /\ Materialize(nodes) = IF arraySize = 0 THEN <<>> ELSE f[RootVisit]
                /\ LeavesRead(nodes, f)
<1> DEFINE V == Seq(Outcome)
           tags == [at \in Visit |-> CheckedAdd(at.inherited, NodeAt(nodes, at.node).lazy)]
           base == [at \in Visit |-> <<Apply(at.inherited, NodeAt(nodes, at.node).sum, 1)>>]
           join == [x \in Visit \X V \X V |-> x[2] \o x[3]]
           L(at) == LeftVisit(at, CheckedAdd(at.inherited, NodeAt(nodes, at.node).lazy))
           R(at) == RightVisit(at, CheckedAdd(at.inherited, NodeAt(nodes, at.node).lazy))
           Solved(f) == [at \in Visit |->
                          IF IsLeaf(at.segment)
                          THEN <<Apply(at.inherited, NodeAt(nodes, at.node).sum, 1)>>
                          ELSE f[L(at)] \o f[R(at)]]
<1>1. \A at : Apply(at.inherited, NodeAt(nodes, at.node).sum, 1) \in Outcome
  BY CheckedAddOutcome DEF Apply
<1>2. base \in [Visit -> V]
  BY <1>1
<1>3. join \in [Visit \X V \X V -> V]
  BY ConcatProperties
<1>4. tags \in [Visit -> Int]
  BY CheckedAddOutcome, OutcomeFacts
<1>5. PICK f : Answered(f, tags, V, {}, base, join)
  <2>1. Asked(tags, V, base, join)
    BY <1>2, <1>3, <1>4 DEF Asked
  <2> HIDE DEF V, tags, base, join
  <2> QED BY <2>1, VisitsSolved
<1>6. \A at \in Visit :
        /\ tags[at] = CheckedAdd(at.inherited, NodeAt(nodes, at.node).lazy)
        /\ ~IsLeaf(at.segment) => L(at) \in Visit /\ R(at) \in Visit
  <2>1. \A at \in Visit : tags[at] = CheckedAdd(at.inherited, NodeAt(nodes, at.node).lazy)
    OBVIOUS
  <2> HIDE DEF tags
  <2> QED BY <1>4, <2>1, VisitTypes
<1>7. \A at \in Visit : f[at] = Solved(f)[at]
  <2> TAKE at \in Visit
  <2>1. CASE IsLeaf(at.segment)
    <3>1. f[at] = base[at]
      BY <1>5, <2>1 DEF Answered
    <3> QED BY <2>1, <3>1
  <2>2. CASE ~IsLeaf(at.segment)
    <3>1. f[at] = join[<<at, f[L(at)], f[R(at)]>>]
      <4> HIDE DEF tags, base, join, V
      <4> QED BY <1>5, <1>6, <2>2 DEF Answered
    <3>2. f[L(at)] \in V /\ f[R(at)] \in V
      <4> HIDE DEF tags, base, join, V, L, R
      <4> QED BY <1>5, <1>6, <2>2 DEF Answered
    <3> QED BY <2>2, <3>1, <3>2
  <2> QED BY <2>1, <2>2
<1>8. f = Solved(f)
  <2>1. f \in [Visit -> V]
    BY <1>5 DEF Answered
  <2> HIDE DEF L, R, V
  <2> QED BY <1>7, <2>1
<1>9. PICK g : /\ g = Solved(g)
               /\ Materialize(nodes) = IF arraySize = 0 THEN <<>> ELSE g[RootVisit]
  <2>1. \E h : h = Solved(h)
    BY <1>8
  <2> QED BY <2>1 DEF Materialize
<1>10. LeavesRead(nodes, g)
  <2>1. \A at \in Visit : g[at] = Solved(g)[at]
    BY <1>9
  <2> QED BY <2>1 DEF LeavesRead
<1> QED BY <1>9, <1>10

(* The recursion of query. *)
SumsRead(nodes, left, right, f) ==
  \A at \in Visit :
    /\ f[at] \in Int
    /\ f[at] =
         IF Disjoint(left, right, at.segment) THEN 0
         ELSE IF Covers(left, right, at.segment)
              THEN Apply(at.inherited, NodeAt(nodes, at.node).sum, Length(at.segment))
              ELSE CheckedAdd(
                     f[LeftVisit(at, CheckedAdd(at.inherited, NodeAt(nodes, at.node).lazy))],
                     f[RightVisit(at, CheckedAdd(at.inherited, NodeAt(nodes, at.node).lazy))])

LEMMA QuerySteps ==
  ASSUME arraySize \in Nat, NEW nodes \in Seq(Node), NEW left \in Int, NEW right \in Int
  PROVE  \E f : Query(nodes, left, right) = f[RootVisit] /\ SumsRead(nodes, left, right, f)
<1> DEFINE Outer(at) == Disjoint(left, right, at.segment)
           Inner(at) == Covers(left, right, at.segment)
           Own(at) == Apply(at.inherited, NodeAt(nodes, at.node).sum, Length(at.segment))
           tags == [at \in Visit |-> CheckedAdd(at.inherited, NodeAt(nodes, at.node).lazy)]
           L(at) == LeftVisit(at, CheckedAdd(at.inherited, NodeAt(nodes, at.node).lazy))
           R(at) == RightVisit(at, CheckedAdd(at.inherited, NodeAt(nodes, at.node).lazy))
           stop == {at \in Visit : Outer(at) \/ Inner(at)}
           base == [at \in Visit |-> IF Outer(at) THEN 0 ELSE Own(at)]
           join == [x \in Visit \X Int \X Int |-> CheckedAdd(x[2], x[3])]
           Solved(f) == [at \in Visit |->
                          IF Disjoint(left, right, at.segment) THEN 0
                          ELSE IF Covers(left, right, at.segment)
                               THEN Apply(at.inherited, NodeAt(nodes, at.node).sum,
                                          Length(at.segment))
                               ELSE CheckedAdd(f[L(at)], f[R(at)])]
<1>1. base \in [Visit -> Int]
  <2>1. \A at \in Visit : Own(at) \in Int
    BY CheckedAddOutcome, OutcomeFacts DEF Apply
  <2> HIDE DEF Own, Outer
  <2> QED BY <2>1
<1>2. join \in [Visit \X Int \X Int -> Int]
  BY CheckedAddOutcome, OutcomeFacts
<1>3. tags \in [Visit -> Int]
  BY CheckedAddOutcome, OutcomeFacts
<1>4. PICK f : Answered(f, tags, Int, stop, base, join)
  <2>1. Asked(tags, Int, base, join)
    BY <1>1, <1>2, <1>3 DEF Asked
  <2> HIDE DEF tags, base, join, stop
  <2> QED BY <2>1, VisitsSolved
<1>5. \A at \in Visit :
        /\ tags[at] = CheckedAdd(at.inherited, NodeAt(nodes, at.node).lazy)
        /\ ~IsLeaf(at.segment) => L(at) \in Visit /\ R(at) \in Visit
  <2>1. \A at \in Visit : tags[at] = CheckedAdd(at.inherited, NodeAt(nodes, at.node).lazy)
    OBVIOUS
  <2> HIDE DEF tags
  <2> QED BY <1>3, <2>1, VisitTypes
<1>6. ASSUME NEW at \in Visit
      PROVE  f[at] = IF Outer(at) THEN 0 ELSE IF Inner(at) THEN Own(at)
                     ELSE CheckedAdd(f[L(at)], f[R(at)])
  <2>1. CASE Outer(at) \/ Inner(at)
    <3>1. f[at] = base[at]
      BY <1>4, <2>1 DEF Answered
    <3> HIDE DEF Outer, Inner, Own
    <3> QED BY <2>1, <3>1
  <2>2. CASE ~Outer(at) /\ ~Inner(at)
    <3>1. at.segment \in Interval(arraySize)
      BY DEF Visit
    <3>2. ~IsLeaf(at.segment)
      BY <2>2, <3>1, LeafCovered
    <3>3. at \notin stop
      BY <2>2
    <3>4. f[at] = join[<<at, f[L(at)], f[R(at)]>>]
      <4> HIDE DEF tags, base, join, stop
      <4> QED BY <1>4, <1>5, <3>2, <3>3 DEF Answered
    <3>5. f[L(at)] \in Int /\ f[R(at)] \in Int
      <4> HIDE DEF L, R, tags, base, join, stop
      <4> QED BY <1>4, <1>5, <3>2 DEF Answered
    <3> HIDE DEF L, R, Outer, Inner, Own
    <3> QED BY <2>2, <3>4, <3>5
  <2> QED BY <2>1, <2>2
<1>7. f = Solved(f)
  <2>1. f = [at \in Visit |-> f[at]]
    BY <1>4 DEF Answered
  <2>2. \A at \in Visit : f[at] = Solved(f)[at]
    BY <1>6
  <2> QED BY <2>1, <2>2
<1>8. PICK g : g = Solved(g) /\ Query(nodes, left, right) = g[RootVisit]
  <2>1. \E h : h = Solved(h)
    BY <1>7
  <2> QED BY <2>1 DEF Query
<1>9. \A at \in Visit : g[at] = Solved(g)[at]
  BY <1>8
<1>10. \A at \in Visit : g[at] \in Int
  <2>1. \A a, b : Apply(a, b, 1) \in Int /\ CheckedAdd(a, b) \in Int
    BY CheckedAddOutcome, OutcomeFacts DEF Apply
  <2>2. \A at \in Visit : Own(at) \in Int
    BY CheckedAddOutcome, OutcomeFacts DEF Apply
  <2>3. \A at \in Visit : g[at] = IF Outer(at) THEN 0 ELSE IF Inner(at) THEN Own(at)
                                  ELSE CheckedAdd(g[L(at)], g[R(at)])
    BY <1>9
  <2> HIDE DEF L, R, Outer, Inner, Own
  <2> QED BY <2>1, <2>2, <2>3
<1> QED BY <1>8, <1>9, <1>10 DEF SumsRead

(* The recursion of validateUpdate. *)
DryRun(nodes, left, right, value, f) ==
  \A at \in Visit :
    f[at] =
      IF Disjoint(left, right, at.segment) THEN NodeAt(nodes, at.node).sum
      ELSE IF Covers(left, right, at.segment)
           THEN IF CheckedAdd(NodeAt(nodes, at.node).lazy, value) = Overflow THEN Overflow
                ELSE Apply(value, NodeAt(nodes, at.node).sum, Length(at.segment))
           ELSE Apply(NodeAt(nodes, at.node).lazy,
                      CheckedAdd(f[LeftVisit(at, 0)], f[RightVisit(at, 0)]),
                      Length(at.segment))

LEMMA ValidateUpdateSteps ==
  ASSUME arraySize \in Nat, live \in Seq(Node), NEW left \in Int, NEW right \in Int, NEW value
  PROVE  \E sum : /\ ValidateUpdate(left, right, value) <=> sum[RootVisit] # Overflow
                  /\ DryRun(live, left, right, value, sum)
<1> DEFINE Cur(at) == NodeAt(live, at.node)
           Outer(at) == Disjoint(left, right, at.segment)
           Inner(at) == Covers(left, right, at.segment)
           Own(at) == IF CheckedAdd(Cur(at).lazy, value) = Overflow THEN Overflow
                      ELSE Apply(value, Cur(at).sum, Length(at.segment))
           tags == [at \in Visit |-> 0]
           stop == {at \in Visit : Outer(at) \/ Inner(at)}
           base == [at \in Visit |-> IF Outer(at) THEN Cur(at).sum ELSE Own(at)]
           join == [x \in Visit \X Outcome \X Outcome |->
                      Apply(Cur(x[1]).lazy, CheckedAdd(x[2], x[3]), Length(x[1].segment))]
           Solved(f) == [at \in Visit |->
                          LET current == NodeAt(live, at.node)
                          IN  IF Disjoint(left, right, at.segment) THEN current.sum
                              ELSE IF Covers(left, right, at.segment)
                                   THEN IF CheckedAdd(current.lazy, value) = Overflow
                                        THEN Overflow
                                        ELSE Apply(value, current.sum, Length(at.segment))
                                   ELSE Apply(current.lazy,
                                              CheckedAdd(f[LeftVisit(at, 0)], f[RightVisit(at, 0)]),
                                              Length(at.segment))]
<1>1. base \in [Visit -> Outcome]
  <2>1. \A at \in Visit : Cur(at).sum \in Outcome
    BY NodeAtType
  <2>2. \A at \in Visit : Own(at) \in Outcome
    BY CheckedAddOutcome, OutcomeFacts DEF Apply
  <2> HIDE DEF Cur, Own, Outer
  <2> QED BY <2>1, <2>2
<1>2. join \in [Visit \X Outcome \X Outcome -> Outcome]
  <2>1. \A k, s, n : Apply(k, s, n) \in Outcome
    BY CheckedAddOutcome DEF Apply
  <2> QED BY <2>1
<1>3. tags \in [Visit -> Int]
  OBVIOUS
<1>4. PICK f : Answered(f, tags, Outcome, stop, base, join)
  <2>1. Asked(tags, Outcome, base, join)
    BY <1>1, <1>2, <1>3 DEF Asked
  <2> HIDE DEF tags, base, join, stop
  <2> QED BY <2>1, VisitsSolved
<1>5. ASSUME NEW at \in Visit
      PROVE  f[at] = IF Outer(at) THEN Cur(at).sum ELSE IF Inner(at) THEN Own(at)
                     ELSE Apply(Cur(at).lazy,
                                CheckedAdd(f[LeftVisit(at, 0)], f[RightVisit(at, 0)]),
                                Length(at.segment))
  <2>1. CASE Outer(at) \/ Inner(at)
    <3>1. f[at] = base[at]
      BY <1>4, <2>1 DEF Answered
    <3> HIDE DEF Cur, Outer, Inner, Own
    <3> QED BY <2>1, <3>1
  <2>2. CASE ~Outer(at) /\ ~Inner(at)
    <3>1. at.segment \in Interval(arraySize)
      BY DEF Visit
    <3>2. ~IsLeaf(at.segment)
      BY <2>2, <3>1, LeafCovered
    <3>3. at \notin stop
      BY <2>2
    <3>4. tags[at] = 0 /\ 0 \in Int
      OBVIOUS
    <3>5. f[at] = join[<<at, f[LeftVisit(at, 0)], f[RightVisit(at, 0)]>>]
      <4>1. f[at] = join[<<at, f[LeftVisit(at, tags[at])], f[RightVisit(at, tags[at])]>>]
        <5> HIDE DEF tags, base, join, stop
        <5> QED BY <1>4, <3>2, <3>3 DEF Answered
      <4> HIDE DEF tags, join
      <4> QED BY <3>4, <4>1
    <3>6. LeftVisit(at, 0) \in Visit /\ RightVisit(at, 0) \in Visit
      BY <3>2, <3>4, VisitTypes
    <3>7. f[LeftVisit(at, 0)] \in Outcome /\ f[RightVisit(at, 0)] \in Outcome
      <4> HIDE DEF tags, base, join, stop
      <4> QED BY <1>4, <3>6 DEF Answered
    <3> HIDE DEF Cur, Outer, Inner, Own
    <3> QED BY <2>2, <3>5, <3>7
  <2> QED BY <2>1, <2>2
<1>6. f = Solved(f)
  <2>1. f = [at \in Visit |-> f[at]]
    BY <1>4 DEF Answered
  <2>2. \A at \in Visit : f[at] = Solved(f)[at]
    BY <1>5
  <2> QED BY <2>1, <2>2
<1>7. PICK g : g = Solved(g) /\ (ValidateUpdate(left, right, value) <=> g[RootVisit] # Overflow)
  <2>1. \E h : h = Solved(h)
    BY <1>6
  <2> QED BY <2>1 DEF ValidateUpdate
<1>8. \A at \in Visit : g[at] = Solved(g)[at]
  BY <1>7
<1> QED BY <1>7, <1>8 DEF DryRun

(* The recursion of update, whose nodes are written in postorder. *)
Write == [node : Nat, segment : Interval(arraySize)]

WriteAt(at) == [node |-> at.node, segment |-> at.segment]

InPostorder(left, right, f) ==
  \A at \in Visit :
    /\ f[at] \in Seq(Write)
    /\ f[at] = IF Disjoint(left, right, at.segment) THEN <<>>
               ELSE IF Covers(left, right, at.segment) THEN <<WriteAt(at)>>
                    ELSE f[LeftVisit(at, 0)] \o f[RightVisit(at, 0)] \o <<WriteAt(at)>>

LEMMA WritesSteps ==
  ASSUME arraySize \in Nat, NEW event, event.left \in Int, event.right \in Int
  PROVE  \E f : /\ Writes(event) = IF event.value = 0 THEN <<>> ELSE f[RootVisit]
                /\ InPostorder(event.left, event.right, f)
<1> DEFINE V == Seq(Write)
           Outer(at) == Disjoint(event.left, event.right, at.segment)
           Inner(at) == Covers(event.left, event.right, at.segment)
           tags == [at \in Visit |-> 0]
           stop == {at \in Visit : Outer(at) \/ Inner(at)}
           base == [at \in Visit |-> IF Outer(at) THEN <<>> ELSE <<WriteAt(at)>>]
           join == [x \in Visit \X V \X V |-> x[2] \o x[3] \o <<WriteAt(x[1])>>]
           Solved(f) == [at \in Visit |->
                          LET write == [node |-> at.node, segment |-> at.segment]
                          IN  IF Disjoint(event.left, event.right, at.segment) THEN <<>>
                              ELSE IF Covers(event.left, event.right, at.segment) THEN <<write>>
                                   ELSE f[LeftVisit(at, 0)] \o f[RightVisit(at, 0)] \o <<write>>]
<1>0. \A at \in Visit : WriteAt(at) \in Write
  BY DEF WriteAt, Write, Visit
<1>1. base \in [Visit -> V]
  BY <1>0
<1>2. join \in [Visit \X V \X V -> V]
  <2>1. ASSUME NEW x \in Visit \X V \X V
        PROVE  x[2] \o x[3] \o <<WriteAt(x[1])>> \in V
    <3>1. x[2] \o x[3] \in Seq(Write)
      BY <2>1, ConcatProperties
    <3>2. <<WriteAt(x[1])>> \in Seq(Write)
      BY <1>0, <2>1
    <3> QED BY <3>1, <3>2, ConcatProperties
  <2> HIDE DEF V
  <2> QED BY <2>1
<1>3. tags \in [Visit -> Int]
  OBVIOUS
<1>4. PICK f : Answered(f, tags, V, stop, base, join)
  <2>1. Asked(tags, V, base, join)
    BY <1>1, <1>2, <1>3 DEF Asked
  <2> HIDE DEF tags, base, join, stop, V
  <2> QED BY <2>1, VisitsSolved
<1>5. ASSUME NEW at \in Visit
      PROVE  f[at] = IF Outer(at) THEN <<>> ELSE IF Inner(at) THEN <<WriteAt(at)>>
                     ELSE f[LeftVisit(at, 0)] \o f[RightVisit(at, 0)] \o <<WriteAt(at)>>
  <2>1. CASE Outer(at) \/ Inner(at)
    <3>1. f[at] = base[at]
      BY <1>4, <2>1 DEF Answered
    <3> HIDE DEF Outer, Inner
    <3> QED BY <2>1, <3>1
  <2>2. CASE ~Outer(at) /\ ~Inner(at)
    <3>1. at.segment \in Interval(arraySize)
      BY DEF Visit
    <3>2. ~IsLeaf(at.segment)
      BY <2>2, <3>1, LeafCovered
    <3>3. at \notin stop
      BY <2>2
    <3>4. tags[at] = 0 /\ 0 \in Int
      OBVIOUS
    <3>5. f[at] = join[<<at, f[LeftVisit(at, 0)], f[RightVisit(at, 0)]>>]
      <4>1. f[at] = join[<<at, f[LeftVisit(at, tags[at])], f[RightVisit(at, tags[at])]>>]
        <5> HIDE DEF tags, base, join, stop
        <5> QED BY <1>4, <3>2, <3>3 DEF Answered
      <4> HIDE DEF tags, join
      <4> QED BY <3>4, <4>1
    <3>6. LeftVisit(at, 0) \in Visit /\ RightVisit(at, 0) \in Visit
      BY <3>2, <3>4, VisitTypes
    <3>7. f[LeftVisit(at, 0)] \in V /\ f[RightVisit(at, 0)] \in V
      <4> HIDE DEF tags, base, join, stop, V
      <4> QED BY <1>4, <3>6 DEF Answered
    <3>8. join[<<at, f[LeftVisit(at, 0)], f[RightVisit(at, 0)]>>]
            = f[LeftVisit(at, 0)] \o f[RightVisit(at, 0)] \o <<WriteAt(at)>>
      <4> HIDE DEF V
      <4> QED BY <3>7
    <3> QED BY <2>2, <3>5, <3>8
  <2> QED BY <2>1, <2>2
<1>6. f = Solved(f)
  <2>1. f = [at \in Visit |-> f[at]]
    BY <1>4 DEF Answered
  <2>2. \A at \in Visit : f[at] = Solved(f)[at]
    BY <1>5 DEF WriteAt
  <2> QED BY <2>1, <2>2
<1>7. PICK g : g = Solved(g) /\ Writes(event) = IF event.value = 0 THEN <<>> ELSE g[RootVisit]
  <2>1. \E h : h = Solved(h)
    BY <1>6
  <2> QED BY <2>1 DEF Writes
<1>8. ASSUME NEW at \in Visit
      PROVE  g[at] = IF Disjoint(event.left, event.right, at.segment) THEN <<>>
                     ELSE IF Covers(event.left, event.right, at.segment) THEN <<WriteAt(at)>>
                          ELSE g[LeftVisit(at, 0)] \o g[RightVisit(at, 0)] \o <<WriteAt(at)>>
  BY <1>7 DEF WriteAt
<1>9. \A c \in Interval(arraySize) : \A at \in Visit : at.segment = c => g[at] \in V
  <2> DEFINE T == {c \in Interval(arraySize) :
                     \A at \in Visit : at.segment = c => g[at] \in V}
  <2>1. ASSUME NEW c \in Interval(arraySize),
               IsLeaf(c) \/ (LeftHalf(c) \in T /\ RightHalf(c) \in T)
        PROVE  c \in T
    <3> SUFFICES ASSUME NEW at \in Visit, at.segment = c PROVE g[at] \in V
      OBVIOUS
    <3>1. <<WriteAt(at)>> \in Seq(Write) /\ <<>> \in Seq(Write)
      BY <1>0
    <3>2. CASE Outer(at) \/ Inner(at)
      BY <1>8, <3>1, <3>2
    <3>3. CASE ~Outer(at) /\ ~Inner(at)
      <4>1. ~IsLeaf(c)
        BY <3>3, LeafCovered
      <4>2. 0 \in Int
        OBVIOUS
      <4>3. g[LeftVisit(at, 0)] \in Seq(Write) /\ g[RightVisit(at, 0)] \in Seq(Write)
        BY <2>1, <4>1, <4>2, VisitTypes
      <4>4. g[LeftVisit(at, 0)] \o g[RightVisit(at, 0)] \o <<WriteAt(at)>> \in Seq(Write)
        BY <3>1, <4>3, ConcatProperties
      <4> QED BY <1>8, <3>3, <4>4
    <3> QED BY <3>2, <3>3
  <2>2. Interval(arraySize) \subseteq T
    <3> HIDE DEF T
    <3> QED BY <2>1, SegmentInduction
  <2> QED BY <2>2
<1>10. \A at \in Visit : g[at] \in Seq(Write)
  BY <1>9, VisitTypes
<1>11. InPostorder(event.left, event.right, g)
  <2> HIDE DEF V, Solved
  <2> QED BY <1>8, <1>10 DEF InPostorder
<1> QED BY <1>7, <1>11

-----------------------------------------------------------------------------
(***************************************************************************)
(* What is read from a tree of an array.                                   *)
(***************************************************************************)
VisitAt(c, h) == [node |-> Slot(arraySize)[c], segment |-> c, inherited |-> h]

(* The visits of the segments of the partition. *)
LEMMA PlacedVisits ==
  ASSUME arraySize \in Nat, NEW c \in Segments(arraySize), NEW h \in Int
  PROVE  /\ VisitAt(c, h) \in Visit
         /\ VisitAt(c, h).node = Slot(arraySize)[c] /\ VisitAt(c, h).segment = c
         /\ VisitAt(c, h).inherited = h
         /\ Slot(arraySize)[c] \in 1 .. CanonicalNodeCount(arraySize)
         /\ Slot(arraySize)[c] \in Nat
         /\ c \in Interval(arraySize) /\ Length(c) \in Nat
         /\ ~IsLeaf(c) =>
              /\ LeftHalf(c) \in Segments(arraySize) /\ RightHalf(c) \in Segments(arraySize)
              /\ Slot(arraySize)[LeftHalf(c)] = LeftChild(Slot(arraySize)[c])
              /\ Slot(arraySize)[RightHalf(c)] = RightChild(Slot(arraySize)[c], c)
              /\ \A k : /\ LeftVisit(VisitAt(c, h), k) = VisitAt(LeftHalf(c), k)
                        /\ RightVisit(VisitAt(c, h), k) = VisitAt(RightHalf(c), k)
<1> DEFINE slot == Slot(arraySize)
<1>1. arraySize > 0 /\ c \in Interval(arraySize) /\ Closed(Segments(arraySize))
  <2>1. arraySize # 0
    BY DEF Segments
  <2> QED BY <2>1, SegmentsClosed
<1>2. Placed(arraySize, slot)
  BY SlotPlaced
<1>3. slot[c] \in 1 .. CanonicalNodeCount(arraySize)
  <2> HIDE DEF slot
  <2> QED BY <1>2 DEF Placed
<1>4. slot[c] \in Nat
  <2>1. CanonicalNodeCount(arraySize) \in Int
    BY DEF CanonicalNodeCount
  <2> HIDE DEF slot
  <2> QED BY <1>3, <2>1
<1>5. /\ VisitAt(c, h) \in Visit
      /\ VisitAt(c, h).node = slot[c] /\ VisitAt(c, h).segment = c
      /\ VisitAt(c, h).inherited = h
  BY <1>1, <1>4 DEF VisitAt, Visit
<1>6. ASSUME ~IsLeaf(c)
      PROVE  /\ LeftHalf(c) \in Segments(arraySize) /\ RightHalf(c) \in Segments(arraySize)
             /\ slot[LeftHalf(c)] = LeftChild(slot[c])
             /\ slot[RightHalf(c)] = RightChild(slot[c], c)
             /\ \A k : /\ LeftVisit(VisitAt(c, h), k) = VisitAt(LeftHalf(c), k)
                       /\ RightVisit(VisitAt(c, h), k) = VisitAt(RightHalf(c), k)
  <2>1. slot[LeftHalf(c)] = LeftChild(slot[c]) /\ slot[RightHalf(c)] = RightChild(slot[c], c)
    <3> HIDE DEF slot
    <3> QED BY <1>2, <1>6 DEF Placed
  <2> QED BY <1>1, <1>5, <1>6, <2>1 DEF Closed, LeftVisit, RightVisit, VisitAt
<1>7. Length(c) \in Nat
  BY <1>1, Halves
<1> QED BY <1>1, <1>3, <1>4, <1>5, <1>6, <1>7

(* The nodes of a tree. *)
LEMMA TreeNodes ==
  ASSUME arraySize \in Nat, NEW nodes \in Seq(Node),
         Len(nodes) = CanonicalNodeCount(arraySize), NEW c \in Segments(arraySize)
  PROVE  /\ Slot(arraySize)[c] \in DOMAIN nodes /\ nodes[Slot(arraySize)[c]] \in Node
         /\ NodeAt(nodes, Slot(arraySize)[c]) = nodes[Slot(arraySize)[c]]
         /\ Labels(arraySize, nodes)[c] = nodes[Slot(arraySize)[c]]
         /\ Labels(arraySize, nodes)[c].sum \in Value /\ Labels(arraySize, nodes)[c].lazy \in Value
         /\ Labels(arraySize, nodes)[c].sum \in Int /\ Labels(arraySize, nodes)[c].lazy \in Int
         /\ Labels(arraySize, nodes)[c].sum # Overflow /\ Labels(arraySize, nodes)[c].lazy # Overflow
<1>1. DOMAIN nodes = 1 .. CanonicalNodeCount(arraySize)
  BY LenProperties
<1>2. 0 \in Int
  OBVIOUS
<1>3. Slot(arraySize)[c] \in DOMAIN nodes
  BY <1>1, <1>2, PlacedVisits
<1>4. NodeAt(nodes, Slot(arraySize)[c]) = nodes[Slot(arraySize)[c]]
  BY <1>3 DEF NodeAt
<1>5. Labels(arraySize, nodes)[c] = nodes[Slot(arraySize)[c]]
  BY DEF Labels
<1> QED BY <1>3, <1>4, <1>5, NodeAtType

LEMMA RootVisitAt ==
  ASSUME arraySize \in Nat, arraySize # 0
  PROVE  RootVisit = VisitAt(Root(arraySize), 0) /\ RootVisit \in Visit
<1>1. Slot(arraySize)[Root(arraySize)] = 1
  BY SlotPlaced DEF Placed
<1>2. Root(arraySize) \in Interval(arraySize)
  BY RootIsSegment
<1> QED BY <1>1, <1>2 DEF RootVisit, VisitAt, Visit

(* materialize reads the elements, and none of them overflows. *)
LEMMA MaterializeIs ==
  ASSUME arraySize \in Nat, NEW nodes, NEW w, TreeFor(arraySize, nodes, w)
  PROVE  Materialize(nodes) = w
<1>1. /\ nodes \in Seq(Node) /\ Len(nodes) = CanonicalNodeCount(arraySize)
      /\ TreeOf(arraySize, Labels(arraySize, nodes), w)
      /\ SumsFit(arraySize, Labels(arraySize, nodes)) /\ Admissible(w)
  BY DEF TreeFor
<1> DEFINE L == Labels(arraySize, nodes)
<1>2. PICK f : /\ Materialize(nodes) = IF arraySize = 0 THEN <<>> ELSE f[RootVisit]
               /\ LeavesRead(nodes, f)
  BY <1>1, MaterializeSteps
<1>3. CASE arraySize = 0
  <2>1. w \in Seq(Value) /\ Len(w) = 0
    BY <1>1, <1>3 DEF TreeOf
  <2>2. w = <<>>
    BY <2>1, EmptySeq
  <2> QED BY <1>2, <1>3, <2>2
<1>4. CASE arraySize # 0
  <2>1. PICK g : g = [x \in Segments(arraySize) \X Int |-> f[VisitAt(x[1], x[2])]]
    OBVIOUS
  <2>2. \A c \in Segments(arraySize) : \A h \in Int : g[<<c, h>>] = f[VisitAt(c, h)]
    BY <2>1
  <2>3. ASSUME NEW c \in Segments(arraySize), NEW h \in Int
        PROVE  g[<<c, h>>] = IF IsLeaf(c) THEN <<Apply(h, L[c].sum, 1)>>
                             ELSE g[<<LeftHalf(c), CheckedAdd(h, L[c].lazy)>>]
                                  \o g[<<RightHalf(c), CheckedAdd(h, L[c].lazy)>>]
    <3>1. PICK at \in Visit : /\ at = VisitAt(c, h) /\ at.node = Slot(arraySize)[c]
                              /\ at.segment = c /\ at.inherited = h
      BY PlacedVisits
    <3>2. L[c] = NodeAt(nodes, at.node) /\ L[c].lazy \in Int
      BY <1>1, <3>1, TreeNodes
    <3>3. PICK k \in Int : k = CheckedAdd(h, L[c].lazy)
      BY <3>2, CheckedAddInt
    <3>4. f[at] = IF IsLeaf(c) THEN <<Apply(h, L[c].sum, 1)>>
                  ELSE f[LeftVisit(at, k)] \o f[RightVisit(at, k)]
      BY <1>2, <3>1, <3>2, <3>3 DEF LeavesRead
    <3>5. ASSUME ~IsLeaf(c)
          PROVE  /\ f[LeftVisit(at, k)] = g[<<LeftHalf(c), k>>]
                 /\ f[RightVisit(at, k)] = g[<<RightHalf(c), k>>]
      <4>1. /\ LeftHalf(c) \in Segments(arraySize) /\ RightHalf(c) \in Segments(arraySize)
            /\ LeftVisit(at, k) = VisitAt(LeftHalf(c), k)
            /\ RightVisit(at, k) = VisitAt(RightHalf(c), k)
        BY <3>1, <3>5, PlacedVisits
      <4> QED BY <2>2, <4>1
    <3>6. g[<<c, h>>] = f[at]
      BY <2>2, <3>1
    <3> HIDE DEF L
    <3> QED BY <3>3, <3>4, <3>5, <3>6
  <2>4. ReadsLeaves(arraySize, L, g)
    <3> HIDE DEF L
    <3> QED BY <2>3 DEF ReadsLeaves
  <2>5. g[<<Root(arraySize), 0>>] = w
    BY <1>1, <1>4, <2>4, TreeLeavesExact
  <2>6. f[RootVisit] = g[<<Root(arraySize), 0>>]
    BY <1>4, <2>2, RootVisitAt, RootOfSegments
  <2> QED BY <1>2, <1>4, <2>5, <2>6
<1> QED BY <1>3, <1>4

(* query reads an exact sum, or reports an overflow. *)
LEMMA QueryIs ==
  ASSUME arraySize \in Nat, NEW nodes, NEW w, TreeFor(arraySize, nodes, w),
         NEW left \in 1 .. arraySize, NEW right \in left .. arraySize
  PROVE  Query(nodes, left, right) \in {ExactSum(w, left, right), Overflow}
<1>0. arraySize # 0 /\ left \in Int /\ right \in Int
  OBVIOUS
<1>1. /\ nodes \in Seq(Node) /\ Len(nodes) = CanonicalNodeCount(arraySize)
      /\ TreeOf(arraySize, Labels(arraySize, nodes), w)
  BY DEF TreeFor
<1> DEFINE L == Labels(arraySize, nodes)
<1>2. PICK f : Query(nodes, left, right) = f[RootVisit] /\ SumsRead(nodes, left, right, f)
  BY <1>0, <1>1, QuerySteps
<1>3. PICK g : g = [x \in Segments(arraySize) \X Int |-> f[VisitAt(x[1], x[2])]]
  OBVIOUS
<1>4. \A c \in Segments(arraySize) : \A h \in Int : g[<<c, h>>] = f[VisitAt(c, h)]
  BY <1>3
<1>5. ASSUME NEW c \in Segments(arraySize), NEW h \in Int
      PROVE  /\ g[<<c, h>>] \in Int
             /\ g[<<c, h>>] =
                  IF Disjoint(left, right, c) THEN 0
                  ELSE IF Covers(left, right, c) THEN Apply(h, L[c].sum, Length(c))
                       ELSE CheckedAdd(g[<<LeftHalf(c), CheckedAdd(h, L[c].lazy)>>],
                                       g[<<RightHalf(c), CheckedAdd(h, L[c].lazy)>>])
  <2>1. PICK at \in Visit : /\ at = VisitAt(c, h) /\ at.node = Slot(arraySize)[c]
                            /\ at.segment = c /\ at.inherited = h
    BY PlacedVisits
  <2>2. L[c] = NodeAt(nodes, at.node) /\ L[c].lazy \in Int
    BY <1>1, <2>1, TreeNodes
  <2>3. PICK k \in Int : k = CheckedAdd(h, L[c].lazy)
    BY <2>2, CheckedAddInt
  <2>4. /\ f[at] \in Int
        /\ f[at] = IF Disjoint(left, right, c) THEN 0
                   ELSE IF Covers(left, right, c) THEN Apply(h, L[c].sum, Length(c))
                   ELSE CheckedAdd(f[LeftVisit(at, k)], f[RightVisit(at, k)])
    BY <1>2, <2>1, <2>2, <2>3 DEF SumsRead
  <2>5. ~Disjoint(left, right, c) /\ ~Covers(left, right, c) => ~IsLeaf(c)
    BY <1>0, LeafCovered, PlacedVisits
  <2>6. ASSUME ~IsLeaf(c)
        PROVE  /\ f[LeftVisit(at, k)] = g[<<LeftHalf(c), k>>]
               /\ f[RightVisit(at, k)] = g[<<RightHalf(c), k>>]
    <3>1. /\ LeftHalf(c) \in Segments(arraySize) /\ RightHalf(c) \in Segments(arraySize)
          /\ LeftVisit(at, k) = VisitAt(LeftHalf(c), k)
          /\ RightVisit(at, k) = VisitAt(RightHalf(c), k)
      BY <2>1, <2>6, PlacedVisits
    <3> QED BY <1>4, <3>1
  <2>7. g[<<c, h>>] = f[at]
    BY <1>4, <2>1
  <2> HIDE DEF L
  <2> QED BY <2>3, <2>4, <2>5, <2>6, <2>7
<1>6. ReadsSums(arraySize, L, left, right, g)
  <2> HIDE DEF L
  <2> QED BY <1>5 DEF ReadsSums
<1>7. g[<<Root(arraySize), 0>>] \in {ExactSum(w, left, right), Overflow}
  BY <1>1, <1>6, TreeSum
<1>8. f[RootVisit] = g[<<Root(arraySize), 0>>]
  BY <1>0, <1>4, RootVisitAt, RootOfSegments
<1> QED BY <1>2, <1>7, <1>8

-----------------------------------------------------------------------------
(***************************************************************************)
(* build.                                                                  *)
(***************************************************************************)
TreeBuilt(values, tree) ==
  \A c \in Interval(Len(values)) :
    tree[c] = IF IsLeaf(c) THEN <<[sum |-> values[c[1]], lazy |-> 0]>>
              ELSE <<[sum |-> CheckedAdd(tree[LeftHalf(c)][1].sum, tree[RightHalf(c)][1].sum),
                      lazy |-> 0]>>
                   \o tree[LeftHalf(c)] \o tree[RightHalf(c)]

LEMMA BuiltSteps ==
  ASSUME NEW values \in Seq(Value)
  PROVE  \E tree : /\ Built(values) = IF values = <<>> THEN <<>> ELSE tree[Root(Len(values))]
                   /\ TreeBuilt(values, tree)
<1> DEFINE n == Len(values)
           N == [sum : Outcome, lazy : {0}]
           V == Seq(N)
           D == {[segment |-> c] : c \in Interval(n)}
           Top(x) == <<[sum |-> CheckedAdd(x[1][1].sum, x[2][1].sum), lazy |-> 0]>>
           toLeft == [at \in D |-> [segment |-> LeftHalf(at.segment)]]
           toRight == [at \in D |-> [segment |-> RightHalf(at.segment)]]
           base == [at \in D |-> <<[sum |-> IF at.segment[1] \in 1 .. n THEN values[at.segment[1]]
                                           ELSE Overflow, lazy |-> 0]>>]
           join == [x \in V \X V |-> Top(x) \o x[1] \o x[2]]
           Solved(f) == [c \in Interval(n) |->
              IF IsLeaf(c) THEN <<[sum |-> values[c[1]], lazy |-> 0]>>
              ELSE <<[sum |-> CheckedAdd(f[LeftHalf(c)][1].sum, f[RightHalf(c)][1].sum),
                      lazy |-> 0]>>
                   \o f[LeftHalf(c)] \o f[RightHalf(c)]]
<1>1. n \in Nat /\ \A p \in 1 .. n : values[p] \in Outcome
  BY LenProperties, ElementOfSeq, OutcomeFacts
<1>2. base \in [D -> V]
  <2>1. \A at \in D : (IF at.segment[1] \in 1 .. n THEN values[at.segment[1]] ELSE Overflow) \in Outcome
    BY <1>1, OutcomeFacts
  <2> QED BY <2>1
<1>3. join \in [V \X V -> V]
  <2>1. ASSUME NEW x \in V \X V PROVE Top(x) \o x[1] \o x[2] \in V
    <3>1. Top(x) \in Seq(N)
      BY CheckedAddOutcome
    <3>2. x[1] \in Seq(N) /\ x[2] \in Seq(N)
      OBVIOUS
    <3> HIDE DEF Top, N
    <3>3. Top(x) \o x[1] \in Seq(N)
      BY <3>1, <3>2, ConcatProperties
    <3> QED BY <3>2, <3>3, ConcatProperties
  <2> HIDE DEF Top, V
  <2> QED BY <2>1
<1>4. \A at \in D :
        /\ at.segment \in Interval(n)
        /\ ~IsLeaf(at.segment) =>
             /\ toLeft[at] \in D /\ toLeft[at].segment = LeftHalf(at.segment)
             /\ toRight[at] \in D /\ toRight[at].segment = RightHalf(at.segment)
  <2> HIDE DEF n
  <2> QED BY <1>1, Halves
<1>5. PICK f : VisitSolution(f, D, V, {}, base, toLeft, toRight, join)
  <2>1. VisitRecursion(n, D, V, {}, base, toLeft, toRight, join)
    <3> HIDE DEF n, D, V, base, toLeft, toRight, join
    <3> QED BY <1>1, <1>2, <1>3, <1>4 DEF VisitRecursion, Visits
  <2> HIDE DEF n, D, V, base, toLeft, toRight, join
  <2> QED BY <2>1, VisitRecursionSolved
<1> DEFINE g == [c \in Interval(n) |-> f[[segment |-> c]]]
<1>6. ASSUME NEW c \in Interval(n) PROVE g[c] = Solved(g)[c]
  <2>1. PICK at \in D : at = [segment |-> c] /\ at.segment = c
    <3>1. [segment |-> c] \in D
      <4> HIDE DEF n
      <4> QED OBVIOUS
    <3>2. [segment |-> c].segment = c
      OBVIOUS
    <3> HIDE DEF D
    <3> QED BY <3>1, <3>2
  <2>2. g[c] = f[at]
    BY <2>1
  <2>3. CASE IsLeaf(c)
    <3>1. f[at] = base[at]
      BY <1>5, <2>1, <2>3 DEF VisitSolution
    <3>2. c[1] \in 1 .. n
      <4> HIDE DEF n
      <4> QED BY <1>1, Halves
    <3>3. base[at] = <<[sum |-> values[c[1]], lazy |-> 0]>>
      BY <2>1, <3>2
    <3> QED BY <2>2, <2>3, <3>1, <3>3
  <2>4. CASE ~IsLeaf(c)
    <3>1. f[at] = join[<<f[toLeft[at]], f[toRight[at]]>>]
      <4> HIDE DEF D, V, base, toLeft, toRight, join
      <4> QED BY <1>5, <2>1, <2>4 DEF VisitSolution
    <3>2. f[toLeft[at]] \in V /\ f[toRight[at]] \in V
      <4> HIDE DEF D, V, base, toLeft, toRight, join
      <4> QED BY <1>4, <1>5, <2>1, <2>4 DEF VisitSolution
    <3>3. toLeft[at] = [segment |-> LeftHalf(c)] /\ toRight[at] = [segment |-> RightHalf(c)]
      BY <2>1
    <3>4. LeftHalf(c) \in Interval(n) /\ RightHalf(c) \in Interval(n)
      <4> HIDE DEF n
      <4> QED BY <1>1, <2>4, Halves
    <3>5. g[LeftHalf(c)] = f[toLeft[at]] /\ g[RightHalf(c)] = f[toRight[at]]
      BY <3>3, <3>4
    <3>6. f[at] = Top(<<f[toLeft[at]], f[toRight[at]]>>) \o f[toLeft[at]] \o f[toRight[at]]
      <4> HIDE DEF V, toLeft, toRight, Top
      <4> QED BY <3>1, <3>2
    <3>7. Top(<<f[toLeft[at]], f[toRight[at]]>>)
            = <<[sum |-> CheckedAdd(g[LeftHalf(c)][1].sum, g[RightHalf(c)][1].sum), lazy |-> 0]>>
      <4> HIDE DEF g, toLeft, toRight
      <4> QED BY <3>5
    <3> HIDE DEF g, Top, toLeft, toRight, V
    <3> QED BY <2>2, <2>4, <3>5, <3>6, <3>7
  <2> QED BY <2>3, <2>4
<1>7. g = Solved(g)
  <2>1. g = [c \in Interval(n) |-> g[c]]
    OBVIOUS
  <2> HIDE DEF g
  <2> QED BY <1>6, <2>1
<1>8. PICK tree : /\ tree = Solved(tree)
                  /\ Built(values) = IF values = <<>> THEN <<>> ELSE tree[Root(n)]
  <2>1. \E h : h = Solved(h)
    <3> HIDE DEF g
    <3> QED BY <1>7
  <2> QED BY <2>1 DEF Built
<1>9. TreeBuilt(values, tree)
  <2>1. \A c \in Interval(n) : tree[c] = Solved(tree)[c]
    BY <1>8
  <2> QED BY <2>1 DEF TreeBuilt
<1> QED BY <1>8, <1>9

(* What build puts into the slots below a segment. *)
BuiltBelow(values, n, tree, c) ==
  /\ tree[c] \in Seq(Node) /\ Len(tree[c]) = 2 * Length(c) - 1
  /\ \A d \in Segments(n) : Within(d, c) =>
       /\ Slot(n)[d] - Slot(n)[c] + 1 \in 1 .. 2 * Length(c) - 1
       /\ tree[c][Slot(n)[d] - Slot(n)[c] + 1] = [sum |-> CanonicalSum(values)[d], lazy |-> 0]

(* The sums of an admissible array. *)
LEMMA AdmissibleSums ==
  ASSUME NEW values \in Seq(Value), Admissible(values), NEW n \in Nat, n = Len(values),
         NEW c \in Segments(n)
  PROVE  /\ c \in Interval(n)
         /\ CanonicalSum(values)[c] \in Value /\ CanonicalSum(values)[c] # Overflow
         /\ IsLeaf(c) => CanonicalSum(values)[c] = values[c[1]]
         /\ ~IsLeaf(c) =>
              /\ LeftHalf(c) \in Segments(n) /\ RightHalf(c) \in Segments(n)
              /\ CanonicalSum(values)[LeftHalf(c)] \in Value
              /\ CanonicalSum(values)[RightHalf(c)] \in Value
              /\ CanonicalSum(values)[c]
                   = CanonicalSum(values)[LeftHalf(c)] + CanonicalSum(values)[RightHalf(c)]
<1>1. n > 0 /\ values # <<>>
  <2>1. n # 0
    BY DEF Segments
  <2> QED BY <2>1, LenProperties
<1>2. \A p \in 1 .. Len(values) : values[p] \in Outcome
  BY ElementOfSeq, OutcomeFacts
<1>3. /\ Segments(n) \in SUBSET Interval(n) /\ Closed(Segments(n)) /\ Root(n) \in Interval(n)
  BY <1>1, SegmentsClosed
<1> DEFINE F == {d \in Interval(n) : CanonicalSum(values)[d] # Overflow}
<1>4. \A d \in F :
        /\ CanonicalSum(values)[d] \in Value
        /\ IsLeaf(d) => CanonicalSum(values)[d] = values[d[1]]
        /\ ~IsLeaf(d) =>
             /\ CanonicalSum(values)[LeftHalf(d)] # Overflow
             /\ CanonicalSum(values)[RightHalf(d)] # Overflow
             /\ CanonicalSum(values)[d]
                  = CanonicalSum(values)[LeftHalf(d)] + CanonicalSum(values)[RightHalf(d)]
  BY <1>2, CanonicalSumExact
<1>5. Segments(n) \subseteq F
  <2>1. Root(n) \in F
    BY <1>1, <1>3 DEF Admissible
  <2>2. Closed(F)
    <3>1. \A d \in Interval(n) : ~IsLeaf(d) => /\ LeftHalf(d) \in Interval(n)
                                               /\ RightHalf(d) \in Interval(n)
      BY Halves
    <3> QED BY <1>4, <3>1 DEF Closed
  <2>3. F \in SUBSET Interval(n)
    OBVIOUS
  <2> HIDE DEF F
  <2> QED BY <2>1, <2>2, <2>3, SegmentsWithin
<1>6. ~IsLeaf(c) => LeftHalf(c) \in Segments(n) /\ RightHalf(c) \in Segments(n)
  BY <1>3 DEF Closed
<1>7. \A d \in Segments(n) : d \in F
  BY <1>5
<1> HIDE DEF F
<1>8. /\ CanonicalSum(values)[c] \in Value
      /\ ~IsLeaf(c) => /\ CanonicalSum(values)[LeftHalf(c)] \in Value
                       /\ CanonicalSum(values)[RightHalf(c)] \in Value
  BY <1>4, <1>6, <1>7
<1> QED BY <1>3, <1>4, <1>6, <1>7, <1>8, ValueFacts

LEMMA BuiltInOrder ==
  ASSUME NEW values \in Seq(Value), Admissible(values), NEW n \in Nat, n = Len(values),
         NEW tree, TreeBuilt(values, tree)
  PROVE  \A c \in Segments(n) : BuiltBelow(values, n, tree, c)
<1> DEFINE T == {c \in Segments(n) : BuiltBelow(values, n, tree, c)}
<1>0. PICK C, slot : /\ slot = Slot(n)
                     /\ C = [d \in Segments(n) |-> [sum |-> CanonicalSum(values)[d], lazy |-> 0]]
  OBVIOUS
<1>9. \A d \in Segments(n) : C[d] = [sum |-> CanonicalSum(values)[d], lazy |-> 0]
  BY <1>0
<1>1. Placed(n, slot)
  BY <1>0, SlotPlaced
<1>2. \A c \in Segments(n) :
        /\ slot[c] \in Int
        /\ ~IsLeaf(c) => /\ slot[LeftHalf(c)] = slot[c] + 1
                         /\ slot[RightHalf(c)] = slot[c] + 2 * Length(LeftHalf(c))
  <2>1. CanonicalNodeCount(n) \in Int
    BY DEF CanonicalNodeCount
  <2> QED BY <1>1, <2>1 DEF Placed, LeftChild, RightChild
<1>3. ASSUME NEW c \in Segments(n) PROVE C[c] \in Node
  <2>1. CanonicalSum(values)[c] \in Value /\ 0 \in Value
    BY AdmissibleSums, ValueFacts
  <2>2. C[c] = [sum |-> CanonicalSum(values)[c], lazy |-> 0]
    BY <1>9
  <2> QED BY <2>1, <2>2 DEF Node
<1>4. ASSUME NEW c \in Segments(n), IsLeaf(c) PROVE BuiltBelow(values, n, tree, c)
  <2>1. c \in Interval(n) /\ CanonicalSum(values)[c] = values[c[1]]
    BY <1>4, AdmissibleSums
  <2>2. tree[c] = <<C[c]>>
    BY <1>4, <1>9, <2>1 DEF TreeBuilt
  <2>3. Length(c) = 1
    BY <1>4, <2>1, Halves DEF Length, IsLeaf
  <2>4. \A d \in Segments(n) : Within(d, c) => d = c
    BY <1>4, WithinHalves
  <2>5. slot[c] - slot[c] + 1 = 1
    BY <1>2
  <2>6. tree[c] \in Seq(Node) /\ Len(tree[c]) = 2 * Length(c) - 1 /\ tree[c][1] = C[c]
    <3> QED BY <1>3, <2>2, <2>3
  <2>7. ASSUME NEW d \in Segments(n), Within(d, c)
        PROVE  /\ slot[d] - slot[c] + 1 \in 1 .. 2 * Length(c) - 1
               /\ tree[c][slot[d] - slot[c] + 1] = C[d]
    <3>1. d = c
      BY <2>4, <2>7
    <3> QED BY <2>3, <2>5, <2>6, <3>1
  <2> QED BY <1>0, <1>9, <2>6, <2>7 DEF BuiltBelow
<1>5. ASSUME NEW c \in Segments(n), ~IsLeaf(c),
             BuiltBelow(values, n, tree, LeftHalf(c)), BuiltBelow(values, n, tree, RightHalf(c))
      PROVE  BuiltBelow(values, n, tree, c)
  <2>0. PICK l, r : l = LeftHalf(c) /\ r = RightHalf(c)
    OBVIOUS
  <2>1. /\ c \in Interval(n) /\ l \in Segments(n) /\ r \in Segments(n)
        /\ CanonicalSum(values)[c] = CanonicalSum(values)[l] + CanonicalSum(values)[r]
        /\ CanonicalSum(values)[c] \in Value
        /\ CanonicalSum(values)[l] # Overflow /\ CanonicalSum(values)[r] # Overflow
    BY <1>5, <2>0, AdmissibleSums, ValueFacts
  <2>2. PICK x, y \in Nat : /\ x = Length(l) /\ y = Length(r) /\ Length(c) = x + y
                            /\ x >= 1 /\ y >= 1
    <3>1. /\ Length(c) = Length(l) + Length(r)
          /\ Length(l) \in 1 .. Length(c) - 1 /\ Length(r) \in 1 .. Length(c) - 1
      BY <1>5, <2>0, <2>1, HalvesLength
    <3>2. Length(c) \in Nat
      BY <2>1, Halves
    <3> QED BY <3>1, <3>2
  <2>3. l \in Interval(n) /\ r \in Interval(n)
    BY <1>5, <2>0, <2>1, Halves
  <2>4. Within(l, l) /\ Within(r, r)
    <3> QED BY <2>3, Halves DEF Within
  <2>5. PICK s, t \in Seq(Node) :
          /\ s = tree[l] /\ t = tree[r] /\ Len(s) = 2 * x - 1 /\ Len(t) = 2 * y - 1
          /\ \A d \in Segments(n) : Within(d, l) =>
               slot[d] - slot[l] + 1 \in 1 .. 2 * x - 1 /\ s[slot[d] - slot[l] + 1] = C[d]
          /\ \A d \in Segments(n) : Within(d, r) =>
               slot[d] - slot[r] + 1 \in 1 .. 2 * y - 1 /\ t[slot[d] - slot[r] + 1] = C[d]
    BY <1>0, <1>5, <1>9, <2>0, <2>2 DEF BuiltBelow
  <2>6. s[1] = C[l] /\ t[1] = C[r]
    <3>1. slot[l] - slot[l] + 1 = 1 /\ slot[r] - slot[r] + 1 = 1
      <4> QED BY <1>2, <2>1
    <3> QED BY <2>1, <2>4, <2>5, <3>1
  <2>7. PICK top \in Seq(Node) : top = <<C[c]>>
    <3>1. C[c] \in Node
      BY <1>3
    <3>2. <<C[c]>> \in Seq(Node)
      BY <3>1
    <3> QED BY <3>2
  <2>14. /\ x >= 1 /\ y >= 1 /\ Len(s) = 2 * x - 1 /\ Len(t) = 2 * y - 1
         /\ Len(top) = 1 /\ top[1] = C[c]
    <3>1. Len(<<C[c]>>) = 1 /\ <<C[c]>>[1] = C[c]
      OBVIOUS
    <3> QED BY <2>2, <2>5, <2>7, <3>1
  <2>8. tree[c] = top \o s \o t
    <3>1. tree[c] = <<[sum |-> CheckedAdd(s[1].sum, t[1].sum), lazy |-> 0]>> \o s \o t
      BY <1>5, <2>0, <2>1, <2>5 DEF TreeBuilt
    <3>2. s[1].sum = CanonicalSum(values)[l] /\ t[1].sum = CanonicalSum(values)[r]
      <4>1. /\ C[l] = [sum |-> CanonicalSum(values)[l], lazy |-> 0]
            /\ C[r] = [sum |-> CanonicalSum(values)[r], lazy |-> 0]
        BY <1>9, <2>1
      <4> QED BY <2>6, <4>1
    <3>3. CheckedAdd(s[1].sum, t[1].sum) = CanonicalSum(values)[c]
      BY <2>1, <3>2 DEF CheckedAdd, Representable
    <3> QED BY <1>9, <2>7, <3>1, <3>3
  <2>9. PICK u \in Seq(Node) : /\ u = top \o s /\ Len(u) = 2 * x
                               /\ \A j \in 1 .. 2 * x : u[j] = IF j = 1 THEN C[c] ELSE s[j - 1]
    <3>1. /\ top \o s \in Seq(Node) /\ Len(top \o s) = Len(top) + Len(s)
          /\ \A j \in 1 .. Len(top) + Len(s) :
               (top \o s)[j] = IF j <= Len(top) THEN top[j] ELSE s[j - Len(top)]
      BY ConcatProperties
    <3>2. PICK u \in Seq(Node) : /\ u = top \o s /\ Len(u) = 1 + (2 * x - 1)
                                 /\ \A j \in 1 .. 1 + (2 * x - 1) :
                                      u[j] = IF j <= 1 THEN top[j] ELSE s[j - 1]
      BY <2>14, <3>1
    <3>3. ASSUME NEW j \in 1 .. 2 * x PROVE u[j] = IF j = 1 THEN C[c] ELSE s[j - 1]
      <4>1. j \in 1 .. 1 + (2 * x - 1) /\ (j <= 1 <=> j = 1)
        OBVIOUS
      <4> QED BY <2>14, <3>2, <4>1
    <3>4. 1 + (2 * x - 1) = 2 * x
      OBVIOUS
    <3> QED BY <3>2, <3>3, <3>4
  <2>10. /\ tree[c] \in Seq(Node) /\ Len(tree[c]) = 2 * x + 2 * y - 1
         /\ \A j \in 1 .. 2 * x + 2 * y - 1 :
              tree[c][j] = IF j = 1 THEN C[c]
                           ELSE IF j <= 2 * x THEN s[j - 1] ELSE t[j - 2 * x]
    <3>1. /\ u \o t \in Seq(Node) /\ Len(u \o t) = Len(u) + Len(t)
          /\ \A j \in 1 .. Len(u) + Len(t) :
               (u \o t)[j] = IF j <= Len(u) THEN u[j] ELSE t[j - Len(u)]
      BY ConcatProperties
    <3>2. tree[c] = u \o t
      BY <2>8, <2>9
    <3>3. PICK v \in Seq(Node) : /\ v = tree[c] /\ Len(v) = 2 * x + (2 * y - 1)
                                 /\ \A j \in 1 .. 2 * x + (2 * y - 1) :
                                      v[j] = IF j <= 2 * x THEN u[j] ELSE t[j - 2 * x]
      <4>1. Len(u) = 2 * x /\ Len(t) = 2 * y - 1
        BY <2>9, <2>14
      <4>2. PICK v \in Seq(Node) :
              /\ v = u \o t /\ Len(v) = Len(u) + Len(t)
              /\ \A j \in 1 .. Len(u) + Len(t) :
                   v[j] = IF j <= Len(u) THEN u[j] ELSE t[j - Len(u)]
        BY <3>1
      <4>3. Len(v) = 2 * x + (2 * y - 1)
        BY <4>1, <4>2
      <4>4. \A j \in 1 .. 2 * x + (2 * y - 1) : v[j] = IF j <= 2 * x THEN u[j] ELSE t[j - 2 * x]
        BY <4>1, <4>2
      <4> QED BY <3>2, <4>2, <4>3, <4>4
    <3>4. ASSUME NEW j \in 1 .. 2 * x + 2 * y - 1
          PROVE  v[j] = IF j = 1 THEN C[c] ELSE IF j <= 2 * x THEN s[j - 1] ELSE t[j - 2 * x]
      <4>1. j \in 1 .. 2 * x + (2 * y - 1)
        OBVIOUS
      <4>2. CASE j <= 2 * x
        <5>1. v[j] = u[j] /\ j \in 1 .. 2 * x
          BY <3>3, <4>1, <4>2
        <5> QED BY <2>9, <4>2, <5>1
      <4>3. CASE ~(j <= 2 * x)
        <5>1. v[j] = t[j - 2 * x] /\ j # 1
          BY <2>14, <3>3, <4>1, <4>3
        <5> QED BY <4>3, <5>1
      <4> QED BY <4>2, <4>3
    <3>5. 2 * x + (2 * y - 1) = 2 * x + 2 * y - 1
      OBVIOUS
    <3> QED BY <3>3, <3>4, <3>5
  <2>11. /\ slot[l] = slot[c] + 1 /\ slot[r] = slot[c] + 2 * x /\ slot[c] \in Int
    BY <1>2, <1>5, <2>0, <2>2
  <2>12. ASSUME NEW d \in Segments(n), Within(d, c)
         PROVE  /\ slot[d] - slot[c] + 1 \in 1 .. 2 * Length(c) - 1
                /\ tree[c][slot[d] - slot[c] + 1] = C[d]
    <3>1. d = c \/ Within(d, l) \/ Within(d, r)
      BY <1>5, <2>0, <2>12, WithinHalves
    <3>2. PICK a \in Int : a = slot[c]
      BY <1>2
    <3>6. PICK b \in Int : b = slot[d]
      BY <1>2
    <3>7. PICK j \in Int : j = b - a + 1
      OBVIOUS
    <3>8. slot[d] - slot[c] + 1 = j
      BY <3>2, <3>6, <3>7
    <3>9. SUFFICES j \in 1 .. 2 * x + 2 * y - 1 /\ tree[c][j] = C[d]
      <4>1. 2 * Length(c) - 1 = 2 * x + 2 * y - 1
        BY <2>2
      <4> QED BY <3>8, <4>1
    <3>3. CASE d = c
      <4>1. j = 1
        BY <3>2, <3>3, <3>6, <3>7
      <4>2. 1 \in 1 .. 2 * x + 2 * y - 1
        BY <2>14
      <4> QED BY <2>10, <3>3, <4>1, <4>2
    <3>4. CASE Within(d, l)
      <4>1. slot[d] - slot[l] + 1 \in 1 .. 2 * x - 1 /\ s[slot[d] - slot[l] + 1] = C[d]
        BY <2>5, <3>4
      <4>2. slot[d] - slot[l] + 1 = j - 1
        <5>1. slot[l] = a + 1
          BY <2>11, <3>2
        <5>2. b - (a + 1) + 1 = j - 1
          BY <3>7
        <5> QED BY <3>6, <5>1, <5>2
      <4>3. j - 1 \in 1 .. 2 * x - 1 /\ s[j - 1] = C[d]
        BY <4>1, <4>2
      <4>4. j \in 1 .. 2 * x + 2 * y - 1 /\ j # 1 /\ j <= 2 * x
        BY <2>14, <4>3
      <4> QED BY <2>10, <4>3, <4>4
    <3>5. CASE Within(d, r)
      <4>1. slot[d] - slot[r] + 1 \in 1 .. 2 * y - 1 /\ t[slot[d] - slot[r] + 1] = C[d]
        BY <2>5, <3>5
      <4>2. slot[d] - slot[r] + 1 = j - 2 * x
        <5>1. slot[r] = a + 2 * x
          BY <2>11, <3>2
        <5>2. b - (a + 2 * x) + 1 = j - 2 * x
          BY <3>7
        <5> QED BY <3>6, <5>1, <5>2
      <4>3. j - 2 * x \in 1 .. 2 * y - 1 /\ t[j - 2 * x] = C[d]
        BY <4>1, <4>2
      <4>4. j \in 1 .. 2 * x + 2 * y - 1 /\ j # 1 /\ ~(j <= 2 * x)
        BY <2>14, <4>3
      <4> QED BY <2>10, <4>3, <4>4
    <3> QED BY <3>1, <3>3, <3>4, <3>5
  <2>13. Len(tree[c]) = 2 * Length(c) - 1
    BY <2>2, <2>10
  <2> QED BY <1>0, <1>9, <2>10, <2>12, <2>13 DEF BuiltBelow
<1>6. ASSUME NEW c \in Segments(n), IsLeaf(c) \/ (LeftHalf(c) \in T /\ RightHalf(c) \in T)
      PROVE  c \in T
  BY <1>4, <1>5, <1>6
<1>7. Segments(n) \subseteq T
  <2> HIDE DEF T
  <2> QED BY <1>6, PartitionInduction
<1> QED BY <1>7

(* build makes a tree of its array. *)
LEMMA BuiltIsTree ==
  ASSUME NEW values \in Seq(Value), Admissible(values)
  PROVE  TreeFor(Len(values), Built(values), values)
<1>1. PICK n \in Nat : n = Len(values)
  BY LenProperties
<1>2. PICK tree : /\ Built(values) = IF values = <<>> THEN <<>> ELSE tree[Root(n)]
                  /\ TreeBuilt(values, tree)
  BY <1>1, BuiltSteps
<1> DEFINE nodes == Built(values)
           L == Labels(n, nodes)
<1>3. /\ nodes \in Seq(Node) /\ Len(nodes) = CanonicalNodeCount(n)
      /\ \A c \in Segments(n) : L[c] = [sum |-> CanonicalSum(values)[c], lazy |-> 0]
  <2>1. CASE n = 0
    <3>1. values = <<>>
      BY <1>1, <2>1, EmptySeq
    <3>2. nodes = <<>>
      BY <1>2, <3>1
    <3>3. <<>> \in Seq(Node) /\ Len(<<>>) = 0
      OBVIOUS
    <3>4. Segments(n) = {} /\ CanonicalNodeCount(n) = 0
      BY <2>1 DEF Segments, CanonicalNodeCount
    <3> HIDE DEF nodes
    <3> QED BY <3>2, <3>3, <3>4
  <2>2. CASE n # 0
    <3>1. Root(n) \in Segments(n) /\ Length(Root(n)) = n /\ Root(n) \in Interval(n)
      BY <2>2, SegmentsClosed DEF Length, Root
    <3>2. values # <<>>
      BY <1>1, <2>2
    <3>3. nodes = tree[Root(n)]
      BY <1>2, <3>2
    <3>4. BuiltBelow(values, n, tree, Root(n))
      BY <1>1, <1>2, <3>1, BuiltInOrder
    <3>5. Len(nodes) = CanonicalNodeCount(n) /\ nodes \in Seq(Node)
      BY <2>2, <3>1, <3>3, <3>4 DEF BuiltBelow, CanonicalNodeCount
    <3>6. ASSUME NEW c \in Segments(n)
          PROVE  L[c] = [sum |-> CanonicalSum(values)[c], lazy |-> 0]
      <4>1. Within(c, Root(n))
        <5>1. c \in Interval(n)
          BY <2>2, SegmentsClosed
        <5> QED BY <5>1, Halves DEF Within, Root
      <4>2. Slot(n)[Root(n)] = 1 /\ Slot(n)[c] \in Int
        <5>1. CanonicalNodeCount(n) \in Int
          BY DEF CanonicalNodeCount
        <5> QED BY <2>2, <5>1, SlotPlaced DEF Placed
      <4>3. Slot(n)[c] - 1 + 1 = Slot(n)[c]
        BY <4>2
      <4>4. L[c] = nodes[Slot(n)[c]]
        BY DEF Labels
      <4> HIDE DEF L, nodes
      <4> QED BY <3>3, <3>4, <4>1, <4>2, <4>3, <4>4 DEF BuiltBelow
    <3> QED BY <3>5, <3>6
  <2> QED BY <2>1, <2>2
<1>4. \A c \in Segments(n) : L[c].sum = CanonicalSum(values)[c] /\ L[c].lazy = 0
  <2>1. ASSUME NEW c \in Segments(n) PROVE L[c].sum = CanonicalSum(values)[c] /\ L[c].lazy = 0
    <3>1. L[c] = [sum |-> CanonicalSum(values)[c], lazy |-> 0]
      BY <1>3
    <3> HIDE DEF L, nodes
    <3> QED BY <3>1
  <2> HIDE DEF L, nodes
  <2> QED BY <2>1
<1>5. Labelled(n, L)
  <2> HIDE DEF L, nodes
  <2> SUFFICES ASSUME NEW c \in Segments(n)
               PROVE  /\ L[c].sum \in Value /\ L[c].lazy \in Value
                      /\ ~IsLeaf(c) => SumOK(L[c], L[LeftHalf(c)], L[RightHalf(c)], Length(c))
    BY DEF Labelled
  <2>1. L[c].sum \in Value /\ L[c].lazy \in Value
    BY <1>1, <1>4, AdmissibleSums, ValueFacts
  <2>2. ASSUME ~IsLeaf(c)
        PROVE  L[c].sum = L[LeftHalf(c)].sum + L[RightHalf(c)].sum + L[c].lazy * Length(c)
    <3>1. /\ LeftHalf(c) \in Segments(n) /\ RightHalf(c) \in Segments(n)
          /\ CanonicalSum(values)[LeftHalf(c)] \in Int
          /\ CanonicalSum(values)[RightHalf(c)] \in Int
          /\ CanonicalSum(values)[c]
               = CanonicalSum(values)[LeftHalf(c)] + CanonicalSum(values)[RightHalf(c)]
      BY <1>1, <2>2, AdmissibleSums, ValueFacts
    <3>2. Length(c) \in Int
      BY <1>1, AdmissibleSums, Halves
    <3> QED BY <1>4, <3>1, <3>2
  <2> QED BY <2>1, <2>2 DEF SumOK
<1>6. SumsFit(n, L)
  <2> HIDE DEF L, nodes
  <2> QED BY <1>1, <1>4, AdmissibleSums DEF SumsFit
<1>7. TreeOf(n, L, values)
  <2>1. \A c \in Segments(n) : IF IsLeaf(c) THEN L[c].sum = values[c[1]] ELSE L[c].lazy = 0
    <3> HIDE DEF L, nodes
    <3> QED BY <1>1, <1>4, AdmissibleSums
  <2> HIDE DEF L, nodes
  <2> QED BY <1>1, <1>5, <2>1, UntaggedTreeOf
<1> QED BY <1>1, <1>3, <1>6, <1>7 DEF TreeFor

-----------------------------------------------------------------------------
(***************************************************************************)
(* The segments an update writes.                                          *)
(***************************************************************************)

(* Those are the whole array, and the halves of the written ones that meet *)
(* the range and are not below one it covers.                              *)
LEMMA VisitedHalves ==
  ASSUME NEW n \in Nat, NEW left \in Int, NEW right \in Int, NEW c \in Segments(n), ~IsLeaf(c),
         NEW side \in Sides
  PROVE  Half(c, side) \in Visited(n, left, right)
           <=> /\ c \in Visited(n, left, right) /\ ~Covers(left, right, c)
               /\ ~Disjoint(left, right, Half(c, side))
<1>1. /\ n > 0 /\ Segments(n) \in SUBSET Interval(n) /\ c \in Interval(n)
      /\ LeftHalf(c) \in Segments(n) /\ RightHalf(c) \in Segments(n)
  <2>1. n > 0
    BY DEF Segments
  <2> QED BY <2>1, SegmentsClosed DEF Closed
<1>2. PICK h \in Segments(n) : /\ h = Half(c, side) /\ h \in Interval(n)
                               /\ h = LeftHalf(c) \/ h = RightHalf(c)
                               /\ Within(h, c) /\ ~Within(c, h) /\ h # c
  <2>1. /\ Half(c, side) \in Segments(n)
        /\ Half(c, side) = LeftHalf(c) \/ Half(c, side) = RightHalf(c)
    BY <1>1 DEF Half
  <2>2. c[1] \in Int /\ c[2] \in Int /\ c[1] <= Midpoint(c) /\ Midpoint(c) < c[2]
        /\ Midpoint(c) \in Int
    BY <1>1, Halves
  <2>3. /\ LeftHalf(c)[1] = c[1] /\ LeftHalf(c)[2] = Midpoint(c)
        /\ RightHalf(c)[1] = Midpoint(c) + 1 /\ RightHalf(c)[2] = c[2]
    BY DEF LeftHalf, RightHalf
  <2>4. /\ Within(LeftHalf(c), c) /\ ~Within(c, LeftHalf(c))
        /\ Within(RightHalf(c), c) /\ ~Within(c, RightHalf(c))
    BY <2>2, <2>3 DEF Within
  <2>5. Within(c, c)
    BY <2>2 DEF Within
  <2> QED BY <1>1, <2>1, <2>4, <2>5
<1>3. \A d, e \in Segments(n) : Within(d, e) <=> e[1] <= d[1] /\ d[2] <= e[2]
  BY DEF Within
<1>4. ASSUME h \in Visited(n, left, right)
      PROVE  /\ c \in Visited(n, left, right) /\ ~Covers(left, right, c)
             /\ ~Disjoint(left, right, h)
  <2>1. /\ ~Disjoint(left, right, h)
        /\ \A a \in Segments(n) : Within(h, a) /\ a # h => ~Covers(left, right, a)
    BY <1>3, <1>4 DEF Visited
  <2>2. ~Covers(left, right, c)
    BY <1>2, <2>1
  <2>3. ~Disjoint(left, right, c)
    <3>1. h[1] \in Int /\ h[2] \in Int /\ c[1] \in Int /\ c[2] \in Int
      BY <1>1, <1>2, Halves
    <3> QED BY <1>2, <2>1, <3>1 DEF Disjoint, Within
  <2>4. ASSUME NEW a \in Segments(n), Within(c, a), a # c
        PROVE  ~Covers(left, right, a)
    <3>1. a \in Interval(n)
      BY <1>1
    <3>2. Within(h, a)
      BY <1>1, <1>2, <2>4, <3>1, WithinTransitive
    <3>3. a # h
      BY <1>2, <2>4
    <3> QED BY <2>1, <3>2, <3>3
  <2>5. c \in Visited(n, left, right)
    BY <1>3, <2>3, <2>4 DEF Visited
  <2> QED BY <2>1, <2>2, <2>5
<1>5. ASSUME c \in Visited(n, left, right), ~Covers(left, right, c), ~Disjoint(left, right, h)
      PROVE  h \in Visited(n, left, right)
  <2>1. \A a \in Segments(n) : Within(c, a) /\ a # c => ~Covers(left, right, a)
    BY <1>3, <1>5 DEF Visited
  <2>2. ASSUME NEW a \in Segments(n), Within(h, a), a # h
        PROVE  ~Covers(left, right, a)
    <3>1. a \in Interval(n)
      BY <1>1
    <3>2. ~Apart(c, a)
      BY <1>1, <1>2, <2>2, <3>1, InsideFacts
    <3>3. Laminar(c, a)
      BY SegmentsLaminar
    <3>4. CASE c = a
      BY <1>5, <3>4
    <3>5. CASE Inside(c, a)
      <4>1. Within(c, a) /\ c # a
        BY <1>1, <3>1, <3>5, InsideFacts
      <4> QED BY <2>1, <4>1
    <3>6. CASE Inside(a, c)
      <4>1. /\ c[1] \in Int /\ c[2] \in Int /\ Midpoint(c) \in Int
            /\ c[1] <= Midpoint(c) /\ Midpoint(c) < c[2]
            /\ a[1] \in Int /\ a[2] \in Int /\ a[1] <= a[2]
            /\ h[1] \in Int /\ h[2] \in Int /\ h[1] <= h[2]
        BY <1>1, <1>2, <3>1, Halves
      <4>2. /\ LeftHalf(c)[1] = c[1] /\ LeftHalf(c)[2] = Midpoint(c)
            /\ RightHalf(c)[1] = Midpoint(c) + 1 /\ RightHalf(c)[2] = c[2]
        BY DEF LeftHalf, RightHalf
      <4>3. Within(a, h)
        BY <1>2, <2>2, <3>6, <4>1, <4>2 DEF Inside, Within
      <4>4. a = h
        BY <1>2, <2>2, <3>1, <4>3, InsideFacts
      <4> QED BY <2>2, <4>4
    <3> QED BY <3>2, <3>3, <3>4, <3>5, <3>6 DEF Laminar
  <2> QED BY <1>3, <1>5, <2>2 DEF Visited
<1> QED BY <1>2, <1>4, <1>5

LEMMA VisitedFacts ==
  ASSUME NEW n \in Nat, NEW left \in 1 .. n, NEW right \in left .. n
  PROVE  /\ Root(n) \in Visited(n, left, right)
         /\ Visited(n, left, right) \subseteq Segments(n)
         /\ \A c \in Visited(n, left, right) : ~Disjoint(left, right, c)
         /\ \A c \in Visited(n, left, right), d \in Visited(n, left, right) :
              Within(d, c) /\ d # c => ~Covers(left, right, c)
<1>1. n # 0
  OBVIOUS
<1>2. Root(n) \in Segments(n) /\ Root(n)[1] = 1 /\ Root(n)[2] = n
  BY <1>1, RootOfSegments
<1>3. ~Disjoint(left, right, Root(n))
  BY <1>2 DEF Disjoint
<1>4. ASSUME NEW a \in Segments(n), a[1] <= 1, n <= a[2] PROVE a = Root(n)
  <2>1. a \in Interval(n)
    BY <1>1, SegmentsClosed
  <2>2. a[1] \in 1 .. n /\ a[2] \in 1 .. n /\ a = <<a[1], a[2]>>
    BY <2>1, Halves
  <2>3. a[1] = 1 /\ a[2] = n
    BY <1>4, <2>2
  <2> QED BY <2>2, <2>3 DEF Root
<1>5. Root(n) \in Visited(n, left, right)
  BY <1>2, <1>3, <1>4 DEF Visited
<1>6. /\ Visited(n, left, right) \subseteq Segments(n)
      /\ \A c \in Visited(n, left, right) : ~Disjoint(left, right, c)
      /\ \A c \in Visited(n, left, right), d \in Visited(n, left, right) :
           Within(d, c) /\ d # c => ~Covers(left, right, c)
  BY DEF Visited, Within
<1> QED BY <1>5, <1>6

(***************************************************************************)
(* A list of the writes below a segment: a node is written after all of    *)
(* those below it.                                                         *)
(***************************************************************************)
Ordered(s) == \A j, k \in DOMAIN s : j < k => ~Within(s[k].segment, s[j].segment)

Lists(n, left, right, c, s) ==
  /\ \A k \in DOMAIN s :
       /\ s[k].segment \in Visited(n, left, right) /\ Within(s[k].segment, c)
       /\ s[k].node = Slot(n)[s[k].segment]
  /\ \A d \in Visited(n, left, right) : Within(d, c) => \E k \in DOMAIN s : s[k].segment = d
  /\ Ordered(s)

LEMMA ListsJoined ==
  ASSUME NEW n \in Nat, NEW left \in 1 .. n, NEW right \in left .. n,
         NEW c \in Visited(n, left, right), ~IsLeaf(c),
         NEW W, NEW s \in Seq(W), NEW t \in Seq(W), NEW w \in W,
         Lists(n, left, right, LeftHalf(c), s), Lists(n, left, right, RightHalf(c), t),
         w.segment = c, w.node = Slot(n)[c]
  PROVE  Lists(n, left, right, c, s \o t \o <<w>>)
<1> DEFINE D == Visited(n, left, right)
<1>1. c \in Segments(n) /\ D \subseteq Segments(n) /\ n > 0
  <2>1. D \subseteq Segments(n)
    BY VisitedFacts
  <2>2. c \in D /\ n > 0
    OBVIOUS
  <2> HIDE DEF D
  <2> QED BY <2>1, <2>2
<1>2. PICK l, r \in Segments(n) :
        /\ l = LeftHalf(c) /\ r = RightHalf(c)
        /\ l \in Interval(n) /\ r \in Interval(n) /\ c \in Interval(n)
  BY <1>1, SegmentsClosed DEF Closed
<1>3. ASSUME NEW d \in Segments(n)
      PROVE  /\ d \in Interval(n)
             /\ Within(d, l) => Within(d, c) /\ ~Within(c, d)
             /\ Within(d, r) => Within(d, c) /\ ~Within(c, d)
             /\ Within(d, l) => \A e \in Segments(n) : Within(e, r) => ~Within(e, d)
             /\ Within(d, c) => d = c \/ Within(d, l) \/ Within(d, r)
  <2>1. d \in Interval(n)
    BY <1>1, SegmentsClosed
  <2>2. /\ c[1] \in Int /\ c[2] \in Int /\ Midpoint(c) \in Int
        /\ c[1] <= Midpoint(c) /\ Midpoint(c) < c[2]
        /\ d[1] \in Int /\ d[2] \in Int /\ d[1] <= d[2]
    BY <1>2, <2>1, Halves
  <2>3. /\ l[1] = c[1] /\ l[2] = Midpoint(c) /\ r[1] = Midpoint(c) + 1 /\ r[2] = c[2]
    BY <1>2 DEF LeftHalf, RightHalf
  <2>4. ASSUME Within(d, l), NEW e \in Segments(n), Within(e, r) PROVE ~Within(e, d)
    <3>1. e \in Interval(n)
      BY <1>1, SegmentsClosed
    <3>2. e[1] \in Int /\ e[2] \in Int /\ e[1] <= e[2]
      BY <3>1, Halves
    <3> QED BY <2>2, <2>3, <2>4, <3>2 DEF Within
  <2>5. Within(d, c) => d = c \/ Within(d, l) \/ Within(d, r)
    BY <1>1, <1>2, WithinHalves
  <2>6. /\ Within(d, l) => Within(d, c) /\ ~Within(c, d)
        /\ Within(d, r) => Within(d, c) /\ ~Within(c, d)
    BY <2>2, <2>3 DEF Within
  <2> QED BY <2>1, <2>4, <2>5, <2>6
<1>4. Within(c, c)
  BY <1>2, Halves DEF Within
<1>5. PICK x, y \in Nat : x = Len(s) /\ y = Len(t)
  BY LenProperties
<1>6. DOMAIN s = 1 .. x /\ DOMAIN t = 1 .. y
  BY <1>5, LenProperties
<1>7. PICK u \in Seq(W) :
        /\ u = s \o t /\ Len(u) = x + y /\ DOMAIN u = 1 .. x + y
        /\ \A k \in 1 .. x + y : u[k] = IF k <= x THEN s[k] ELSE t[k - x]
  <2>1. /\ s \o t \in Seq(W) /\ Len(s \o t) = Len(s) + Len(t)
        /\ \A k \in 1 .. Len(s) + Len(t) :
             (s \o t)[k] = IF k <= Len(s) THEN s[k] ELSE t[k - Len(s)]
    BY ConcatProperties
  <2>2. PICK u \in Seq(W) : u = s \o t
    BY <2>1
  <2>3. Len(u) = x + y
    BY <1>5, <2>1, <2>2
  <2>4. DOMAIN u = 1 .. x + y
    BY <2>3, LenProperties
  <2>5. \A k \in 1 .. x + y : u[k] = IF k <= x THEN s[k] ELSE t[k - x]
    BY <1>5, <2>1, <2>2
  <2> QED BY <2>2, <2>3, <2>4, <2>5
<1>8. PICK v : /\ v = u \o <<w>> /\ DOMAIN v = 1 .. x + y + 1
               /\ \A k \in 1 .. x + y + 1 : v[k] = IF k <= x + y THEN u[k] ELSE w
  <2>1. u \o <<w>> = Append(u, w)
    BY <1>7, AppendIsConcat
  <2>2. /\ Append(u, w) \in Seq(W) /\ Len(Append(u, w)) = x + y + 1
        /\ \A k \in 1 .. x + y : Append(u, w)[k] = u[k]
        /\ Append(u, w)[x + y + 1] = w
    BY <1>7, AppendProperties
  <2>3. DOMAIN Append(u, w) = 1 .. x + y + 1
    BY <2>2, LenProperties
  <2>4. ASSUME NEW k \in 1 .. x + y + 1
        PROVE  Append(u, w)[k] = IF k <= x + y THEN u[k] ELSE w
    <3>0. PICK m \in Nat : m = x + y
      BY <1>5
    <3>1. k \in 1 .. x + y \/ k = x + y + 1
      <4>1. k \in 1 .. m + 1
        BY <2>4, <3>0
      <4>2. k \in 1 .. m \/ k = m + 1
        BY <4>1
      <4> QED BY <3>0, <4>2
    <3> QED BY <2>2, <3>1
  <2> QED BY <2>1, <2>3, <2>4
<1>9. \A k \in 1 .. x + y + 1 :
        /\ k <= x => k \in 1 .. x /\ v[k] = s[k]
        /\ k > x /\ k <= x + y => k - x \in 1 .. y /\ v[k] = t[k - x]
        /\ k > x + y => k = x + y + 1 /\ v[k] = w
  <2> TAKE k \in 1 .. x + y + 1
  <2>1. k <= x => k \in 1 .. x /\ k \in 1 .. x + y /\ k <= x + y
    OBVIOUS
  <2>2. k > x /\ k <= x + y => k - x \in 1 .. y /\ k \in 1 .. x + y /\ ~(k <= x)
    OBVIOUS
  <2>3. k > x + y => k = x + y + 1 /\ ~(k <= x + y)
    OBVIOUS
  <2> QED BY <1>7, <1>8, <2>1, <2>2, <2>3
<1>10. /\ \A k \in 1 .. x : /\ s[k].segment \in D /\ Within(s[k].segment, l)
                            /\ s[k].node = Slot(n)[s[k].segment]
       /\ \A k \in 1 .. y : /\ t[k].segment \in D /\ Within(t[k].segment, r)
                            /\ t[k].node = Slot(n)[t[k].segment]
       /\ \A d \in D : Within(d, l) => \E k \in 1 .. x : s[k].segment = d
       /\ \A d \in D : Within(d, r) => \E k \in 1 .. y : t[k].segment = d
       /\ Ordered(s) /\ Ordered(t)
  BY <1>2, <1>6 DEF Lists
<1>11. ASSUME NEW k \in DOMAIN v
       PROVE  /\ v[k].segment \in D /\ Within(v[k].segment, c)
              /\ v[k].node = Slot(n)[v[k].segment]
  <2>1. k \in 1 .. x + y + 1
    BY <1>8
  <2>2. CASE k <= x
    <3>1. k \in 1 .. x /\ v[k] = s[k]
      BY <1>9, <2>1, <2>2
    <3> HIDE DEF D
    <3> QED BY <1>1, <1>3, <1>10, <3>1
  <2>3. CASE k > x /\ k <= x + y
    <3>1. k - x \in 1 .. y /\ v[k] = t[k - x]
      BY <1>9, <2>1, <2>3
    <3> HIDE DEF D
    <3> QED BY <1>1, <1>3, <1>10, <3>1
  <2>4. CASE k > x + y
    <3>1. v[k] = w
      BY <1>9, <2>1, <2>4
    <3> QED BY <1>4, <3>1
  <2> QED BY <2>1, <2>2, <2>3, <2>4
<1>12. ASSUME NEW d \in D, Within(d, c)
       PROVE  \E k \in DOMAIN v : v[k].segment = d
  <2>1. d \in Segments(n)
    BY <1>1
  <2>2. CASE d = c
    <3>1. x + y + 1 \in 1 .. x + y + 1 /\ x + y + 1 > x + y
      OBVIOUS
    <3>2. v[x + y + 1] = w
      BY <1>9, <3>1
    <3> QED BY <1>8, <2>2, <3>1, <3>2
  <2>3. CASE Within(d, l)
    <3>1. PICK k \in 1 .. x : s[k].segment = d
      BY <1>10, <2>3
    <3>2. k \in 1 .. x + y + 1 /\ k <= x
      OBVIOUS
    <3>3. v[k] = s[k]
      BY <1>9, <3>2
    <3> QED BY <1>8, <3>1, <3>2, <3>3
  <2>4. CASE Within(d, r)
    <3>1. PICK k \in 1 .. y : t[k].segment = d
      BY <1>10, <2>4
    <3>2. k + x \in 1 .. x + y + 1 /\ k + x > x /\ k + x <= x + y /\ (k + x) - x = k
      OBVIOUS
    <3>3. v[k + x] = t[k]
      BY <1>9, <3>2
    <3> QED BY <1>8, <3>1, <3>2, <3>3
  <2> QED BY <1>3, <1>12, <2>1, <2>2, <2>3, <2>4
<1>13. ASSUME NEW j \in DOMAIN v, NEW k \in DOMAIN v, j < k
       PROVE  ~Within(v[k].segment, v[j].segment)
  <2>1. j \in 1 .. x + y + 1 /\ k \in 1 .. x + y + 1 /\ j \in Int /\ k \in Int
    BY <1>8
  <2>2. CASE k <= x
    <3>1. j <= x
      BY <1>13, <2>1, <2>2
    <3>2. j \in 1 .. x /\ k \in 1 .. x /\ v[j] = s[j] /\ v[k] = s[k]
      BY <1>9, <2>1, <2>2, <3>1
    <3> QED BY <1>6, <1>10, <1>13, <3>2 DEF Ordered
  <2>3. CASE j <= x /\ k > x /\ k <= x + y
    <3>1. /\ j \in 1 .. x /\ k - x \in 1 .. y /\ v[j] = s[j] /\ v[k] = t[k - x]
      BY <1>9, <2>1, <2>3
    <3>2. /\ s[j].segment \in Segments(n) /\ Within(s[j].segment, l)
          /\ t[k - x].segment \in Segments(n) /\ Within(t[k - x].segment, r)
      BY <1>1, <1>10, <3>1
    <3> QED BY <1>3, <3>1, <3>2
  <2>4. CASE j > x /\ k <= x + y
    <3>1. j <= x + y /\ k > x /\ j - x < k - x
      BY <1>13, <2>1, <2>4
    <3>2. /\ j - x \in 1 .. y /\ k - x \in 1 .. y /\ v[j] = t[j - x] /\ v[k] = t[k - x]
      BY <1>9, <2>1, <2>4, <3>1
    <3> QED BY <1>6, <1>10, <3>1, <3>2 DEF Ordered
  <2>5. CASE k > x + y
    <3>1. v[k] = w /\ j <= x + y
      BY <1>9, <1>13, <2>1, <2>5
    <3>2. CASE j <= x
      <4>1. j \in 1 .. x /\ v[j] = s[j]
        BY <1>9, <2>1, <3>2
      <4>2. s[j].segment \in Segments(n) /\ Within(s[j].segment, l)
        BY <1>1, <1>10, <4>1
      <4> QED BY <1>3, <3>1, <4>1, <4>2
    <3>3. CASE j > x
      <4>1. j - x \in 1 .. y /\ v[j] = t[j - x]
        BY <1>9, <2>1, <3>1, <3>3
      <4>2. t[j - x].segment \in Segments(n) /\ Within(t[j - x].segment, r)
        BY <1>1, <1>10, <4>1
      <4> QED BY <1>3, <3>1, <4>1, <4>2
    <3> QED BY <2>1, <3>2, <3>3
  <2> QED BY <2>1, <2>2, <2>3, <2>4, <2>5
<1>14. Lists(n, left, right, c, v)
  BY <1>11, <1>12, <1>13 DEF Lists, Ordered
<1> QED BY <1>7, <1>8, <1>14

(* The writes of an update are the segments it visits, in such an order. *)
LEMMA WritesListed ==
  ASSUME arraySize \in Nat, NEW left \in 1 .. arraySize, NEW right \in left .. arraySize,
         NEW f, InPostorder(left, right, f)
  PROVE  /\ f[RootVisit] \in Seq(Write)
         /\ Lists(arraySize, left, right, Root(arraySize), f[RootVisit])
<1>0. arraySize # 0 /\ left \in Int /\ right \in Int /\ 0 \in Int
  OBVIOUS
<1> DEFINE n == arraySize
           D == Visited(n, left, right)
           T == {c \in Segments(n) : Disjoint(left, right, c) \/ c \in D
                   => Lists(n, left, right, c, f[VisitAt(c, 0)])}
<1>1. /\ D \subseteq Segments(n)
      /\ \A c \in D : ~Disjoint(left, right, c)
      /\ \A c \in D, d \in D : Within(d, c) /\ d # c => ~Covers(left, right, c)
  BY VisitedFacts
<1>2. ASSUME NEW c \in Segments(n),
             IsLeaf(c) \/ (LeftHalf(c) \in T /\ RightHalf(c) \in T),
             Disjoint(left, right, c) \/ c \in D
      PROVE  Lists(n, left, right, c, f[VisitAt(c, 0)])
  <2>1. PICK at \in Visit : /\ at = VisitAt(c, 0) /\ at.node = Slot(n)[c] /\ at.segment = c
    BY <1>0, PlacedVisits
  <2>2. PICK w : w = WriteAt(at)
    OBVIOUS
  <2>3. w \in Write /\ w.segment = c /\ w.node = Slot(n)[c]
    BY <2>1, <2>2 DEF WriteAt, Write, Visit
  <2>4. f[at] = IF Disjoint(left, right, c) THEN <<>>
                ELSE IF Covers(left, right, c) THEN <<w>>
                     ELSE f[LeftVisit(at, 0)] \o f[RightVisit(at, 0)] \o <<w>>
    BY <2>1, <2>2 DEF InPostorder
  <2>5. c \in Interval(n)
    BY <1>0, PlacedVisits
  <2>6. c[1] \in Int /\ c[2] \in Int /\ c[1] <= c[2]
    BY <2>5, Halves
  <2>7. CASE Disjoint(left, right, c)
    <3>1. f[at] = <<>>
      BY <2>4, <2>7
    <3>2. ASSUME NEW d \in D, Within(d, c) PROVE FALSE
      <4>1. d \in Interval(n)
        BY <1>0, <1>1, PlacedVisits
      <4>2. d[1] \in Int /\ d[2] \in Int /\ d[1] <= d[2]
        BY <4>1, Halves
      <4>3. ~Disjoint(left, right, d)
        BY <1>1
      <4> QED BY <1>0, <2>6, <2>7, <3>2, <4>2, <4>3 DEF Disjoint, Within
    <3>3. DOMAIN f[at] = {}
      BY <3>1
    <3>4. Lists(n, left, right, c, f[at])
      BY <3>2, <3>3 DEF Lists, Ordered
    <3> QED BY <2>1, <3>4
  <2>8. CASE c \in D /\ Covers(left, right, c)
    <3>1. ~Disjoint(left, right, c)
      BY <1>1, <2>8
    <3>2. f[at] = <<w>>
      BY <2>4, <2>8, <3>1
    <3>3. DOMAIN <<w>> = {1} /\ <<w>>[1] = w
      OBVIOUS
    <3>4. Within(c, c)
      BY <2>6 DEF Within
    <3>5. \A d \in D : Within(d, c) => d = c
      BY <1>1, <2>8
    <3>6. Lists(n, left, right, c, <<w>>)
      <4>1. Ordered(<<w>>)
        BY <3>3 DEF Ordered
      <4> HIDE DEF D
      <4>2. \A k \in DOMAIN <<w>> : /\ <<w>>[k].segment \in D /\ Within(<<w>>[k].segment, c)
                                    /\ <<w>>[k].node = Slot(n)[<<w>>[k].segment]
        BY <2>3, <2>8, <3>3, <3>4
      <4>3. \A d \in D : Within(d, c) => \E k \in DOMAIN <<w>> : <<w>>[k].segment = d
        BY <2>3, <3>3, <3>5
      <4> QED BY <4>1, <4>2, <4>3 DEF Lists, D
    <3> QED BY <2>1, <3>2, <3>6
  <2>9. CASE c \in D /\ ~Covers(left, right, c)
    <3>1. ~Disjoint(left, right, c)
      BY <1>1, <2>9
    <3>2. ~IsLeaf(c)
      BY <1>0, <2>5, <2>9, <3>1, LeafCovered
    <3>3. /\ LeftHalf(c) \in Segments(n) /\ RightHalf(c) \in Segments(n)
          /\ LeftVisit(at, 0) = VisitAt(LeftHalf(c), 0)
          /\ RightVisit(at, 0) = VisitAt(RightHalf(c), 0)
          /\ VisitAt(LeftHalf(c), 0) \in Visit /\ VisitAt(RightHalf(c), 0) \in Visit
      BY <1>0, <2>1, <3>2, PlacedVisits
    <3>4. PICK s \in Seq(Write), t \in Seq(Write) :
            s = f[VisitAt(LeftHalf(c), 0)] /\ t = f[VisitAt(RightHalf(c), 0)]
      BY <3>3 DEF InPostorder
    <3>5. f[at] = s \o t \o <<w>>
      BY <2>4, <2>9, <3>1, <3>3, <3>4
    <3>6. \A side \in Sides : Disjoint(left, right, Half(c, side)) \/ Half(c, side) \in D
      BY <1>0, <2>9, <3>2, VisitedHalves
    <3>7. /\ Disjoint(left, right, LeftHalf(c)) \/ LeftHalf(c) \in D
          /\ Disjoint(left, right, RightHalf(c)) \/ RightHalf(c) \in D
      BY <3>6 DEF Half, Sides
    <3>8. /\ Lists(n, left, right, LeftHalf(c), s)
          /\ Lists(n, left, right, RightHalf(c), t)
      BY <1>2, <3>2, <3>4, <3>7
    <3>9. Lists(n, left, right, c, s \o t \o <<w>>)
      BY <2>3, <2>9, <3>2, <3>8, ListsJoined
    <3> QED BY <2>1, <3>5, <3>9
  <2> QED BY <1>2, <2>7, <2>8, <2>9
<1>3. Segments(n) \subseteq T
  <2>1. ASSUME NEW c \in Segments(n),
               IsLeaf(c) \/ (LeftHalf(c) \in T /\ RightHalf(c) \in T)
        PROVE  c \in T
    BY <1>2, <2>1
  <2> HIDE DEF T
  <2> QED BY <2>1, PartitionInduction
<1>4. Root(n) \in D
  BY VisitedFacts
<1>5. Lists(n, left, right, Root(n), f[VisitAt(Root(n), 0)])
  BY <1>1, <1>3, <1>4
<1>6. RootVisit = VisitAt(Root(n), 0) /\ RootVisit \in Visit
  BY <1>0, RootVisitAt
<1> QED BY <1>5, <1>6 DEF InPostorder

-----------------------------------------------------------------------------
(***************************************************************************)
(* The tree after an update: M are its labels when L are those before.     *)
(***************************************************************************)
NewLabels(n, L, M, left, right, value) ==
  \A c \in Segments(n) :
    M[c] =
      IF c \notin Visited(n, left, right) THEN L[c]
      ELSE IF Covers(left, right, c)
           THEN [sum |-> Apply(value, L[c].sum, Length(c)),
                 lazy |-> CheckedAdd(L[c].lazy, value)]
           ELSE [sum |-> Apply(L[c].lazy,
                               CheckedAdd(M[LeftHalf(c)].sum, M[RightHalf(c)].sum),
                               Length(c)),
                 lazy |-> L[c].lazy]

(* validateUpdate lets an update pass when all its writes can be computed; *)
(* they make a tree again, of the new array.                               *)
LEMMA DryRunLabels ==
  ASSUME arraySize \in Nat, NEW left \in 1 .. arraySize, NEW right \in left .. arraySize,
         NEW nodes \in Seq(Node), Len(nodes) = CanonicalNodeCount(arraySize),
         NEW value \in Value, NEW f, DryRun(nodes, left, right, value, f),
         f[RootVisit] # Overflow,
         NEW L, L = Labels(arraySize, nodes), Labelled(arraySize, L), SumsFit(arraySize, L)
  PROVE  \E M \in [Segments(arraySize) -> Node] :
           /\ NewLabels(arraySize, L, M, left, right, value)
           /\ Labelled(arraySize, M) /\ SumsFit(arraySize, M)
           /\ Updates(arraySize, L, M, Visited(arraySize, left, right), left, right, value)
<1>0. arraySize # 0 /\ left \in Int /\ right \in Int /\ 0 \in Int /\ value \in Int
  BY ValueFacts
<1> DEFINE n == arraySize
           D == Visited(n, left, right)
<1>1. PICK F : F = [c \in Segments(n) |-> f[VisitAt(c, 0)]]
  OBVIOUS
<1>2. ASSUME NEW c \in Segments(n)
      PROVE  /\ F[c] = IF Disjoint(left, right, c) THEN L[c].sum
                       ELSE IF Covers(left, right, c)
                            THEN IF CheckedAdd(L[c].lazy, value) = Overflow THEN Overflow
                                 ELSE Apply(value, L[c].sum, Length(c))
                            ELSE Apply(L[c].lazy, CheckedAdd(F[LeftHalf(c)], F[RightHalf(c)]),
                                       Length(c))
             /\ L[c].sum \in Value /\ L[c].lazy \in Value
             /\ L[c].sum \in Int /\ L[c].lazy \in Int /\ Length(c) \in Nat /\ c \in Interval(n)
             /\ L[c] \in Node
  <2>1. PICK at \in Visit : /\ at = VisitAt(c, 0) /\ at.node = Slot(n)[c] /\ at.segment = c
    BY <1>0, PlacedVisits
  <2>2. /\ L[c] = NodeAt(nodes, at.node) /\ L[c].sum \in Value /\ L[c].lazy \in Value
        /\ L[c] \in Node
    BY <2>1, TreeNodes
  <2>3. f[at] = IF Disjoint(left, right, c) THEN L[c].sum
                ELSE IF Covers(left, right, c)
                     THEN IF CheckedAdd(L[c].lazy, value) = Overflow THEN Overflow
                          ELSE Apply(value, L[c].sum, Length(c))
                     ELSE Apply(L[c].lazy, CheckedAdd(f[LeftVisit(at, 0)], f[RightVisit(at, 0)]),
                                Length(c))
    BY <2>1, <2>2 DEF DryRun
  <2>4. c \in Interval(n) /\ Length(c) \in Nat
    BY <1>0, PlacedVisits
  <2>5. ~Disjoint(left, right, c) /\ ~Covers(left, right, c) => ~IsLeaf(c)
    BY <1>0, <2>4, LeafCovered
  <2>6. ~IsLeaf(c) => /\ f[LeftVisit(at, 0)] = F[LeftHalf(c)]
                      /\ f[RightVisit(at, 0)] = F[RightHalf(c)]
    BY <1>0, <1>1, <2>1, PlacedVisits
  <2>7. F[c] = f[at]
    BY <1>1, <2>1
  <2> QED BY <2>2, <2>3, <2>4, <2>5, <2>6, <2>7, ValueFacts
<1>3. Segments(n) \in SUBSET Interval(n) /\ Closed(Segments(n)) /\ n > 0
  BY <1>0, SegmentsClosed
<1>4. /\ D \subseteq Segments(n) /\ Root(n) \in D
      /\ \A c \in D : ~Disjoint(left, right, c)
  BY VisitedFacts
<1>5. ASSUME NEW c \in Segments(n), ~IsLeaf(c)
      PROVE  /\ LeftHalf(c) \in Segments(n) /\ RightHalf(c) \in Segments(n)
             /\ \A h \in {LeftHalf(c), RightHalf(c)} :
                  h \in D <=> c \in D /\ ~Covers(left, right, c) /\ ~Disjoint(left, right, h)
  <2>1. \A side \in Sides :
          Half(c, side) \in D <=> /\ c \in D /\ ~Covers(left, right, c)
                                  /\ ~Disjoint(left, right, Half(c, side))
    BY <1>0, <1>5, VisitedHalves
  <2>2. /\ "left" \in Sides /\ "right" \in Sides
        /\ Half(c, "left") = LeftHalf(c) /\ Half(c, "right") = RightHalf(c)
    BY DEF Sides, Half
  <2> QED BY <1>3, <1>5, <2>1, <2>2 DEF Closed
<1>6. \A c \in D : F[c] # Overflow
  <2> DEFINE T == {c \in Segments(n) : c \in D => F[c] # Overflow}
  <2>1. ASSUME NEW c \in T, ~IsLeaf(c) PROVE LeftHalf(c) \in T /\ RightHalf(c) \in T
    <3>1. /\ LeftHalf(c) \in Segments(n) /\ RightHalf(c) \in Segments(n)
          /\ \A h \in {LeftHalf(c), RightHalf(c)} :
               h \in D <=> c \in D /\ ~Covers(left, right, c) /\ ~Disjoint(left, right, h)
      BY <1>5, <2>1
    <3>2. ASSUME c \in D, ~Covers(left, right, c)
          PROVE  F[LeftHalf(c)] # Overflow /\ F[RightHalf(c)] # Overflow
      <4>1. Apply(L[c].lazy, CheckedAdd(F[LeftHalf(c)], F[RightHalf(c)]), Length(c)) # Overflow
        BY <1>2, <1>4, <2>1, <3>2
      <4> QED BY <4>1 DEF Apply, CheckedAdd
    <3> QED BY <3>1, <3>2
  <2>2. Root(n) \in T
    <3>1. f[RootVisit] = F[Root(n)]
      BY <1>0, <1>1, <1>4, RootVisitAt
    <3> QED BY <1>4, <3>1
  <2>3. T \in SUBSET Interval(n) /\ Closed(T)
    BY <1>3, <2>1 DEF Closed
  <2>4. Segments(n) \subseteq T
    <3> HIDE DEF T
    <3> QED BY <2>2, <2>3, SegmentsWithin
  <2> QED BY <1>4, <2>4
<1>7. PICK M : M = [c \in Segments(n) |->
                      IF c \notin D THEN L[c]
                      ELSE [sum |-> F[c],
                            lazy |-> IF Covers(left, right, c) THEN CheckedAdd(L[c].lazy, value)
                                     ELSE L[c].lazy]]
  OBVIOUS
<1> HIDE DEF D
<1>8. ASSUME NEW c \in D
      PROVE  /\ F[c] \in Value
             /\ M[c].sum = F[c]
             /\ M[c].lazy = IF Covers(left, right, c) THEN CheckedAdd(L[c].lazy, value)
                            ELSE L[c].lazy
             /\ Covers(left, right, c) =>
                  /\ F[c] = Apply(value, L[c].sum, Length(c))
                  /\ CheckedAdd(L[c].lazy, value) = L[c].lazy + value
                  /\ L[c].lazy + value \in Value
                  /\ F[c] = L[c].sum + value * Length(c)
             /\ ~Covers(left, right, c) =>
                  /\ ~IsLeaf(c)
                  /\ F[c] = Apply(L[c].lazy, CheckedAdd(F[LeftHalf(c)], F[RightHalf(c)]),
                                  Length(c))
  <2>1. c \in Segments(n) /\ ~Disjoint(left, right, c) /\ F[c] # Overflow
    BY <1>4, <1>6
  <2>2. M[c].sum = F[c] /\ M[c].lazy = IF Covers(left, right, c) THEN CheckedAdd(L[c].lazy, value)
                                       ELSE L[c].lazy
    BY <1>7, <2>1
  <2>3. CASE Covers(left, right, c)
    <3>1. F[c] = Apply(value, L[c].sum, Length(c)) /\ CheckedAdd(L[c].lazy, value) # Overflow
      BY <1>2, <2>1, <2>3
    <3>2. F[c] \in Outcome
      BY <3>1, CheckedAddOutcome DEF Apply
    <3>3. CheckedAdd(L[c].lazy, value) = L[c].lazy + value /\ L[c].lazy + value \in Value
      BY <1>0, <1>2, <2>1, <3>1, CheckedAddExact
    <3>4. F[c] = L[c].sum + value * Length(c)
      BY <1>0, <1>2, <2>1, <3>1, ApplyExact
    <3> QED BY <2>1, <2>2, <2>3, <3>1, <3>2, <3>3, <3>4, OutcomeValue
  <2>4. CASE ~Covers(left, right, c)
    <3>1. F[c] = Apply(L[c].lazy, CheckedAdd(F[LeftHalf(c)], F[RightHalf(c)]), Length(c))
      BY <1>2, <2>1, <2>4
    <3>2. F[c] \in Outcome
      BY <3>1, CheckedAddOutcome DEF Apply
    <3>3. ~IsLeaf(c)
      BY <1>0, <1>2, <2>1, <2>4, LeafCovered
    <3> QED BY <2>1, <2>2, <2>4, <3>1, <3>2, <3>3, OutcomeValue
  <2> QED BY <2>3, <2>4
<1>9. M \in [Segments(n) -> Node]
  <2>1. ASSUME NEW c \in Segments(n) PROVE M[c] \in Node
    <3>1. CASE c \notin D
      BY <1>2, <1>7, <3>1
    <3>2. CASE c \in D
      <4>1. M[c].sum \in Value /\ M[c].lazy \in Value
        BY <1>2, <1>8, <3>2
      <4>2. M[c] = [sum |-> M[c].sum, lazy |-> M[c].lazy]
        BY <1>7, <3>2
      <4> QED BY <4>1, <4>2 DEF Node
    <3> QED BY <3>1, <3>2
  <2> QED BY <1>7, <2>1
<1>10. ASSUME NEW c \in Segments(n)
       PROVE  /\ M[c].sum \in Value /\ M[c].lazy \in Value
              /\ M[c].sum \in Int /\ M[c].lazy \in Int
              /\ c \notin D => M[c] = L[c]
  BY <1>7, <1>9, ValueFacts DEF Node
<1>11. ASSUME NEW c \in D, ~Covers(left, right, c)
       PROVE  F[LeftHalf(c)] = M[LeftHalf(c)].sum /\ F[RightHalf(c)] = M[RightHalf(c)].sum
  <2>1. c \in Segments(n) /\ ~IsLeaf(c)
    BY <1>4, <1>8, <1>11
  <2>2. ASSUME NEW h \in {LeftHalf(c), RightHalf(c)} PROVE F[h] = M[h].sum
    <3>1. h \in Segments(n) /\ (h \in D \/ Disjoint(left, right, h))
      BY <1>5, <1>11, <2>1
    <3>2. CASE h \in D
      BY <1>8, <3>2
    <3>3. CASE h \notin D
      BY <1>2, <1>10, <3>1, <3>3
    <3> QED BY <3>2, <3>3
  <2> QED BY <2>2
<1>12. NewLabels(n, L, M, left, right, value)
  <2>1. ASSUME NEW c \in D, Covers(left, right, c)
        PROVE  M[c] = [sum |-> Apply(value, L[c].sum, Length(c)),
                       lazy |-> CheckedAdd(L[c].lazy, value)]
    <3>1. M[c] = [sum |-> F[c], lazy |-> CheckedAdd(L[c].lazy, value)]
      BY <1>4, <1>7, <2>1
    <3> QED BY <1>8, <2>1, <3>1
  <2>2. ASSUME NEW c \in D, ~Covers(left, right, c)
        PROVE  M[c] = [sum |-> Apply(L[c].lazy,
                                     CheckedAdd(M[LeftHalf(c)].sum, M[RightHalf(c)].sum),
                                     Length(c)),
                       lazy |-> L[c].lazy]
    <3>1. M[c] = [sum |-> F[c], lazy |-> L[c].lazy]
      BY <1>4, <1>7, <2>2
    <3> QED BY <1>8, <1>11, <2>2, <3>1
  <2> QED BY <1>10, <2>1, <2>2 DEF NewLabels, D
<1>13. ASSUME NEW c \in D, ~Covers(left, right, c)
       PROVE  /\ M[c].sum = M[LeftHalf(c)].sum + M[RightHalf(c)].sum + M[c].lazy * Length(c)
              /\ M[LeftHalf(c)].sum + M[RightHalf(c)].sum \in Value
  <2>1. c \in Segments(n) /\ ~IsLeaf(c) /\ M[c].lazy = L[c].lazy
    BY <1>4, <1>8, <1>13
  <2>2. PICK k \in Int, a \in Int, b \in Int, m \in Nat :
          /\ k = L[c].lazy /\ a = M[LeftHalf(c)].sum /\ b = M[RightHalf(c)].sum
          /\ m = Length(c)
    BY <1>2, <1>5, <1>10, <2>1
  <2>3. M[c].sum = Apply(k, CheckedAdd(a, b), m) /\ M[c].sum # Overflow
    BY <1>8, <1>11, <1>13, <2>2, ValueFacts
  <2>4. CheckedAdd(a, b) # Overflow /\ CheckedAdd(a, b) \in Int
    BY <2>3, CheckedAddInt DEF Apply, CheckedAdd
  <2>5. CheckedAdd(a, b) = a + b /\ a + b \in Value
    BY <2>4, CheckedAddExact
  <2>6. M[c].sum = (a + b) + k * m
    BY <2>3, <2>4, <2>5, ApplyExact
  <2> QED BY <2>1, <2>2, <2>5, <2>6
<1>14. ASSUME NEW c \in Segments(n), ~IsLeaf(c), c \notin D \/ Covers(left, right, c)
       PROVE  M[LeftHalf(c)] = L[LeftHalf(c)] /\ M[RightHalf(c)] = L[RightHalf(c)]
  BY <1>5, <1>10, <1>14
<1>15. ASSUME NEW c \in Segments(n), ~IsLeaf(c)
       PROVE  /\ SumOK(M[c], M[LeftHalf(c)], M[RightHalf(c)], Length(c))
              /\ M[LeftHalf(c)].sum + M[RightHalf(c)].sum \in Value
  <2>1. /\ SumOK(L[c], L[LeftHalf(c)], L[RightHalf(c)], Length(c))
        /\ L[LeftHalf(c)].sum + L[RightHalf(c)].sum \in Value
    BY <1>15 DEF Labelled, SumsFit
  <2>2. CASE c \notin D
    BY <1>10, <1>14, <1>15, <2>1, <2>2
  <2>3. CASE c \in D /\ Covers(left, right, c)
    <3>1. PICK k \in Int, a \in Int, b \in Int, m \in Int :
            /\ k = L[c].lazy /\ a = L[LeftHalf(c)].sum /\ b = L[RightHalf(c)].sum
            /\ m = Length(c)
      <4>1. /\ L[c].lazy \in Int /\ L[LeftHalf(c)].sum \in Int /\ L[RightHalf(c)].sum \in Int
            /\ Length(c) \in Nat
        BY <1>2, <1>5, <1>15
      <4>2. Length(c) \in Int
        BY <4>1
      <4> QED BY <4>1, <4>2
    <3>2. L[c].sum = a + b + k * m
      BY <2>1, <3>1 DEF SumOK
    <3>3. M[c].sum = L[c].sum + value * m /\ M[c].lazy = k + value
      BY <1>8, <2>3, <3>1
    <3>4. a + b + k * m + value * m = a + b + (k + value) * m
      BY <1>0, TagAbsorbed
    <3>5. M[LeftHalf(c)].sum = a /\ M[RightHalf(c)].sum = b
      BY <1>14, <1>15, <2>3, <3>1
    <3>6. M[c].sum = a + b + (k + value) * m
      BY <3>2, <3>3, <3>4
    <3> QED BY <2>1, <3>1, <3>3, <3>5, <3>6 DEF SumOK
  <2>4. CASE c \in D /\ ~Covers(left, right, c)
    BY <1>13, <2>4 DEF SumOK
  <2> QED BY <2>2, <2>3, <2>4
<1>16. Labelled(n, M) /\ SumsFit(n, M)
  BY <1>10, <1>15 DEF Labelled, SumsFit
<1>17. Updates(n, L, M, D, left, right, value)
  <2>1. ASSUME NEW c \in D
        PROVE  /\ ~Disjoint(left, right, c)
               /\ M[c].lazy = L[c].lazy + IF Covers(left, right, c) THEN value ELSE 0
               /\ IsLeaf(c) => M[c].sum = L[c].sum + value
    <3>1. M[c].lazy = L[c].lazy + IF Covers(left, right, c) THEN value ELSE 0
      BY <1>2, <1>4, <1>8
    <3>2. ASSUME IsLeaf(c) PROVE M[c].sum = L[c].sum + value
      <4>1. Length(c) = 1
        BY <1>2, <1>4, <3>2, Halves DEF IsLeaf, Length
      <4>2. Covers(left, right, c) /\ value * 1 = value
        BY <1>0, <1>8, <3>2
      <4> QED BY <1>8, <4>1, <4>2
    <3> QED BY <1>4, <3>1, <3>2
  <2>2. \A c \in Segments(n) : ~IsLeaf(c) => \A side \in Sides :
          Half(c, side) \in D <=>
            /\ c \in D /\ ~Covers(left, right, c)
            /\ ~Disjoint(left, right, Half(c, side))
    BY <1>0, VisitedHalves DEF D
  <2> QED BY <1>4, <1>10, <2>1, <2>2 DEF Updates
<1> QED BY <1>9, <1>12, <1>16, <1>17 DEF D


(***************************************************************************)
(* The nodes after an update, each as update writes it.                    *)
(***************************************************************************)
Successor(n, old, new, left, right, value) ==
  /\ new \in Seq(Node) /\ Len(new) = Len(old)
  /\ \A i \in 1 .. Len(old) :
       (\A c \in Visited(n, left, right) : Slot(n)[c] # i) => new[i] = old[i]
  /\ \A c \in Visited(n, left, right) :
       new[Slot(n)[c]] =
         IF Covers(left, right, c)
         THEN [sum |-> Apply(value, old[Slot(n)[c]].sum, Length(c)),
               lazy |-> CheckedAdd(old[Slot(n)[c]].lazy, value)]
         ELSE [sum |-> Apply(old[Slot(n)[c]].lazy,
                             CheckedAdd(new[Slot(n)[LeftHalf(c)]].sum,
                                        new[Slot(n)[RightHalf(c)]].sum),
                             Length(c)),
               lazy |-> old[Slot(n)[c]].lazy]

(* An update that passes the guard and the dry run can be written in full, *)
(* and leads to the tree of the new array.                                 *)
LEMMA SuccessorExists ==
  ASSUME arraySize \in Nat, NEW left \in 1 .. arraySize, NEW right \in left .. arraySize,
         live \in Seq(Node), NEW w, TreeFor(arraySize, live, w),
         NEW value \in Value, ValidateUpdate(left, right, value),
         NEW next, next = AddToRange(w, left, right, value), next \in Seq(Value),
         Admissible(next)
  PROVE  \E new : /\ Successor(arraySize, live, new, left, right, value)
                  /\ TreeFor(arraySize, new, next)
<1>0. arraySize # 0 /\ left \in Int /\ right \in Int /\ 0 \in Int
  OBVIOUS
<1> DEFINE n == arraySize
           D == Visited(n, left, right)
<1>1. PICK L : L = Labels(n, live)
  OBVIOUS
<1>2. Len(live) = CanonicalNodeCount(n) /\ TreeOf(n, L, w) /\ SumsFit(n, L)
  BY <1>1 DEF TreeFor
<1>3. Labelled(n, L)
  BY <1>2 DEF TreeOf
<1>4. PICK f : f[RootVisit] # Overflow /\ DryRun(live, left, right, value, f)
  BY <1>0, ValidateUpdateSteps
<1>5. PICK M \in [Segments(n) -> Node] :
        /\ NewLabels(n, L, M, left, right, value)
        /\ Labelled(n, M) /\ SumsFit(n, M)
        /\ Updates(n, L, M, D, left, right, value)
  BY <1>0, <1>1, <1>2, <1>3, <1>4, DryRunLabels
<1>6. TreeOf(n, M, next)
  BY <1>0, <1>2, <1>5, TreeUpdated
<1>7. PICK slot : slot = Slot(n)
  OBVIOUS
<1>8. PICK m \in Int : m = CanonicalNodeCount(n)
  BY DEF CanonicalNodeCount
<1>9. /\ slot \in [Segments(n) -> 1 .. m]
      /\ \A c, d \in Segments(n) : slot[c] = slot[d] => c = d
  BY <1>7, <1>8, SlotPlaced DEF Placed
<1>10. D \subseteq Segments(n)
  BY VisitedFacts
<1>11. DOMAIN live = 1 .. m /\ \A i \in 1 .. m : live[i] \in Node
  BY <1>2, <1>8, LenProperties, ElementOfSeq
<1> DEFINE At(i) == CHOOSE c \in D : slot[c] = i
<1>12. PICK new : new = [i \in 1 .. m |-> IF \E c \in D : slot[c] = i THEN M[At(i)] ELSE live[i]]
  OBVIOUS
<1> HIDE DEF D
<1>13. \A c \in D : At(slot[c]) = c
  <2>1. ASSUME NEW c \in D PROVE At(slot[c]) = c
    <3>1. At(slot[c]) \in D /\ slot[At(slot[c])] = slot[c]
      OBVIOUS
    <3> HIDE DEF At
    <3> QED BY <1>9, <1>10, <3>1
  <2> QED BY <2>1
<1>14. \A i \in 1 .. m : (\E c \in D : slot[c] = i) => At(i) \in D
  OBVIOUS
<1> HIDE DEF At
<1>15. ASSUME NEW i \in 1 .. m PROVE new[i] \in Node
  BY <1>5, <1>10, <1>11, <1>12, <1>14
<1>16. new \in Seq(Node) /\ Len(new) = Len(live)
  <2>1. m = Len(live) /\ m \in Nat
    BY <1>2, <1>8, LenProperties
  <2>2. new \in [1 .. m -> Node]
    BY <1>12, <1>15
  <2>3. new \in Seq(Node)
    BY <2>1, <2>2, IsASeq
  <2>4. DOMAIN new = 1 .. m
    BY <2>2
  <2> QED BY <2>1, <2>3, <2>4, LenProperties
<1>17. ASSUME NEW c \in Segments(n) PROVE new[slot[c]] = M[c]
  <2>1. slot[c] \in 1 .. m
    BY <1>9
  <2>2. CASE c \in D
    BY <1>12, <1>13, <2>1, <2>2
  <2>3. CASE c \notin D
    <3>1. ~ \E d \in D : slot[d] = slot[c]
      BY <1>9, <1>10, <2>3
    <3>2. new[slot[c]] = live[slot[c]]
      BY <1>12, <2>1, <3>1
    <3>3. M[c] = L[c]
      BY <1>5, <2>3 DEF NewLabels, D
    <3>4. L[c] = live[slot[c]]
      BY <1>1, <1>7 DEF Labels
    <3> QED BY <3>2, <3>3, <3>4
  <2> QED BY <2>2, <2>3
<1>18. Labels(n, new) = M
  BY <1>5, <1>7, <1>17 DEF Labels
<1>19. TreeFor(n, new, next)
  BY <1>2, <1>5, <1>6, <1>16, <1>18 DEF TreeFor
<1>20. ASSUME NEW i \in 1 .. Len(live), \A c \in D : slot[c] # i
       PROVE  new[i] = live[i]
  <2>1. i \in 1 .. m
    BY <1>2, <1>8
  <2> QED BY <1>12, <1>20, <2>1
<1>21. ASSUME NEW c \in D
       PROVE  new[slot[c]] =
                IF Covers(left, right, c)
                THEN [sum |-> Apply(value, live[slot[c]].sum, Length(c)),
                      lazy |-> CheckedAdd(live[slot[c]].lazy, value)]
                ELSE [sum |-> Apply(live[slot[c]].lazy,
                                    CheckedAdd(new[slot[LeftHalf(c)]].sum,
                                               new[slot[RightHalf(c)]].sum),
                                    Length(c)),
                      lazy |-> live[slot[c]].lazy]
  <2>1. c \in Segments(n) /\ new[slot[c]] = M[c] /\ L[c] = live[slot[c]]
    BY <1>1, <1>7, <1>10, <1>17 DEF Labels
  <2>2. ~Covers(left, right, c) =>
          LeftHalf(c) \in Segments(n) /\ RightHalf(c) \in Segments(n)
    <3>1. c \in Interval(n) /\ Closed(Segments(n))
      BY <1>0, <2>1, SegmentsClosed
    <3>2. ~Disjoint(left, right, c)
      BY VisitedFacts DEF D
    <3>3. ~Covers(left, right, c) => ~IsLeaf(c)
      BY <1>0, <3>1, <3>2, LeafCovered
    <3> QED BY <2>1, <3>1, <3>3 DEF Closed
  <2>3. M[c] = IF Covers(left, right, c)
               THEN [sum |-> Apply(value, L[c].sum, Length(c)),
                     lazy |-> CheckedAdd(L[c].lazy, value)]
               ELSE [sum |-> Apply(L[c].lazy,
                                   CheckedAdd(M[LeftHalf(c)].sum, M[RightHalf(c)].sum),
                                   Length(c)),
                     lazy |-> L[c].lazy]
    BY <1>5, <2>1 DEF NewLabels, D
  <2>4. ~Covers(left, right, c) => /\ M[LeftHalf(c)] = new[slot[LeftHalf(c)]]
                                   /\ M[RightHalf(c)] = new[slot[RightHalf(c)]]
    BY <1>17, <2>2
  <2> QED BY <2>1, <2>3, <2>4
<1> QED BY <1>7, <1>16, <1>19, <1>20, <1>21 DEF Successor, D

-----------------------------------------------------------------------------
(***************************************************************************)
(* The writes of an update one at a time: the nodes still to be written    *)
(* are as they were, all others as they will be.                           *)
(***************************************************************************)
UpdateOf(n, old, new, event) ==
  IF event.value = 0 THEN new = old
  ELSE Successor(n, old, new, event.left, event.right, event.value)

Pending(n, event, writes) ==
  /\ writes \in Seq(Write)
  /\ event.value = 0 => writes = <<>>
  /\ \A k \in DOMAIN writes :
       /\ writes[k].segment \in Visited(n, event.left, event.right)
       /\ writes[k].node = Slot(n)[writes[k].segment]
  /\ Ordered(writes)

Mixed(nodes, old, new, writes) ==
  /\ nodes \in Seq(Node) /\ Len(nodes) = Len(old)
  /\ \A i \in 1 .. Len(old) :
       nodes[i] = IF \E k \in DOMAIN writes : writes[k].node = i THEN old[i] ELSE new[i]

(* Before the first write. *)
LEMMA MixedBegin ==
  ASSUME arraySize \in Nat, NEW event, event.left \in 1 .. arraySize,
         event.right \in event.left .. arraySize, NEW old \in Seq(Node), NEW new,
         UpdateOf(arraySize, old, new, event)
  PROVE  Pending(arraySize, event, Writes(event)) /\ Mixed(old, old, new, Writes(event))
<1> DEFINE n == arraySize
<1>1. PICK left \in 1 .. n : left = event.left
  OBVIOUS
<1>2. PICK right \in left .. n : right = event.right
  BY <1>1
<1>3. PICK f : /\ Writes(event) = IF event.value = 0 THEN <<>> ELSE f[RootVisit]
               /\ InPostorder(left, right, f)
  <2>1. event.left \in Int /\ event.right \in Int
    BY <1>1, <1>2
  <2> QED BY <1>1, <1>2, <2>1, WritesSteps
<1>4. PICK writes : writes = Writes(event)
  OBVIOUS
<1>5. CASE event.value = 0
  <2>1. writes = <<>> /\ new = old
    BY <1>3, <1>4, <1>5 DEF UpdateOf
  <2>2. <<>> \in Seq(Write) /\ DOMAIN <<>> = {}
    OBVIOUS
  <2>3. Pending(n, event, writes)
    BY <2>1, <2>2 DEF Pending, Ordered
  <2>4. Mixed(old, old, new, writes)
    BY <2>1 DEF Mixed
  <2> QED BY <1>4, <2>3, <2>4
<1>6. CASE event.value # 0
  <2>1. writes \in Seq(Write) /\ Lists(n, left, right, Root(n), writes)
    BY <1>3, <1>4, <1>6, WritesListed
  <2>2. Pending(n, event, writes)
    BY <1>1, <1>2, <1>6, <2>1 DEF Pending, Lists
  <2>3. Successor(n, old, new, left, right, event.value)
    BY <1>1, <1>2, <1>6 DEF UpdateOf
  <2>4. ASSUME NEW i \in 1 .. Len(old), ~ \E k \in DOMAIN writes : writes[k].node = i
        PROVE  old[i] = new[i]
    <3>1. ASSUME NEW c \in Visited(n, left, right) PROVE Slot(n)[c] # i
      <4>1. c \in Segments(n) /\ n > 0
        BY VisitedFacts
      <4>2. c \in Interval(n)
        BY <4>1, SegmentsClosed
      <4>3. Within(c, Root(n))
        BY <4>2, Halves DEF Within, Root
      <4>4. PICK k \in DOMAIN writes : writes[k].segment = c
        BY <2>1, <4>3 DEF Lists
      <4>5. writes[k].node = Slot(n)[c]
        BY <2>1, <4>4 DEF Lists
      <4> QED BY <2>4, <4>5
    <3> QED BY <2>3, <3>1 DEF Successor
  <2>5. Mixed(old, old, new, writes)
    BY <2>4 DEF Mixed
  <2> QED BY <1>4, <2>2, <2>5
<1> QED BY <1>5, <1>6

(* After the last write. *)
LEMMA MixedEnd ==
  ASSUME NEW n, NEW event, NEW old \in Seq(Node), NEW new, UpdateOf(n, old, new, event),
         NEW nodes, Mixed(nodes, old, new, <<>>)
  PROVE  nodes = new
<1>1. new \in Seq(Node) /\ Len(new) = Len(old)
  BY DEF UpdateOf, Successor
<1>2. nodes \in Seq(Node) /\ Len(nodes) = Len(old) /\ \A i \in 1 .. Len(old) : nodes[i] = new[i]
  <2>1. DOMAIN <<>> = {}
    OBVIOUS
  <2> QED BY <2>1 DEF Mixed
<1> QED BY <1>1, <1>2, SeqEqual

(* A write computes the new node, and leaves fewer to be written. *)
LEMMA MixedStep ==
  ASSUME arraySize \in Nat, NEW event, event = call.event, event.left \in 1 .. arraySize,
         event.right \in event.left .. arraySize, NEW old \in Seq(Node), NEW new,
         Len(old) = CanonicalNodeCount(arraySize),
         UpdateOf(arraySize, old, new, event), NEW writes, Pending(arraySize, event, writes),
         writes # <<>>, NEW nodes, Mixed(nodes, old, new, writes),
         NEW i, i = Head(writes).node, NEW c, c = Head(writes).segment
  PROVE  /\ i \in 1 .. Len(old) /\ i \in 1 .. Len(nodes)
         /\ Written(nodes, i, c) = new[i] /\ new[i] \in Node
         /\ Pending(arraySize, event, Tail(writes))
         /\ Mixed([nodes EXCEPT ![i] = new[i]], old, new, Tail(writes))
<1> DEFINE n == arraySize
<1>1. PICK left \in 1 .. n : left = event.left
  OBVIOUS
<1>2. PICK right \in left .. n : right = event.right
  BY <1>1
<1> DEFINE D == Visited(n, left, right)
<1>3. /\ writes \in Seq(Write) /\ Ordered(writes) /\ event.value # 0
      /\ \A k \in DOMAIN writes : writes[k].segment \in D
                                  /\ writes[k].node = Slot(n)[writes[k].segment]
  BY <1>1, <1>2 DEF Pending
<1>4. PICK m \in Nat : m = Len(writes)
  BY <1>3, LenProperties
<1>5. PICK rest \in Seq(Write) : /\ rest = Tail(writes) /\ Len(rest) = m - 1
                                 /\ \A k \in 1 .. Len(rest) : rest[k] = writes[k + 1]
  <2>1. /\ Tail(writes) \in Seq(Write) /\ Len(Tail(writes)) = Len(writes) - 1
        /\ \A k \in 1 .. Len(Tail(writes)) : Tail(writes)[k] = writes[k + 1]
    BY <1>3, HeadTailProperties
  <2>2. PICK rest \in Seq(Write) : rest = Tail(writes)
    BY <2>1
  <2> QED BY <1>4, <2>1, <2>2
<1>6. m > 0 /\ DOMAIN writes = 1 .. m /\ DOMAIN rest = 1 .. m - 1
  <2>1. m # 0
    BY <1>3, <1>4, EmptySeq
  <2>2. DOMAIN writes = 1 .. Len(writes) /\ DOMAIN rest = 1 .. Len(rest)
    BY <1>3, <1>5, LenProperties
  <2> QED BY <1>4, <1>5, <2>1, <2>2
<1>7. Head(writes) = writes[1] /\ 1 \in DOMAIN writes
  BY <1>6
<1>8. \A k \in 1 .. m - 1 : rest[k] = writes[k + 1] /\ k + 1 \in DOMAIN writes /\ 1 < k + 1
  BY <1>5, <1>6
<1>9. c \in D /\ i = Slot(n)[c]
  BY <1>3, <1>7
<1>10. PICK slot : slot = Slot(n)
  OBVIOUS
<1>11. /\ slot \in [Segments(n) -> 1 .. CanonicalNodeCount(n)]
       /\ \A d, e \in Segments(n) : slot[d] = slot[e] => d = e
       /\ \A d \in Segments(n) : ~IsLeaf(d) =>
            /\ slot[LeftHalf(d)] = LeftChild(slot[d])
            /\ slot[RightHalf(d)] = RightChild(slot[d], d)
  BY <1>10, SlotPlaced DEF Placed
<1>12. D \subseteq Segments(n)
  BY VisitedFacts
<1>13. n > 0
  OBVIOUS
<1> HIDE DEF D
<1>14. Segments(n) \in SUBSET Interval(n) /\ Closed(Segments(n))
  BY <1>13, SegmentsClosed
<1>15. c \in Segments(n) /\ c \in Interval(n)
  BY <1>9, <1>12, <1>14
<1>16. i \in 1 .. Len(old)
  BY <1>9, <1>10, <1>11, <1>15
<1>17. nodes \in Seq(Node) /\ Len(nodes) = Len(old)
  BY DEF Mixed
<1>18. \A j \in 1 .. Len(old) :
         nodes[j] = IF \E k \in DOMAIN writes : writes[k].node = j THEN old[j] ELSE new[j]
  BY DEF Mixed
<1>19. nodes[i] = old[i]
  BY <1>7, <1>16, <1>18
<1>20. Successor(n, old, new, left, right, event.value)
  BY <1>1, <1>2, <1>3 DEF UpdateOf
<1>21. new \in Seq(Node) /\ Len(new) = Len(old)
  BY <1>20 DEF Successor
<1>22. new[i] \in Node
  BY <1>16, <1>21, ElementOfSeq
(* No node written later is below this one, and none is written twice. *)
<1>23. ASSUME NEW k \in 1 .. m - 1
       PROVE  /\ ~Within(rest[k].segment, c) /\ rest[k].segment \in D
              /\ rest[k].node = slot[rest[k].segment] /\ rest[k].node # i
  <2>1. ~Within(rest[k].segment, c)
    BY <1>3, <1>7, <1>8 DEF Ordered
  <2>2. rest[k].segment \in D /\ rest[k].node = slot[rest[k].segment]
    BY <1>3, <1>8, <1>10
  <2>3. Within(c, c)
    BY <1>15, Halves DEF Within
  <2>4. rest[k].segment # c
    BY <2>1, <2>3
  <2>5. rest[k].node # i
    BY <1>9, <1>10, <1>11, <1>12, <1>15, <2>2, <2>4
  <2> QED BY <2>1, <2>2, <2>5
<1>24. ASSUME NEW k \in DOMAIN writes
       PROVE  k = 1 \/ (k - 1 \in 1 .. m - 1 /\ writes[k] = rest[k - 1])
  <2>1. k \in 1 .. m
    BY <1>6
  <2>2. k # 1 => k - 1 \in 1 .. m - 1 /\ (k - 1) + 1 = k
    BY <2>1
  <2> QED BY <1>8, <2>2
<1>25. ASSUME NEW d \in Segments(n), Within(d, c), d # c
       PROVE  nodes[slot[d]] = new[slot[d]]
  <2>1. slot[d] \in 1 .. Len(old)
    BY <1>11
  <2>2. ASSUME NEW k \in DOMAIN writes, writes[k].node = slot[d] PROVE FALSE
    <3>1. writes[k].segment \in Segments(n) /\ writes[k].node = slot[writes[k].segment]
      BY <1>3, <1>10, <1>12
    <3>2. writes[k].segment = d
      BY <1>11, <2>2, <3>1
    <3>3. CASE k = 1
      BY <1>7, <1>25, <3>2, <3>3
    <3>4. CASE k - 1 \in 1 .. m - 1 /\ writes[k] = rest[k - 1]
      BY <1>23, <1>25, <3>2, <3>4
    <3> QED BY <1>24, <3>3, <3>4
  <2> QED BY <1>18, <2>1, <2>2
<1>26. Written(nodes, i, c) = new[i]
  <2>1. new[i] = IF Covers(left, right, c)
                 THEN [sum |-> Apply(event.value, old[i].sum, Length(c)),
                       lazy |-> CheckedAdd(old[i].lazy, event.value)]
                 ELSE [sum |-> Apply(old[i].lazy,
                                     CheckedAdd(new[slot[LeftHalf(c)]].sum,
                                                new[slot[RightHalf(c)]].sum),
                                     Length(c)),
                       lazy |-> old[i].lazy]
    BY <1>9, <1>10, <1>20 DEF Successor, D
  <2>2. ASSUME ~Covers(left, right, c)
        PROVE  /\ nodes[LeftChild(i)] = new[slot[LeftHalf(c)]]
               /\ nodes[RightChild(i, c)] = new[slot[RightHalf(c)]]
    <3>1. ~Disjoint(left, right, c)
      BY <1>9, VisitedFacts DEF D
    <3>2. ~IsLeaf(c)
      <4>1. left \in Int /\ right \in Int
        OBVIOUS
      <4> QED BY <1>15, <2>2, <3>1, <4>1, LeafCovered
    <3>3. LeftHalf(c) \in Segments(n) /\ RightHalf(c) \in Segments(n)
      BY <1>14, <1>15, <3>2 DEF Closed
    <3>4. slot[LeftHalf(c)] = LeftChild(i) /\ slot[RightHalf(c)] = RightChild(i, c)
      BY <1>9, <1>10, <1>11, <1>15, <3>2
    <3>5. /\ c[1] \in Int /\ c[2] \in Int /\ Midpoint(c) \in Int
          /\ c[1] <= Midpoint(c) /\ Midpoint(c) < c[2]
      BY <1>15, <3>2, Halves
    <3>6. /\ LeftHalf(c)[1] = c[1] /\ LeftHalf(c)[2] = Midpoint(c)
          /\ RightHalf(c)[1] = Midpoint(c) + 1 /\ RightHalf(c)[2] = c[2]
      BY DEF LeftHalf, RightHalf
    <3>7. /\ Within(LeftHalf(c), c) /\ LeftHalf(c) # c
          /\ Within(RightHalf(c), c) /\ RightHalf(c) # c
      BY <3>5, <3>6 DEF Within
    <3>8. /\ nodes[slot[LeftHalf(c)]] = new[slot[LeftHalf(c)]]
          /\ nodes[slot[RightHalf(c)]] = new[slot[RightHalf(c)]]
      BY <1>25, <3>3, <3>7
    <3> QED BY <3>4, <3>8
  <2>3. call.event.left = left /\ call.event.right = right /\ call.event.value = event.value
    BY <1>1, <1>2
  <2>4. CASE Covers(left, right, c)
    BY <1>19, <2>1, <2>3, <2>4 DEF Written
  <2>5. CASE ~Covers(left, right, c)
    BY <1>19, <2>1, <2>2, <2>3, <2>5 DEF Written
  <2> QED BY <2>4, <2>5
<1>27. Pending(n, event, rest)
  <2>1. \A k \in DOMAIN rest : /\ rest[k].segment \in D
                               /\ rest[k].node = Slot(n)[rest[k].segment]
    BY <1>6, <1>10, <1>23
  <2>2. ASSUME NEW j \in DOMAIN rest, NEW k \in DOMAIN rest, j < k
        PROVE  ~Within(rest[k].segment, rest[j].segment)
    <3>1. /\ j \in 1 .. m - 1 /\ k \in 1 .. m - 1 /\ j + 1 < k + 1
      BY <1>6, <2>2
    <3>2. /\ rest[j] = writes[j + 1] /\ j + 1 \in DOMAIN writes
          /\ rest[k] = writes[k + 1] /\ k + 1 \in DOMAIN writes
      BY <1>8, <3>1
    <3> QED BY <1>3, <3>1, <3>2 DEF Ordered
  <2> QED BY <1>1, <1>2, <1>3, <2>1, <2>2 DEF Pending, Ordered, D
<1>28. PICK after : after = [nodes EXCEPT ![i] = new[i]]
  OBVIOUS
<1>29. /\ after \in Seq(Node) /\ Len(after) = Len(old)
       /\ \A j \in 1 .. Len(old) : after[j] = IF j = i THEN new[i] ELSE nodes[j]
  BY <1>16, <1>17, <1>22, <1>28, ExceptSeq
<1>30. Mixed(after, old, new, rest)
  <2>1. ASSUME NEW j \in 1 .. Len(old), j # i
        PROVE  (\E k \in DOMAIN writes : writes[k].node = j)
                 <=> \E k \in DOMAIN rest : rest[k].node = j
    <3>1. ASSUME NEW k \in DOMAIN writes, writes[k].node = j
          PROVE  \E q \in DOMAIN rest : rest[q].node = j
      BY <1>6, <1>7, <1>24, <2>1, <3>1
    <3>2. ASSUME NEW k \in DOMAIN rest, rest[k].node = j
          PROVE  \E q \in DOMAIN writes : writes[q].node = j
      BY <1>6, <1>8, <3>2
    <3> QED BY <3>1, <3>2
  <2>2. ~ \E k \in DOMAIN rest : rest[k].node = i
    BY <1>6, <1>23
  <2>3. ASSUME NEW j \in 1 .. Len(old)
        PROVE  after[j] = IF \E k \in DOMAIN rest : rest[k].node = j THEN old[j] ELSE new[j]
    <3>1. CASE j = i
      BY <1>29, <2>2, <3>1
    <3>2. CASE j # i
      <4>1. after[j] = nodes[j]
        BY <1>29, <3>2
      <4> QED BY <1>18, <2>1, <3>2, <4>1
    <3> QED BY <3>1, <3>2
  <2> QED BY <1>29, <2>3 DEF Mixed
<1> QED BY <1>5, <1>16, <1>17, <1>22, <1>26, <1>27, <1>28, <1>30

-----------------------------------------------------------------------------
(***************************************************************************)
(* The schedule of the checkpoints.                                        *)
(***************************************************************************)
LEMMA Division ==
  ASSUME NEW s \in Nat, NEW q \in Nat \ {0}
  PROVE  \E a, r \in Nat : /\ a = s \div q /\ r = s % q
                           /\ r < q /\ s = q * a + r
<1>1. s \div q \in Nat
  OBVIOUS
<1>2. s % q \in Nat /\ s % q < q
  OBVIOUS
<1>3. s = q * (s \div q) + (s % q)
  OBVIOUS
<1> QED BY <1>1, <1>2, <1>3

(* Multiples of q in order. *)
LEMMA Multiples ==
  ASSUME NEW q \in Nat \ {0}, NEW a \in Nat, NEW b \in Nat
  PROVE  /\ a * q \in Nat /\ a * q = q * a
         /\ a < b => a * q + q <= b * q
         /\ a <= b => a * q <= b * q
<1>1. a * q \in Nat /\ a * q = q * a /\ b * q \in Nat
  OBVIOUS
<1>2. ASSUME a < b PROVE a * q + q <= b * q
  <2>1. PICK d \in Nat : b = a + 1 + d
    <3>1. b - a - 1 \in Nat /\ b = a + 1 + (b - a - 1)
      BY <1>2
    <3> QED BY <3>1
  <2>2. b * q = a * q + q + d * q
    BY <2>1
  <2>3. d * q \in Nat
    OBVIOUS
  <2> QED BY <1>1, <2>2, <2>3
<1>3. ASSUME a <= b PROVE a * q <= b * q
  <2>1. CASE a = b
    BY <1>1, <2>1
  <2>2. CASE a < b
    BY <1>1, <1>2, <2>2
  <2> QED BY <1>3, <2>1, <2>2
<1> QED BY <1>1, <1>2, <1>3

(* The b multiples of q up to s, and the one it has with s + 1. *)
Periods(s, q, b) ==
  /\ b \in Nat \ {0}
  /\ \A k \in 1 .. b : (k - 1) * q \in 0 .. s
  /\ (s + 1) % q = 0 => (s + 1) \div q = b /\ s + 1 = b * q
  /\ (s + 1) % q # 0 => (s + 1) \div q = b - 1

PeriodsBelow(s, q, b) ==
  \A v \in 0 .. s : v \div q + 1 \in 1 .. b /\ (v \div q) * q \in 0 .. v

LEMMA Schedule ==
  ASSUME NEW s \in Nat, NEW q \in Nat \ {0}, NEW b, b = s \div q + 1
  PROVE  Periods(s, q, b) /\ PeriodsBelow(s, q, b)
<1>1. PICK a, r \in Nat : a = s \div q /\ r = s % q /\ r < q /\ s = q * a + r
  BY Division
<1>2. b = a + 1 /\ b \in Nat \ {0} /\ a * q \in Nat /\ s = a * q + r
  BY <1>1, Multiples
<1>3. ASSUME NEW k \in 1 .. b PROVE (k - 1) * q \in 0 .. s
  <2>1. PICK j \in Nat : j = k - 1 /\ j <= a
    <3>1. k - 1 \in Nat /\ k - 1 <= a
      BY <1>1, <1>2
    <3> QED BY <3>1
  <2>2. j * q \in Nat /\ j * q <= a * q
    BY <1>1, <2>1, Multiples
  <2> QED BY <1>1, <1>2, <2>1, <2>2
<1>4. ASSUME NEW v \in 0 .. s
      PROVE  v \div q + 1 \in 1 .. b /\ (v \div q) * q \in 0 .. v
  <2>1. PICK x, y \in Nat : x = v \div q /\ y = v % q /\ y < q /\ v = q * x + y
    BY Division
  <2>2. x * q \in Nat /\ v = x * q + y
    BY <2>1, Multiples
  <2>3. a < x => a * q + q <= x * q
    BY <1>1, <2>1, Multiples
  <2>4. x <= a
    BY <1>1, <1>2, <2>1, <2>2, <2>3
  <2> QED BY <1>1, <1>2, <2>1, <2>2, <2>4
<1>5. PICK x, y \in Nat : x = (s + 1) \div q /\ y = (s + 1) % q /\ y < q /\ s + 1 = q * x + y
  <2>1. s + 1 \in Nat
    OBVIOUS
  <2> QED BY <2>1, Division
<1>6. x * q \in Nat /\ s + 1 = x * q + y
  BY <1>5, Multiples
<1>7. x = a \/ x = a + 1
  <2>1. x < a => x * q + q <= a * q
    BY <1>1, <1>5, Multiples
  <2>2. a + 1 < x => (a + 1) * q + q <= x * q
    BY <1>1, <1>5, Multiples
  <2>3. (a + 1) * q = a * q + q
    BY <1>1
  <2> QED BY <1>1, <1>2, <1>5, <1>6, <2>1, <2>2, <2>3
<1>8. (a + 1) * q = a * q + q
  BY <1>1
<1>9. y = 0 => x = a + 1
  BY <1>1, <1>2, <1>5, <1>6, <1>7
<1>10. y # 0 => x = a
  BY <1>1, <1>2, <1>5, <1>6, <1>7, <1>8
<1> QED BY <1>2, <1>3, <1>4, <1>5, <1>6, <1>8, <1>9, <1>10 DEF Periods, PeriodsBelow

-----------------------------------------------------------------------------
(***************************************************************************)
(* The versions that the log leads to, of which the first last + 1 are     *)
(* published.                                                              *)
(***************************************************************************)
EventIn(event, n) ==
  /\ event \in UpdateEvent
  /\ event.left \in 1 .. n /\ event.right \in event.left .. n

History(W, last) ==
  /\ W \in Seq(Seq(Value)) /\ Len(W) = last + 1
  /\ \A v \in 1 .. last + 1 : Len(W[v]) = arraySize /\ Admissible(W[v])
  /\ last <= Len(events)
  /\ \A i \in 1 .. last :
       /\ EventIn(events[i], arraySize)
       /\ W[i + 1] = AddToRange(W[i], events[i].left, events[i].right, events[i].value)

LEMMA MaxMinOfTwo ==
  ASSUME NEW a \in Int, NEW b \in Int
  PROVE  /\ Max({a, b}) = IF a >= b THEN a ELSE b
         /\ Min({a, b}) = IF a <= b THEN a ELSE b
<1>1. Max({a, b}) = IF a >= b THEN a ELSE b
  <2>1. \E x \in {a, b} : \A y \in {a, b} : x >= y
    OBVIOUS
  <2>2. PICK x : x = Max({a, b})
    OBVIOUS
  <2>3. x \in {a, b} /\ \A y \in {a, b} : x >= y
    BY <2>1, <2>2 DEF Max
  <2> QED BY <2>2, <2>3
<1>2. Min({a, b}) = IF a <= b THEN a ELSE b
  <2>1. \E x \in {a, b} : \A y \in {a, b} : x <= y
    OBVIOUS
  <2>2. PICK x : x = Min({a, b})
    OBVIOUS
  <2>3. x \in {a, b} /\ \A y \in {a, b} : x <= y
    BY <2>1, <2>2 DEF Min
  <2> QED BY <2>2, <2>3
<1> QED BY <1>1, <1>2

AtLeast(x, bottom) == IF x >= bottom THEN x ELSE bottom

AtMost(x, top) == IF x <= top THEN x ELSE top

Overlap(left, right, first, final) ==
  IF AtLeast(left, first) <= AtMost(right, final)
  THEN AtMost(right, final) - AtLeast(left, first) + 1 ELSE 0

LEMMA SumsSwap ==
  \A a, b, c, d \in Int : (a + b) + (c + d) = (a + c) + (b + d)
OBVIOUS

LEMMA DifferenceTimes ==
  \A a, b, c \in Int : c * a - c * b = c * (a - b) /\ c * a \in Int /\ c * 0 = 0
OBVIOUS

(* The sum of a range grows by the delta for each shared element. *)
LEMMA SumAfter ==
  ASSUME NEW n \in Nat, NEW w \in Seq(Value), Len(w) = n,
         NEW first \in 1 .. n, NEW final \in first .. n, NEW value \in Value,
         NEW next, next = AddToRange(w, first, final, value), next \in Seq(Value),
         NEW left \in 1 .. n, NEW right \in left .. n
  PROVE  /\ ExactSum(w, left, right) \in Int
         /\ ExactSum(next, left, right)
              = ExactSum(w, left, right) + value * Overlap(left, right, first, final)
<1> DEFINE a == AtLeast(left, first)
           b == AtMost(right, final)
<1>1. value \in Int
  BY ValueFacts
<1>2. \A p \in 1 .. n : /\ w[p] \in Int /\ next[p] \in Int
                        /\ next[p] = w[p] + IF p \in first .. final THEN value ELSE 0
  <2>1. Len(next) = n
    BY AddToRangeFacts
  <2>2. \A p \in 1 .. n : w[p] \in Value /\ next[p] \in Value
    BY <2>1, ElementOfSeq
  <2>3. \A p \in 1 .. n : next[p] = w[p] + IF p \in first .. final THEN value ELSE 0
    BY <2>2, AddToRangeFacts
  <2> QED BY <2>2, <2>3, ValueFacts
<1>3. PICK S : RunningSums(S, w, n)
  BY <1>2, PrefixSums
<1>4. /\ \A p \in 0 .. n : S[p] \in Int
      /\ S[0] = 0 /\ \A p \in 1 .. n : S[p] = S[p - 1] + w[p]
  BY <1>3 DEF RunningSums
<1>5. PICK C : C = [p \in 0 .. n |-> IF p < first THEN 0
                                     ELSE IF p <= final THEN p - first + 1
                                     ELSE final - first + 1]
  OBVIOUS
<1>6. \A p \in 0 .. n : /\ C[p] \in Int /\ value * C[p] \in Int
                        /\ C[p] = IF p < first THEN 0 ELSE IF p <= final THEN p - first + 1
                                  ELSE final - first + 1
  <2>1. ASSUME NEW p \in 0 .. n
        PROVE  /\ C[p] \in Int
               /\ C[p] = IF p < first THEN 0 ELSE IF p <= final THEN p - first + 1
                         ELSE final - first + 1
    BY <1>5
  <2> QED BY <1>1, <2>1
<1>7. PICK Z : Z = [p \in 0 .. n |-> S[p] + value * C[p]]
  OBVIOUS
<1>8. RunningSums(Z, next, n)
  <2>1. Z \in [0 .. n -> Int]
    <3>1. \A p \in 0 .. n : S[p] + value * C[p] \in Int
      <4>1. ASSUME NEW p \in 0 .. n PROVE S[p] + value * C[p] \in Int
        <5>1. PICK x \in Int, y \in Int : x = S[p] /\ y = value * C[p]
          BY <1>4, <1>6
        <5> QED BY <5>1
      <4> QED BY <4>1
    <3> QED BY <1>7, <3>1
  <2>2. Z[0] = 0
    <3>1. C[0] = 0 /\ value * 0 = 0
      BY <1>1, <1>6
    <3> QED BY <1>4, <1>7, <3>1
  <2>3. ASSUME NEW p \in 1 .. n PROVE Z[p] = Z[p - 1] + next[p]
    <3>1. p \in 0 .. n /\ p - 1 \in 0 .. n /\ S[p] = S[p - 1] + w[p]
      BY <1>4
    <3>2. PICK x \in Int, y \in Int : x = C[p] /\ y = C[p - 1]
      BY <1>6, <3>1
    <3>3. x = y + IF p \in first .. final THEN 1 ELSE 0
      BY <1>6, <3>1, <3>2
    <3>4. value * x = value * y + IF p \in first .. final THEN value ELSE 0
      <4>1. value * (y + 1) = value * y + value /\ value * (y + 0) = value * y
        BY <1>1, <3>2
      <4>2. CASE p \in first .. final
        <5>1. x = y + 1
          BY <3>3, <4>2
        <5> QED BY <4>1, <4>2, <5>1
      <4>3. CASE p \notin first .. final
        <5>1. x = y
          BY <3>2, <3>3, <4>3
        <5>2. value * y \in Int
          BY <1>1, <3>2
        <5> QED BY <4>3, <5>1, <5>2
      <4> QED BY <4>2, <4>3
    <3>5. /\ S[p] \in Int /\ S[p - 1] \in Int /\ w[p] \in Int
          /\ next[p] = w[p] + IF p \in first .. final THEN value ELSE 0
      BY <1>2, <1>4, <3>1
    <3>6. Z[p] = S[p] + value * x /\ Z[p - 1] = S[p - 1] + value * y
      BY <1>7, <3>1, <3>2
    <3>7. value * y \in Int
      BY <1>1, <3>2
    <3>8. PICK d \in Int : d = IF p \in first .. final THEN value ELSE 0
      BY <1>1
    <3>9. PICK t \in Int, e \in Int : t = S[p - 1] /\ e = w[p]
      BY <3>5
    <3>10. PICK v \in Int : v = value * y
      BY <3>7
    <3>11. S[p] = t + e /\ value * x = v + d /\ next[p] = e + d
      BY <3>1, <3>4, <3>5, <3>8, <3>9, <3>10
    <3>12. Z[p] = (t + e) + (v + d) /\ Z[p - 1] = t + v
      BY <3>6, <3>9, <3>10, <3>11
    <3>13. (t + e) + (v + d) = (t + v) + (e + d)
      BY SumsSwap
    <3> QED BY <3>11, <3>12, <3>13
  <2> QED BY <1>2, <2>1, <2>2, <2>3 DEF RunningSums
<1>9. /\ ExactSum(w, left, right) = S[right] - S[left - 1]
      /\ ExactSum(next, left, right) = Z[right] - Z[left - 1]
  BY <1>3, <1>8, ExactSumIs
<1>10. left - 1 \in 0 .. n /\ right \in 0 .. n
  OBVIOUS
<1>11. PICK x \in Int, y \in Int : x = C[right] /\ y = C[left - 1]
  BY <1>6, <1>10
<1>12. x - y = IF a <= b THEN b - a + 1 ELSE 0
  <2>1. x = IF right < first THEN 0 ELSE IF right <= final THEN right - first + 1
            ELSE final - first + 1
    BY <1>6, <1>10, <1>11
  <2>2. y = IF left - 1 < first THEN 0 ELSE IF left - 1 <= final THEN (left - 1) - first + 1
            ELSE final - first + 1
    BY <1>6, <1>10, <1>11
  <2>3. left \in Int /\ right \in Int /\ first \in Int /\ final \in Int /\ n \in Int
        /\ left <= right /\ first <= final
    OBVIOUS
  <2>4. PICK k \in Int : k = left - 1
    BY <2>3
  <2>5. y = IF k < first THEN 0 ELSE IF k <= final THEN k - first + 1 ELSE final - first + 1
    BY <2>2, <2>4
  <2> USE DEF AtLeast, AtMost
  <2>6. CASE left >= first /\ right <= final
    BY <2>1, <2>3, <2>4, <2>5, <2>6
  <2>7. CASE left >= first /\ ~(right <= final)
    BY <2>1, <2>3, <2>4, <2>5, <2>7
  <2>8. CASE ~(left >= first) /\ right <= final
    BY <2>1, <2>3, <2>4, <2>5, <2>8
  <2>9. CASE ~(left >= first) /\ ~(right <= final)
    BY <2>1, <2>3, <2>4, <2>5, <2>9
  <2> QED BY <2>6, <2>7, <2>8, <2>9
<1>13. value * x - value * y = value * (x - y) /\ value * x \in Int /\ value * y \in Int
       /\ value * 0 = 0
  <2>1. x \in Int /\ y \in Int /\ value \in Int
    BY <1>1, <1>11
  <2> QED BY <2>1, DifferenceTimes, Zenon
<1>14. S[right] \in Int /\ S[left - 1] \in Int
  BY <1>4, <1>10
<1>15. Z[right] = S[right] + value * x /\ Z[left - 1] = S[left - 1] + value * y
  BY <1>7, <1>10, <1>11
<1>16. value * (x - y) = value * Overlap(left, right, first, final)
  BY <1>12 DEF Overlap
<1>17. PICK s \in Int, t \in Int, u \in Int, v \in Int :
         s = S[right] /\ t = S[left - 1] /\ u = value * x /\ v = value * y
  BY <1>13, <1>14
<1>18. /\ ExactSum(w, left, right) = s - t
       /\ ExactSum(next, left, right) = (s + u) - (t + v)
       /\ u - v = value * Overlap(left, right, first, final)
  BY <1>9, <1>13, <1>15, <1>16, <1>17
<1>19. (s + u) - (t + v) = (s - t) + (u - v) /\ s - t \in Int
  BY <1>17
<1> QED BY <1>18, <1>19

(* Replaying one update is exact, or reports an overflow. *)
LEMMA ReplayedIs ==
  ASSUME NEW n \in Nat, NEW w \in Seq(Value), Len(w) = n, NEW event, EventIn(event, n),
         NEW next, next = AddToRange(w, event.left, event.right, event.value),
         next \in Seq(Value), NEW left \in 1 .. n, NEW right \in left .. n,
         NEW sum \in {ExactSum(w, left, right), Overflow}
  PROVE  Replayed(sum, event, left, right) \in {ExactSum(next, left, right), Overflow}
<1>1. PICK first \in 1 .. n : first = event.left
  BY DEF EventIn
<1>2. PICK final \in first .. n : final = event.right
  BY <1>1 DEF EventIn
<1>3. PICK value \in Value : value = event.value
  BY DeltasAssumption DEF EventIn, UpdateEvent
<1>4. PICK a \in Int : a = Max({left, event.left}) /\ a = AtLeast(left, first)
  BY <1>1, MaxMinOfTwo DEF AtLeast
<1>5. PICK b \in Int : b = Min({right, event.right}) /\ b = AtMost(right, final)
  <2>1. right \in Int /\ final \in Int
    OBVIOUS
  <2>2. Min({right, final}) = IF right <= final THEN right ELSE final
    BY <2>1, MaxMinOfTwo
  <2> QED BY <1>2, <2>1, <2>2 DEF AtMost
<1>6. PICK x \in Int : /\ x = ExactSum(w, left, right)
                       /\ ExactSum(next, left, right)
                            = x + value * Overlap(left, right, first, final)
  <2>1. next = AddToRange(w, first, final, value)
    BY <1>1, <1>2, <1>3
  <2>2. ExactSum(w, left, right) \in Int
        /\ ExactSum(next, left, right)
             = ExactSum(w, left, right) + value * Overlap(left, right, first, final)
    BY <2>1, SumAfter
  <2> QED BY <2>2
<1>7. Replayed(sum, event, left, right)
        = IF a <= b THEN Apply(value, sum, b - a + 1) ELSE sum
  BY <1>3, <1>4, <1>5 DEF Replayed
<1>8. CASE a <= b
  <2>0. Overlap(left, right, first, final) = b - a + 1
    BY <1>4, <1>5, <1>8 DEF Overlap
  <2>1. b - a + 1 \in Nat /\ value \in Int /\ sum \in Int
    BY <1>6, <1>8, ValueFacts
  <2>2. Apply(value, sum, b - a + 1) # Overflow
          => Apply(value, sum, b - a + 1) = sum + value * (b - a + 1) /\ sum # Overflow
    BY <2>1, ApplyExact
  <2> QED BY <1>6, <1>7, <1>8, <2>0, <2>2
<1>9. CASE ~(a <= b)
  <2>1. Overlap(left, right, first, final) = 0 /\ value * 0 = 0
    BY <1>4, <1>5, <1>9, ValueFacts DEF Overlap
  <2> QED BY <1>6, <1>7, <1>9, <2>1
<1> QED BY <1>8, <1>9

LEMMA HistoryFacts ==
  ASSUME NEW last \in Nat, NEW W, History(W, last), NEW v \in 0 .. last
  PROVE  /\ W[v + 1] \in Seq(Value) /\ Len(W[v + 1]) = arraySize /\ Admissible(W[v + 1])
         /\ v # last =>
              /\ EventIn(events[v + 1], arraySize)
              /\ W[v + 2] = AddToRange(W[v + 1], events[v + 1].left, events[v + 1].right,
                                       events[v + 1].value)
<1>1. v + 1 \in 1 .. last + 1
  OBVIOUS
<1>2. W[v + 1] \in Seq(Value)
  BY <1>1, ElementOfSeq DEF History
<1>3. v # last => v + 1 \in 1 .. last /\ (v + 1) + 1 = v + 2
  OBVIOUS
<1> QED BY <1>1, <1>2, <1>3 DEF History

(* The log leads from a checkpoint to the versions after it. *)
LEMMA ElementsIs ==
  ASSUME arraySize \in Nat, NEW last \in Nat, NEW W, History(W, last),
         NEW k, NEW start \in 0 .. last, start = checkpoints[k].version,
         TreeFor(arraySize, checkpoints[k].nodes, W[start + 1]),
         NEW version \in start .. last
  PROVE  ElementsFrom(k, version) = W[version + 1]
<1>1. PICK m \in Nat : m = version - start
  <2>1. version - start \in Nat
    OBVIOUS
  <2> QED BY <2>1
<1> DEFINE Following(f) ==
             [i \in 0 .. m |->
                IF i = 0 THEN Materialize(checkpoints[k].nodes)
                ELSE AddToRange(f[i - 1], events[start + i].left,
                                events[start + i].right, events[start + i].value)]
<1>2. Materialize(checkpoints[k].nodes) = W[start + 1]
  BY MaterializeIs
<1>3. ASSUME NEW i \in 1 .. m
      PROVE  W[start + i + 1] = AddToRange(W[start + i], events[start + i].left,
                                           events[start + i].right, events[start + i].value)
  <2>1. PICK v \in 0 .. last : v = start + i - 1 /\ v # last
    <3>1. start + i - 1 \in 0 .. last /\ start + i - 1 # last
      BY <1>1
    <3> QED BY <3>1
  <2>2. v + 1 = start + i /\ v + 2 = start + i + 1
    BY <2>1
  <2>3. W[v + 2] = AddToRange(W[v + 1], events[v + 1].left, events[v + 1].right,
                              events[v + 1].value)
    BY <2>1, HistoryFacts
  <2> QED BY <2>2, <2>3
<1>4. PICK g : g = [i \in 0 .. m |-> W[start + i + 1]]
  OBVIOUS
<1>5. g = Following(g)
  <2>1. \A i \in 0 .. m : g[i] = Following(g)[i]
    <3>1. ASSUME NEW i \in 0 .. m PROVE g[i] = Following(g)[i]
      <4>1. CASE i = 0
        <5>1. start + 0 + 1 = start + 1
          OBVIOUS
        <5> QED BY <1>2, <1>4, <4>1, <5>1
      <4>2. CASE i # 0
        <5>1. i \in 1 .. m /\ i - 1 \in 0 .. m /\ start + (i - 1) + 1 = start + i
          BY <4>2
        <5>2. g[i - 1] = W[start + i] /\ g[i] = W[start + i + 1]
          BY <1>4, <5>1
        <5> QED BY <1>3, <4>2, <5>1, <5>2
      <4> QED BY <4>1, <4>2
    <3> QED BY <3>1
  <2> QED BY <1>4, <2>1
<1>6. PICK f : f = Following(f) /\ ElementsFrom(k, version) = f[m]
  <2>1. \E f : f = Following(f)
    BY <1>5
  <2> QED BY <1>1, <2>1 DEF ElementsFrom
<1>7. \A i \in 0 .. m : f[i] = Following(f)[i]
  BY <1>6
<1> DEFINE T == {i \in Nat : i <= m => f[i] = W[start + i + 1]}
<1>8. 0 \in T
  <2>1. start + 0 + 1 = start + 1
    OBVIOUS
  <2> QED BY <1>2, <1>7, <2>1
<1>9. ASSUME NEW i \in Nat, i \in T PROVE i + 1 \in T
  <2> SUFFICES ASSUME i + 1 <= m PROVE f[i + 1] = W[start + (i + 1) + 1]
    OBVIOUS
  <2>1. i + 1 \in 1 .. m /\ (i + 1) - 1 = i /\ i + 1 # 0 /\ start + (i + 1) = start + i + 1
    OBVIOUS
  <2>2. f[i] = W[start + i + 1]
    BY <1>9
  <2>3. f[i + 1] = AddToRange(f[i], events[start + (i + 1)].left, events[start + (i + 1)].right,
                              events[start + (i + 1)].value)
    BY <1>7, <2>1
  <2> QED BY <1>3, <2>1, <2>2, <2>3
<1>10. Nat \subseteq T
  <2> HIDE DEF T
  <2> QED BY <1>8, <1>9, SetInduction
<1>11. f[m] = W[start + m + 1] /\ start + m + 1 = version + 1
  BY <1>1, <1>10
<1> QED BY <1>6, <1>11

(* Replaying the log onto a sum of a checkpoint. *)
LEMMA ReplayIs ==
  ASSUME arraySize \in Nat, NEW last \in Nat, NEW W, History(W, last), NEW version \in 0 .. last,
         NEW start \in 0 .. version, start = Base(version).version,
         TreeFor(arraySize, Base(version).nodes, W[start + 1]),
         NEW left \in 1 .. arraySize, NEW right \in left .. arraySize
  PROVE  Replay(version, left, right) \in {ExactSum(W[version + 1], left, right), Overflow}
<1>0. PICK n \in Nat : n = arraySize
  OBVIOUS
<1>1. PICK m \in Nat : m = version - start
  <2>1. version - start \in Nat
    OBVIOUS
  <2> QED BY <2>1
<1> DEFINE base == Base(version)
           Following(f) ==
             [i \in 0 .. m |->
                IF i = 0 THEN Query(base.nodes, left, right)
                ELSE Replayed(f[i - 1], events[start + i], left, right)]
           OK(i, x) == x \in {ExactSum(W[start + i + 1], left, right), Overflow}
<1>2. start + 0 + 1 = start + 1
  OBVIOUS
<1>3. Query(base.nodes, left, right) \in {ExactSum(W[start + 1], left, right), Overflow}
  BY QueryIs
<1>4. ASSUME NEW i \in 0 .. m
      PROVE  /\ start + i \in 0 .. last
             /\ W[start + i + 1] \in Seq(Value) /\ Len(W[start + i + 1]) = n
             /\ i # m =>
                  /\ EventIn(events[start + i + 1], n)
                  /\ W[start + (i + 1) + 1]
                       = AddToRange(W[start + i + 1], events[start + i + 1].left,
                                    events[start + i + 1].right, events[start + i + 1].value)
  <2>1. PICK v \in 0 .. last : v = start + i /\ (i # m => v # last)
    <3>1. start + i \in 0 .. last /\ (i # m => start + i # last)
      BY <1>1
    <3> QED BY <3>1
  <2>2. v + 1 = start + i + 1 /\ v + 2 = start + (i + 1) + 1
    BY <2>1
  <2>3. /\ W[v + 1] \in Seq(Value) /\ Len(W[v + 1]) = n
        /\ v # last =>
             /\ EventIn(events[v + 1], n)
             /\ W[v + 2] = AddToRange(W[v + 1], events[v + 1].left, events[v + 1].right,
                                      events[v + 1].value)
    BY <1>0, HistoryFacts
  <2> QED BY <2>1, <2>2, <2>3
<1>5. ASSUME NEW i \in Nat, i + 1 <= m, NEW x, OK(i, x)
      PROVE  OK(i + 1, Replayed(x, events[start + (i + 1)], left, right))
  <2>1. i \in 0 .. m /\ i + 1 \in 0 .. m /\ i # m /\ start + (i + 1) = start + i + 1
    BY <1>5
  <2>2. PICK w, next, event : /\ w = W[start + i + 1] /\ next = W[start + (i + 1) + 1]
                              /\ event = events[start + i + 1]
    OBVIOUS
  <2>3. /\ w \in Seq(Value) /\ Len(w) = n /\ next \in Seq(Value) /\ EventIn(event, n)
        /\ next = AddToRange(w, event.left, event.right, event.value)
    BY <1>4, <2>1, <2>2
  <2>4. left \in 1 .. n /\ right \in left .. n
    BY <1>0
  <2>5. Replayed(x, event, left, right) \in {ExactSum(next, left, right), Overflow}
    <3>1. x \in {ExactSum(w, left, right), Overflow}
      BY <1>5, <2>2
    <3> HIDE DEF OK
    <3> QED BY <2>3, <2>4, <3>1, ReplayedIs
  <2> QED BY <2>1, <2>2, <2>5
<1>6. \E f : f = Following(f)
  <2>1. ASSUME NEW x \in Int, NEW event, EventIn(event, n) PROVE Replayed(x, event, left, right) \in Int
    BY <2>1, CheckedAddOutcome, OutcomeFacts DEF Replayed, Apply
  <2>2. PICK next : next = [y \in (1 .. m) \X Int |->
                              Replayed(y[2], events[start + y[1]], left, right)]
    OBVIOUS
  <2>3. next \in [(1 .. m) \X Int -> Int]
    <3>1. ASSUME NEW i \in 1 .. m, NEW x \in Int
          PROVE  Replayed(x, events[start + i], left, right) \in Int
      <4>1. i - 1 \in 0 .. m /\ i - 1 # m /\ start + (i - 1) + 1 = start + i
        OBVIOUS
      <4> QED BY <1>4, <2>1, <4>1
    <3>2. \A y \in (1 .. m) \X Int : Replayed(y[2], events[start + y[1]], left, right) \in Int
      BY <3>1
    <3> QED BY <2>2, <3>2
  <2>4. Query(base.nodes, left, right) \in Int
    <3>1. PICK w \in Seq(Value) : w = W[start + 1] /\ Len(w) = n
      <4>1. 0 \in 0 .. m
        OBVIOUS
      <4> QED BY <1>2, <1>4, <4>1
    <3>2. ExactSum(w, left, right) \in Int
      <4>1. \A p \in 1 .. n : w[p] \in Int
        BY <3>1, ElementOfSeq, ValueFacts
      <4>2. PICK S : RunningSums(S, w, n)
        BY <4>1, PrefixSums
      <4>3. left \in 1 .. n /\ right \in left .. n
        BY <1>0
      <4>4. ExactSum(w, left, right) = S[right] - S[left - 1]
        BY <4>2, <4>3, ExactSumIs
      <4>5. S[right] \in Int /\ S[left - 1] \in Int
        BY <4>2, <4>3 DEF RunningSums
      <4> QED BY <4>4, <4>5
    <3> QED BY <1>3, <3>1, <3>2, ValueFacts
  <2>5. PICK first \in Int : first = Query(base.nodes, left, right)
    BY <2>4
  <2>6. PICK f : CountSolution(f, m, Int, first, next)
    BY <2>3, CountRecursionSolved
  <2>7. ASSUME NEW i \in 0 .. m PROVE f[i] = Following(f)[i]
    <3>1. CASE i = 0
      BY <2>5, <2>6, <3>1 DEF CountSolution
    <3>2. CASE i # 0
      <4>1. i \in 1 .. m /\ i - 1 \in 0 .. m
        BY <3>2
      <4>2. f[i] = next[<<i, f[i - 1]>>] /\ f[i - 1] \in Int
        BY <2>6, <4>1 DEF CountSolution
      <4>3. f[i] = Replayed(f[i - 1], events[start + i], left, right)
        BY <2>2, <4>1, <4>2
      <4> QED BY <3>2, <4>3
    <3> QED BY <3>1, <3>2
  <2>8. f = [i \in 0 .. m |-> f[i]]
    BY <2>6 DEF CountSolution
  <2> QED BY <2>7, <2>8
<1>7. PICK f : f = Following(f) /\ Replay(version, left, right) = f[m]
  BY <1>1, <1>6 DEF Replay
<1>8. \A i \in 0 .. m : f[i] = Following(f)[i]
  BY <1>7
<1> DEFINE T == {i \in Nat : i <= m => OK(i, f[i])}
<1>9. 0 \in T
  <2>1. f[0] = Query(base.nodes, left, right)
    BY <1>8
  <2> QED BY <1>2, <1>3, <2>1
<1>10. ASSUME NEW i \in Nat, i \in T PROVE i + 1 \in T
  <2> SUFFICES ASSUME i + 1 <= m PROVE OK(i + 1, f[i + 1])
    OBVIOUS
  <2>1. i + 1 \in 0 .. m /\ (i + 1) - 1 = i /\ i + 1 # 0
    OBVIOUS
  <2>2. OK(i, f[i])
    BY <1>10
  <2>3. f[i + 1] = Replayed(f[i], events[start + (i + 1)], left, right)
    BY <1>8, <2>1
  <2> HIDE DEF OK
  <2> QED BY <1>5, <2>2, <2>3
<1>11. Nat \subseteq T
  <2> HIDE DEF T
  <2> QED BY <1>9, <1>10, SetInduction
<1>12. OK(m, f[m]) /\ start + m + 1 = version + 1
  BY <1>1, <1>11
<1> QED BY <1>7, <1>12

-----------------------------------------------------------------------------
(***************************************************************************)
(* The invariant.  W are the published versions, the latest of them the    *)
(* code's version last; every checkpoint of one of them is a tree of it.   *)
(***************************************************************************)
Recorded(W, last) ==
  /\ interval # 0
  /\ History(W, last)
  /\ Len(checkpoints) >= last \div interval + 1
  /\ \A k \in 1 .. last \div interval + 1 :
       /\ checkpoints[k].version = (k - 1) * interval
       /\ TreeFor(arraySize, checkpoints[k].nodes, W[(k - 1) * interval + 1])

(***************************************************************************)
(* The running update takes the tree old of the latest version to the tree *)
(* new of the next one.                                                    *)
(***************************************************************************)
Runs(w, last, old, new, next) ==
  /\ last + 1 < MaxVersions
  /\ EventIn(call.event, arraySize)
  /\ call.takeCheckpoint <=> (last + 1) % interval = 0
  /\ next = AddToRange(w, call.event.left, call.event.right, call.event.value)
  /\ MaxMagnitude(next) <= IF call.event.value = 0 THEN bound ELSE call.nextBound
  /\ TreeFor(arraySize, old, w)
  /\ TreeFor(arraySize, new, next)
  /\ UpdateOf(arraySize, old, new, call.event)

Logged(last) == Len(events) = last + 1 /\ events[last + 1] = call.event

Scheduled(last) == Len(checkpoints) = last \div interval + 1

(***************************************************************************)
(* How far it has come: it writes its nodes to the live tree, and then, if *)
(* a checkpoint of old has been stored for the next version, to that.      *)
(***************************************************************************)
CheckpointFor(last, nodes) ==
  /\ Len(checkpoints) = last \div interval + 2
  /\ Last(checkpoints) = [version |-> last + 1, nodes |-> nodes]

Writing(nodes, old, new) ==
  Mixed(nodes, old, new, todo) /\ Pending(arraySize, call.event, todo)

Progress(last, old, new) ==
  \/ /\ call.phase = "log"
     /\ live = old /\ Len(events) = last /\ Scheduled(last)
  \/ /\ call.phase = "checkpoint"
     /\ live = old /\ Logged(last) /\ Scheduled(last) /\ call.takeCheckpoint
  \/ /\ call.phase = "live"
     /\ Writing(live, old, new) /\ Logged(last)
     /\ IF call.takeCheckpoint THEN CheckpointFor(last, old) ELSE Scheduled(last)
  \/ /\ call.phase = "copy"
     /\ live = new /\ Logged(last) /\ call.takeCheckpoint
     /\ \E nodes : Writing(nodes, old, new) /\ CheckpointFor(last, nodes)

Consistent(W, last) ==
  /\ Recorded(W, last)
  /\ MaxMagnitude(W[last + 1]) <= bound
  /\ IF call = Idle
     THEN Len(events) = last /\ Scheduled(last) /\ TreeFor(arraySize, live, W[last + 1])
     ELSE \E old, new, next : /\ Runs(W[last + 1], last, old, new, next)
                              /\ Progress(last, old, new)

CInv ==
  /\ TypeOK
  /\ IF checkpoints = <<>> THEN events = <<>> /\ call = Idle
     ELSE \E W : \E last \in Nat : Consistent(W, last)

-----------------------------------------------------------------------------
LEMMA CallFacts ==
  ASSUME TypeOK
  PROVE  /\ call.phase = "idle" <=> call = Idle
         /\ call # Idle =>
              /\ call \in [phase : {"log", "checkpoint", "live", "copy"}, event : UpdateEvent,
                           takeCheckpoint : BOOLEAN, nextBound : Bound]
              /\ call.event \in UpdateEvent /\ call.takeCheckpoint \in BOOLEAN
              /\ call.nextBound \in Bound
BY DEF TypeOK, Call, Idle

LEMMA PhaseChange ==
  ASSUME TypeOK, call # Idle, NEW phase \in {"log", "checkpoint", "live", "copy"},
         call' = [call EXCEPT !.phase = phase]
  PROVE  /\ call'.phase = phase /\ call'.event = call.event
         /\ call'.takeCheckpoint = call.takeCheckpoint /\ call'.nextBound = call.nextBound
         /\ call' \in Call /\ call' # Idle
<1>1. call \in [phase : {"log", "checkpoint", "live", "copy"}, event : UpdateEvent,
                takeCheckpoint : BOOLEAN, nextBound : Bound]
  BY CallFacts
<1>2. /\ call'.phase = phase /\ call'.event = call.event
      /\ call'.takeCheckpoint = call.takeCheckpoint /\ call'.nextBound = call.nextBound
      /\ call' \in [phase : {"log", "checkpoint", "live", "copy"}, event : UpdateEvent,
                    takeCheckpoint : BOOLEAN, nextBound : Bound]
  BY <1>1
<1>3. call' # Idle
  BY <1>2 DEF Idle
<1> QED BY <1>2, <1>3 DEF Call

LEMMA HistoryKept ==
  ASSUME NEW W, NEW last \in Nat, History(W, last), arraySize' = arraySize,
         last <= Len(events'), \A i \in 1 .. last : events'[i] = events[i]
  PROVE  History(W, last)'
BY DEF History

LEMMA RecordedKept ==
  ASSUME NEW W, NEW last \in Nat, Recorded(W, last), arraySize' = arraySize,
         interval' = interval, last <= Len(events'), \A i \in 1 .. last : events'[i] = events[i],
         NEW b, b = last \div interval + 1, Len(checkpoints') >= b,
         \A k \in 1 .. b : checkpoints'[k] = checkpoints[k]
  PROVE  Recorded(W, last)'
<1>1. History(W, last)'
  BY HistoryKept DEF Recorded
<1> QED BY <1>1 DEF Recorded

(* What holds while a call runs. *)
RunningNow(W, last, old, new, next) ==
  /\ last \in Nat
  /\ TypeOK /\ call # Idle /\ checkpoints # <<>>
  /\ Recorded(W, last)
  /\ MaxMagnitude(W[last + 1]) <= bound
  /\ Runs(W[last + 1], last, old, new, next)
  /\ Progress(last, old, new)

LEMMA Running ==
  ASSUME CInv, call # Idle
  PROVE  \E W, last, old, new, next : RunningNow(W, last, old, new, next)
<1>1. TypeOK /\ checkpoints # <<>>
  BY DEF CInv
<1>2. PICK W : \E last \in Nat : Consistent(W, last)
  BY <1>1 DEF CInv
<1>3. PICK last \in Nat : Consistent(W, last)
  BY <1>2
<1>4. PICK old, new, next : /\ Runs(W[last + 1], last, old, new, next)
                            /\ Progress(last, old, new)
  BY <1>3 DEF Consistent
<1> QED BY <1>1, <1>3, <1>4 DEF Consistent, RunningNow

LEMMA StillRunning ==
  ASSUME NEW W, NEW last \in Nat, NEW old, NEW new, NEW next,
         TypeOK', (call # Idle)', (checkpoints # <<>>)', Recorded(W, last)',
         (MaxMagnitude(W[last + 1]) <= bound)', Runs(W[last + 1], last, old, new, next)',
         Progress(last, old, new)'
  PROVE  CInv' /\ Consistent(W, last)'
<1>1. Consistent(W, last)'
  BY DEF Consistent
<1> QED BY <1>1 DEF CInv

LEMMA RunningConsistent ==
  ASSUME NEW W, NEW last, NEW old, NEW new, NEW next, RunningNow(W, last, old, new, next)
  PROVE  Consistent(W, last) /\ checkpoints # <<>> /\ last \in Nat
BY DEF Consistent, RunningNow

(* A step that publishes nothing: the same versions before and after it. *)
Kept ==
  \E W, last : /\ last \in Nat
               /\ checkpoints # <<>> /\ Consistent(W, last)
               /\ (checkpoints # <<>>)' /\ Consistent(W, last)'

LEMMA RunningFacts ==
  ASSUME NEW W, NEW last, NEW old, NEW new, NEW next, RunningNow(W, last, old, new, next)
  PROVE  /\ last \in Nat /\ arraySize \in Nat /\ interval \in Nat \ {0}
         /\ last \div interval \in Nat
         /\ last + 1 < MaxVersions
         /\ EventIn(call.event, arraySize)
         /\ call.event \in UpdateEvent /\ call.event.left \in 1 .. arraySize
         /\ call.event.right \in call.event.left .. arraySize
         /\ call.takeCheckpoint <=> (last + 1) % interval = 0
         /\ live \in Seq(Node) /\ events \in Seq(UpdateEvent) /\ checkpoints \in Seq(Checkpoint)
         /\ old \in Seq(Node) /\ Len(old) = CanonicalNodeCount(arraySize)
         /\ new \in Seq(Node) /\ UpdateOf(arraySize, old, new, call.event)
         /\ W \in Seq(Seq(Value)) /\ Len(W) = last + 1 /\ last <= Len(events)
         /\ Len(checkpoints) >= last \div interval + 1
         /\ Len(events) \in Nat /\ Len(checkpoints) \in Nat
<1>1. /\ live \in Seq(Node) /\ events \in Seq(UpdateEvent) /\ checkpoints \in Seq(Checkpoint)
      /\ arraySize \in Nat /\ interval \in Nat \ {0} /\ last \in Nat
  BY DEF RunningNow, TypeOK, Recorded
<1>2. last \div interval \in Nat
  BY <1>1, Division
<1>3. Len(events) \in Nat /\ Len(checkpoints) \in Nat
  BY <1>1, LenProperties
<1>4. /\ old \in Seq(Node) /\ Len(old) = CanonicalNodeCount(arraySize) /\ new \in Seq(Node)
      /\ UpdateOf(arraySize, old, new, call.event) /\ last + 1 < MaxVersions
      /\ EventIn(call.event, arraySize)
      /\ call.takeCheckpoint <=> (last + 1) % interval = 0
  BY DEF RunningNow, Runs, TreeFor
<1>5. /\ W \in Seq(Seq(Value)) /\ Len(W) = last + 1 /\ last <= Len(events)
      /\ Len(checkpoints) >= last \div interval + 1
  BY DEF RunningNow, Recorded, History
<1>6. /\ call.event \in UpdateEvent /\ call.event.left \in 1 .. arraySize
      /\ call.event.right \in call.event.left .. arraySize
  BY <1>4 DEF EventIn
<1> QED BY <1>1, <1>2, <1>3, <1>4, <1>5, <1>6

(* The event is logged. *)
LEMMA LogEventCInv ==
  ASSUME CInv, LogEvent
  PROVE  CInv' /\ Kept
<1>1. /\ call.phase = "log" /\ events' = Append(events, call.event)
      /\ call' = [call EXCEPT !.phase = IF call.takeCheckpoint THEN "checkpoint" ELSE "live"]
      /\ todo' = IF call.takeCheckpoint THEN <<>> ELSE Writes(call.event)
      /\ UNCHANGED <<live, checkpoints, interval, arraySize, bound>>
  BY DEF LogEvent
<1>2. TypeOK /\ call # Idle
  BY <1>1 DEF CInv, Idle
<1>3. PICK W, last, old, new, next : RunningNow(W, last, old, new, next)
  BY <1>2, Running
<1>4. live = old /\ Len(events) = last /\ Scheduled(last)
  BY <1>1, <1>3 DEF RunningNow, Progress
<1>5. PICK phase \in {"log", "checkpoint", "live", "copy"} :
        /\ phase = IF call.takeCheckpoint THEN "checkpoint" ELSE "live"
        /\ call' = [call EXCEPT !.phase = phase]
  BY <1>1
<1>6. /\ call'.phase = phase /\ call'.event = call.event
      /\ call'.takeCheckpoint = call.takeCheckpoint /\ call'.nextBound = call.nextBound
      /\ call' \in Call /\ call' # Idle
  BY <1>2, <1>5, PhaseChange
<1>7. /\ last \in Nat /\ events \in Seq(UpdateEvent) /\ call.event \in UpdateEvent
  BY <1>3, RunningFacts
<1>8. /\ events' \in Seq(UpdateEvent) /\ Len(events') = last + 1
      /\ \A i \in 1 .. last : events'[i] = events[i]
      /\ events'[last + 1] = call.event
  BY <1>1, <1>4, <1>7, AppendProperties
<1>9. TypeOK'
  BY <1>1, <1>2, <1>6, <1>8 DEF TypeOK
<1>10. (checkpoints # <<>>)' /\ (MaxMagnitude(W[last + 1]) <= bound)'
  BY <1>1, <1>3 DEF RunningNow
<1>11. Recorded(W, last)'
  <2>1. PICK b \in Int : b = last \div interval + 1 /\ Len(checkpoints) >= b
    BY <1>3, RunningFacts
  <2>2. Recorded(W, last) /\ last <= Len(events') /\ Len(checkpoints') >= b
        /\ \A k \in 1 .. b : checkpoints'[k] = checkpoints[k]
    BY <1>1, <1>3, <1>7, <1>8, <2>1 DEF RunningNow
  <2> QED BY <1>1, <1>7, <1>8, <2>1, <2>2, RecordedKept
<1>12. Runs(W[last + 1], last, old, new, next)'
  BY <1>1, <1>3, <1>6 DEF RunningNow, Runs
<1>13. Progress(last, old, new)'
  <2>1. Logged(last)' /\ Scheduled(last)' /\ live' = old
    BY <1>1, <1>4, <1>6, <1>8 DEF Logged, Scheduled
  <2>2. CASE call.takeCheckpoint
    BY <1>5, <1>6, <2>1, <2>2 DEF Progress
  <2>3. CASE ~call.takeCheckpoint
    <3>1. phase = "live" /\ todo' = Writes(call.event)
      BY <1>1, <1>5, <2>3
    <3>2. Pending(arraySize, call.event, todo') /\ Mixed(old, old, new, todo')
      BY <1>3, <3>1, RunningFacts, MixedBegin
    <3>3. Pending(arraySize, call.event, todo)'
      BY <1>1, <1>6, <3>2 DEF Pending, Write
    <3>4. Writing(live, old, new)'
      BY <2>1, <3>2, <3>3 DEF Writing
    <3> QED BY <1>6, <2>1, <2>3, <3>1, <3>4 DEF Progress
  <2> QED BY <2>2, <2>3
<1>50. CInv' /\ Consistent(W, last)' /\ (checkpoints # <<>>)'
  BY <1>6, <1>7, <1>9, <1>10, <1>11, <1>12, <1>13, StillRunning
<1>51. Consistent(W, last) /\ checkpoints # <<>> /\ last \in Nat
  BY <1>3, RunningConsistent
<1> QED BY <1>50, <1>51 DEF Kept

(* The checkpoint is stored. *)
LEMMA StoreCheckpointCInv ==
  ASSUME CInv, StoreCheckpoint
  PROVE  CInv' /\ Kept
<1>1. /\ call.phase = "checkpoint"
      /\ checkpoints' = Append(checkpoints, [version |-> Len(events), nodes |-> live])
      /\ call' = [call EXCEPT !.phase = "live"]
      /\ todo' = Writes(call.event)
      /\ UNCHANGED <<live, events, interval, arraySize, bound>>
  BY DEF StoreCheckpoint
<1>2. TypeOK /\ call # Idle
  BY <1>1 DEF CInv, Idle
<1>3. PICK W, last, old, new, next : RunningNow(W, last, old, new, next)
  BY <1>2, Running
<1>4. live = old /\ Logged(last) /\ Scheduled(last) /\ call.takeCheckpoint
  BY <1>1, <1>3 DEF RunningNow, Progress
<1>6. /\ call'.phase = "live" /\ call'.event = call.event
      /\ call'.takeCheckpoint = call.takeCheckpoint /\ call'.nextBound = call.nextBound
      /\ call' \in Call /\ call' # Idle
  BY <1>1, <1>2, PhaseChange
<1>7. /\ last \in Nat /\ checkpoints \in Seq(Checkpoint) /\ live \in Seq(Node)
      /\ last \div interval \in Nat
  BY <1>3, RunningFacts
<1>8. PICK copy \in Checkpoint : copy = [version |-> last + 1, nodes |-> live]
  <2>1. last + 1 \in Nat
    BY <1>7
  <2>2. [version |-> last + 1, nodes |-> live] \in Checkpoint
    BY <1>7, <2>1 DEF Checkpoint
  <2> QED BY <2>2
<1>9. checkpoints' = Append(checkpoints, copy)
  BY <1>1, <1>4, <1>8 DEF Logged
<1>10. PICK b \in Nat : b = last \div interval + 1 /\ Len(checkpoints) = b
  BY <1>4, <1>7 DEF Scheduled
<1>11. /\ checkpoints' \in Seq(Checkpoint) /\ Len(checkpoints') = b + 1 /\ checkpoints' # <<>>
       /\ \A k \in 1 .. b : checkpoints'[k] = checkpoints[k]
       /\ checkpoints'[b + 1] = copy
  BY <1>7, <1>9, <1>10, AppendProperties
<1>12. TypeOK'
  BY <1>1, <1>2, <1>6, <1>11 DEF TypeOK
<1>13. (checkpoints # <<>>)' /\ (MaxMagnitude(W[last + 1]) <= bound)'
  BY <1>1, <1>3, <1>11 DEF RunningNow
<1>14. Recorded(W, last)'
  <2>1. /\ Recorded(W, last) /\ last <= Len(events') /\ Len(checkpoints') >= b
        /\ \A i \in 1 .. last : events'[i] = events[i]
    <3>1. Recorded(W, last) /\ last <= Len(events)
      BY <1>3, RunningFacts DEF RunningNow
    <3>2. b + 1 >= b
      BY <1>10
    <3> QED BY <1>1, <1>11, <3>1, <3>2
  <2> QED BY <1>1, <1>7, <1>10, <1>11, <2>1, RecordedKept
<1>15. Runs(W[last + 1], last, old, new, next)'
  BY <1>1, <1>3, <1>6 DEF RunningNow, Runs
<1>16. Progress(last, old, new)'
  <2>1. Logged(last)' /\ live' = old
    BY <1>1, <1>4, <1>6 DEF Logged
  <2>2. Pending(arraySize, call.event, todo') /\ Mixed(old, old, new, todo')
    BY <1>1, <1>3, RunningFacts, MixedBegin
  <2>3. Pending(arraySize, call.event, todo)'
    BY <1>1, <1>6, <2>2 DEF Pending, Write
  <2>4. Writing(live, old, new)'
    BY <2>1, <2>2, <2>3 DEF Writing
  <2>5. CheckpointFor(last, old)'
    <3>1. Last(checkpoints') = copy
      BY <1>11 DEF Last
    <3>2. Len(checkpoints') = last \div interval + 2
      BY <1>7, <1>10, <1>11
    <3> QED BY <1>1, <1>4, <1>8, <3>1, <3>2 DEF CheckpointFor
  <2> QED BY <1>4, <1>6, <2>1, <2>4, <2>5 DEF Progress
<1>50. CInv' /\ Consistent(W, last)' /\ (checkpoints # <<>>)'
  BY <1>6, <1>7, <1>12, <1>13, <1>14, <1>15, <1>16, StillRunning
<1>51. Consistent(W, last) /\ checkpoints # <<>> /\ last \in Nat
  BY <1>3, RunningConsistent
<1> QED BY <1>50, <1>51 DEF Kept

(* A node of the live tree is written. *)
LEMMA UpdateLiveCInv ==
  ASSUME CInv, UpdateLive
  PROVE  CInv' /\ Kept
<1>1. /\ call.phase = "live" /\ todo # <<>> /\ todo' = Tail(todo)
      /\ UNCHANGED <<events, checkpoints, interval, arraySize, bound, call>>
  BY DEF UpdateLive
<1>2. TypeOK /\ call # Idle
  BY <1>1 DEF CInv, Idle
<1>3. PICK W, last, old, new, next : RunningNow(W, last, old, new, next)
  BY <1>2, Running
<1>4. PICK i, c : i = Head(todo).node /\ c = Head(todo).segment
  OBVIOUS
<1>5. live' = [live EXCEPT ![i] = Written(live, i, c)]
  BY <1>4 DEF UpdateLive
<1>6. /\ Writing(live, old, new) /\ Logged(last)
      /\ IF call.takeCheckpoint THEN CheckpointFor(last, old) ELSE Scheduled(last)
  BY <1>1, <1>3 DEF RunningNow, Progress
<1>7. last \in Nat
  BY <1>3, RunningFacts
<1>8. /\ Written(live, i, c) = new[i] /\ new[i] \in Node
      /\ Pending(arraySize, call.event, todo')
      /\ Mixed([live EXCEPT ![i] = new[i]], old, new, todo')
  <2>1. PICK event : event = call.event
    OBVIOUS
  <2>2. PICK writes : writes = todo
    OBVIOUS
  <2>3. PICK nodes : nodes = live
    OBVIOUS
  <2>4. /\ arraySize \in Nat /\ event.left \in 1 .. arraySize
        /\ event.right \in event.left .. arraySize /\ old \in Seq(Node)
        /\ Len(old) = CanonicalNodeCount(arraySize) /\ UpdateOf(arraySize, old, new, event)
    BY <1>3, <2>1, RunningFacts
  <2>5. Pending(arraySize, event, writes) /\ Mixed(nodes, old, new, writes) /\ writes # <<>>
        /\ i = Head(writes).node /\ c = Head(writes).segment
    BY <1>1, <1>4, <1>6, <2>1, <2>2, <2>3 DEF Writing
  <2>6. /\ Written(nodes, i, c) = new[i] /\ new[i] \in Node
        /\ Pending(arraySize, event, Tail(writes))
        /\ Mixed([nodes EXCEPT ![i] = new[i]], old, new, Tail(writes))
    BY <2>1, <2>4, <2>5, MixedStep
  <2> QED BY <1>1, <2>1, <2>2, <2>3, <2>6
<1>9. Mixed(live', old, new, todo')
  BY <1>5, <1>8
<1>10. live' \in Seq(Node)
  BY <1>9 DEF Mixed
<1>11. TypeOK' /\ (call # Idle)' /\ (checkpoints # <<>>)' /\ (MaxMagnitude(W[last + 1]) <= bound)'
  BY <1>1, <1>2, <1>3, <1>10 DEF TypeOK, RunningNow, Idle
<1>12. Recorded(W, last)'
  BY <1>1, <1>3 DEF RunningNow, Recorded, History
<1>13. Runs(W[last + 1], last, old, new, next)'
  BY <1>1, <1>3 DEF RunningNow, Runs
<1>14. Progress(last, old, new)'
  <2>1. Writing(live, old, new)'
    <3>1. Pending(arraySize, call.event, todo)'
      BY <1>1, <1>8 DEF Pending, Write
    <3> QED BY <1>9, <3>1 DEF Writing
  <2>2. Logged(last)' /\ (IF call.takeCheckpoint THEN CheckpointFor(last, old) ELSE Scheduled(last))'
    BY <1>1, <1>6 DEF Logged, CheckpointFor, Scheduled
  <2> QED BY <1>1, <2>1, <2>2 DEF Progress
<1>50. CInv' /\ Consistent(W, last)' /\ (checkpoints # <<>>)'
  BY <1>7, <1>11, <1>12, <1>13, <1>14, StillRunning
<1>51. Consistent(W, last) /\ checkpoints # <<>> /\ last \in Nat
  BY <1>3, RunningConsistent
<1> QED BY <1>50, <1>51 DEF Kept

(* The live tree is done, and its checkpoint is to be written. *)
LEMMA BeginCopyCInv ==
  ASSUME CInv, BeginCopy
  PROVE  CInv' /\ Kept
<1>1. /\ call.phase = "live" /\ todo = <<>> /\ call.takeCheckpoint
      /\ call' = [call EXCEPT !.phase = "copy"]
      /\ todo' = Writes(call.event)
      /\ UNCHANGED <<live, events, checkpoints, interval, arraySize, bound>>
  BY DEF BeginCopy
<1>2. TypeOK /\ call # Idle
  BY <1>1 DEF CInv, Idle
<1>3. PICK W, last, old, new, next : RunningNow(W, last, old, new, next)
  BY <1>2, Running
<1>4. Writing(live, old, new) /\ Logged(last) /\ CheckpointFor(last, old)
  BY <1>1, <1>3 DEF RunningNow, Progress
<1>5. last \in Nat /\ old \in Seq(Node) /\ UpdateOf(arraySize, old, new, call.event)
  BY <1>3, RunningFacts
<1>6. live = new
  <2>1. Mixed(live, old, new, <<>>)
    BY <1>1, <1>4 DEF Writing
  <2> QED BY <1>5, <2>1, MixedEnd
<1>7. /\ call'.phase = "copy" /\ call'.event = call.event
      /\ call'.takeCheckpoint = call.takeCheckpoint /\ call'.nextBound = call.nextBound
      /\ call' \in Call /\ call' # Idle
  BY <1>1, <1>2, PhaseChange
<1>8. TypeOK' /\ (checkpoints # <<>>)' /\ (MaxMagnitude(W[last + 1]) <= bound)'
  BY <1>1, <1>2, <1>3, <1>7 DEF TypeOK, RunningNow
<1>9. Recorded(W, last)'
  BY <1>1, <1>3 DEF RunningNow, Recorded, History
<1>10. Runs(W[last + 1], last, old, new, next)'
  BY <1>1, <1>3, <1>7 DEF RunningNow, Runs
<1>11. Progress(last, old, new)'
  <2>1. (live = new)' /\ Logged(last)' /\ call'.takeCheckpoint /\ CheckpointFor(last, old)'
    BY <1>1, <1>4, <1>6, <1>7 DEF Logged, CheckpointFor
  <2>2. Pending(arraySize, call.event, todo') /\ Mixed(old, old, new, todo')
    BY <1>1, <1>3, RunningFacts, MixedBegin
  <2>3. Pending(arraySize, call.event, todo)'
    BY <1>1, <1>7, <2>2 DEF Pending, Write
  <2>4. Writing(old, old, new)'
    BY <2>2, <2>3 DEF Writing
  <2> QED BY <1>7, <2>1, <2>4 DEF Progress
<1>50. CInv' /\ Consistent(W, last)' /\ (checkpoints # <<>>)'
  BY <1>5, <1>7, <1>8, <1>9, <1>10, <1>11, StillRunning
<1>51. Consistent(W, last) /\ checkpoints # <<>> /\ last \in Nat
  BY <1>3, RunningConsistent
<1> QED BY <1>50, <1>51 DEF Kept

(* A node of the checkpoint is written. *)
LEMMA UpdateCopyCInv ==
  ASSUME CInv, UpdateCopy
  PROVE  CInv' /\ Kept
<1>1. /\ call.phase = "copy" /\ todo # <<>> /\ todo' = Tail(todo)
      /\ UNCHANGED <<live, events, interval, arraySize, bound, call>>
  BY DEF UpdateCopy
<1>2. TypeOK /\ call # Idle
  BY <1>1 DEF CInv, Idle
<1>3. PICK W, last, old, new, next : RunningNow(W, last, old, new, next)
  BY <1>2, Running
<1>4. PICK nodes : Writing(nodes, old, new) /\ CheckpointFor(last, nodes)
  BY <1>1, <1>3 DEF RunningNow, Progress
<1>5. live = new /\ Logged(last) /\ call.takeCheckpoint
  BY <1>1, <1>3 DEF RunningNow, Progress
<1>6. PICK i, c : i = Head(todo).node /\ c = Head(todo).segment
  OBVIOUS
<1>7. /\ last \in Nat /\ checkpoints \in Seq(Checkpoint) /\ last \div interval \in Nat
      /\ Len(checkpoints) >= last \div interval + 1
  BY <1>3, RunningFacts
<1>8. PICK b \in Nat : b = last \div interval + 1 /\ Len(checkpoints) = b + 1
  <2>1. last \div interval + 1 \in Nat /\ last \div interval + 2 = (last \div interval + 1) + 1
    BY <1>7
  <2> QED BY <1>4, <2>1 DEF CheckpointFor
<1>9. checkpoints[b + 1] = [version |-> last + 1, nodes |-> nodes]
  BY <1>4, <1>8 DEF CheckpointFor, Last
<1>10. PICK node : node = Written(nodes, i, c)
  OBVIOUS
<1>11. checkpoints' = [checkpoints EXCEPT ![b + 1].nodes[i] = node]
  <2>1. Last(checkpoints).nodes = nodes
    BY <1>8, <1>9 DEF Last
  <2> QED BY <1>6, <1>8, <1>10, <2>1 DEF UpdateCopy
<1>12. /\ node = new[i] /\ new[i] \in Node
       /\ Pending(arraySize, call.event, todo')
       /\ Mixed([nodes EXCEPT ![i] = new[i]], old, new, todo')
  <2>1. PICK event : event = call.event
    OBVIOUS
  <2>2. PICK writes : writes = todo
    OBVIOUS
  <2>4. /\ arraySize \in Nat /\ event.left \in 1 .. arraySize
        /\ event.right \in event.left .. arraySize /\ old \in Seq(Node)
        /\ Len(old) = CanonicalNodeCount(arraySize) /\ UpdateOf(arraySize, old, new, event)
    BY <1>3, <2>1, RunningFacts
  <2>5. Pending(arraySize, event, writes) /\ Mixed(nodes, old, new, writes) /\ writes # <<>>
        /\ i = Head(writes).node /\ c = Head(writes).segment
    BY <1>1, <1>4, <1>6, <2>1, <2>2 DEF Writing
  <2>6. /\ Written(nodes, i, c) = new[i] /\ new[i] \in Node
        /\ Pending(arraySize, event, Tail(writes))
        /\ Mixed([nodes EXCEPT ![i] = new[i]], old, new, Tail(writes))
    BY <2>1, <2>4, <2>5, MixedStep
  <2> QED BY <1>1, <1>10, <2>1, <2>2, <2>6
<1>13. PICK after : after = [nodes EXCEPT ![i] = node]
  OBVIOUS
<1>14. Mixed(after, old, new, todo') /\ after \in Seq(Node)
  BY <1>12, <1>13 DEF Mixed
<1>15. PICK copy : copy = [version |-> last + 1, nodes |-> after]
  OBVIOUS
<1>16. copy \in Checkpoint
  <2>1. last + 1 \in Nat
    BY <1>7
  <2> QED BY <1>14, <1>15, <2>1 DEF Checkpoint
<1>17. checkpoints' = [checkpoints EXCEPT ![b + 1] = copy]
  <2>1. [checkpoints[b + 1] EXCEPT !.nodes[i] = node] = copy
    <3>1. [[version |-> last + 1, nodes |-> nodes] EXCEPT !.nodes[i] = node]
            = [version |-> last + 1, nodes |-> [nodes EXCEPT ![i] = node]]
      OBVIOUS
    <3> QED BY <1>9, <1>13, <1>15, <3>1
  <2>2. [checkpoints EXCEPT ![b + 1].nodes[i] = node]
          = [checkpoints EXCEPT ![b + 1] = [checkpoints[b + 1] EXCEPT !.nodes[i] = node]]
    OBVIOUS
  <2> QED BY <1>11, <2>1, <2>2
<1>18. /\ checkpoints' \in Seq(Checkpoint) /\ Len(checkpoints') = b + 1
       /\ \A k \in 1 .. b : checkpoints'[k] = checkpoints[k]
       /\ checkpoints'[b + 1] = copy
  <2>1. b + 1 \in 1 .. Len(checkpoints)
    BY <1>8
  <2>2. \A k \in 1 .. b : k # b + 1 /\ k \in 1 .. b + 1
    BY <1>8
  <2> QED BY <1>7, <1>8, <1>16, <1>17, <2>1, <2>2, ExceptSeq
<1>19. TypeOK' /\ (call # Idle)' /\ (checkpoints # <<>>)' /\ (MaxMagnitude(W[last + 1]) <= bound)'
  <2>1. checkpoints' # <<>>
    BY <1>8, <1>18
  <2> QED BY <1>1, <1>2, <1>3, <1>18, <2>1 DEF TypeOK, RunningNow, Idle
<1>20. Recorded(W, last)'
  <2>1. Recorded(W, last) /\ last <= Len(events)
    BY <1>3, RunningFacts DEF RunningNow
  <2>2. Len(checkpoints') >= b /\ last <= Len(events') /\ \A k \in 1 .. last : events'[k] = events[k]
    BY <1>1, <1>8, <1>18, <2>1
  <2> QED BY <1>1, <1>7, <1>8, <1>18, <2>1, <2>2, RecordedKept
<1>21. Runs(W[last + 1], last, old, new, next)'
  BY <1>1, <1>3 DEF RunningNow, Runs
<1>22. Progress(last, old, new)'
  <2>1. Writing(after, old, new)'
    <3>1. Pending(arraySize, call.event, todo)'
      BY <1>1, <1>12 DEF Pending, Write
    <3> QED BY <1>14, <3>1 DEF Writing
  <2>2. CheckpointFor(last, after)'
    <3>1. Last(checkpoints') = copy
      BY <1>18 DEF Last
    <3>2. Len(checkpoints') = last \div interval + 2
      BY <1>7, <1>8, <1>18
    <3> QED BY <1>1, <1>15, <3>1, <3>2 DEF CheckpointFor
  <2>3. (live = new)' /\ Logged(last)' /\ call'.takeCheckpoint /\ call'.phase = "copy"
    BY <1>1, <1>5 DEF Logged
  <2> QED BY <2>1, <2>2, <2>3 DEF Progress
<1>50. CInv' /\ Consistent(W, last)' /\ (checkpoints # <<>>)'
  BY <1>7, <1>19, <1>20, <1>21, <1>22, StillRunning
<1>51. Consistent(W, last) /\ checkpoints # <<>> /\ last \in Nat
  BY <1>3, RunningConsistent
<1> QED BY <1>50, <1>51 DEF Kept

LEMMA InitCInv == Init => CInv
<1> SUFFICES ASSUME Init PROVE CInv
  OBVIOUS
<1>1. 0 \in Bound
  BY MaxValAssumption DEF Bound, MaxBound
<1>2. <<>> \in Seq(Node) /\ <<>> \in Seq(UpdateEvent) /\ <<>> \in Seq(Checkpoint)
  OBVIOUS
<1>3. TypeOK
  BY <1>1, <1>2 DEF Init, TypeOK, Call
<1> QED BY <1>3 DEF Init, CInv

LEMMA DivisionOfZero ==
  ASSUME NEW q \in Nat \ {0}
  PROVE  0 \div q = 0
<1>1. PICK a, r \in Nat : a = 0 \div q /\ r = 0 % q /\ r < q /\ 0 = q * a + r
  BY Division
<1>2. a * q \in Nat /\ a * q = q * a /\ 0 * q = 0 /\ (0 < a => 0 * q + q <= a * q)
  BY <1>1, Multiples
<1> QED BY <1>1, <1>2

(* What a call that is not running has to keep. *)
LEMMA StillIdle ==
  ASSUME NEW W, NEW last \in Nat, TypeOK', (call = Idle)', (checkpoints # <<>>)',
         Recorded(W, last)', (MaxMagnitude(W[last + 1]) <= bound)', (Len(events) = last)',
         Scheduled(last)', TreeFor(arraySize', live', W[last + 1])
  PROVE  CInv' /\ Consistent(W, last)'
<1>1. Consistent(W, last)'
  BY DEF Consistent, TreeFor, TreeOf, StandsFor, SumsFit, Labels, Labelled, Node, Admissible
<1> QED BY <1>1 DEF CInv

(* initialize publishes version 0 and its checkpoint. *)
LEMMA InitializeCInv ==
  ASSUME CInv, NEW values \in Arrays, NEW checkpointInterval \in Intervals,
         Initialize(values, checkpointInterval)
  PROVE  CInv' /\ Consistent(<<values>>, 0)'
<1>1. /\ call = Idle /\ Admissible(values) /\ live' = Built(values)
      /\ checkpoints' = <<[version |-> 0, nodes |-> live']>>
      /\ events' = <<>> /\ interval' = checkpointInterval /\ arraySize' = Len(values)
      /\ bound' = MaxMagnitude(values) /\ call' = call /\ todo' = todo
  BY DEF Initialize
<1>2. /\ values \in Seq(Value) /\ Len(values) \in Nat /\ DOMAIN values = 1 .. Len(values)
      /\ interval' \in Nat \ {0}
  BY <1>1, ArraysAssumption, IntervalsAssumption, LenProperties
<1>3. TreeFor(Len(values), live', values)
  BY <1>1, <1>2, BuiltIsTree
<1>4. live' \in Seq(Node)
  BY <1>3 DEF TreeFor
<1>5. bound' \in Bound /\ bound' \in Nat
  <2>1. \A p \in DOMAIN values : values[p] \in Outcome
    BY <1>2, ElementOfSeq DEF Outcome
  <2> QED BY <1>1, <2>1, MaxMagnitudeFacts, MaxValAssumption DEF Bound
<1>6. PICK copy : copy = [version |-> 0, nodes |-> live']
  OBVIOUS
<1>7. copy \in Checkpoint
  BY <1>4, <1>6 DEF Checkpoint
<1>8. /\ checkpoints' \in Seq(Checkpoint) /\ Len(checkpoints') = 1 /\ checkpoints'[1] = copy
      /\ checkpoints' # <<>>
  BY <1>1, <1>6, <1>7
<1>9. events' \in Seq(UpdateEvent) /\ Len(events') = 0
  BY <1>1
<1>10. call \in Call
  BY <1>1 DEF Call
<1>11. TypeOK'
  BY <1>1, <1>2, <1>4, <1>5, <1>8, <1>9, <1>10 DEF TypeOK
<1>12. PICK W : W = <<values>>
  OBVIOUS
<1>13. W \in Seq(Seq(Value)) /\ Len(W) = 1 /\ W[1] = values
  BY <1>2, <1>12
<1>14. History(W, 0)'
  <2>1. \A v \in 1 .. 0 + 1 : Len(W[v]) = arraySize' /\ Admissible(W[v])
    BY <1>1, <1>13
  <2>2. 1 .. 0 = {} /\ 0 + 1 = 1
    OBVIOUS
  <2> QED BY <1>9, <1>13, <2>1, <2>2 DEF History
<1>15. 0 \div interval' = 0
  BY <1>2, DivisionOfZero
<1>16. Recorded(W, 0)'
  <2>1. Len(checkpoints') >= 0 \div interval' + 1
    BY <1>8, <1>15
  <2>2. ASSUME NEW k \in 1 .. 0 \div interval' + 1
        PROVE  /\ checkpoints'[k].version = (k - 1) * interval'
               /\ TreeFor(arraySize', checkpoints'[k].nodes, W[(k - 1) * interval' + 1])
    <3>1. k = 1
      BY <1>15
    <3>2. 0 * interval' = 0 /\ k - 1 = 0
      <4>1. \A q \in Nat : 0 * q = 0
        OBVIOUS
      <4>2. interval' \in Nat
        BY <1>2
      <4>3. 0 * interval' = 0
        BY <4>1, <4>2, Zenon
      <4>4. k - 1 = 1 - 1
        BY <3>1
      <4>5. 1 - 1 = 0
        OBVIOUS
      <4> QED BY <4>3, <4>4, <4>5
    <3>3. (k - 1) * interval' = 0 /\ 0 + 1 = 1
      BY <3>2
    <3>4. checkpoints'[k].version = 0 /\ checkpoints'[k].nodes = live'
      BY <1>6, <1>8, <3>1
    <3> QED BY <1>1, <1>3, <1>13, <3>3, <3>4
  <2> QED BY <1>2, <1>14, <2>1, <2>2 DEF Recorded
<1>17. (MaxMagnitude(W[0 + 1]) <= bound)' /\ W[0 + 1] = values
  BY <1>1, <1>5, <1>13
<1>18. (Len(events) = 0)' /\ Scheduled(0)' /\ (call = Idle)'
  BY <1>1, <1>8, <1>9, <1>15 DEF Scheduled
<1>19. TreeFor(arraySize', live', W[0 + 1])
  BY <1>1, <1>3, <1>17
<1> QED BY <1>8, <1>12, <1>11, <1>16, <1>17, <1>18, <1>19, StillIdle

(* rangeAdd is accepted: the tree it leads to exists. *)
LEMMA BeginCInv ==
  ASSUME CInv, NEW left \in 1 .. arraySize, NEW right \in 1 .. arraySize, NEW value \in Deltas,
         BeginRangeAdd(left, right, value)
  PROVE  CInv' /\ Kept
<1> DEFINE leaves == Materialize(live)
<1>1. /\ call = Idle /\ checkpoints # <<>> /\ right \in left .. arraySize
      /\ Len(events) + 1 < MaxVersions
      /\ value # 0 => /\ ValidateRangeAdd(bound, leaves, left, right, value)
                      /\ ValidateUpdate(left, right, value)
      /\ call' = [phase |-> "log",
                  event |-> [left |-> left, right |-> right, value |-> value],
                  takeCheckpoint |-> (Len(events) + 1) % interval = 0,
                  nextBound |-> IF value = 0 THEN 0
                                ELSE NextBound(bound, leaves, left, right, value)]
      /\ UNCHANGED <<live, events, checkpoints, interval, arraySize, bound, todo>>
  BY DEF BeginRangeAdd
<1>2. TypeOK /\ value \in Value
  BY DeltasAssumption DEF CInv
<1>3. PICK W : \E last \in Nat : Consistent(W, last)
  BY <1>1 DEF CInv
<1>4. PICK last \in Nat : Consistent(W, last)
  BY <1>3
<1>5. PICK w : w = W[last + 1]
  OBVIOUS
<1>6. /\ Recorded(W, last) /\ MaxMagnitude(w) <= bound
      /\ Len(events) = last /\ Scheduled(last) /\ TreeFor(arraySize, live, w)
  BY <1>1, <1>4, <1>5 DEF Consistent
<1>7. w \in Seq(Value) /\ Len(w) = arraySize /\ Admissible(w)
  BY <1>5, <1>6, HistoryFacts DEF Recorded
<1>8. /\ arraySize \in Nat /\ bound \in Bound /\ live \in Seq(Node) /\ 0 \in Bound
      /\ interval \in Nat \ {0}
  BY <1>2, <1>6, MaxValAssumption DEF TypeOK, Bound, MaxBound, Recorded
<1>9. leaves = w
  BY <1>6, <1>8, MaterializeIs
<1>10. PICK event : event = [left |-> left, right |-> right, value |-> value]
  OBVIOUS
<1>11. /\ event.left = left /\ event.right = right /\ event.value = value
       /\ event \in UpdateEvent /\ EventIn(event, arraySize)
  <2>1. left \in Nat \ {0} /\ right \in Nat
    BY <1>8
  <2> QED BY <1>1, <1>10, <2>1 DEF UpdateEvent, EventIn
<1>12. PICK nextBound : nextBound = IF value = 0 THEN 0
                                    ELSE NextBound(bound, leaves, left, right, value)
  OBVIOUS
<1>13. PICK next : next = AddToRange(w, left, right, value)
  OBVIOUS
<1>14. /\ nextBound \in Bound
       /\ MaxMagnitude(next) <= IF value = 0 THEN bound ELSE nextBound
       /\ \E new : TreeFor(arraySize, new, next) /\ UpdateOf(arraySize, live, new, event)
  <2>1. CASE value = 0
    <3>1. next = w
      <4>1. Len(w) \in Nat /\ w \in [1 .. Len(w) -> Value]
        BY <1>7, LenProperties
      <4>2. \A x \in Value : CheckedAdd(x, 0) = x
        BY ValueFacts DEF CheckedAdd, Representable
      <4>3. next = [k \in 1 .. Len(w) |-> w[k]]
        BY <1>13, <2>1, <4>1, <4>2 DEF AddToRange
      <4> QED BY <4>1, <4>3
    <3> QED BY <1>6, <1>8, <1>11, <1>12, <2>1, <3>1 DEF UpdateOf
  <2>2. CASE value # 0
    <3>1. w # <<>>
      <4>1. arraySize # 0
        BY <1>8
      <4>2. Len(<<>>) = 0
        OBVIOUS
      <4> QED BY <1>7, <4>1, <4>2
    <3>2. w \in Seq(Outcome)
      <4>1. Len(w) \in Nat /\ w \in [1 .. Len(w) -> Value]
        BY <1>7, LenProperties
      <4>2. w \in [1 .. Len(w) -> Outcome]
        BY <4>1, OutcomeFacts
      <4> QED BY <4>1, <4>2, IsASeq
    <3>3. ValidateRangeAdd(bound, w, left, right, value) /\ ValidateUpdate(left, right, value)
      BY <1>1, <1>9, <2>2
    <3>4. /\ next \in Seq(Value) /\ Admissible(next)
          /\ NextBound(bound, w, left, right, value) \in Bound
          /\ MaxMagnitude(next) <= NextBound(bound, w, left, right, value)
      BY <1>2, <1>6, <1>7, <1>8, <1>13, <3>1, <3>2, <3>3, GuardSoundForLeaves
    <3>5. PICK new : /\ Successor(arraySize, live, new, left, right, value)
                     /\ TreeFor(arraySize, new, next)
      BY <1>1, <1>2, <1>6, <1>8, <1>13, <3>3, <3>4, SuccessorExists
    <3> QED BY <1>9, <1>11, <1>12, <2>2, <3>4, <3>5 DEF UpdateOf
  <2> QED BY <2>1, <2>2
<1>15. PICK new : TreeFor(arraySize, new, next) /\ UpdateOf(arraySize, live, new, event)
  BY <1>14
<1>16. /\ call'.phase = "log" /\ call'.event = event /\ call'.nextBound = nextBound
       /\ call'.takeCheckpoint = ((last + 1) % interval = 0) /\ call'.takeCheckpoint \in BOOLEAN
       /\ call' # Idle /\ call' \in Call
  <2>1. PICK take \in BOOLEAN : take = ((last + 1) % interval = 0)
    OBVIOUS
  <2>2. call' = [phase |-> "log", event |-> event, takeCheckpoint |-> take,
                 nextBound |-> nextBound]
    BY <1>1, <1>6, <1>10, <1>12, <2>1
  <2> QED BY <1>11, <1>14, <2>1, <2>2 DEF Call, Idle
<1>17. TypeOK'
  BY <1>1, <1>2, <1>16 DEF TypeOK
<1>18. Recorded(W, last)' /\ (MaxMagnitude(W[last + 1]) <= bound)' /\ (checkpoints # <<>>)'
  BY <1>1, <1>5, <1>6 DEF Recorded, History
<1>19. Runs(w, last, live, new, next)'
  BY <1>1, <1>6, <1>11, <1>13, <1>14, <1>15, <1>16 DEF Runs
<1>20. Progress(last, live, new)'
  BY <1>1, <1>6, <1>16 DEF Progress, Scheduled
<1>50. CInv' /\ Consistent(W, last)' /\ (checkpoints # <<>>)'
  BY <1>5, <1>16, <1>17, <1>18, <1>19, <1>20, StillRunning
<1> QED BY <1>1, <1>4, <1>50 DEF Kept

(* An update that has written all its nodes has made the new tree. *)
LEMMA ReturnFacts ==
  ASSUME CInv, Return
  PROVE  \E W, last, old, new, next :
           /\ RunningNow(W, last, old, new, next)
           /\ live = new /\ Logged(last)
           /\ IF call.takeCheckpoint THEN CheckpointFor(last, new) ELSE Scheduled(last)
<1>1. call.phase \in {"live", "copy"} /\ todo = <<>>
      /\ (call.phase = "copy" <=> call.takeCheckpoint) /\ call # Idle
  BY DEF Return, Idle
<1>2. PICK W, last, old, new, next : RunningNow(W, last, old, new, next)
  BY <1>1, Running
<1>3. last \in Nat /\ old \in Seq(Node) /\ UpdateOf(arraySize, old, new, call.event)
  BY <1>2, RunningFacts
<1>4. \A nodes : Writing(nodes, old, new) => nodes = new
  <2>1. \A nodes : Writing(nodes, old, new) => Mixed(nodes, old, new, <<>>)
    BY <1>1 DEF Writing
  <2> QED BY <1>3, <2>1, MixedEnd
<1>5. CASE call.phase = "live"
  <2>1. Writing(live, old, new) /\ Logged(last) /\ Scheduled(last)
    BY <1>1, <1>2, <1>5 DEF RunningNow, Progress
  <2> QED BY <1>1, <1>2, <1>4, <1>5, <2>1
<1>6. CASE call.phase = "copy"
  <2>1. PICK nodes : /\ live = new /\ Logged(last)
                     /\ Writing(nodes, old, new) /\ CheckpointFor(last, nodes)
    BY <1>1, <1>2, <1>6 DEF RunningNow, Progress
  <2>2. CheckpointFor(last, new)
    BY <1>4, <2>1
  <2> QED BY <1>1, <1>2, <1>6, <2>1, <2>2
<1> QED BY <1>1, <1>5, <1>6

(* rangeAdd returns: the next version is published. *)
LEMMA ReturnCInv ==
  ASSUME CInv, Return
  PROVE  /\ CInv'
         /\ \E W, last, next : /\ last \in Nat /\ Consistent(W, last)
                               /\ next = AddToRange(W[last + 1], call.event.left,
                                                    call.event.right, call.event.value)
                               /\ next \in Seq(Value) /\ Admissible(next)
                               /\ EventIn(call.event, arraySize) /\ last + 1 < MaxVersions
                               /\ Logged(last) /\ checkpoints # <<>>
                               /\ Consistent(Append(W, next), last + 1)'
<1>1. /\ call # Idle /\ call' = Idle
      /\ bound' = IF call.event.value = 0 THEN bound ELSE call.nextBound
      /\ UNCHANGED <<live, events, checkpoints, interval, arraySize, todo>>
  BY DEF Return, Idle
<1>2. PICK W, last, old, new, next :
        /\ RunningNow(W, last, old, new, next)
        /\ live = new /\ Logged(last)
        /\ IF call.takeCheckpoint THEN CheckpointFor(last, new) ELSE Scheduled(last)
  BY ReturnFacts
<1>3. /\ last \in Nat /\ arraySize \in Nat /\ interval \in Nat \ {0}
      /\ last + 1 < MaxVersions /\ EventIn(call.event, arraySize)
      /\ call.takeCheckpoint <=> (last + 1) % interval = 0
      /\ events \in Seq(UpdateEvent) /\ checkpoints \in Seq(Checkpoint)
      /\ W \in Seq(Seq(Value)) /\ Len(W) = last + 1 /\ Len(checkpoints) \in Nat
  BY <1>2, RunningFacts
<1>4. /\ Recorded(W, last) /\ History(W, last) /\ checkpoints # <<>> /\ TypeOK
      /\ next = AddToRange(W[last + 1], call.event.left, call.event.right, call.event.value)
      /\ TreeFor(arraySize, new, next)
      /\ MaxMagnitude(next) <= IF call.event.value = 0 THEN bound ELSE call.nextBound
  BY <1>2 DEF RunningNow, Runs, Recorded
<1>5. next \in Seq(Value) /\ Len(next) = arraySize /\ Admissible(next)
  BY <1>4 DEF TreeFor, TreeOf
<1>6. PICK W2 : W2 = Append(W, next)
  OBVIOUS
<1>7. PICK top \in Nat : top = last + 1
  BY <1>3
<1>8. /\ W2 \in Seq(Seq(Value)) /\ Len(W2) = top + 1 /\ W2[top + 1] = next
      /\ \A v \in 1 .. top : W2[v] = W[v]
  BY <1>3, <1>5, <1>6, <1>7, AppendProperties
<1>9. PICK b \in Nat \ {0} :
        /\ b = last \div interval + 1
        /\ \A k \in 1 .. b : (k - 1) * interval \in 0 .. last
        /\ top % interval = 0 => top \div interval = b /\ top = b * interval
        /\ top % interval # 0 => top \div interval = b - 1
  <2>1. PICK b : b = last \div interval + 1
    OBVIOUS
  <2>2. PICK q \in Nat \ {0} : q = interval
    BY <1>3
  <2>3. PICK s \in Nat : s = last
    BY <1>3
  <2>4. /\ b \in Nat \ {0}
        /\ \A k \in 1 .. b : (k - 1) * q \in 0 .. s
        /\ (s + 1) % q = 0 => (s + 1) \div q = b /\ s + 1 = b * q
        /\ (s + 1) % q # 0 => (s + 1) \div q = b - 1
    <3>1. b = s \div q + 1
      BY <2>1, <2>2, <2>3
    <3>2. Periods(s, q, b)
      BY <3>1, Schedule
    <3> QED BY <3>2 DEF Periods
  <2>5. s + 1 = top
    BY <1>7, <2>3
  <2>6. /\ top % q = 0 => top \div q = b /\ top = b * q
        /\ top % q # 0 => top \div q = b - 1
    BY <2>4, <2>5
  <2> QED BY <2>1, <2>2, <2>3, <2>4, <2>6
<1>10. History(W2, top)'
  <2>1. \A v \in 1 .. top + 1 : Len(W2[v]) = arraySize /\ Admissible(W2[v])
    <3>1. \A v \in 1 .. top : Len(W[v]) = arraySize /\ Admissible(W[v])
      BY <1>4, <1>7 DEF History
    <3>2. \A v \in 1 .. top + 1 : v \in 1 .. top \/ v = top + 1
      BY <1>7
    <3> QED BY <1>5, <1>8, <3>1, <3>2
  <2>2. ASSUME NEW i \in 1 .. top
        PROVE  /\ EventIn(events[i], arraySize)
               /\ W2[i + 1] = AddToRange(W2[i], events[i].left, events[i].right, events[i].value)
    <3>1. CASE i = top
      <4>1. events[i] = call.event /\ W2[i] = W[last + 1] /\ W2[i + 1] = next
        BY <1>2, <1>7, <1>8, <3>1 DEF Logged
      <4> QED BY <1>3, <1>4, <4>1
    <3>2. CASE i # top
      <4>1. i \in 1 .. last /\ i + 1 \in 1 .. top
        BY <1>3, <1>7, <3>2
      <4>2. W2[i] = W[i] /\ W2[i + 1] = W[i + 1]
        BY <1>8, <4>1
      <4> QED BY <1>4, <4>1, <4>2 DEF History
    <3> QED BY <3>1, <3>2
  <2>3. top <= Len(events)
    BY <1>2, <1>7 DEF Logged
  <2> QED BY <1>1, <1>8, <2>1, <2>2, <2>3 DEF History, EventIn, UpdateEvent
<1>11. ASSUME NEW k \in 1 .. b
       PROVE  /\ checkpoints[k].version = (k - 1) * interval
              /\ TreeFor(arraySize, checkpoints[k].nodes, W2[(k - 1) * interval + 1])
  <2>1. PICK v \in 0 .. last : v = (k - 1) * interval
    BY <1>9
  <2>2. W2[v + 1] = W[v + 1]
    <3>1. v + 1 \in 1 .. top
      BY <1>3, <1>7
    <3> QED BY <1>8, <3>1
  <2>3. /\ checkpoints[k].version = (k - 1) * interval
        /\ TreeFor(arraySize, checkpoints[k].nodes, W[(k - 1) * interval + 1])
    BY <1>4, <1>9 DEF Recorded
  <2> QED BY <2>1, <2>2, <2>3
<1>12. /\ Len(checkpoints) = top \div interval + 1
       /\ \A k \in 1 .. top \div interval + 1 :
            /\ checkpoints[k].version = (k - 1) * interval
            /\ TreeFor(arraySize, checkpoints[k].nodes, W2[(k - 1) * interval + 1])
  <2>1. CASE call.takeCheckpoint
    <3>1. top \div interval = b /\ top = b * interval
      BY <1>3, <1>7, <1>9, <2>1
    <3>2. Len(checkpoints) = b + 1
      <4>1. Len(checkpoints) = last \div interval + 2
        BY <1>2, <2>1 DEF CheckpointFor
      <4>2. PICK a \in Nat : a = last \div interval
        <5>1. last \div interval \in Nat
          BY <1>2, RunningFacts
        <5> QED BY <5>1
      <4> QED BY <1>9, <4>1, <4>2
    <3>3. checkpoints[b + 1] = [version |-> top, nodes |-> new]
      BY <1>2, <1>7, <2>1, <3>2 DEF CheckpointFor, Last
    <3>4. ASSUME NEW k \in 1 .. b + 1
          PROVE  /\ checkpoints[k].version = (k - 1) * interval
                 /\ TreeFor(arraySize, checkpoints[k].nodes, W2[(k - 1) * interval + 1])
      <4>1. k \in 1 .. b \/ (k = b + 1 /\ k - 1 = b)
        BY <1>9
      <4>2. CASE k = b + 1 /\ k - 1 = b
        <5>1. (k - 1) * interval = top
          BY <3>1, <4>2
        <5>2. checkpoints[k].version = top /\ checkpoints[k].nodes = new
          BY <3>3, <4>2
        <5> QED BY <1>4, <1>8, <5>1, <5>2
      <4> QED BY <1>11, <4>1, <4>2
    <3> QED BY <3>1, <3>2, <3>4
  <2>2. CASE ~call.takeCheckpoint
    <3>1. top \div interval + 1 = b
      BY <1>3, <1>7, <1>9, <2>2
    <3>2. Len(checkpoints) = b
      BY <1>2, <1>9, <2>2 DEF Scheduled
    <3> QED BY <1>11, <3>1, <3>2
  <2> QED BY <2>1, <2>2
<1>13. Recorded(W2, top)'
  <2>1. Len(checkpoints) >= top \div interval + 1
    BY <1>3, <1>12
  <2>2. UNCHANGED <<interval, checkpoints, arraySize>>
    BY <1>1
  <2> QED BY <1>3, <1>10, <1>12, <2>1, <2>2
       DEF Recorded
<1>14. (MaxMagnitude(W2[top + 1]) <= bound)'
  BY <1>1, <1>4, <1>8
<1>15. (Len(events) = top)' /\ Scheduled(top)' /\ (call = Idle)' /\ (checkpoints # <<>>)'
  BY <1>1, <1>2, <1>4, <1>7, <1>12 DEF Scheduled, Logged
<1>16. TreeFor(arraySize', live', W2[top + 1])
  BY <1>1, <1>2, <1>4, <1>8
<1>17. TypeOK'
  <2>1. call.nextBound \in Bound /\ bound \in Bound
    BY <1>1, <1>4, CallFacts DEF TypeOK
  <2>2. bound' \in Bound
    BY <1>1, <2>1
  <2> QED BY <1>1, <1>4, <2>2 DEF TypeOK, Call
<1>18. CInv'
  BY <1>13, <1>14, <1>15, <1>16, <1>17, StillIdle
<1>19. Consistent(W2, top)'
  BY <1>13, <1>14, <1>15, <1>16
     DEF Consistent, TreeFor, TreeOf, StandsFor, SumsFit, Labels, Labelled, Node, Admissible
<1>20. Consistent(W, last)
  BY <1>1, <1>2 DEF Consistent, RunningNow
<1> QED BY <1>2, <1>3, <1>4, <1>5, <1>6, <1>7, <1>18, <1>19, <1>20

(* No write of an update overflows. *)
LEMMA ThrowsEarly ==
  ASSUME CInv, Throw
  PROVE  call.phase \in {"log", "checkpoint"}
<1> SUFFICES ASSUME call.phase \notin {"log", "checkpoint"} PROVE FALSE
  OBVIOUS
<1>1. PICK nodes : nodes = IF call.phase = "live" THEN live ELSE Last(checkpoints).nodes
  OBVIOUS
<1>2. PICK i, c : i = Head(todo).node /\ c = Head(todo).segment
  OBVIOUS
<1>3. /\ call.phase \in {"live", "copy"} /\ todo # <<>>
      /\ ~Computed(Written(nodes, i, c))
  BY <1>1, <1>2 DEF Throw
<1>4. call # Idle
  BY <1>3 DEF Idle
<1>5. PICK W, last, old, new, next : RunningNow(W, last, old, new, next)
  BY <1>4, Running
<1>6. Writing(nodes, old, new)
  <2>1. CASE call.phase = "live"
    BY <1>1, <1>5, <2>1 DEF RunningNow, Progress
  <2>2. CASE call.phase = "copy"
    <3>1. PICK copy : Writing(copy, old, new) /\ CheckpointFor(last, copy)
      BY <1>5, <2>2 DEF RunningNow, Progress
    <3>2. Last(checkpoints).nodes = copy
      BY <3>1 DEF CheckpointFor
    <3> QED BY <1>1, <2>2, <3>1, <3>2
  <2> QED BY <1>3, <2>1, <2>2
<1>7. PICK event : event = call.event
  OBVIOUS
<1>12. PICK writes : writes = todo
  OBVIOUS
<1>8. /\ arraySize \in Nat /\ event.left \in 1 .. arraySize
      /\ event.right \in event.left .. arraySize /\ old \in Seq(Node)
      /\ Len(old) = CanonicalNodeCount(arraySize) /\ UpdateOf(arraySize, old, new, event)
  BY <1>5, <1>7, RunningFacts
<1>9. Pending(arraySize, event, writes) /\ Mixed(nodes, old, new, writes) /\ writes # <<>>
      /\ i = Head(writes).node /\ c = Head(writes).segment
  BY <1>2, <1>3, <1>6, <1>7, <1>12 DEF Writing
<1>10. /\ Written(nodes, i, c) = new[i] /\ new[i] \in Node
       /\ Pending(arraySize, event, Tail(writes))
       /\ Mixed([nodes EXCEPT ![i] = new[i]], old, new, Tail(writes))
  BY <1>7, <1>8, <1>9, MixedStep
<1>11. Computed(new[i])
  BY <1>10, ValueFacts DEF Computed, Node
<1> QED BY <1>3, <1>10, <1>11

(* rangeAdd fails: nothing has been published, and the log is as it was. *)
LEMMA ThrowCInv ==
  ASSUME CInv, Throw
  PROVE  CInv' /\ Kept
<1>1. /\ events' = IF call.phase = "checkpoint" THEN Front(events) ELSE events
      /\ call' = Idle
      /\ UNCHANGED <<live, checkpoints, interval, arraySize, bound>>
  BY DEF Throw
<1>2. call.phase \in {"log", "checkpoint"} /\ call # Idle
  BY ThrowsEarly DEF Idle
<1>3. PICK W, last, old, new, next : RunningNow(W, last, old, new, next)
  BY <1>2, Running
<1>4. live = old /\ Scheduled(last)
  BY <1>2, <1>3 DEF RunningNow, Progress
<1>5. last \in Nat /\ last \div interval \in Nat /\ events \in Seq(UpdateEvent)
      /\ Len(checkpoints) >= last \div interval + 1
  BY <1>3, RunningFacts
<1>6. /\ events' \in Seq(UpdateEvent) /\ Len(events') = last
      /\ \A i \in 1 .. last : events'[i] = events[i]
  <2>1. CASE call.phase = "log"
    BY <1>1, <1>3, <1>5, <2>1 DEF RunningNow, Progress
  <2>2. CASE call.phase = "checkpoint"
    <3>1. Len(events) = last + 1
      BY <1>3, <2>2 DEF RunningNow, Progress, Logged
    <3>2. events' = SubSeq(events, 1, last)
      <4>1. Len(events) - 1 = last
        BY <1>5, <3>1
      <4> QED BY <1>1, <2>2, <4>1 DEF Front
    <3>3. /\ SubSeq(events, 1, last) \in Seq(UpdateEvent) /\ Len(SubSeq(events, 1, last)) = last
          /\ \A i \in 1 .. last : SubSeq(events, 1, last)[i] = events[i]
      BY <1>5, <3>1
    <3> QED BY <3>2, <3>3
  <2> QED BY <1>2, <2>1, <2>2
<1>7. TypeOK' /\ (checkpoints # <<>>)' /\ (MaxMagnitude(W[last + 1]) <= bound)'
  BY <1>1, <1>3, <1>6 DEF TypeOK, RunningNow, Call
<1>8. Recorded(W, last)'
  <2>1. PICK b : b = last \div interval + 1
    OBVIOUS
  <2>2. Recorded(W, last) /\ last <= Len(events') /\ Len(checkpoints') >= b
        /\ \A k \in 1 .. b : checkpoints'[k] = checkpoints[k]
    BY <1>1, <1>3, <1>5, <1>6, <2>1 DEF RunningNow
  <2> QED BY <1>1, <1>5, <1>6, <2>1, <2>2, RecordedKept
<1>9. (call = Idle)' /\ (Len(events) = last)' /\ Scheduled(last)'
  BY <1>1, <1>4, <1>6 DEF Scheduled
<1>10. TreeFor(arraySize', live', W[last + 1])
  BY <1>1, <1>3, <1>4 DEF RunningNow, Runs
<1>50. CInv' /\ Consistent(W, last)' /\ (checkpoints # <<>>)'
  BY <1>5, <1>7, <1>8, <1>9, <1>10, StillIdle
<1>51. Consistent(W, last) /\ checkpoints # <<>> /\ last \in Nat
  BY <1>3, RunningConsistent
<1> QED BY <1>50, <1>51 DEF Kept

LEMMA UnchangedCInv ==
  ASSUME CInv, UNCHANGED vars
  PROVE  CInv' /\ (checkpoints # <<>> => Kept)
<1>1. UNCHANGED <<live, events, checkpoints, interval, arraySize, bound, call, todo>>
  BY DEF vars
<1>2. TypeOK'
  BY <1>1 DEF CInv, TypeOK
<1>3. CASE checkpoints = <<>>
  BY <1>1, <1>2, <1>3 DEF CInv, Idle
<1>4. CASE checkpoints # <<>> /\ call = Idle
  <2>1. PICK W : \E last \in Nat : Consistent(W, last)
    BY <1>4 DEF CInv
  <2>2. PICK last \in Nat : Consistent(W, last)
    BY <2>1
  <2>3. /\ Recorded(W, last) /\ MaxMagnitude(W[last + 1]) <= bound
        /\ Len(events) = last /\ Scheduled(last) /\ TreeFor(arraySize, live, W[last + 1])
    BY <1>4, <2>2 DEF Consistent
  <2>4. Recorded(W, last)' /\ (MaxMagnitude(W[last + 1]) <= bound)' /\ (Len(events) = last)'
        /\ Scheduled(last)' /\ (call = Idle)' /\ (checkpoints # <<>>)'
    BY <1>1, <1>4, <2>3 DEF Recorded, History, Scheduled, Idle
  <2>5. TreeFor(arraySize', live', W[last + 1])
    BY <1>1, <2>3
  <2>6. CInv' /\ Consistent(W, last)'
    BY <1>2, <2>2, <2>4, <2>5, StillIdle
  <2> QED BY <1>4, <2>2, <2>4, <2>6 DEF Kept
<1>5. CASE call # Idle
  <2>1. PICK W, last, old, new, next : RunningNow(W, last, old, new, next)
    BY <1>5, Running
  <2>2. last \in Nat
    BY <2>1, RunningFacts
  <2>3. Recorded(W, last)' /\ (MaxMagnitude(W[last + 1]) <= bound)' /\ (call # Idle)'
        /\ (checkpoints # <<>>)' /\ Runs(W[last + 1], last, old, new, next)'
    BY <1>1, <2>1 DEF RunningNow, Recorded, History, Runs, Idle
  <2>4. Progress(last, old, new)'
    BY <1>1, <2>1
       DEF RunningNow, Progress, Writing, Pending, Write, Logged, Scheduled, CheckpointFor
  <2>5. CInv' /\ Consistent(W, last)'
    BY <1>2, <2>2, <2>3, <2>4, StillRunning
  <2>6. Consistent(W, last) /\ checkpoints # <<>>
    BY <2>1, RunningConsistent
  <2> QED BY <2>2, <2>3, <2>5, <2>6 DEF Kept
<1> QED BY <1>3, <1>4, <1>5

-----------------------------------------------------------------------------
(***************************************************************************)
(* The inductive invariant: at every moment the first checkpoints are trees *)
(* of the versions on their schedule, the log leads from each to all later *)
(* ones, and what a running update has written so far is a part of a       *)
(* complete new tree, to which its remaining writes lead.                  *)
(***************************************************************************)
THEOREM VersionsInvariant == Spec => []CInv
<1>1. Init => CInv
  BY InitCInv
<1>2. ASSUME CInv, [Next]_vars PROVE CInv'
  <2>1. ASSUME NEW values \in Arrays, NEW checkpointInterval \in Intervals,
               Initialize(values, checkpointInterval)
        PROVE  CInv'
    BY <1>2, <2>1, InitializeCInv
  <2>2. ASSUME NEW left \in 1 .. arraySize, NEW right \in 1 .. arraySize, NEW value \in Deltas,
               BeginRangeAdd(left, right, value)
        PROVE  CInv'
    BY <1>2, <2>2, BeginCInv
  <2>3. CASE LogEvent
    BY <1>2, <2>3, LogEventCInv
  <2>4. CASE StoreCheckpoint
    BY <1>2, <2>4, StoreCheckpointCInv
  <2>5. CASE UpdateLive
    BY <1>2, <2>5, UpdateLiveCInv
  <2>6. CASE BeginCopy
    BY <1>2, <2>6, BeginCopyCInv
  <2>7. CASE UpdateCopy
    BY <1>2, <2>7, UpdateCopyCInv
  <2>8. CASE Return
    BY <1>2, <2>8, ReturnCInv
  <2>9. CASE Throw
    BY <1>2, <2>9, ThrowCInv
  <2>10. CASE UNCHANGED vars
    BY <1>2, <2>10, UnchangedCInv
  <2> QED BY <1>2, <2>1, <2>2, <2>3, <2>4, <2>5, <2>6, <2>7, <2>8, <2>9, <2>10 DEF Next, Step
<1> QED BY <1>1, <1>2, PTL DEF Spec

(***************************************************************************)
(* An update fails only before its first write: after the guard and the    *)
(* dry run have accepted it, neither of its two passes can overflow.       *)
(***************************************************************************)
THEOREM ThrowsFirst == Spec => ThrowsBeforeMutation
<1>1. ASSUME CInv, [Next]_vars PROVE [Throw => call.phase \in {"log", "checkpoint"}]_vars
  BY <1>1, ThrowsEarly
<1> QED BY <1>1, VersionsInvariant, PTL DEF Spec, ThrowsBeforeMutation

-----------------------------------------------------------------------------
(***************************************************************************)
(* The published versions are W, whatever the trees hold at the moment.    *)
(***************************************************************************)
LeadsOn(W, last, k, start) ==
  /\ start \in 0 .. last /\ checkpoints[k].version = start
  /\ TreeFor(arraySize, checkpoints[k].nodes, W[start + 1])
  /\ Materialize(checkpoints[k].nodes) = W[start + 1]
  /\ \A version \in start .. last : ElementsFrom(k, version) = W[version + 1]

LEMMA CheckpointFacts ==
  ASSUME arraySize \in Nat, interval \in Nat \ {0}, NEW W, NEW last \in Nat, Recorded(W, last),
         NEW k \in 1 .. last \div interval + 1, NEW start, start = (k - 1) * interval
  PROVE  LeadsOn(W, last, k, start)
<1>1. PICK b : b = last \div interval + 1
  OBVIOUS
<1>2. PICK q \in Nat \ {0} : q = interval
  OBVIOUS
<1>3. Periods(last, q, b)
  BY <1>1, <1>2, Schedule
<1>4. start \in 0 .. last
  BY <1>1, <1>2, <1>3 DEF Periods
<1>5. /\ checkpoints[k].version = start
      /\ TreeFor(arraySize, checkpoints[k].nodes, W[start + 1]) /\ History(W, last)
  BY DEF Recorded
<1>6. Materialize(checkpoints[k].nodes) = W[start + 1]
  BY <1>5, MaterializeIs
<1>7. ASSUME NEW version \in start .. last PROVE ElementsFrom(k, version) = W[version + 1]
  BY <1>4, <1>5, ElementsIs
<1> QED BY <1>4, <1>5, <1>6, <1>7 DEF LeadsOn

LEMMA ConsistentFacts ==
  ASSUME CInv, checkpoints # <<>>
  PROVE  /\ arraySize \in Nat /\ interval \in Nat \ {0} /\ checkpoints \in Seq(Checkpoint)
         /\ \E W : \E last \in Nat : Consistent(W, last) /\ Recorded(W, last)
                                     /\ History(W, last)
<1>1. PICK W : \E last \in Nat : Consistent(W, last)
  BY DEF CInv
<1>2. PICK last \in Nat : Consistent(W, last)
  BY <1>1
<1> QED BY <1>2 DEF CInv, TypeOK, Consistent, Recorded

LEMMA VersionsAre ==
  ASSUME CInv, checkpoints # <<>>, NEW W, NEW last \in Nat, Consistent(W, last)
  PROVE  PublishedCount = last + 1 /\ Versions = W
<1>1. /\ arraySize \in Nat /\ interval \in Nat \ {0} /\ Recorded(W, last) /\ History(W, last)
  BY ConsistentFacts DEF Consistent, Recorded
<1>2. PublishedCount = last + 1
  <2>1. CASE call = Idle
    BY <2>1 DEF PublishedCount, Consistent, Idle
  <2>2. CASE call # Idle
    <3>1. PICK old, new, next : Progress(last, old, new)
      BY <2>2 DEF Consistent
    <3>2. CASE call.phase = "log"
      BY <3>1, <3>2 DEF Progress, PublishedCount
    <3>3. CASE call.phase \in {"checkpoint", "live", "copy"}
      <4>1. Len(events) = last + 1 /\ call.phase \notin {"idle", "log"}
        BY <3>1, <3>3 DEF Progress, Logged
      <4> QED BY <4>1 DEF PublishedCount
    <3> QED BY <3>1, <3>2, <3>3 DEF Progress
  <2> QED BY <2>1, <2>2
<1>3. PICK b : b = last \div interval + 1
  OBVIOUS
<1>4. PICK q \in Nat \ {0} : q = interval
  BY <1>1
<1>5. PeriodsBelow(last, q, b)
  BY <1>3, <1>4, Schedule
<1>6. ASSUME NEW v \in 1 .. last + 1
      PROVE  ElementsFrom((v - 1) \div interval + 1, v - 1) = W[v]
  <2>1. PICK u \in 0 .. last : u = v - 1 /\ u + 1 = v
    <3>1. v - 1 \in 0 .. last /\ (v - 1) + 1 = v
      OBVIOUS
    <3> QED BY <3>1
  <2>2. PICK k : k = u \div interval + 1
    OBVIOUS
  <2>3. k \in 1 .. last \div interval + 1 /\ (u \div interval) * interval \in 0 .. u
    BY <1>3, <1>4, <1>5, <2>2 DEF PeriodsBelow
  <2>4. PICK a \in Nat : a = u \div interval
    <3>1. u \in Nat
      OBVIOUS
    <3>2. u \div q \in Nat
      BY <3>1
    <3> QED BY <1>4, <3>2
  <2>5. k - 1 = u \div interval
    BY <2>2, <2>4
  <2>6. PICK start : start = (k - 1) * interval
    OBVIOUS
  <2>7. start \in 0 .. last /\ \A version \in start .. last : ElementsFrom(k, version) = W[version + 1]
    BY <1>1, <2>3, <2>6, CheckpointFacts DEF LeadsOn
  <2>8. u \in start .. last
    BY <2>3, <2>5, <2>6, <2>7
  <2>9. ElementsFrom(k, u) = W[v]
    BY <2>1, <2>7, <2>8
  <2> QED BY <2>1, <2>2, <2>9
<1>7. PICK top \in Nat : top = last + 1
  OBVIOUS
<1>8. W \in Seq(Seq(Value)) /\ Len(W) = top
  BY <1>1, <1>7 DEF History
<1>9. W \in [1 .. top -> Seq(Value)]
  BY <1>8, LenProperties
<1>10. Versions = [v \in 1 .. top |-> W[v]]
  BY <1>2, <1>6, <1>7 DEF Versions
<1> QED BY <1>2, <1>9, <1>10

(***************************************************************************)
(* Between calls the live tree, the checkpoints and the log agree, and the *)
(* checkpoints are those of the schedule: at every size, interval and      *)
(* number of versions, and after every failure.                            *)
(***************************************************************************)
THEOREM TreesAgree == Spec => []TreesAgreeWithLog
<1>1. ASSUME CInv PROVE TreesAgreeWithLog
  <2>1. ASSUME call = Idle, checkpoints # <<>>
        PROVE  /\ CheckpointsOnSchedule
               /\ Materialize(live) = ElementsFrom(Len(checkpoints), Len(events))
               /\ \A k \in 2 .. Len(checkpoints) :
                    Materialize(checkpoints[k].nodes)
                      = ElementsFrom(k - 1, checkpoints[k].version)
    <3>1. /\ arraySize \in Nat /\ interval \in Nat \ {0} /\ checkpoints \in Seq(Checkpoint)
          /\ \E W : \E last \in Nat : Consistent(W, last) /\ Recorded(W, last)
      BY <1>1, <2>1, ConsistentFacts
    <3>2. PICK W : \E last \in Nat : Consistent(W, last) /\ Recorded(W, last)
      BY <3>1
    <3>3. PICK last \in Nat : Consistent(W, last) /\ Recorded(W, last)
      BY <3>2
    <3>4. /\ Len(events) = last /\ Len(checkpoints) = last \div interval + 1
          /\ TreeFor(arraySize, live, W[last + 1])
      BY <2>1, <3>3 DEF Consistent, Scheduled
    <3>5. Len(checkpoints) \in Nat /\ DOMAIN checkpoints = 1 .. Len(checkpoints)
      BY <3>1, LenProperties
    <3>6. PICK b \in Nat \ {0} : b = Len(checkpoints) /\ b = last \div interval + 1
      BY <2>1, <3>1, <3>4, EmptySeq
    <3>7. ASSUME NEW k \in 1 .. b
          PROVE  \E start \in 0 .. last :
                   /\ start = (k - 1) * interval /\ checkpoints[k].version = start
                   /\ Materialize(checkpoints[k].nodes) = W[start + 1]
                   /\ \A version \in start .. last :
                        ElementsFrom(k, version) = W[version + 1]
      <4>1. PICK start : start = (k - 1) * interval
        OBVIOUS
      <4>2. k \in 1 .. last \div interval + 1
        BY <3>6
      <4>3. LeadsOn(W, last, k, start)
        BY <3>1, <3>3, <4>1, <4>2, CheckpointFacts
      <4> QED BY <4>1, <4>3 DEF LeadsOn
    <3>8. CheckpointsOnSchedule
      BY <3>4, <3>5, <3>6, <3>7 DEF CheckpointsOnSchedule
    <3>9. Materialize(live) = ElementsFrom(Len(checkpoints), Len(events))
      <4>1. Materialize(live) = W[last + 1]
        BY <3>1, <3>4, MaterializeIs
      <4>2. ElementsFrom(b, last) = W[last + 1]
        <5>1. b \in 1 .. b
          OBVIOUS
        <5>2. PICK start \in 0 .. last :
                \A version \in start .. last : ElementsFrom(b, version) = W[version + 1]
          BY <3>7, <5>1
        <5>3. last \in start .. last
          OBVIOUS
        <5> QED BY <5>2, <5>3
      <4> QED BY <3>4, <3>6, <4>1, <4>2
    <3>10. ASSUME NEW k \in 2 .. Len(checkpoints)
           PROVE  Materialize(checkpoints[k].nodes)
                    = ElementsFrom(k - 1, checkpoints[k].version)
      <4>1. PICK j \in 1 .. b : j = k - 1
        <5>1. k - 1 \in 1 .. b
          BY <3>6
        <5> QED BY <5>1
      <4>2. k \in 1 .. b
        BY <3>6
      <4>3. PICK start \in 0 .. last :
              /\ start = (k - 1) * interval /\ checkpoints[k].version = start
              /\ Materialize(checkpoints[k].nodes) = W[start + 1]
        BY <3>7, <4>2
      <4>4. PICK before \in 0 .. last :
              /\ before = (j - 1) * interval
              /\ \A version \in before .. last : ElementsFrom(j, version) = W[version + 1]
        BY <3>7
      <4>5. before <= start
        <5>1. PICK i \in Nat : i = j - 1
          <6>1. j - 1 \in Nat
            OBVIOUS
          <6> QED BY <6>1
        <5>2. i * interval <= j * interval
          <6>1. i <= j /\ j \in Nat
            BY <5>1
          <6> QED BY <3>1, <5>1, <6>1, Multiples
        <5> QED BY <4>1, <4>3, <4>4, <5>1, <5>2
      <4>6. start \in before .. last
        BY <4>5
      <4> QED BY <4>1, <4>3, <4>4, <4>6
    <3> QED BY <3>8, <3>9, <3>10
  <2> QED BY <1>1, <2>1 DEF TreesAgreeWithLog, CInv
<1> QED BY <1>1, VersionsInvariant, PTL

(***************************************************************************)
(* A range sum of every version is exact or reports an overflow, however   *)
(* many updates are replayed onto the checkpoint it starts from.           *)
(***************************************************************************)
THEOREM VersionQueriesExact == Spec => []QueriesExact
<1>1. ASSUME CInv, call = Idle, NEW v \in 1 .. PublishedCount,
             NEW right \in 1 .. arraySize, NEW left \in 1 .. right
      PROVE  RangeSum(v - 1, left, right) \in {ExactSum(Versions[v], left, right), Overflow}
  <2>1. checkpoints # <<>>
    BY <1>1 DEF PublishedCount
  <2>2. /\ arraySize \in Nat /\ interval \in Nat \ {0}
        /\ \E W : \E last \in Nat : /\ Consistent(W, last) /\ Recorded(W, last)
                                    /\ History(W, last)
    BY <1>1, <2>1, ConsistentFacts
  <2>3. PICK W : \E last \in Nat : /\ Consistent(W, last) /\ Recorded(W, last)
                                   /\ History(W, last)
    BY <2>2
  <2>4. PICK last \in Nat : Consistent(W, last) /\ Recorded(W, last) /\ History(W, last)
    BY <2>3
  <2>5. PublishedCount = last + 1 /\ Versions = W
    BY <1>1, <2>1, <2>4, VersionsAre
  <2>6. PICK u \in 0 .. last : u = v - 1 /\ u + 1 = v
    <3>1. v - 1 \in 0 .. last /\ (v - 1) + 1 = v
      BY <2>5
    <3> QED BY <3>1
  <2>7. left \in 1 .. arraySize /\ right \in left .. arraySize
    BY <2>2
  <2>8. Len(events) = last /\ TreeFor(arraySize, live, W[last + 1])
    BY <1>1, <2>4 DEF Consistent
  <2>9. CASE u = last
    <3>1. RangeSum(u, left, right) = Query(live, left, right)
      BY <2>8, <2>9 DEF RangeSum
    <3>2. Query(live, left, right) \in {ExactSum(W[last + 1], left, right), Overflow}
      BY <2>2, <2>7, <2>8, QueryIs
    <3> QED BY <2>5, <2>6, <2>9, <3>1, <3>2
  <2>10. CASE u # last
    <3>1. RangeSum(u, left, right) = Replay(u, left, right)
      BY <2>8, <2>10 DEF RangeSum
    <3>2. PICK k : k = u \div interval + 1
      OBVIOUS
    <3>3. PICK q \in Nat \ {0} : q = interval
      BY <2>2
    <3>4. PICK b : b = last \div interval + 1
      OBVIOUS
    <3>5. k \in 1 .. last \div interval + 1 /\ (u \div interval) * interval \in 0 .. u
      <4>1. PeriodsBelow(last, q, b)
        BY <3>3, <3>4, Schedule
      <4> QED BY <3>2, <3>3, <3>4, <4>1 DEF PeriodsBelow
    <3>6. k - 1 = u \div interval
      <4>1. u \div q \in Nat
        OBVIOUS
      <4>2. PICK a \in Nat : a = u \div interval
        BY <3>3, <4>1
      <4> QED BY <3>2, <4>2
    <3>7. PICK start : start = (k - 1) * interval
      OBVIOUS
    <3>8. checkpoints[k].version = start /\ TreeFor(arraySize, checkpoints[k].nodes, W[start + 1])
      BY <2>2, <2>4, <3>5, <3>7, CheckpointFacts DEF LeadsOn
    <3>9. start \in 0 .. u /\ start = Base(u).version
          /\ TreeFor(arraySize, Base(u).nodes, W[start + 1])
      BY <3>2, <3>5, <3>6, <3>7, <3>8 DEF Base
    <3>10. Replay(u, left, right) \in {ExactSum(W[u + 1], left, right), Overflow}
      BY <2>2, <2>4, <2>7, <3>9, ReplayIs
    <3> QED BY <2>5, <2>6, <3>1, <3>10
  <2> QED BY <2>9, <2>10
<1>2. CInv => QueriesExact
  BY <1>1 DEF QueriesExact
<1> QED BY <1>2, VersionsInvariant, PTL

-----------------------------------------------------------------------------
(***************************************************************************)
(* The refinement.                                                         *)
(***************************************************************************)
LEMMA ReferenceOperators ==
  ASSUME NEW values, NEW left, NEW right, NEW value
  PROVE  /\ Reference!Admissible(values) <=> Admissible(values)
         /\ Reference!AddToRange(values, left, right, value)
              = AddToRange(values, left, right, value)
<1>1. Reference!Admissible(values) <=> Admissible(values)
  BY DEF Reference!Admissible, Reference!CanonicalSum, Reference!Interval,
         Reference!IsLeaf, Reference!CheckedAdd, Reference!Root, Reference!Overflow,
         Reference!Value, Reference!Representable, Reference!LeftHalf,
         Reference!RightHalf, Reference!Midpoint, Reference!MinVal,
         Admissible, CanonicalSum, Interval, IsLeaf, CheckedAdd, Root, Overflow,
         Value, Representable, LeftHalf, RightHalf, Midpoint, MinVal
<1>2. \A x, y : Reference!CheckedAdd(x, y) = CheckedAdd(x, y)
  BY DEF Reference!CheckedAdd, Reference!Overflow, Reference!Value,
         Reference!Representable, Reference!MinVal,
         CheckedAdd, Overflow, Value, Representable, MinVal
<1>3. Reference!AddToRange(values, left, right, value)
        = AddToRange(values, left, right, value)
  BY <1>2 DEF Reference!AddToRange, AddToRange
<1> QED BY <1>1, <1>3

(* What is consistent is published. *)
VersionsRead ==
  checkpoints # <<>> =>
    \A W : \A last \in Nat : Consistent(W, last) => PublishedCount = last + 1 /\ Versions = W

LEMMA VersionsReadNow == CInv => VersionsRead
BY VersionsAre DEF VersionsRead

LEMMA NothingPublished ==
  ASSUME CInv, CInv', Kept
  PROVE  Versions' = Versions
<1>1. VersionsRead /\ VersionsRead'
  BY VersionsReadNow, PTL
<1>2. PICK W, last : /\ last \in Nat
                     /\ checkpoints # <<>> /\ Consistent(W, last)
                     /\ (checkpoints # <<>>)' /\ Consistent(W, last)'
  BY DEF Kept
<1>3. Versions = W
  BY <1>1, <1>2 DEF VersionsRead
<1>4. Versions' = W
  BY <1>1, <1>2 DEF VersionsRead
<1> QED BY <1>3, <1>4

LEMMA NoVersions ==
  ASSUME checkpoints = <<>>
  PROVE  Versions = <<>>
<1>1. Versions = [v \in 1 .. 0 |-> ElementsFrom((v - 1) \div interval + 1, v - 1)]
  BY DEF Versions, PublishedCount
<1>2. 1 .. 0 = {}
  OBVIOUS
<1> QED BY <1>1, <1>2

LEMMA InitializeRefines ==
  ASSUME CInv, CInv', NEW values \in Arrays, NEW checkpointInterval \in Intervals,
         Initialize(values, checkpointInterval)
  PROVE  Reference!Initialize(values)
<1>1. VersionsRead'
  BY VersionsReadNow, PTL
<1>2. Consistent(<<values>>, 0)' /\ (checkpoints # <<>>)' /\ 0 \in Nat
  BY InitializeCInv DEF Initialize
<1>3. Versions' = <<values>>
  BY <1>1, <1>2 DEF VersionsRead
<1>4. Reference!Admissible(values)
  BY ReferenceOperators DEF Initialize
<1> QED BY <1>3, <1>4 DEF Reference!Initialize

(* The version an update publishes is made from the latest one. *)
LEMMA ReturnRefines ==
  ASSUME CInv, CInv', Return
  PROVE  /\ call.event.value \in Deltas /\ Versions # <<>> /\ PublishedCount = Len(Versions)
         /\ call.event.right \in 1 .. Len(Versions[Len(Versions)])
         /\ call.event.left \in 1 .. call.event.right
         /\ Reference!RangeAdd(PublishedCount, call.event.left, call.event.right,
                               call.event.value)
<1>1. VersionsRead /\ VersionsRead'
  BY VersionsReadNow, PTL
<1>2. PICK W, last, next :
        /\ last \in Nat /\ Consistent(W, last)
        /\ next = AddToRange(W[last + 1], call.event.left, call.event.right, call.event.value)
        /\ next \in Seq(Value) /\ Admissible(next)
        /\ EventIn(call.event, arraySize) /\ last + 1 < MaxVersions
        /\ Logged(last) /\ checkpoints # <<>>
        /\ Consistent(Append(W, next), last + 1)'
  BY ReturnCInv
<1>3. (checkpoints # <<>>)' /\ last + 1 \in Nat
  BY <1>2 DEF Return
<1>4. PICK top \in Nat : top = last + 1
  BY <1>3
<1>5. PublishedCount = top /\ Versions = W
  BY <1>1, <1>2, <1>4 DEF VersionsRead
<1>6. Versions' = Append(W, next)
  BY <1>1, <1>2, <1>3 DEF VersionsRead
<1>7. History(W, last) /\ arraySize \in Nat
  BY <1>2, ConsistentFacts DEF Consistent, Recorded
<1>8. W \in Seq(Seq(Value)) /\ Len(W) = top /\ Len(W[top]) = arraySize
  <2>1. last + 1 \in 1 .. last + 1
    BY <1>2
  <2> QED BY <1>4, <1>7, <2>1 DEF History
<1>9. /\ top \in 1 .. top /\ DOMAIN W = 1 .. top /\ top < MaxVersions /\ W # <<>>
  BY <1>2, <1>4, <1>8, LenProperties
<1>10. PICK left, right, value :
         left = call.event.left /\ right = call.event.right /\ value = call.event.value
  OBVIOUS
<1>11. /\ left \in 1 .. arraySize /\ right \in left .. arraySize /\ value \in Deltas
  BY <1>2, <1>10 DEF EventIn, UpdateEvent
<1>12. right \in 1 .. arraySize /\ left \in 1 .. right /\ left <= right /\ right <= arraySize
  BY <1>7, <1>11
<1>13. Reference!ValidRange(top, left, right)
  BY <1>5, <1>8, <1>9, <1>12 DEF Reference!ValidRange
<1>14. Reference!AddToRange(Versions[top], left, right, value) = next
       /\ Reference!Admissible(next)
  BY <1>2, <1>4, <1>5, <1>10, ReferenceOperators
<1>15. Reference!RangeAdd(top, left, right, value)
  BY <1>5, <1>6, <1>8, <1>9, <1>13, <1>14 DEF Reference!RangeAdd
<1> QED BY <1>5, <1>8, <1>9, <1>10, <1>11, <1>12, <1>15

LEMMA StepRefines ==
  ASSUME CInv, CInv', [Next]_vars
  PROVE  Versions' # Versions => Reference!LatestNext
<1>1. ASSUME NEW values \in Arrays, NEW checkpointInterval \in Intervals,
             Initialize(values, checkpointInterval)
      PROVE  Reference!LatestNext
  BY <1>1, InitializeRefines DEF Reference!LatestNext
<1>2. CASE Return
  BY <1>2, ReturnRefines DEF Reference!LatestNext
<1>3. ASSUME NEW left \in 1 .. arraySize, NEW right \in 1 .. arraySize, NEW value \in Deltas,
             BeginRangeAdd(left, right, value)
      PROVE  Versions' = Versions
  BY <1>3, BeginCInv, NothingPublished
<1>4. ASSUME LogEvent \/ StoreCheckpoint \/ UpdateLive \/ BeginCopy \/ UpdateCopy \/ Throw
      PROVE  Versions' = Versions
  <2>1. Kept
    BY <1>4, LogEventCInv, StoreCheckpointCInv, UpdateLiveCInv, BeginCopyCInv, UpdateCopyCInv,
       ThrowCInv
  <2> QED BY <2>1, NothingPublished
<1>5. ASSUME UNCHANGED vars PROVE Versions' = Versions
  <2>1. CASE checkpoints # <<>>
    BY <1>5, <2>1, UnchangedCInv, NothingPublished
  <2>2. CASE checkpoints = <<>>
    <3>1. (checkpoints = <<>>)'
      BY <1>5, <2>2 DEF vars
    <3>2. (checkpoints = <<>> => Versions = <<>>)'
      BY NoVersions, PTL
    <3>3. Versions = <<>>
      BY <2>2, NoVersions
    <3> QED BY <3>1, <3>2, <3>3
  <2> QED BY <2>1, <2>2
<1> QED BY <1>1, <1>2, <1>3, <1>4, <1>5 DEF Next, Step

(***************************************************************************)
(* The structure implements the reference: the versions its log and its    *)
(* checkpoints stand for are made one by one as brute_force_array.cpp      *)
(* makes them, when rangeAdd returns and as it was asked, and none changes *)
(* at any other step, of an update in place or of a failure.               *)
(***************************************************************************)
THEOREM ImplementsReference == Spec => ImplementsBruteForceArray
<1>1. Init => Reference!Init
  BY NoVersions DEF Init, Reference!Init
<1>2. ASSUME CInv, CInv', [Next]_vars
      PROVE  [Versions' # Versions => Reference!LatestNext]_Versions
  BY <1>2, StepRefines
<1>3. ASSUME CInv, CInv', [Next]_vars
      PROVE  [PublishesAsAsked]_vars
  BY <1>3, ReturnRefines DEF PublishesAsAsked
<1> QED BY <1>1, <1>2, <1>3, VersionsInvariant, PTL
        DEF Spec, ImplementsBruteForceArray, Reference!LatestSpec

=============================================================================
