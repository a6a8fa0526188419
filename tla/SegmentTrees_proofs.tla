--------------------------- MODULE SegmentTrees_proofs ---------------------------
(***************************************************************************)
(* Facts that the proofs about all the structures share, for every width   *)
(* and every array: the geometry of segments and induction over the        *)
(* partition of an array; the frames of the recursion; the checked         *)
(* arithmetic and the numeric domain guard; and trees of labelled segments *)
(* with what is read from them.                                            *)
(***************************************************************************)
EXTENDS SumAddDomain, TreeRecursion, SequenceTheorems, WellFoundedInduction, TLAPS

-----------------------------------------------------------------------------
(***************************************************************************)
(* Segments.                                                               *)
(***************************************************************************)

(* The halves of a segment are segments, and its midpoint lies inside it. *)
LEMMA Halves ==
  ASSUME NEW n \in Nat, NEW c \in Interval(n)
  PROVE  /\ c[1] \in 1 .. n /\ c[2] \in 1 .. n /\ c[1] <= c[2]
         /\ c \in Nat \X Nat
         /\ c = <<c[1], c[2]>>
         /\ Length(c) \in Nat
         /\ Midpoint(c) \in Int
         /\ ~IsLeaf(c) => /\ c[1] <= Midpoint(c) /\ Midpoint(c) < c[2]
                          /\ LeftHalf(c) \in Interval(n)
                          /\ RightHalf(c) \in Interval(n)
<1>1. /\ c[1] \in 1 .. n /\ c[2] \in 1 .. n /\ c[1] <= c[2]
      /\ c \in Nat \X Nat
      /\ c = <<c[1], c[2]>>
  BY DEF Interval
<1>2. Length(c) \in Nat /\ Midpoint(c) \in Int
  BY <1>1 DEF Length, Midpoint
<1>3. ASSUME ~IsLeaf(c)
      PROVE  c[1] <= Midpoint(c) /\ Midpoint(c) < c[2]
  BY <1>1, <1>3 DEF IsLeaf, Midpoint
<1>4. ASSUME ~IsLeaf(c)
      PROVE  LeftHalf(c) \in Interval(n) /\ RightHalf(c) \in Interval(n)
  BY <1>1, <1>2, <1>3, <1>4 DEF LeftHalf, RightHalf, Interval
<1> QED BY <1>1, <1>2, <1>3, <1>4

LEMMA RootIsSegment ==
  ASSUME NEW n \in Nat, n > 0
  PROVE  Root(n) \in Interval(n)
  BY DEF Root, Interval

(* The halves share the elements of a segment between them. *)
LEMMA HalvesLength ==
  ASSUME NEW n \in Nat, NEW c \in Interval(n), ~IsLeaf(c)
  PROVE  /\ Length(c) = Length(LeftHalf(c)) + Length(RightHalf(c))
         /\ Length(LeftHalf(c)) \in 1 .. Length(c) - 1
         /\ Length(RightHalf(c)) \in 1 .. Length(c) - 1
         /\ Length(c) \in 2 .. n
<1>1. /\ c[1] \in 1 .. n /\ c[2] \in 1 .. n /\ Midpoint(c) \in Int
      /\ c[1] <= Midpoint(c) /\ Midpoint(c) < c[2]
  BY Halves
<1>2. /\ Length(LeftHalf(c)) = Midpoint(c) - c[1] + 1
      /\ Length(RightHalf(c)) = c[2] - (Midpoint(c) + 1) + 1
      /\ Length(c) = c[2] - c[1] + 1
  BY DEF Length, LeftHalf, RightHalf
<1> QED BY <1>1, <1>2

(* A leaf that meets a range is covered by it. *)
LEMMA LeafCovered ==
  ASSUME NEW n \in Nat, NEW c \in Interval(n), IsLeaf(c), NEW left \in Int, NEW right \in Int,
         ~Disjoint(left, right, c)
  PROVE  Covers(left, right, c)
BY Halves DEF IsLeaf, Disjoint, Covers

(* The halves an update descends to are those that meet its range. *)
LEMMA MeetingHalves ==
  ASSUME NEW n \in Nat, NEW c \in Interval(n), ~IsLeaf(c), NEW left \in Int, NEW right \in Int,
         ~Disjoint(left, right, c), NEW side \in Sides
  PROVE  side \in MeetingSides(c, left, right) <=> ~Disjoint(left, right, Half(c, side))
<1>1. c[1] \in Int /\ c[2] \in Int /\ Midpoint(c) \in Int /\ c[1] <= Midpoint(c) /\ Midpoint(c) < c[2]
  BY Halves
<1>2. left <= c[2] /\ c[1] <= right
  BY <1>1 DEF Disjoint
<1>3. CASE side = "left"
  <2>1. Half(c, side)[1] = c[1] /\ Half(c, side)[2] = Midpoint(c)
    BY <1>3 DEF Half, LeftHalf
  <2>2. side \in MeetingSides(c, left, right) <=> left <= Midpoint(c)
    BY <1>3 DEF MeetingSides, Sides
  <2> QED BY <1>1, <1>2, <2>1, <2>2 DEF Disjoint
<1>4. CASE side = "right"
  <2>1. Half(c, side)[1] = Midpoint(c) + 1 /\ Half(c, side)[2] = c[2]
    BY <1>4 DEF Half, RightHalf
  <2>2. side \in MeetingSides(c, left, right) <=> right > Midpoint(c)
    BY <1>4 DEF MeetingSides, Sides
  <2> QED BY <1>1, <1>2, <2>1, <2>2 DEF Disjoint
<1> QED BY <1>3, <1>4 DEF Sides

-----------------------------------------------------------------------------
(***************************************************************************)
(* Induction.  The library's induction theorems are about an arbitrary     *)
(* predicate; these are about an arbitrary set, and follow from the        *)
(* library's theorem on minimal elements of well-founded relations.        *)
(***************************************************************************)

(* A set of natural numbers that is not empty has a least element. *)
LEMMA LeastNatural ==
  ASSUME NEW T \in SUBSET Nat, T # {}
  PROVE  \E n \in T : \A m \in T : n <= m
<1>1. PICK R : R = OpToRel(<, Nat)
  OBVIOUS
<1>2. IsWellFoundedOn(R, Nat)
  BY <1>1, NatLessThanWellFounded
<1>3. PICK n \in T : \A m \in T : ~(<<m, n>> \in R)
  BY <1>2, WFMin
<1>4. \A m \in T : m \in Nat
  OBVIOUS
<1>5. \A m \in T : ~(m < n)
  BY <1>1, <1>3 DEF OpToRel
<1>6. \A m \in T : n <= m
  BY <1>4, <1>5
<1> QED BY <1>6

(* Induction over the natural numbers, for membership in a set. *)
LEMMA SetInduction ==
  ASSUME NEW T, 0 \in T, \A n \in Nat : n \in T => n + 1 \in T
  PROVE  Nat \subseteq T
<1> DEFINE C == {n \in Nat : n \notin T}
<1> SUFFICES ASSUME C # {} PROVE FALSE
  OBVIOUS
<1>1. PICK n \in C : \A m \in C : n <= m
  BY LeastNatural
<1>2. n # 0 /\ n - 1 \in Nat /\ (n - 1) + 1 = n
  BY <1>1
<1>3. n - 1 \notin C
  BY <1>1
<1> QED BY <1>1, <1>2, <1>3

(***************************************************************************)
(* Induction over the partition of an array of n elements: what holds of   *)
(* the leaves, and of a segment when it holds of both its halves, holds of *)
(* every segment.                                                          *)
(***************************************************************************)
LEMMA SegmentInduction ==
  ASSUME NEW n \in Nat, NEW T,
         \A c \in Interval(n) :
           IsLeaf(c) \/ (LeftHalf(c) \in T /\ RightHalf(c) \in T) => c \in T
  PROVE  Interval(n) \subseteq T
<1> DEFINE Short(k) == \A c \in Interval(n) : Length(c) <= k => c \in T
           S == {k \in Nat : Short(k)}
<1>1. 0 \in S
  <2>1. \A c \in Interval(n) : ~(Length(c) <= 0)
    BY Halves DEF Length
  <2> QED BY <2>1
<1>2. ASSUME NEW k \in Nat, k \in S
      PROVE  k + 1 \in S
  <2>1. ASSUME NEW c \in Interval(n), Length(c) <= k + 1
        PROVE  c \in T
    <3>1. CASE IsLeaf(c)
      BY <3>1
    <3>2. CASE ~IsLeaf(c)
      <4>1. LeftHalf(c) \in Interval(n) /\ RightHalf(c) \in Interval(n)
        BY <3>2, Halves
      <4>2. /\ Length(LeftHalf(c)) \in 1 .. Length(c) - 1
            /\ Length(RightHalf(c)) \in 1 .. Length(c) - 1
            /\ Length(c) \in Nat
        BY <3>2, Halves, HalvesLength
      <4>3. Length(LeftHalf(c)) <= k /\ Length(RightHalf(c)) <= k
        BY <2>1, <4>2
      <4>4. LeftHalf(c) \in T /\ RightHalf(c) \in T
        BY <1>2, <4>1, <4>3
      <4> QED BY <4>4
    <3> QED BY <3>1, <3>2
  <2> QED BY <1>2, <2>1
<1>3. Nat \subseteq S
  <2> HIDE DEF S
  <2> QED BY <1>1, <1>2, SetInduction
<1>4. ASSUME NEW c \in Interval(n)
      PROVE  c \in T
  BY <1>3, Halves
<1> QED BY <1>4

-----------------------------------------------------------------------------
(***************************************************************************)
(* Recursive functions.  A definition f[x \in D] == e names a function that*)
(* satisfies the equation only if there is one; that there is follows by   *)
(* induction over the length of the segments.                              *)
(***************************************************************************)

(***************************************************************************)
(* A recursion over visits, records in a set D, down to the leaves of an   *)
(* array of n elements: at a leaf, and where it stops, its value is base;  *)
(* elsewhere it joins the values of two visits of the halves.              *)
(***************************************************************************)
Visits(n, D, V, base, toLeft, toRight) ==
  /\ n \in Nat
  /\ base \in [D -> V]
  /\ \A at \in D :
       /\ at.segment \in Interval(n)
       /\ ~IsLeaf(at.segment) =>
            /\ toLeft[at] \in D /\ toLeft[at].segment = LeftHalf(at.segment)
            /\ toRight[at] \in D /\ toRight[at].segment = RightHalf(at.segment)

(* The join of a visit may depend on the visit. *)
NodeRecursion(n, D, V, stop, base, toLeft, toRight, join) ==
  /\ Visits(n, D, V, base, toLeft, toRight)
  /\ join \in [D \X V \X V -> V]

NodeSolution(f, D, V, stop, base, toLeft, toRight, join) ==
  /\ f \in [D -> V]
  /\ \A at \in D :
       f[at] = IF IsLeaf(at.segment) \/ at \in stop THEN base[at]
               ELSE join[<<at, f[toLeft[at]], f[toRight[at]]>>]

LEMMA NodeRecursionSolved ==
  \A n, D, V, stop, base, toLeft, toRight, join :
    NodeRecursion(n, D, V, stop, base, toLeft, toRight, join) =>
      \E f : NodeSolution(f, D, V, stop, base, toLeft, toRight, join)
<1> SUFFICES ASSUME NEW n, NEW D, NEW V, NEW stop, NEW base, NEW toLeft, NEW toRight,
                    NEW join,
                    NodeRecursion(n, D, V, stop, base, toLeft, toRight, join)
             PROVE  \E f : NodeSolution(f, D, V, stop, base, toLeft, toRight, join)
  OBVIOUS
<1> USE DEF NodeRecursion, Visits
<1> DEFINE Body(f, at) == IF IsLeaf(at.segment) \/ at \in stop THEN base[at]
                          ELSE join[<<at, f[toLeft[at]], f[toRight[at]]>>]
           UpTo(k, f) == \A at \in D : Length(at.segment) <= k => f[at] = Body(f, at)
           T == {k \in Nat : \E f \in [D -> V] : UpTo(k, f)}
<1>1. 0 \in T
  <2>1. \A c \in Interval(n) : ~(Length(c) <= 0)
    BY Halves DEF Length
  <2>2. UpTo(0, base)
    BY <2>1
  <2> QED BY <2>2
<1>2. ASSUME NEW k \in Nat, k \in T PROVE k + 1 \in T
  <2>1. PICK f \in [D -> V] : UpTo(k, f)
    BY <1>2
  <2>2. \A at \in D : Body(f, at) \in V
    OBVIOUS
  <2>3. PICK g : g = [at \in D |-> IF Length(at.segment) <= k THEN f[at] ELSE Body(f, at)]
    OBVIOUS
  <2>4. g \in [D -> V]
    <3> HIDE DEF Body
    <3> QED BY <2>2, <2>3
  <2>5. ASSUME NEW at \in D, Length(at.segment) <= k + 1
        PROVE  Body(g, at) = Body(f, at)
    <3>1. CASE IsLeaf(at.segment)
      BY <3>1
    <3>2. CASE ~IsLeaf(at.segment)
      <4>1. /\ toLeft[at] \in D /\ toLeft[at].segment = LeftHalf(at.segment)
            /\ toRight[at] \in D /\ toRight[at].segment = RightHalf(at.segment)
        BY <3>2
      <4>2. Length(LeftHalf(at.segment)) <= k /\ Length(RightHalf(at.segment)) <= k
        BY <2>5, <3>2, Halves, HalvesLength
      <4>3. g[toLeft[at]] = f[toLeft[at]] /\ g[toRight[at]] = f[toRight[at]]
        <5> HIDE DEF Body
        <5> QED BY <2>3, <4>1, <4>2
      <4> QED BY <4>3
    <3> QED BY <3>1, <3>2
  <2>6. UpTo(k + 1, g)
    <3> SUFFICES ASSUME NEW at \in D, Length(at.segment) <= k + 1
                 PROVE  g[at] = Body(g, at)
      OBVIOUS
    <3>1. Length(at.segment) <= k => f[at] = Body(f, at)
      BY <2>1
    <3> HIDE DEF Body
    <3> QED BY <2>3, <2>5, <3>1
  <2> HIDE DEF UpTo
  <2> QED BY <2>4, <2>6
<1>3. Nat \subseteq T
  <2> HIDE DEF T
  <2> QED BY <1>1, <1>2, SetInduction
<1>4. PICK f \in [D -> V] : UpTo(n, f)
  BY <1>3
<1>5. \A c \in Interval(n) : Length(c) <= n
  BY Halves DEF Length
<1> QED BY <1>4, <1>5 DEF NodeSolution

(* Or on the values alone. *)
VisitRecursion(n, D, V, stop, base, toLeft, toRight, join) ==
  /\ Visits(n, D, V, base, toLeft, toRight)
  /\ join \in [V \X V -> V]

VisitSolution(f, D, V, stop, base, toLeft, toRight, join) ==
  /\ f \in [D -> V]
  /\ \A at \in D :
       f[at] = IF IsLeaf(at.segment) \/ at \in stop THEN base[at]
               ELSE join[<<f[toLeft[at]], f[toRight[at]]>>]

LEMMA VisitRecursionSolved ==
  \A n, D, V, stop, base, toLeft, toRight, join :
    VisitRecursion(n, D, V, stop, base, toLeft, toRight, join) =>
      \E f : VisitSolution(f, D, V, stop, base, toLeft, toRight, join)
<1> SUFFICES ASSUME NEW n, NEW D, NEW V, NEW stop, NEW base, NEW toLeft, NEW toRight,
                    NEW join,
                    VisitRecursion(n, D, V, stop, base, toLeft, toRight, join)
             PROVE  \E f : VisitSolution(f, D, V, stop, base, toLeft, toRight, join)
  OBVIOUS
<1>1. PICK nodeJoin : nodeJoin = [x \in D \X V \X V |-> join[<<x[2], x[3]>>]]
  OBVIOUS
<1>2. nodeJoin \in [D \X V \X V -> V]
  BY <1>1 DEF VisitRecursion
<1>3. PICK f : NodeSolution(f, D, V, stop, base, toLeft, toRight, nodeJoin)
  <2>1. NodeRecursion(n, D, V, stop, base, toLeft, toRight, nodeJoin)
    BY <1>2 DEF NodeRecursion, VisitRecursion
  <2> QED BY <2>1, NodeRecursionSolved
<1>4. ASSUME NEW at \in D
      PROVE  f[at] = IF IsLeaf(at.segment) \/ at \in stop THEN base[at]
                     ELSE join[<<f[toLeft[at]], f[toRight[at]]>>]
  <2>1. CASE IsLeaf(at.segment) \/ at \in stop
    BY <1>3, <2>1 DEF NodeSolution
  <2>2. CASE ~(IsLeaf(at.segment) \/ at \in stop)
    <3>1. f[toLeft[at]] \in V /\ f[toRight[at]] \in V
      BY <1>3, <2>2 DEF NodeSolution, VisitRecursion, Visits
    <3>2. f[at] = nodeJoin[<<at, f[toLeft[at]], f[toRight[at]]>>]
      BY <1>3, <2>2 DEF NodeSolution
    <3> QED BY <1>1, <2>2, <3>1, <3>2
  <2> QED BY <2>1, <2>2
<1>5. f \in [D -> V]
  BY <1>3 DEF NodeSolution
<1> QED BY <1>4, <1>5 DEF VisitSolution

(* A recursion that counts up to n. *)
CountSolution(f, n, V, first, next) ==
  /\ f \in [0 .. n -> V]
  /\ f[0] = first
  /\ \A k \in 1 .. n : f[k] = next[<<k, f[k - 1]>>]

LEMMA CountRecursionSolved ==
  \A n \in Nat : \A V : \A first \in V : \A next \in [(1 .. n) \X V -> V] :
    \E f : CountSolution(f, n, V, first, next)
<1> SUFFICES ASSUME NEW n \in Nat, NEW V, NEW first \in V,
                    NEW next \in [(1 .. n) \X V -> V]
             PROVE  \E f : CountSolution(f, n, V, first, next)
  OBVIOUS
<1> DEFINE Solvable(m) == \E f : CountSolution(f, m, V, first, next)
           T == {m \in Nat : m <= n => Solvable(m)}
<1>1. 0 \in T
  <2>1. PICK f : f = [k \in 0 .. 0 |-> first]
    OBVIOUS
  <2>2. CountSolution(f, 0, V, first, next)
    BY <2>1 DEF CountSolution
  <2> QED BY <2>2
<1>2. ASSUME NEW m \in Nat, m \in T PROVE m + 1 \in T
  <2> HIDE DEF Solvable
  <2> SUFFICES ASSUME m + 1 <= n PROVE Solvable(m + 1)
    OBVIOUS
  <2> USE DEF Solvable
  <2>1. PICK f : CountSolution(f, m, V, first, next)
    BY <1>2
  <2>2. f \in [0 .. m -> V] /\ f[m] \in V /\ m + 1 \in 1 .. n
    BY <2>1 DEF CountSolution
  <2>3. next[<<m + 1, f[m]>>] \in V
    BY <2>2
  <2>4. PICK g : g = [k \in 0 .. m + 1 |-> IF k = m + 1 THEN next[<<m + 1, f[m]>>] ELSE f[k]]
    OBVIOUS
  <2>5. g \in [0 .. m + 1 -> V] /\ g[0] = first
    BY <2>1, <2>2, <2>3, <2>4 DEF CountSolution
  <2>6. ASSUME NEW k \in 1 .. m + 1 PROVE g[k] = next[<<k, g[k - 1]>>]
    <3>1. CASE k = m + 1
      <4>1. g[k - 1] = f[m] /\ g[k] = next[<<m + 1, f[m]>>]
        BY <2>4, <3>1
      <4> QED BY <3>1, <4>1
    <3>2. CASE k # m + 1
      <4>1. k \in 1 .. m /\ g[k] = f[k] /\ g[k - 1] = f[k - 1]
        BY <2>4, <3>2
      <4> QED BY <2>1, <4>1 DEF CountSolution
    <3> QED BY <3>1, <3>2
  <2>7. CountSolution(g, m + 1, V, first, next)
    BY <2>5, <2>6 DEF CountSolution
  <2> QED BY <2>7
<1>3. Nat \subseteq T
  <2> HIDE DEF T
  <2> QED BY <1>1, <1>2, SetInduction
<1> QED BY <1>3

-----------------------------------------------------------------------------
(***************************************************************************)
(* The segments of the tree.  A set of segments is closed when it holds    *)
(* the halves of its members.                                              *)
(***************************************************************************)
Closed(F) == \A c \in F : ~IsLeaf(c) => LeftHalf(c) \in F /\ RightHalf(c) \in F

(* The definition of Segments has a solution: the least closed sets. *)
LEMMA SegmentsRecursion ==
  ASSUME NEW n \in Nat
  PROVE  \E below :
           /\ Segments(n) = IF n = 0 THEN {} ELSE below[Root(n)]
           /\ \A c \in Interval(n) :
                below[c] = IF IsLeaf(c) THEN {c}
                           ELSE {c} \cup below[LeftHalf(c)] \cup below[RightHalf(c)]
<1> DEFINE Step(f) == [c \in Interval(n) |->
                         IF IsLeaf(c) THEN {c}
                         ELSE {c} \cup f[LeftHalf(c)] \cup f[RightHalf(c)]]
           Least(c) == {s \in Interval(n) :
                          \A F \in SUBSET Interval(n) : Closed(F) /\ c \in F => s \in F}
<1>1. ASSUME NEW c \in Interval(n)
      PROVE  /\ c \in Least(c) /\ Least(c) \in SUBSET Interval(n) /\ Closed(Least(c))
             /\ \A F \in SUBSET Interval(n) : Closed(F) /\ c \in F => Least(c) \subseteq F
  <2>1. Closed(Least(c))
    <3> SUFFICES ASSUME NEW s \in Least(c), ~IsLeaf(s)
                 PROVE  LeftHalf(s) \in Least(c) /\ RightHalf(s) \in Least(c)
      BY DEF Closed
    <3>1. LeftHalf(s) \in Interval(n) /\ RightHalf(s) \in Interval(n)
      BY Halves
    <3>2. \A F \in SUBSET Interval(n) : Closed(F) /\ c \in F =>
             LeftHalf(s) \in F /\ RightHalf(s) \in F
      BY DEF Closed
    <3> QED BY <3>1, <3>2
  <2> QED BY <2>1
<1>2. ASSUME NEW c \in Interval(n), IsLeaf(c)
      PROVE  Least(c) = {c}
  <2>1. Closed({c}) /\ {c} \in SUBSET Interval(n)
    BY <1>2 DEF Closed
  <2> HIDE DEF Least
  <2> QED BY <1>1, <2>1
<1>3. ASSUME NEW c \in Interval(n), ~IsLeaf(c)
      PROVE  Least(c) = {c} \cup Least(LeftHalf(c)) \cup Least(RightHalf(c))
  <2> DEFINE F == {c} \cup Least(LeftHalf(c)) \cup Least(RightHalf(c))
  <2>1. /\ LeftHalf(c) \in Interval(n) /\ RightHalf(c) \in Interval(n)
    BY <1>3, Halves
  <2> HIDE DEF Least
  <2>2. /\ LeftHalf(c) \in Least(LeftHalf(c)) /\ RightHalf(c) \in Least(RightHalf(c))
        /\ Closed(Least(LeftHalf(c))) /\ Closed(Least(RightHalf(c)))
        /\ Least(LeftHalf(c)) \in SUBSET Interval(n)
        /\ Least(RightHalf(c)) \in SUBSET Interval(n)
    BY <1>1, <2>1
  <2>3. Closed(F) /\ F \in SUBSET Interval(n) /\ c \in F
    BY <2>2 DEF Closed
  <2>4. Least(c) \subseteq F
    BY <1>1, <2>3
  <2>5. /\ c \in Least(c) /\ Closed(Least(c)) /\ Least(c) \in SUBSET Interval(n)
    BY <1>1
  <2>6. LeftHalf(c) \in Least(c) /\ RightHalf(c) \in Least(c)
    BY <1>3, <2>5 DEF Closed
  <2>7. Least(LeftHalf(c)) \subseteq Least(c) /\ Least(RightHalf(c)) \subseteq Least(c)
    BY <1>1, <2>1, <2>5, <2>6
  <2> QED BY <2>4, <2>5, <2>7
<1> HIDE DEF Least
<1>4. PICK g : g = [c \in Interval(n) |-> Least(c)]
  OBVIOUS
<1>5. \A c \in Interval(n) : g[c] = Step(g)[c]
  BY <1>2, <1>3, <1>4, Halves
<1>6. g = Step(g)
  BY <1>4, <1>5
<1>7. \E f : f = Step(f)
  BY <1>6
<1>8. PICK f : f = Step(f) /\ Segments(n) = IF n = 0 THEN {} ELSE f[Root(n)]
  BY <1>7 DEF Segments
<1>9. \A c \in Interval(n) : f[c] = Step(f)[c]
  BY <1>8
<1> QED BY <1>8, <1>9

(* The segments of the tree are a closed set with the root in it. *)
LEMMA SegmentsClosed ==
  ASSUME NEW n \in Nat, n > 0
  PROVE  /\ Segments(n) \in SUBSET Interval(n)
         /\ Closed(Segments(n)) /\ Root(n) \in Segments(n)
<1>1. PICK below : /\ Segments(n) = IF n = 0 THEN {} ELSE below[Root(n)]
                   /\ \A c \in Interval(n) :
                        below[c] = IF IsLeaf(c) THEN {c}
                                   ELSE {c} \cup below[LeftHalf(c)] \cup below[RightHalf(c)]
  BY SegmentsRecursion
<1> DEFINE T == {c \in Interval(n) : /\ below[c] \in SUBSET Interval(n)
                                     /\ Closed(below[c]) /\ c \in below[c]}
<1>2. ASSUME NEW c \in Interval(n), IsLeaf(c) \/ (LeftHalf(c) \in T /\ RightHalf(c) \in T)
      PROVE  c \in T
  <2>1. CASE IsLeaf(c)
    <3>1. below[c] = {c}
      BY <1>1, <2>1
    <3> QED BY <2>1, <3>1 DEF Closed
  <2>2. CASE ~IsLeaf(c)
    <3>1. PICK l, r : l = below[LeftHalf(c)] /\ r = below[RightHalf(c)]
      OBVIOUS
    <3>2. /\ l \in SUBSET Interval(n) /\ Closed(l) /\ LeftHalf(c) \in l
          /\ r \in SUBSET Interval(n) /\ Closed(r) /\ RightHalf(c) \in r
      BY <1>2, <2>2, <3>1
    <3>3. below[c] = {c} \cup l \cup r
      BY <1>1, <2>2, <3>1
    <3> QED BY <3>2, <3>3 DEF Closed
  <2> QED BY <2>1, <2>2
<1>3. Interval(n) \subseteq T
  <2> HIDE DEF T
  <2> QED BY <1>2, SegmentInduction
<1>4. Root(n) \in T
  BY <1>3, RootIsSegment
<1> QED BY <1>1, <1>4

(* Every closed set with the root in it holds all segments of the tree. *)
LEMMA SegmentsWithin ==
  ASSUME NEW n \in Nat, NEW F \in SUBSET Interval(n), Closed(F), n > 0 => Root(n) \in F
  PROVE  Segments(n) \subseteq F
<1>1. PICK below : /\ Segments(n) = IF n = 0 THEN {} ELSE below[Root(n)]
                   /\ \A c \in Interval(n) :
                        below[c] = IF IsLeaf(c) THEN {c}
                                   ELSE {c} \cup below[LeftHalf(c)] \cup below[RightHalf(c)]
  BY SegmentsRecursion
<1> DEFINE T == {c \in Interval(n) : c \in F => below[c] \subseteq F}
<1>2. ASSUME NEW c \in Interval(n), IsLeaf(c) \/ (LeftHalf(c) \in T /\ RightHalf(c) \in T)
      PROVE  c \in T
  <2> SUFFICES ASSUME c \in F PROVE below[c] \subseteq F
    OBVIOUS
  <2>1. CASE IsLeaf(c)
    <3>1. below[c] = {c}
      BY <1>1, <2>1
    <3> QED BY <3>1
  <2>2. CASE ~IsLeaf(c)
    <3>1. LeftHalf(c) \in F /\ RightHalf(c) \in F
      BY <2>2 DEF Closed
    <3>2. below[LeftHalf(c)] \subseteq F /\ below[RightHalf(c)] \subseteq F
      BY <1>2, <2>2, <3>1
    <3>3. below[c] = {c} \cup below[LeftHalf(c)] \cup below[RightHalf(c)]
      BY <1>1, <2>2
    <3> QED BY <3>2, <3>3
  <2> QED BY <2>1, <2>2
<1>3. Interval(n) \subseteq T
  <2> HIDE DEF T
  <2> QED BY <1>2, SegmentInduction
<1> QED BY <1>1, <1>3

-----------------------------------------------------------------------------
(***************************************************************************)
(* Frames.                                                                 *)
(***************************************************************************)

(* What an invocation that receives a child's index becomes. *)
LEMMA ReceiveFacts ==
  ASSUME NEW f \in Frame, NEW index \in Nat, f.todo # {}
  PROVE  /\ Receive(f, index) \in Frame
         /\ Receive(f, index).segment = f.segment
         /\ Receive(f, index).node = f.node
         /\ NextSide(f) \in f.todo /\ NextSide(f) \in Sides
         /\ Receive(f, index).todo = f.todo \ {NextSide(f)}
         /\ NextSide(f) = "left" => /\ Receive(f, index).newLeft = index
                                    /\ Receive(f, index).newRight = f.newRight
         /\ NextSide(f) = "right" => /\ Receive(f, index).newLeft = f.newLeft
                                     /\ Receive(f, index).newRight = index
                                     /\ "left" \notin f.todo
  BY DEF Receive, Frame, NextSide, Sides

(* The frames left when the innermost one of several has returned. *)
LEMMA ResumedStack ==
  ASSUME NEW frames \in Seq(Frame), NEW index \in Nat, NEW m \in Nat \ {0},
         Len(frames) = m + 1, frames[m].todo # {}
  PROVE  /\ Resume(frames, index) \in Seq(Frame)
         /\ Len(Resume(frames, index)) = m
         /\ DOMAIN Resume(frames, index) = 1 .. m
         /\ Resume(frames, index) # <<>>
         /\ Resume(frames, index)[m] = Receive(frames[m], index)
         /\ \A k \in 1 .. m : k # m => Resume(frames, index)[k] = frames[k]
<1>1. PICK callers : callers = SubSeq(frames, 1, m)
  OBVIOUS
<1>2. \A k \in 1 .. m + 1 : frames[k] \in Frame
  BY ElementOfSeq
<1>3. /\ callers \in Seq(Frame) /\ Len(callers) = m
      /\ \A k \in 1 .. m : callers[k] = frames[k]
  <2>1. \A k \in 1 .. m : frames[k] \in Frame
    BY <1>2
  <2> QED BY <1>1, <2>1, SubSeqProperties
<1>4. callers # <<>>
  BY <1>3, EmptySeq
<1>5. PICK g : g = Receive(frames[m], index)
  OBVIOUS
<1>6. g \in Frame
  BY <1>2, <1>5, ReceiveFacts
<1>7. Resume(frames, index) = [callers EXCEPT ![m] = g]
  <2>1. Len(frames) - 1 = m /\ Len(callers) = m /\ callers[m] = frames[m]
    BY <1>3
  <2>2. SubSeq(frames, 1, Len(frames) - 1) = callers
    BY <1>1, <2>1
  <2> QED BY <1>4, <1>5, <2>1, <2>2 DEF Resume
<1>8. /\ [callers EXCEPT ![m] = g] \in Seq(Frame)
      /\ Len([callers EXCEPT ![m] = g]) = Len(callers)
      /\ \A k \in 1 .. Len(callers) :
           [callers EXCEPT ![m] = g][k] = IF k = m THEN g ELSE callers[k]
  BY <1>3, <1>6, ExceptSeq
<1>9. Resume(frames, index) # <<>>
  BY <1>3, <1>7, <1>8, EmptySeq
<1> QED BY <1>3, <1>5, <1>7, <1>8, <1>9, LenProperties

(* The outermost one leaves none. *)
LEMMA ResumedEmpty ==
  ASSUME NEW frames \in Seq(Frame), NEW index, Len(frames) = 1
  PROVE  Resume(frames, index) = <<>>
  BY SubSeqEmpty DEF Resume

-----------------------------------------------------------------------------
(***************************************************************************)
(* The place of the recursion.  A subtree is worked on after all that lies *)
(* to its left, so that no segment is met twice in one call.               *)
(***************************************************************************)
Within(c, d) == d[1] <= c[1] /\ c[2] <= d[2]

(* Each frame works inside the half its callers are waiting for.           *)
Nested(frames) ==
  \A k, m \in DOMAIN frames :
    k < m => /\ frames[k].todo # {}
             /\ Within(frames[m].segment,
                       Half(frames[k].segment, NextSide(frames[k])))

(* The segments done so far are none of those the frames still work on,    *)
(* and lie to the left of the halves not yet begun.                        *)
Passed(frames, done) ==
  \A k \in DOMAIN frames, c \in done :
    /\ ~Within(frames[k].segment, c)
    /\ \A side \in frames[k].todo :
         k = Len(frames) \/ side # NextSide(frames[k])
           => c[2] < Half(frames[k].segment, side)[1]

FramesIn(frames, n) ==
  \A k \in DOMAIN frames :
    /\ frames[k].segment \in Interval(n)
    /\ frames[k].todo # {} => ~IsLeaf(frames[k].segment)

(* The halves of a segment lie inside it, side by side. *)
LEMMA HalfFacts ==
  ASSUME NEW n \in Nat, NEW c \in Interval(n), ~IsLeaf(c), NEW side \in Sides
  PROVE  /\ Half(c, side) \in Interval(n)
         /\ c[1] \in Int /\ c[2] \in Int /\ Midpoint(c) \in Int
         /\ c[1] <= Midpoint(c) /\ Midpoint(c) < c[2]
         /\ side = "left" => Half(c, side)[1] = c[1] /\ Half(c, side)[2] = Midpoint(c)
         /\ side = "right" => Half(c, side)[1] = Midpoint(c) + 1 /\ Half(c, side)[2] = c[2]
<1>1. /\ c[1] \in Int /\ c[2] \in Int /\ Midpoint(c) \in Int
      /\ c[1] <= Midpoint(c) /\ Midpoint(c) < c[2]
      /\ LeftHalf(c) \in Interval(n) /\ RightHalf(c) \in Interval(n)
  BY Halves
<1> QED BY <1>1 DEF Half, LeftHalf, RightHalf, Sides

LEMMA WithinTransitive ==
  ASSUME NEW n \in Nat, NEW c \in Interval(n), NEW d \in Interval(n), NEW e \in Interval(n),
         Within(c, d), Within(d, e)
  PROVE  Within(c, e)
<1>1. /\ c[1] \in Int /\ c[2] \in Int /\ d[1] \in Int /\ d[2] \in Int
      /\ e[1] \in Int /\ e[2] \in Int
  BY DEF Interval
<1> QED BY <1>1 DEF Within

(* Descending into the next half. *)
LEMMA NestedAppend ==
  ASSUME NEW frames \in Seq(Frame), Len(frames) > 0, NEW n \in Nat,
         FramesIn(frames, n), Nested(frames), NEW g \in Frame,
         frames[Len(frames)].todo # {},
         g.segment = Half(frames[Len(frames)].segment, NextSide(frames[Len(frames)]))
  PROVE  Nested(Append(frames, g))
<1> DEFINE l == Len(frames)
<1>1. /\ l \in Nat /\ DOMAIN frames = 1 .. l
      /\ Len(Append(frames, g)) = l + 1
      /\ DOMAIN Append(frames, g) = 1 .. l + 1
      /\ \A k \in 1 .. l : Append(frames, g)[k] = frames[k]
      /\ Append(frames, g)[l + 1] = g
  BY AppendProperties, LenProperties
<1>2. \A k \in 1 .. l : frames[k] \in Frame
  BY ElementOfSeq
<1> SUFFICES ASSUME NEW k \in 1 .. l + 1, NEW m \in 1 .. l + 1, k < m
             PROVE  /\ Append(frames, g)[k].todo # {}
                    /\ Within(Append(frames, g)[m].segment,
                              Half(Append(frames, g)[k].segment, NextSide(Append(frames, g)[k])))
  BY <1>1 DEF Nested
<1>3. k \in 1 .. l /\ Append(frames, g)[k] = frames[k]
  BY <1>1
<1>4. PICK s, t : s = frames[l].segment /\ t = NextSide(frames[l])
  OBVIOUS
<1>5. /\ s \in Interval(n) /\ ~IsLeaf(s) /\ t \in Sides /\ g.segment = Half(s, t)
  BY <1>1, <1>4 DEF FramesIn, NextSide, Sides
<1>6. CASE m = l + 1
  <2>1. CASE k = l
    <3>1. g.segment \in Interval(n)
      BY <1>5, HalfFacts
    <3>2. Within(g.segment, g.segment)
      BY <3>1, Halves DEF Within
    <3> QED BY <1>1, <1>3, <1>4, <1>5, <1>6, <2>1, <3>2
  <2>2. CASE k < l
    <3>1. /\ frames[k].todo # {}
          /\ Within(s, Half(frames[k].segment, NextSide(frames[k])))
      BY <1>1, <1>3, <1>4, <2>2 DEF Nested
    <3>2. PICK u, w : u = frames[k].segment /\ w = NextSide(frames[k])
      OBVIOUS
    <3>3. u \in Interval(n) /\ ~IsLeaf(u) /\ w \in Sides
      BY <1>1, <1>3, <3>1, <3>2 DEF FramesIn, NextSide, Sides
    <3>4. PICK h : h = Half(u, w) /\ h \in Interval(n)
      BY <3>3, HalfFacts
    <3>5. PICK e : e = Half(s, t) /\ e \in Interval(n)
      BY <1>5, HalfFacts
    <3>6. Within(e, s)
      BY <1>5, <3>5, HalfFacts DEF Within, Sides
    <3>7. Within(s, h)
      BY <3>1, <3>2, <3>4
    <3>8. Within(e, h)
      BY <1>5, <3>4, <3>5, <3>6, <3>7, WithinTransitive
    <3>9. Append(frames, g)[m].segment = e
      <4>1. Append(frames, g)[m] = g
        <5> HIDE DEF l
        <5> QED BY <1>1, <1>6
      <4> QED BY <1>5, <3>5, <4>1
    <3>10. Half(Append(frames, g)[k].segment, NextSide(Append(frames, g)[k])) = h
      BY <1>3, <3>2, <3>4
    <3> QED BY <1>3, <3>1, <3>8, <3>9, <3>10
  <2>3. k = l \/ k < l
    <3>1. l \in Nat /\ k \in 1 .. l
      BY <1>1, <1>3
    <3> HIDE DEF l
    <3> QED BY <3>1
  <2> QED BY <2>1, <2>2, <2>3
<1>7. CASE m # l + 1
  <2>1. m \in 1 .. l /\ Append(frames, g)[m] = frames[m]
    BY <1>1, <1>7
  <2> QED BY <1>1, <1>3, <2>1 DEF Nested
<1> QED BY <1>6, <1>7

LEMMA PassedAppend ==
  ASSUME NEW frames \in Seq(Frame), Len(frames) > 0, NEW n \in Nat,
         FramesIn(frames, n), NEW g \in Frame, NEW done \in SUBSET Interval(n),
         Passed(frames, done), frames[Len(frames)].todo # {},
         g.segment = Half(frames[Len(frames)].segment, NextSide(frames[Len(frames)])),
         g.todo # {} => ~IsLeaf(g.segment)
  PROVE  Passed(Append(frames, g), done)
<1> DEFINE l == Len(frames)
<1>1. /\ l \in Nat /\ DOMAIN frames = 1 .. l
      /\ Len(Append(frames, g)) = l + 1
      /\ DOMAIN Append(frames, g) = 1 .. l + 1
      /\ \A k \in 1 .. l : Append(frames, g)[k] = frames[k]
      /\ Append(frames, g)[l + 1] = g
  BY AppendProperties, LenProperties
<1> SUFFICES ASSUME NEW k \in 1 .. l + 1, NEW c \in done
             PROVE  /\ ~Within(Append(frames, g)[k].segment, c)
                    /\ \A side \in Append(frames, g)[k].todo :
                         k = l + 1 \/ side # NextSide(Append(frames, g)[k])
                           => c[2] < Half(Append(frames, g)[k].segment, side)[1]
  BY <1>1 DEF Passed
<1>2. CASE k # l + 1
  <2>1. k \in 1 .. l /\ Append(frames, g)[k] = frames[k]
    BY <1>1, <1>2
  <2> QED BY <1>1, <1>2, <2>1 DEF Passed
<1>3. CASE k = l + 1
  <2>1. PICK s, t : s = frames[l].segment /\ t = NextSide(frames[l])
    OBVIOUS
  <2>2. /\ s \in Interval(n) /\ ~IsLeaf(s) /\ t \in Sides /\ g.segment = Half(s, t)
        /\ t \in frames[l].todo /\ l \in 1 .. l
    <3>1. frames[l] \in Frame /\ l \in 1 .. l
      BY <1>1, ElementOfSeq
    <3>2. s \in Interval(n) /\ ~IsLeaf(s)
      BY <1>1, <2>1, <3>1 DEF FramesIn
    <3>3. NextSide(frames[l]) \in Sides /\ NextSide(frames[l]) \in frames[l].todo
      BY <3>1 DEF NextSide, Sides, Frame
    <3> QED BY <2>1, <3>1, <3>2, <3>3
  <2>3. PICK e : e = Half(s, t) /\ e \in Interval(n)
    BY <2>2, HalfFacts
  <2>4. c[2] < e[1]
    BY <1>1, <2>1, <2>2, <2>3 DEF Passed
  <2>5. c[1] \in Int /\ c[2] \in Int /\ e[1] \in Int /\ e[2] \in Int /\ e[1] <= e[2]
    BY <2>3, Halves
  <2>6. ~Within(e, c)
    BY <2>4, <2>5 DEF Within
  <2>7. ASSUME NEW side \in g.todo
        PROVE  c[2] < Half(e, side)[1]
    <3>1. ~IsLeaf(e) /\ side \in Sides
      BY <2>2, <2>3, <2>7 DEF Frame
    <3>2. PICK h : h = Half(e, side)
      OBVIOUS
    <3>3. h[1] \in Int /\ e[1] <= h[1]
      BY <2>3, <3>1, <3>2, HalfFacts DEF Sides
    <3> QED BY <2>4, <2>5, <3>2, <3>3
  <2> QED BY <1>1, <1>3, <2>2, <2>3, <2>6, <2>7
<1> QED BY <1>2, <1>3

(* Returning to the caller, with a segment done or not. *)
LEMMA NestedResume ==
  ASSUME NEW frames \in Seq(Frame), NEW index \in Nat, NEW m \in Nat \ {0},
         Len(frames) = m + 1, Nested(frames)
  PROVE  Nested(Resume(frames, index))
<1> DEFINE fewer == Resume(frames, index)
<1>1. m \in 1 .. m + 1 /\ m + 1 \in 1 .. m + 1 /\ m < m + 1 /\ DOMAIN frames = 1 .. m + 1
  BY LenProperties
<1>2. frames[m].todo # {} /\ frames[m] \in Frame
  BY <1>1, ElementOfSeq DEF Nested
<1>3. /\ DOMAIN fewer = 1 .. m
      /\ fewer[m] = Receive(frames[m], index)
      /\ \A k \in 1 .. m : k # m => fewer[k] = frames[k]
  <2>1. frames[m].todo # {}
    BY <1>2
  <2> QED BY <2>1, ResumedStack
<1>4. \A k \in 1 .. m : fewer[k].segment = frames[k].segment
  BY <1>2, <1>3, ReceiveFacts
<1> HIDE DEF fewer
<1>5. ASSUME NEW k \in 1 .. m, NEW j \in 1 .. m, k < j
      PROVE  /\ fewer[k].todo # {}
             /\ Within(fewer[j].segment, Half(fewer[k].segment, NextSide(fewer[k])))
  <2>1. fewer[k] = frames[k] /\ fewer[j].segment = frames[j].segment
        /\ k \in 1 .. m + 1 /\ j \in 1 .. m + 1
    BY <1>3, <1>4, <1>5
  <2> QED BY <1>1, <1>5, <2>1 DEF Nested
<1> QED BY <1>3, <1>5 DEF Nested, fewer

LEMMA PassedResume ==
  ASSUME NEW frames \in Seq(Frame), NEW index \in Nat, NEW m \in Nat \ {0},
         Len(frames) = m + 1, NEW n \in Nat, FramesIn(frames, n),
         Nested(frames), NEW done \in SUBSET Interval(n), Passed(frames, done)
  PROVE  Passed(Resume(frames, index), done \cup {frames[m + 1].segment})
<1> DEFINE fewer == Resume(frames, index)
<1>1. m \in 1 .. m + 1 /\ m + 1 \in 1 .. m + 1 /\ m < m + 1 /\ DOMAIN frames = 1 .. m + 1
  BY LenProperties
<1>2. frames[m].todo # {} /\ frames[m] \in Frame
  BY <1>1, ElementOfSeq DEF Nested
<1>3. /\ DOMAIN fewer = 1 .. m /\ Len(fewer) = m
      /\ fewer[m] = Receive(frames[m], index)
      /\ \A k \in 1 .. m : k # m => fewer[k] = frames[k]
  <2>1. frames[m].todo # {}
    BY <1>2
  <2> QED BY <2>1, ResumedStack
<1>4. \A k \in 1 .. m : fewer[k].segment = frames[k].segment
  BY <1>2, <1>3, ReceiveFacts
<1> HIDE DEF fewer
(* A side still to be done, other than the next one unless the frame is    *)
(* now the innermost, is the right one, and the left one was waited for.   *)
<1>5. ASSUME NEW k \in 1 .. m, NEW side \in fewer[k].todo,
             k = m \/ side # NextSide(fewer[k])
      PROVE  /\ side \in frames[k].todo /\ side = "right"
             /\ NextSide(frames[k]) = "left"
             /\ frames[k].todo # {} /\ k \in 1 .. m + 1
  <2>1. frames[k] \in Frame /\ k \in 1 .. m + 1
    BY <1>1, ElementOfSeq
  <2>2. CASE k = m
    <3>1. fewer[k].todo = frames[k].todo \ {NextSide(frames[k])}
      BY <1>2, <1>3, <2>2, ReceiveFacts
    <3> QED BY <2>1, <3>1, <1>5 DEF NextSide, Frame, Sides
  <2>3. CASE k # m
    <3>1. fewer[k] = frames[k]
      BY <1>3, <2>3
    <3> QED BY <2>1, <2>3, <3>1, <1>5 DEF NextSide, Frame, Sides
  <2> QED BY <2>2, <2>3
<1>6. ASSUME NEW k \in 1 .. m, NEW c \in done
      PROVE  /\ ~Within(fewer[k].segment, c)
             /\ \A side \in fewer[k].todo :
                  k = m \/ side # NextSide(fewer[k])
                    => c[2] < Half(fewer[k].segment, side)[1]
  <2>1. k \in DOMAIN frames /\ fewer[k].segment = frames[k].segment
    BY <1>1, <1>4
  <2>2. ~Within(frames[k].segment, c)
    BY <2>1 DEF Passed
  <2>3. ASSUME NEW side \in fewer[k].todo, k = m \/ side # NextSide(fewer[k])
        PROVE  c[2] < Half(frames[k].segment, side)[1]
    <3>1. side \in frames[k].todo /\ side # NextSide(frames[k])
      BY <1>5, <2>3
    <3> QED BY <2>1, <3>1 DEF Passed
  <2> QED BY <2>1, <2>2, <2>3
<1>7. ASSUME NEW k \in 1 .. m, NEW c, c = frames[m + 1].segment
      PROVE  /\ ~Within(fewer[k].segment, c)
             /\ \A side \in fewer[k].todo :
                  k = m \/ side # NextSide(fewer[k])
                    => c[2] < Half(fewer[k].segment, side)[1]
  <2>1. PICK s, t : s = frames[k].segment /\ t = NextSide(frames[k])
    OBVIOUS
  <2>2. /\ k \in 1 .. m + 1 /\ k < m + 1 /\ fewer[k].segment = s
    BY <1>4, <2>1
  <2>3. /\ frames[k].todo # {} /\ s \in Interval(n) /\ ~IsLeaf(s) /\ t \in Sides
        /\ Within(c, Half(s, t)) /\ c \in Interval(n)
    BY <1>1, <1>7, <2>1, <2>2 DEF Nested, FramesIn, NextSide, Sides
  <2>4. /\ c[1] \in Int /\ c[2] \in Int /\ c[1] <= c[2]
        /\ s[1] \in Int /\ s[2] \in Int /\ Midpoint(s) \in Int
        /\ s[1] <= Midpoint(s) /\ Midpoint(s) < s[2]
    BY <2>3, Halves
  <2>5. /\ t = "left" => c[1] >= s[1] /\ c[2] <= Midpoint(s)
        /\ t = "right" => c[1] > Midpoint(s) /\ c[2] <= s[2]
        /\ t = "left" \/ t = "right"
    BY <2>3, <2>4 DEF Within, Half, LeftHalf, RightHalf, Sides
  <2>6. ~Within(s, c)
    BY <2>4, <2>5 DEF Within
  <2>7. ASSUME NEW side \in fewer[k].todo, k = m \/ side # NextSide(fewer[k])
        PROVE  c[2] < Half(s, side)[1]
    <3>1. side = "right" /\ t = "left"
      BY <1>5, <2>1, <2>7
    <3>2. Half(s, side)[1] = Midpoint(s) + 1
      BY <3>1 DEF Half, RightHalf
    <3> QED BY <2>4, <2>5, <3>1, <3>2
  <2> QED BY <2>2, <2>6, <2>7
<1> QED BY <1>3, <1>6, <1>7 DEF Passed, fewer

-----------------------------------------------------------------------------
(***************************************************************************)
(* Arithmetic.                                                             *)
(***************************************************************************)

(* The width constants are integers, and Overflow is no value. *)
LEMMA ValueFacts ==
  /\ MaxVal \in Nat /\ MaxVal > 0
  /\ Value \subseteq Int /\ Outcome \subseteq Int
  /\ 0 \in Value
  /\ Overflow \in Int /\ Overflow \notin Value
  BY MaxValAssumption DEF Outcome, Value, MinVal, Overflow

(* The outcome of a checked operation is a value or an overflow. *)
LEMMA OutcomeFacts == Outcome \subseteq Int /\ Overflow \in Outcome /\ Value \subseteq Outcome
  BY MaxValAssumption DEF Outcome, Value, MinVal, Overflow

LEMMA OutcomeValue == \A x \in Outcome : x # Overflow => x \in Value
  BY DEF Outcome

LEMMA CheckedAddOutcome == \A a, b : CheckedAdd(a, b) \in Outcome
  BY DEF CheckedAdd, Outcome, Representable

(* A checked addition that does not throw is exact (checkedAdd). *)
LEMMA CheckedAddExact ==
  ASSUME NEW a \in Int, NEW b \in Int, CheckedAdd(a, b) # Overflow
  PROVE  CheckedAdd(a, b) = a + b /\ a + b \in Value /\ a # Overflow /\ b # Overflow
  BY DEF CheckedAdd, Representable

LEMMA CheckedAddInt ==
  ASSUME NEW a \in Int, NEW b \in Int
  PROVE  CheckedAdd(a, b) \in Int
  BY MaxValAssumption DEF CheckedAdd, Overflow

(* An application of a tag that does not throw is exact (SumAddPolicy::apply). *)
LEMMA ApplyExact ==
  ASSUME NEW action \in Int, NEW aggregate \in Int, NEW length \in Nat,
         Apply(action, aggregate, length) # Overflow
  PROVE  /\ Apply(action, aggregate, length) = aggregate + action * length
         /\ aggregate + action * length \in Value
         /\ aggregate # Overflow /\ action # Overflow
<1> DEFINE product == CheckedMultiply(action, CheckedLength(length))
<1>1. product # Overflow /\ action # Overflow /\ aggregate # Overflow /\ aggregate + product \in Value
      /\ Apply(action, aggregate, length) = aggregate + product
  BY DEF Apply, CheckedAdd, CheckedMultiply, Representable
<1>2. CheckedLength(length) = length
  BY <1>1 DEF CheckedLength, CheckedMultiply
<1>3. product = action * length
  BY <1>1, <1>2 DEF CheckedMultiply
<1> QED BY <1>1, <1>3

(* A product with a natural number grows with the other factor. *)
LEMMA ProductMonotone ==
  ASSUME NEW a \in Nat, NEW b \in Nat, NEW k \in Nat, a <= b
  PROVE  a * k \in Nat /\ b * k \in Nat /\ a * k <= b * k
<1>1. PICK d \in Nat : b = a + d
  <2>1. b - a \in Nat /\ b = a + (b - a)
    OBVIOUS
  <2> QED BY <2>1
<1>2. b * k = a * k + d * k
  BY <1>1
<1>3. d * k \in Nat /\ a * k \in Nat
  OBVIOUS
<1> QED BY <1>2, <1>3

(* A covering update moves the tag and the sum of a node together. *)
LEMMA TagAbsorbed ==
  ASSUME NEW l \in Int, NEW r \in Int, NEW tag \in Int, NEW value \in Int,
         NEW length \in Int
  PROVE  l + r + tag * length + value * length = l + r + (tag + value) * length
<1>1. (tag + value) * length = tag * length + value * length
  OBVIOUS
<1> QED BY <1>1

(***************************************************************************)
(* A tag that two or more elements share is a value when their sums with   *)
(* and without it are.                                                     *)
(***************************************************************************)
LEMMA TagFits ==
  ASSUME NEW k \in Int, NEW length \in Nat, length >= 2,
         NEW x \in Value, NEW y \in Value, x = y + k * length
  PROVE  k \in Value
<1>1. /\ MaxVal \in Nat /\ x \in Int /\ y \in Int
      /\ -MaxVal - 1 <= x /\ x <= MaxVal /\ -MaxVal - 1 <= y /\ y <= MaxVal
  BY MaxValAssumption DEF Value, MinVal
<1>2. PICK d \in Int : d = k * length
  OBVIOUS
<1>3. d <= 2 * MaxVal + 1 /\ -d <= 2 * MaxVal + 1
  BY <1>1, <1>2
<1>4. ASSUME NEW a \in Nat, a >= MaxVal + 1, a * length <= 2 * MaxVal + 1
      PROVE  FALSE
  <2>1. 2 * a <= length * a /\ length * a \in Nat
    BY ProductMonotone
  <2>2. length * a = a * length
    OBVIOUS
  <2> QED BY <1>1, <1>4, <2>1, <2>2
<1>5. CASE k >= 0
  <2>1. k \in Nat /\ k * length <= 2 * MaxVal + 1
    BY <1>2, <1>3, <1>5
  <2>2. ~(k >= MaxVal + 1)
    BY <1>4, <2>1
  <2> QED BY <1>1, <1>5, <2>2 DEF Value, MinVal
<1>6. CASE k < 0
  <2>1. (-k) * length = -d
    BY <1>2
  <2>2. -k \in Nat /\ (-k) * length <= 2 * MaxVal + 1
    BY <1>3, <1>6, <2>1
  <2>3. ~(-k >= MaxVal + 1)
    BY <1>4, <2>2
  <2> QED BY <1>1, <1>6, <2>3 DEF Value, MinVal
<1> QED BY <1>5, <1>6

-----------------------------------------------------------------------------
(***************************************************************************)
(* Canonical sums.                                                         *)
(***************************************************************************)

(* The recursion of validateCanonicalSums. *)
LEMMA CanonicalSumStep ==
  ASSUME NEW values, Len(values) \in Nat, \A p \in 1 .. Len(values) : values[p] \in Int
  PROVE  \A c \in Interval(Len(values)) :
           /\ CanonicalSum(values)[c] \in Int
           /\ CanonicalSum(values)[c] =
               IF IsLeaf(c) THEN values[c[1]]
               ELSE CheckedAdd(CanonicalSum(values)[LeftHalf(c)],
                               CanonicalSum(values)[RightHalf(c)])
<1> DEFINE n == Len(values)
           D == [segment : Interval(n)]
           base == [at \in D |-> values[at.segment[1]]]
           toLeft == [at \in D |-> [segment |-> LeftHalf(at.segment)]]
           toRight == [at \in D |-> [segment |-> RightHalf(at.segment)]]
           join == [x \in Int \X Int |-> CheckedAdd(x[1], x[2])]
           Step(f) == [c \in Interval(n) |->
               IF IsLeaf(c) THEN values[c[1]]
               ELSE CheckedAdd(f[LeftHalf(c)], f[RightHalf(c)])]
<1>1. join \in [Int \X Int -> Int]
  BY CheckedAddInt
<1>2. base \in [D -> Int]
  BY Halves
<1>3. VisitRecursion(n, D, Int, {}, base, toLeft, toRight, join)
  <2>1. ASSUME NEW at \in D, ~IsLeaf(at.segment)
        PROVE  /\ toLeft[at] \in D /\ toLeft[at].segment = LeftHalf(at.segment)
               /\ toRight[at] \in D /\ toRight[at].segment = RightHalf(at.segment)
    BY <2>1, Halves
  <2> HIDE DEF base, toLeft, toRight, join
  <2> QED BY <1>1, <1>2, <2>1 DEF VisitRecursion, Visits
<1>4. \E g \in [Interval(n) -> Int] : g = Step(g)
  <2>1. PICK f : VisitSolution(f, D, Int, {}, base, toLeft, toRight, join)
    <3> HIDE DEF D, base, toLeft, toRight, join
    <3> QED BY <1>3, VisitRecursionSolved
  <2>2. PICK g : g = [c \in Interval(n) |-> f[[segment |-> c]]]
    OBVIOUS
  <2>3. g \in [Interval(n) -> Int]
    BY <2>1, <2>2 DEF VisitSolution
  <2>4. ASSUME NEW c \in Interval(n)
        PROVE  g[c] = Step(g)[c]
    <3>1. [segment |-> c] \in D /\ g[c] = f[[segment |-> c]]
      BY <2>2
    <3>2. CASE IsLeaf(c)
      BY <2>1, <3>1, <3>2 DEF VisitSolution
    <3>3. CASE ~IsLeaf(c)
      <4>1. LeftHalf(c) \in Interval(n) /\ RightHalf(c) \in Interval(n)
        BY <3>3, Halves
      <4>2. f[[segment |-> c]] = join[<<g[LeftHalf(c)], g[RightHalf(c)]>>]
        BY <2>1, <2>2, <3>1, <3>3, <4>1 DEF VisitSolution
      <4> QED BY <2>3, <3>1, <3>3, <4>1, <4>2
    <3> QED BY <3>2, <3>3
  <2> QED BY <2>2, <2>3, <2>4
<1>5. \E g : g = Step(g)
  BY <1>4
<1>6. CanonicalSum(values) = Step(CanonicalSum(values))
  BY <1>5 DEF CanonicalSum
<1>7. \A c \in Interval(n) : IsLeaf(c) => values[c[1]] \in Int
  BY Halves
<1>8. \A a, b : CheckedAdd(a, b) \in Int
  BY MaxValAssumption DEF CheckedAdd, Representable, Value, MinVal, Overflow
<1> QED BY <1>6, <1>7, <1>8

(* What validateCanonicalSums has established for a segment. *)
LEMMA CanonicalSumExact ==
  ASSUME NEW values, Len(values) \in Nat,
         \A p \in 1 .. Len(values) : values[p] \in Outcome,
         NEW c \in Interval(Len(values)), CanonicalSum(values)[c] # Overflow
  PROVE  /\ CanonicalSum(values)[c] \in Value
         /\ IsLeaf(c) => CanonicalSum(values)[c] = values[c[1]]
         /\ ~IsLeaf(c) =>
              /\ CanonicalSum(values)[LeftHalf(c)] # Overflow
              /\ CanonicalSum(values)[RightHalf(c)] # Overflow
              /\ CanonicalSum(values)[c]
                   = CanonicalSum(values)[LeftHalf(c)] + CanonicalSum(values)[RightHalf(c)]
<1>1. \A p \in 1 .. Len(values) : values[p] \in Int
  BY ValueFacts
<1>2. CanonicalSum(values)[c] =
        IF IsLeaf(c) THEN values[c[1]]
        ELSE CheckedAdd(CanonicalSum(values)[LeftHalf(c)],
                        CanonicalSum(values)[RightHalf(c)])
  BY <1>1, CanonicalSumStep
<1>3. CASE IsLeaf(c)
  BY <1>2, <1>3, Halves DEF Outcome
<1>4. CASE ~IsLeaf(c)
  <2>1. LeftHalf(c) \in Interval(Len(values)) /\ RightHalf(c) \in Interval(Len(values))
    BY <1>4, Halves
  <2>2. CanonicalSum(values)[LeftHalf(c)] \in Int /\ CanonicalSum(values)[RightHalf(c)] \in Int
    BY <1>1, <2>1, CanonicalSumStep
  <2> QED BY <1>2, <1>4, <2>2, CheckedAddExact
<1> QED BY <1>3, <1>4

(* An overflow of an element is an overflow of every segment it belongs to. *)
LEMMA CanonicalElements ==
  ASSUME NEW values, Len(values) \in Nat,
         \A p \in 1 .. Len(values) : values[p] \in Outcome
  PROVE  \A c \in Interval(Len(values)) : CanonicalSum(values)[c] # Overflow =>
           \A p \in c[1] .. c[2] : values[p] \in Value
<1> DEFINE n == Len(values)
           T == {c \in Interval(n) : CanonicalSum(values)[c] # Overflow =>
                                       \A p \in c[1] .. c[2] : values[p] \in Value}
<1>1. ASSUME NEW c \in Interval(n), IsLeaf(c) \/ (LeftHalf(c) \in T /\ RightHalf(c) \in T)
      PROVE  c \in T
  <2> SUFFICES ASSUME CanonicalSum(values)[c] # Overflow, NEW p \in c[1] .. c[2]
               PROVE  values[p] \in Value
    OBVIOUS
  <2>1. c[1] \in 1 .. n /\ c[2] \in 1 .. n /\ Midpoint(c) \in Int
    BY Halves
  <2>2. CASE IsLeaf(c)
    <3>1. p = c[1]
      BY <2>1, <2>2 DEF IsLeaf
    <3> QED BY <2>2, <3>1, CanonicalSumExact
  <2>3. CASE ~IsLeaf(c)
    <3>1. /\ CanonicalSum(values)[LeftHalf(c)] # Overflow
          /\ CanonicalSum(values)[RightHalf(c)] # Overflow
      BY <2>3, CanonicalSumExact
    <3>2. CASE p <= Midpoint(c)
      <4>1. p \in LeftHalf(c)[1] .. LeftHalf(c)[2]
        BY <2>1, <3>2 DEF LeftHalf
      <4> QED BY <1>1, <2>3, <3>1, <4>1
    <3>3. CASE ~(p <= Midpoint(c))
      <4>1. p \in RightHalf(c)[1] .. RightHalf(c)[2]
        BY <2>1, <3>3 DEF RightHalf
      <4> QED BY <1>1, <2>3, <3>1, <4>1
    <3> QED BY <3>2, <3>3
  <2> QED BY <2>2, <2>3
<1>2. Interval(n) \subseteq T
  <2> HIDE DEF T
  <2> QED BY <1>1, SegmentInduction
<1> QED BY <1>2

(* Elements of bounded magnitude have bounded sums (provesCanonicalRepresentability). *)
LEMMA BoundedCanonicalSums ==
  ASSUME NEW values, Len(values) \in Nat, NEW b \in Nat, b * Len(values) <= MaxVal,
         \A p \in 1 .. Len(values) : /\ values[p] \in Outcome
                                     /\ -b <= values[p] /\ values[p] <= b
  PROVE  \A c \in Interval(Len(values)) :
           /\ CanonicalSum(values)[c] \in Value
           /\ -(b * Length(c)) <= CanonicalSum(values)[c]
           /\ CanonicalSum(values)[c] <= b * Length(c)
<1> DEFINE n == Len(values)
           Fits(c) == /\ CanonicalSum(values)[c] \in Value
                      /\ -(b * Length(c)) <= CanonicalSum(values)[c]
                      /\ CanonicalSum(values)[c] <= b * Length(c)
           T == {c \in Interval(n) : Fits(c)}
<1>1. \A p \in 1 .. n : values[p] \in Int
  BY ValueFacts
<1>2. ASSUME NEW c \in Interval(n)
      PROVE  b * Length(c) \in Int /\ b * Length(c) <= MaxVal
  <2>1. Length(c) \in Nat /\ Length(c) <= n
    BY Halves DEF Length
  <2>2. b * Length(c) <= b * n /\ b * n \in Int /\ b * Length(c) \in Int
    <3>1. Length(c) * b <= n * b
      BY <2>1, ProductMonotone
    <3> QED BY <2>1, <3>1
  <2> QED BY <2>1, <2>2, ValueFacts
<1>3. ASSUME NEW c \in Interval(n), IsLeaf(c) \/ (LeftHalf(c) \in T /\ RightHalf(c) \in T)
      PROVE  c \in T
  <2>1. c[1] \in 1 .. n /\ Length(c) \in Nat
    BY Halves
  <2>2. /\ CanonicalSum(values)[c] \in Int
        /\ CanonicalSum(values)[c] =
             IF IsLeaf(c) THEN values[c[1]]
             ELSE CheckedAdd(CanonicalSum(values)[LeftHalf(c)],
                             CanonicalSum(values)[RightHalf(c)])
    BY <1>1, CanonicalSumStep
  <2>3. CASE IsLeaf(c)
    <3>1. Length(c) = 1 /\ b * 1 = b
      BY <2>1, <2>3, Halves DEF IsLeaf, Length
    <3>2. values[c[1]] \in Int /\ -b <= values[c[1]] /\ values[c[1]] <= b /\ b <= MaxVal
      BY <1>1, <1>2, <2>1, <3>1
    <3>3. values[c[1]] \in Value
      BY <3>2, MaxValAssumption DEF Value, MinVal
    <3> QED BY <2>2, <2>3, <3>1, <3>2, <3>3
  <2>4. CASE ~IsLeaf(c)
    <3> DEFINE l == CanonicalSum(values)[LeftHalf(c)]
               r == CanonicalSum(values)[RightHalf(c)]
    <3>1. Fits(LeftHalf(c)) /\ Fits(RightHalf(c))
      BY <1>3, <2>4
    <3>2. /\ Length(c) = Length(LeftHalf(c)) + Length(RightHalf(c))
          /\ Length(LeftHalf(c)) \in Nat /\ Length(RightHalf(c)) \in Nat
      BY <2>4, HalvesLength
    <3>3. b * Length(c) = b * Length(LeftHalf(c)) + b * Length(RightHalf(c))
      BY <3>2
    <3>4. /\ l \in Value /\ r \in Value /\ l \in Int /\ r \in Int
      BY <3>1, ValueFacts
    <3>5. l + r \in Int /\ -(b * Length(c)) <= l + r /\ l + r <= b * Length(c)
      <4>1. b * Length(LeftHalf(c)) \in Int /\ b * Length(RightHalf(c)) \in Int
        BY <3>2
      <4> QED BY <3>1, <3>3, <3>4, <4>1
    <3>6. l + r \in Value /\ l # Overflow /\ r # Overflow
      BY <1>2, <3>4, <3>5, ValueFacts DEF Value, MinVal
    <3>7. CanonicalSum(values)[c] = l + r
      BY <2>2, <2>4, <3>6 DEF CheckedAdd, Representable
    <3> QED BY <3>5, <3>6, <3>7
  <2> QED BY <2>3, <2>4
<1>4. Interval(n) \subseteq T
  <2> HIDE DEF T
  <2> QED BY <1>3, SegmentInduction
<1> QED BY <1>4

-----------------------------------------------------------------------------
(***************************************************************************)
(* The guard.                                                              *)
(***************************************************************************)

(* maxMagnitude is the least bound on the magnitudes of the elements. *)
LEMMA MaxMagnitudeFacts ==
  ASSUME NEW values, \A p \in DOMAIN values : values[p] \in Outcome
  PROVE  /\ MaxMagnitude(values) \in Bound
         /\ \A p \in DOMAIN values : Magnitude(values[p]) <= MaxMagnitude(values)
         /\ \A b \in Nat : (\A p \in DOMAIN values : Magnitude(values[p]) <= b)
                              => MaxMagnitude(values) <= b
<1> DEFINE S == {0} \cup {Magnitude(values[p]) : p \in DOMAIN values}
           T == {MaxBound - x : x \in S}
<1>1. MaxBound \in Nat /\ S \subseteq Bound
  <2>1. \A x \in Outcome : Magnitude(x) \in Bound
    BY MaxValAssumption DEF Magnitude, Bound, MaxBound, Outcome, Value, MinVal, Overflow
  <2>2. MaxBound \in Nat /\ 0 \in Bound
    BY MaxValAssumption DEF Bound, MaxBound
  <2> QED BY <2>1, <2>2
<1>2. T \in SUBSET Nat /\ T # {}
  BY <1>1 DEF Bound
<1>3. PICK m \in T : \A x \in T : m <= x
  BY <1>2, LeastNatural
<1>4. PICK x \in S : m = MaxBound - x
  OBVIOUS
<1>5. \A y \in S : x >= y
  <2>1. \A y \in S : MaxBound - x <= MaxBound - y
    BY <1>3, <1>4
  <2>2. \A y \in S : y \in Int
    BY <1>1 DEF Bound
  <2> QED BY <1>1, <2>1, <2>2
<1>6. Max(S) \in S /\ \A y \in S : Max(S) >= y
  BY <1>5 DEF Max
<1>7. MaxMagnitude(values) = Max(S)
  BY DEF MaxMagnitude
<1> HIDE DEF T
<1>8. MaxMagnitude(values) \in Bound
  BY <1>1, <1>6, <1>7
<1>9. \A y \in S : y \in Int
  BY <1>1 DEF Bound
<1>10. \A p \in DOMAIN values : Magnitude(values[p]) \in S
  OBVIOUS
<1>11. \A p \in DOMAIN values : Magnitude(values[p]) <= MaxMagnitude(values)
  <2>1. \A p \in DOMAIN values : /\ Max(S) >= Magnitude(values[p])
                                 /\ Max(S) \in Int /\ Magnitude(values[p]) \in Int
    BY <1>6, <1>9, <1>10
  <2> QED BY <1>7, <2>1
<1>12. ASSUME NEW b \in Nat, \A p \in DOMAIN values : Magnitude(values[p]) <= b
       PROVE  MaxMagnitude(values) <= b
  BY <1>6, <1>7, <1>12
<1> QED BY <1>8, <1>11, <1>12

(* The bound the guard returns fits its type, whatever the leaves. *)
LEMMA NextBoundType ==
  ASSUME NEW leaves \in Seq(Outcome), NEW b \in Bound, NEW left, NEW right,
         NEW value \in Value
  PROVE  NextBound(b, leaves, left, right, value) \in Bound
<1> DEFINE next == AddToRange(leaves, left, right, value)
<1>1. \A p \in DOMAIN next : next[p] \in Outcome
  <2>1. \A p \in DOMAIN leaves : leaves[p] \in Outcome
    BY ElementOfSeq, LenProperties
  <2> QED BY <2>1, CheckedAddOutcome DEF AddToRange
<1>2. MaxMagnitude(next) \in Bound
  <2> HIDE DEF next
  <2> QED BY <1>1, MaxMagnitudeFacts
<1>3. Conservative(b, value) \in Bound
  BY MaxValAssumption
     DEF Conservative, SaturatedAdd, Magnitude, Bound, MaxBound, Value, MinVal
<1> QED BY <1>2, <1>3 DEF NextBound

(* A range addition none of whose leaves overflows adds the delta exactly. *)
LEMMA AddToRangeFacts ==
  ASSUME NEW values \in Seq(Value), NEW left, NEW right, NEW value \in Value
  PROVE  LET next == AddToRange(values, left, right, value)
         IN  /\ next \in Seq(Outcome) /\ Len(next) = Len(values)
             /\ DOMAIN next = 1 .. Len(values) /\ Len(values) \in Nat
             /\ \A p \in 1 .. Len(values) :
                  next[p] \in Value =>
                    next[p] = values[p] + IF p \in left .. right THEN value ELSE 0
<1> DEFINE next == AddToRange(values, left, right, value)
<1>1. Len(values) \in Nat /\ DOMAIN values = 1 .. Len(values)
      /\ \A p \in 1 .. Len(values) : values[p] \in Value
  BY LenProperties, ElementOfSeq
<1>2. \A a, b \in Value : /\ CheckedAdd(a, b) \in Outcome
                          /\ CheckedAdd(a, b) \in Value => CheckedAdd(a, b) = a + b
  BY ValueFacts DEF CheckedAdd, Representable, Outcome
<1>3. next = [p \in 1 .. Len(values) |->
                IF p \in left .. right THEN CheckedAdd(values[p], value) ELSE values[p]]
  BY <1>1 DEF AddToRange
<1>4. \A p \in 1 .. Len(values) :
        IF p \in left .. right THEN CheckedAdd(values[p], value) \in Outcome
        ELSE values[p] \in Outcome
  BY <1>1, <1>2 DEF Outcome
<1>5. next \in [1 .. Len(values) -> Outcome]
  BY <1>3, <1>4
<1>6. next \in Seq(Outcome) /\ Len(next) = Len(values)
  BY <1>1, <1>5, IsASeq, LenProperties
<1>7. ASSUME NEW p \in 1 .. Len(values), next[p] \in Value
      PROVE  next[p] = values[p] + IF p \in left .. right THEN value ELSE 0
  <2>1. values[p] \in Int
    BY <1>1, ValueFacts
  <2> QED BY <1>1, <1>2, <1>3, <1>7, <2>1
<1> QED BY <1>1, <1>5, <1>6, <1>7

(***************************************************************************)
(* validateRangeAdd: an update it lets pass, by the scalar bound or by the *)
(* canonical sums, overflows in no element and in no canonical sum, and    *)
(* the bound it returns holds for the new elements.                        *)
(***************************************************************************)
THEOREM GuardSound ==
  ASSUME NEW values \in Seq(Value), values # <<>>,
         NEW b \in Bound, MaxMagnitude(values) <= b,
         NEW left, NEW right, NEW value \in Value,
         ValidateRangeAdd(b, values, left, right, value)
  PROVE  LET next == AddToRange(values, left, right, value)
             nextBound == NextBound(b, values, left, right, value)
         IN  /\ next \in Seq(Value)
             /\ Admissible(next)
             /\ nextBound \in Bound
             /\ MaxMagnitude(next) <= nextBound
<1> DEFINE n == Len(values)
           next == AddToRange(values, left, right, value)
           c == Conservative(b, value)
<1>1. /\ next \in Seq(Outcome) /\ Len(next) = n
      /\ DOMAIN next = 1 .. n /\ n \in Nat
      /\ \A p \in 1 .. n : next[p] \in Outcome
  BY AddToRangeFacts, ElementOfSeq
<1>2. /\ n > 0 /\ DOMAIN values = 1 .. n /\ Root(n) \in Interval(n)
      /\ \A p \in 1 .. n : values[p] \in Value
  BY <1>1, EmptySeq, LenProperties, ElementOfSeq, RootIsSegment
<1>3. MaxBound \in Nat /\ MaxBound > MaxVal /\ MaxVal \in Nat
  BY MaxValAssumption DEF MaxBound
<1>4. CASE ProvesCanonicalRepresentability(c, n)
  <2>1. Magnitude(value) \in Nat /\ b \in Nat
    BY ValueFacts DEF Magnitude, Bound
  <2>2. c \in Nat /\ c * n <= MaxVal /\ c <= MaxVal
    <3>1. c \in Nat
      BY <1>3, <2>1 DEF Conservative, SaturatedAdd, Bound
    <3>2. c = 0 \/ c <= MaxVal \div n
      BY <1>2, <1>4 DEF ProvesCanonicalRepresentability
    <3>3. PICK q : q = MaxVal \div n
      OBVIOUS
    <3>4. q \in Nat /\ q * n <= MaxVal /\ q <= MaxVal
      BY <1>1, <1>2, <1>3, <3>3
    <3>5. c = 0 \/ c <= q
      BY <3>2, <3>3
    <3>6. c <= q
      BY <3>1, <3>4, <3>5
    <3>7. c * n <= q * n /\ c * n \in Nat /\ q * n \in Nat
      <4> HIDE DEF c
      <4> QED BY <1>1, <3>1, <3>4, <3>6, ProductMonotone
    <3> QED BY <1>3, <3>1, <3>4, <3>6, <3>7
  <2>3. c = b + Magnitude(value)
    BY <1>3, <2>1, <2>2 DEF Conservative, SaturatedAdd
  <2>4. ASSUME NEW p \in 1 .. n
        PROVE  next[p] \in Value /\ -c <= next[p] /\ next[p] <= c
    <3>1. values[p] \in Value /\ values[p] \in Int /\ value \in Int
      BY <1>2, ValueFacts
    <3>2. Magnitude(values[p]) <= b
      <4>1. \A k \in DOMAIN values : values[k] \in Outcome
        BY <1>2 DEF Outcome
      <4>2. Magnitude(values[p]) <= MaxMagnitude(values) /\ MaxMagnitude(values) \in Int
        BY <1>2, <4>1, MaxMagnitudeFacts DEF Bound
      <4>3. Magnitude(values[p]) \in Int
        BY <3>1 DEF Magnitude
      <4> QED BY <2>1, <4>2, <4>3
    <3>3. /\ -c <= values[p] /\ values[p] <= c
          /\ -c <= values[p] + value /\ values[p] + value <= c
      BY <2>1, <2>3, <3>1, <3>2 DEF Magnitude
    <3>4. values[p] + value \in Value
      BY <1>3, <2>2, <3>1, <3>3 DEF Value, MinVal
    <3>5. CheckedAdd(values[p], value) = values[p] + value
      BY <3>1, <3>4, ValueFacts DEF CheckedAdd, Representable
    <3>6. next[p] = IF p \in left .. right THEN CheckedAdd(values[p], value) ELSE values[p]
      BY <1>2 DEF AddToRange
    <3> QED BY <3>1, <3>3, <3>4, <3>5, <3>6
  <2>5. CanonicalSum(next)[Root(n)] \in Value
    <3>1. \A p \in 1 .. Len(next) : /\ next[p] \in Outcome
                                    /\ -c <= next[p] /\ next[p] <= c
      BY <1>1, <2>4
    <3> HIDE DEF next, c
    <3> QED BY <1>1, <1>2, <2>2, <3>1, BoundedCanonicalSums
  <2>6. Admissible(next)
    BY <1>1, <2>5, ValueFacts DEF Admissible
  <2>7. next \in Seq(Value)
    BY <1>1, <2>4, SeqDef
  <2>8. NextBound(b, values, left, right, value) = c /\ c \in Bound
    BY <1>3, <1>4, <2>2 DEF NextBound, Bound
  <2>9. MaxMagnitude(next) <= c
    <3>1. \A p \in DOMAIN next : Magnitude(next[p]) <= c
      <4>1. \A x \in Int : -c <= x /\ x <= c => Magnitude(x) <= c
        BY <2>2 DEF Magnitude
      <4> HIDE DEF next, c
      <4> QED BY <1>1, <2>4, <4>1, ValueFacts
    <3>2. \A p \in DOMAIN next : next[p] \in Outcome
      BY <1>1
    <3> HIDE DEF next, c
    <3> QED BY <2>2, <3>1, <3>2, MaxMagnitudeFacts
  <2> QED BY <2>6, <2>7, <2>8, <2>9
<1>5. CASE ~ProvesCanonicalRepresentability(c, n)
  <2>1. Admissible(next)
    BY <1>5 DEF ValidateRangeAdd
  <2>2. \A p \in 1 .. n : next[p] \in Value
    <3>1. CanonicalSum(next)[Root(n)] # Overflow
      BY <1>1, <1>2, <2>1, EmptySeq, LenProperties DEF Admissible
    <3>2. \A p \in Root(n)[1] .. Root(n)[2] : next[p] \in Value
      BY <1>1, <1>2, <3>1, CanonicalElements
    <3> QED BY <3>2 DEF Root
  <2>3. next \in Seq(Value)
    BY <1>1, <2>2, SeqDef
  <2>4. NextBound(b, values, left, right, value) = MaxMagnitude(next)
    BY <1>5 DEF NextBound
  <2>5. MaxMagnitude(next) \in Bound
    BY <1>1, MaxMagnitudeFacts
  <2> QED BY <2>1, <2>3, <2>4, <2>5 DEF Bound
<1> QED BY <1>4, <1>5

-----------------------------------------------------------------------------
(***************************************************************************)
(* Mathematical sums: the sum of a range is the difference of two sums of  *)
(* prefixes.                                                               *)
(***************************************************************************)
RunningSums(S, w, n) ==
  /\ S \in [0 .. n -> Int]
  /\ S[0] = 0
  /\ \A p \in 1 .. n : w[p] \in Int /\ S[p] = S[p - 1] + w[p]

LEMMA PrefixSums ==
  ASSUME NEW n \in Nat, NEW w, \A p \in 1 .. n : w[p] \in Int
  PROVE  \E S : RunningSums(S, w, n)
<1> DEFINE T == {k \in Nat : k <= n => \E S : RunningSums(S, w, k)}
<1>1. 0 \in T
  <2>1. PICK S : S = [k \in {0} |-> 0]
    OBVIOUS
  <2>2. S \in [0 .. 0 -> Int] /\ S[0] = 0
    BY <2>1
  <2>3. RunningSums(S, w, 0)
    BY <2>2 DEF RunningSums
  <2> QED BY <2>3
<1>2. ASSUME NEW k \in Nat, k \in T PROVE k + 1 \in T
  <2> SUFFICES ASSUME k + 1 <= n PROVE \E S : RunningSums(S, w, k + 1)
    OBVIOUS
  <2>1. PICK S : RunningSums(S, w, k)
    BY <1>2
  <2>2. PICK Z : Z = [p \in 0 .. k + 1 |-> IF p <= k THEN S[p] ELSE S[k] + w[k + 1]]
    OBVIOUS
  <2>3. w[k + 1] \in Int /\ S[k] \in Int /\ \A p \in 0 .. k : S[p] \in Int
    BY <2>1 DEF RunningSums
  <2>4. Z \in [0 .. k + 1 -> Int]
    BY <2>2, <2>3
  <2>5. \A p \in 0 .. k : Z[p] = S[p]
    BY <2>2
  <2>6. Z[k + 1] = S[k] + w[k + 1]
    BY <2>2
  <2>7. \A p \in 1 .. k + 1 : Z[p] = Z[p - 1] + w[p]
    <3>1. \A p \in 1 .. k : Z[p] = Z[p - 1] + w[p]
      BY <2>1, <2>5 DEF RunningSums
    <3>2. Z[k + 1] = Z[(k + 1) - 1] + w[k + 1]
      BY <2>5, <2>6
    <3> QED BY <3>1, <3>2
  <2>8. Z[0] = 0
    BY <2>1, <2>5 DEF RunningSums
  <2>9. \A p \in 1 .. k + 1 : w[p] \in Int
    OBVIOUS
  <2>10. RunningSums(Z, w, k + 1)
    BY <2>4, <2>7, <2>8, <2>9 DEF RunningSums
  <2> QED BY <2>10
<1>3. Nat \subseteq T
  <2> HIDE DEF T
  <2> QED BY <1>1, <1>2, SetInduction
<1> QED BY <1>3

LEMMA ExactSumIs ==
  ASSUME NEW n \in Nat, NEW w, NEW S, RunningSums(S, w, n),
         NEW left \in 1 .. n, NEW right \in left .. n
  PROVE  ExactSum(w, left, right) = S[right] - S[left - 1]
<1> DEFINE D == (left - 1) .. right
           Step(f) == [p \in D |-> IF p = left - 1 THEN 0 ELSE f[p - 1] + w[p]]
<1>1. PICK g : g = [p \in D |-> S[p] - S[left - 1]]
  OBVIOUS
<1>2. \A p \in D : S[p] \in Int
  BY DEF RunningSums
<1>3. \A p \in D : g[p] = Step(g)[p]
  <2>1. ASSUME NEW p \in D, p # left - 1
        PROVE  g[p] = g[p - 1] + w[p]
    <3>1. p - 1 \in D /\ p \in 1 .. n
      BY <2>1
    <3>2. S[p] = S[p - 1] + w[p] /\ S[p] \in Int /\ S[p - 1] \in Int /\ S[left - 1] \in Int
      BY <1>2, <3>1 DEF RunningSums
    <3>3. w[p] = S[p] - S[p - 1]
      <4>1. w[p] \in Int
        BY <3>1 DEF RunningSums
      <4> QED BY <3>2, <4>1
    <3> QED BY <1>1, <3>1, <3>2, <3>3
  <2>2. g[left - 1] = 0
    BY <1>1, <1>2
  <2> QED BY <2>1, <2>2
<1>4. g = Step(g)
  BY <1>1, <1>3
<1>5. PICK f : f = Step(f) /\ ExactSum(w, left, right) = f[right]
  BY <1>4 DEF ExactSum
<1> DEFINE T == {k \in Nat : left - 1 + k <= right =>
                               f[left - 1 + k] = S[left - 1 + k] - S[left - 1]}
<1>6. 0 \in T
  BY <1>2, <1>5
<1>7. ASSUME NEW k \in Nat, k \in T PROVE k + 1 \in T
  <2> SUFFICES ASSUME left - 1 + (k + 1) <= right
               PROVE  f[left - 1 + (k + 1)] = S[left - 1 + (k + 1)] - S[left - 1]
    OBVIOUS
  <2> DEFINE p == left - 1 + (k + 1)
  <2>1. p \in D /\ p # left - 1 /\ p - 1 = left - 1 + k /\ p \in 1 .. n
    OBVIOUS
  <2>2. f[p] = f[p - 1] + w[p]
    BY <1>5, <2>1
  <2>3. f[p - 1] = S[p - 1] - S[left - 1]
    BY <1>7, <2>1
  <2>4. g[p] = g[p - 1] + w[p] /\ g[p - 1] = S[p - 1] - S[left - 1]
        /\ g[p] = S[p] - S[left - 1]
    BY <1>1, <1>3, <2>1
  <2> QED BY <2>2, <2>3, <2>4
<1>8. Nat \subseteq T
  <2> HIDE DEF T
  <2> QED BY <1>6, <1>7, SetInduction
<1>9. f[right] = S[right] - S[left - 1]
  <2>1. right - (left - 1) \in Nat /\ left - 1 + (right - (left - 1)) = right
    OBVIOUS
  <2>2. right - (left - 1) \in T
    BY <1>8, <2>1
  <2> QED BY <2>1, <2>2
<1> QED BY <1>5, <1>9

(* A canonical sum that does not overflow is the sum of its elements. *)
LEMMA CanonicalSumIs ==
  ASSUME NEW values, Len(values) \in Nat,
         \A p \in 1 .. Len(values) : values[p] \in Outcome,
         NEW S, RunningSums(S, values, Len(values))
  PROVE  \A c \in Interval(Len(values)) :
           CanonicalSum(values)[c] # Overflow =>
             CanonicalSum(values)[c] = S[c[2]] - S[c[1] - 1]
<1> DEFINE n == Len(values)
           T == {c \in Interval(n) : CanonicalSum(values)[c] # Overflow =>
                                       CanonicalSum(values)[c] = S[c[2]] - S[c[1] - 1]}
<1>1. ASSUME NEW c \in Interval(n), IsLeaf(c) \/ (LeftHalf(c) \in T /\ RightHalf(c) \in T)
      PROVE  c \in T
  <2> SUFFICES ASSUME CanonicalSum(values)[c] # Overflow
               PROVE  CanonicalSum(values)[c] = S[c[2]] - S[c[1] - 1]
    OBVIOUS
  <2>1. c[1] \in 1 .. n /\ c[2] \in 1 .. n /\ Midpoint(c) \in Int
    BY Halves
  <2>2. \A p \in 0 .. n : S[p] \in Int
    BY DEF RunningSums
  <2>3. CASE IsLeaf(c)
    <3>1. c[1] = c[2] /\ CanonicalSum(values)[c] = values[c[1]]
      BY <2>3, CanonicalSumExact DEF IsLeaf
    <3>2. values[c[1]] \in Int /\ S[c[1]] = S[c[1] - 1] + values[c[1]]
          /\ S[c[1] - 1] \in Int
      <4>1. c[1] - 1 \in 0 .. n
        BY <2>1
      <4> QED BY <2>1, <2>2, <4>1 DEF RunningSums
    <3> QED BY <3>1, <3>2
  <2>4. CASE ~IsLeaf(c)
    <3>1. /\ CanonicalSum(values)[LeftHalf(c)] = S[Midpoint(c)] - S[c[1] - 1]
          /\ CanonicalSum(values)[RightHalf(c)] = S[c[2]] - S[Midpoint(c)]
      <4>1. /\ CanonicalSum(values)[LeftHalf(c)] # Overflow
            /\ CanonicalSum(values)[RightHalf(c)] # Overflow
        BY <2>4, CanonicalSumExact
      <4>2. /\ LeftHalf(c)[1] = c[1] /\ LeftHalf(c)[2] = Midpoint(c)
            /\ RightHalf(c)[1] - 1 = Midpoint(c) /\ RightHalf(c)[2] = c[2]
        BY <2>1 DEF LeftHalf, RightHalf
      <4> QED BY <1>1, <2>4, <4>1, <4>2
    <3>2. Midpoint(c) \in 0 .. n /\ c[2] \in 0 .. n /\ c[1] - 1 \in 0 .. n
      BY <2>1, <2>4, Halves
    <3>3. CanonicalSum(values)[c]
            = CanonicalSum(values)[LeftHalf(c)] + CanonicalSum(values)[RightHalf(c)]
      BY <2>4, CanonicalSumExact
    <3> QED BY <2>2, <3>1, <3>2, <3>3
  <2> QED BY <2>3, <2>4
<1>2. Interval(n) \subseteq T
  <2> HIDE DEF T
  <2> QED BY <1>1, SegmentInduction
<1> QED BY <1>2

(* An array of values with a canonical sum has all of them, and they are   *)
(* the sums of its segments.                                               *)
LEMMA AdmissibleInDomain ==
  ASSUME NEW values \in Seq(Value), Admissible(values)
  PROVE  InDomain(values)
<1> DEFINE n == Len(values)
<1>1. /\ n \in Nat /\ DOMAIN values = 1 .. n
      /\ \A p \in 1 .. n : values[p] \in Value /\ values[p] \in Int /\ values[p] \in Outcome
  BY LenProperties, ElementOfSeq, ValueFacts DEF Outcome
<1>2. \A p \in DOMAIN values : values[p] # Overflow
  BY <1>1, ValueFacts
<1>3. PICK S : RunningSums(S, values, n)
  BY <1>1, PrefixSums
<1> DEFINE F == {c \in Interval(n) : CanonicalSum(values)[c] # Overflow}
<1>4. Closed(F)
  <2>1. ASSUME NEW c \in F, ~IsLeaf(c) PROVE LeftHalf(c) \in F /\ RightHalf(c) \in F
    <3>1. LeftHalf(c) \in Interval(n) /\ RightHalf(c) \in Interval(n)
      BY <1>1, <2>1, Halves
    <3> QED BY <1>1, <2>1, <3>1, CanonicalSumExact
  <2> HIDE DEF F
  <2> QED BY <2>1 DEF Closed
<1>5. n > 0 => Root(n) \in F
  BY <1>1, RootIsSegment, EmptySeq DEF Admissible
<1>6. Segments(n) \subseteq F
  <2>1. F \in SUBSET Interval(n)
    OBVIOUS
  <2> HIDE DEF F, n
  <2> QED BY <1>1, <1>4, <1>5, <2>1, SegmentsWithin
<1>7. ASSUME NEW c \in F PROVE Representable(ExactSum(values, c[1], c[2]))
  <2>1. c[1] \in 1 .. n /\ c[2] \in c[1] .. n
    BY <1>1, Halves
  <2>2. ExactSum(values, c[1], c[2]) = S[c[2]] - S[c[1] - 1]
    BY <1>1, <1>3, <2>1, ExactSumIs
  <2>3. CanonicalSum(values)[c] = S[c[2]] - S[c[1] - 1]
    BY <1>1, <1>3, CanonicalSumIs
  <2>4. CanonicalSum(values)[c] \in Value
    BY <1>1, CanonicalSumExact
  <2> QED BY <2>2, <2>3, <2>4 DEF Representable
<1> QED BY <1>2, <1>6, <1>7 DEF InDomain

(* An array in the domain has a canonical sum of all its elements. *)
LEMMA InDomainAdmissible ==
  ASSUME NEW values \in Seq(Value), InDomain(values)
  PROVE  Admissible(values)
<1> DEFINE n == Len(values)
<1>1. /\ n \in Nat /\ DOMAIN values = 1 .. n
      /\ \A p \in 1 .. n : values[p] \in Value /\ values[p] \in Int /\ values[p] \in Outcome
  BY LenProperties, ElementOfSeq, ValueFacts DEF Outcome
<1> SUFFICES ASSUME n > 0 PROVE CanonicalSum(values)[Root(n)] # Overflow
  BY <1>1, EmptySeq, LenProperties DEF Admissible
<1>2. PICK S : RunningSums(S, values, n)
  BY <1>1, PrefixSums
<1>3. PICK F : F = Segments(n)
  OBVIOUS
<1>4. F \in SUBSET Interval(n) /\ Closed(F) /\ Root(n) \in F
  BY <1>1, <1>3, SegmentsClosed
<1>5. \A c \in F : Representable(ExactSum(values, c[1], c[2]))
  BY <1>3 DEF InDomain
<1> DEFINE T == {c \in Interval(n) : c \in F => CanonicalSum(values)[c] # Overflow}
<1>6. ASSUME NEW c \in Interval(n), IsLeaf(c) \/ (LeftHalf(c) \in T /\ RightHalf(c) \in T)
      PROVE  c \in T
  <2> SUFFICES ASSUME c \in F PROVE CanonicalSum(values)[c] # Overflow
    OBVIOUS
  <2>1. c[1] \in 1 .. n /\ c[2] \in c[1] .. n
    BY <1>1, Halves
  <2>2. CASE IsLeaf(c)
    <3>1. CanonicalSum(values)[c] = values[c[1]]
      BY <1>1, <2>2, CanonicalSumStep
    <3> QED BY <1>1, <2>1, <3>1, ValueFacts
  <2>3. CASE ~IsLeaf(c)
    <3>1. /\ LeftHalf(c) \in Interval(n) /\ RightHalf(c) \in Interval(n)
          /\ LeftHalf(c) \in F /\ RightHalf(c) \in F
      BY <1>1, <1>4, <2>3, Halves DEF Closed
    <3>2. PICK l \in Int : l = CanonicalSum(values)[LeftHalf(c)]
      BY <1>1, <3>1, CanonicalSumStep
    <3>3. PICK r \in Int : r = CanonicalSum(values)[RightHalf(c)]
      BY <1>1, <3>1, CanonicalSumStep
    <3>4. l # Overflow /\ r # Overflow
      BY <1>6, <2>3, <3>1, <3>2, <3>3
    <3>5. PICK m \in 0 .. n : m = Midpoint(c)
      BY <1>1, <2>3, Halves
    <3>6. /\ l = S[m] - S[c[1] - 1] /\ r = S[c[2]] - S[m]
      <4>1. /\ l = S[LeftHalf(c)[2]] - S[LeftHalf(c)[1] - 1]
            /\ r = S[RightHalf(c)[2]] - S[RightHalf(c)[1] - 1]
        BY <1>1, <1>2, <3>1, <3>2, <3>3, <3>4, CanonicalSumIs
      <4>2. /\ LeftHalf(c)[1] = c[1] /\ LeftHalf(c)[2] = m
            /\ RightHalf(c)[1] - 1 = m /\ RightHalf(c)[2] = c[2]
        BY <3>5 DEF LeftHalf, RightHalf
      <4> QED BY <4>1, <4>2
    <3>7. /\ S[m] \in Int /\ S[c[1] - 1] \in Int /\ S[c[2]] \in Int
      <4>1. c[1] - 1 \in 0 .. n /\ c[2] \in 0 .. n
        BY <1>1, <2>1
      <4> QED BY <1>2, <4>1 DEF RunningSums
    <3>8. ExactSum(values, c[1], c[2]) = S[c[2]] - S[c[1] - 1]
      BY <1>1, <1>2, <2>1, ExactSumIs
    <3>9. l + r \in Value
      <4>1. PICK x \in Int : x = S[c[1] - 1]
        BY <3>7
      <4>2. PICK y \in Int : y = S[m]
        BY <3>7
      <4>3. PICK z \in Int : z = S[c[2]]
        BY <3>7
      <4>4. Representable(ExactSum(values, c[1], c[2]))
        BY <1>5
      <4>5. ExactSum(values, c[1], c[2]) = z - x
        BY <3>8, <4>1, <4>3
      <4>6. z - x \in Value
        BY <4>4, <4>5 DEF Representable
      <4>7. l = y - x /\ r = z - y
        BY <3>6, <4>1, <4>2, <4>3
      <4>8. l + r = z - x
        BY <4>7
      <4> QED BY <4>6, <4>8
    <3>10. CanonicalSum(values)[c] = CheckedAdd(l, r)
      BY <1>1, <2>3, <3>2, <3>3, CanonicalSumStep
    <3> QED BY <3>4, <3>9, <3>10, ValueFacts DEF CheckedAdd, Representable
  <2> QED BY <2>2, <2>3
<1>7. Interval(n) \subseteq T
  <2> HIDE DEF T
  <2> QED BY <1>1, <1>6, SegmentInduction
<1> QED BY <1>4, <1>7

(***************************************************************************)
(* The guard decides the domain: from any bound that is sound for the      *)
(* current elements, however coarse it has become, validateRangeAdd admits *)
(* an update exactly when every element and every canonical sum of the     *)
(* updated array is representable.                                         *)
(***************************************************************************)
THEOREM GuardExact ==
  ASSUME NEW values \in Seq(Value), values # <<>>,
         NEW b \in Bound, MaxMagnitude(values) <= b,
         NEW left, NEW right, NEW value \in Value
  PROVE  ValidateRangeAdd(b, values, left, right, value)
           <=> InDomain(AddToRange(values, left, right, value))
<1>1. PICK next : next = AddToRange(values, left, right, value)
  OBVIOUS
<1>2. ASSUME ValidateRangeAdd(b, values, left, right, value)
      PROVE  InDomain(next)
  <2>1. next \in Seq(Value) /\ Admissible(next)
    BY <1>1, <1>2, GuardSound
  <2> QED BY <2>1, AdmissibleInDomain
<1>3. ASSUME InDomain(next)
      PROVE  ValidateRangeAdd(b, values, left, right, value)
  <2>1. /\ next \in Seq(Outcome) /\ Len(next) \in Nat /\ DOMAIN next = 1 .. Len(next)
    BY <1>1, AddToRangeFacts, LenProperties
  <2>2. \A p \in 1 .. Len(next) : next[p] \in Outcome /\ next[p] # Overflow
    BY <1>3, <2>1, ElementOfSeq DEF InDomain
  <2>3. next \in Seq(Value)
    BY <2>1, <2>2, SeqDef DEF Outcome
  <2>4. Admissible(next)
    BY <1>3, <2>3, InDomainAdmissible
  <2> QED BY <1>1, <2>4 DEF ValidateRangeAdd
<1> QED BY <1>1, <1>2, <1>3

-----------------------------------------------------------------------------
(***************************************************************************)
(* Two segments of the partition are apart, equal, or one lies in a half   *)
(* of the other.                                                           *)
(***************************************************************************)
Apart(c, d) == c[2] < d[1] \/ d[2] < c[1]

Inside(c, d) == ~IsLeaf(d) /\ (Within(c, LeftHalf(d)) \/ Within(c, RightHalf(d)))

Laminar(c, d) == Apart(c, d) \/ c = d \/ Inside(c, d) \/ Inside(d, c)

(* What lies in part of a segment lies in the segment. *)
LEMMA InsideFacts ==
  ASSUME NEW n \in Nat, NEW c \in Interval(n), NEW d \in Interval(n), NEW e \in Interval(n)
  PROVE  /\ Within(c, d) /\ Inside(d, e) => Inside(c, e)
         /\ Inside(c, d) => Within(c, d) /\ c # d
         /\ Within(c, d) /\ Within(d, c) => c = d
         /\ ~IsLeaf(d) => /\ Within(LeftHalf(d), d) /\ Within(RightHalf(d), d)
                          /\ Inside(LeftHalf(d), d) /\ Inside(RightHalf(d), d)
         /\ Within(e, c) /\ Within(e, d) => ~Apart(c, d)
         /\ Within(c, d) /\ Apart(d, e) => Apart(c, e)
         /\ ~IsLeaf(d) /\ Within(c, LeftHalf(d)) => Apart(c, RightHalf(d)) /\ Apart(RightHalf(d), c)
         /\ ~IsLeaf(d) /\ Within(c, RightHalf(d)) => Apart(c, LeftHalf(d)) /\ Apart(LeftHalf(d), c)
<1>1. /\ c = <<c[1], c[2]>> /\ c[1] \in Int /\ c[2] \in Int /\ c[1] <= c[2]
      /\ d = <<d[1], d[2]>> /\ d[1] \in Int /\ d[2] \in Int /\ d[1] <= d[2]
      /\ e = <<e[1], e[2]>> /\ e[1] \in Int /\ e[2] \in Int /\ e[1] <= e[2]
  BY Halves
<1>2. /\ Midpoint(d) \in Int /\ Midpoint(e) \in Int
      /\ ~IsLeaf(d) => d[1] <= Midpoint(d) /\ Midpoint(d) < d[2]
      /\ ~IsLeaf(e) => e[1] <= Midpoint(e) /\ Midpoint(e) < e[2]
  BY Halves
<1>3. \A s \in {c, d, e} : /\ LeftHalf(s)[1] = s[1] /\ LeftHalf(s)[2] = Midpoint(s)
                           /\ RightHalf(s)[1] = Midpoint(s) + 1 /\ RightHalf(s)[2] = s[2]
  BY DEF LeftHalf, RightHalf
<1>4. Within(c, d) /\ Inside(d, e) => Inside(c, e)
  BY <1>1, <1>2, <1>3 DEF Within, Inside
<1>5. Inside(c, d) => Within(c, d) /\ c # d
  BY <1>1, <1>2, <1>3 DEF Within, Inside
<1>6. Within(c, d) /\ Within(d, c) => c = d
  <2> SUFFICES ASSUME Within(c, d), Within(d, c) PROVE c = d
    OBVIOUS
  <2>1. c[1] = d[1] /\ c[2] = d[2]
    BY <1>1 DEF Within
  <2> QED BY <1>1, <2>1
<1>7. ~IsLeaf(d) => /\ Within(LeftHalf(d), d) /\ Within(RightHalf(d), d)
                    /\ Inside(LeftHalf(d), d) /\ Inside(RightHalf(d), d)
  BY <1>1, <1>2, <1>3 DEF Within, Inside
<1>8. Within(e, c) /\ Within(e, d) => ~Apart(c, d)
  BY <1>1 DEF Within, Apart
<1>9. Within(c, d) /\ Apart(d, e) => Apart(c, e)
  BY <1>1 DEF Within, Apart
<1>10. /\ ~IsLeaf(d) /\ Within(c, LeftHalf(d))
             => Apart(c, RightHalf(d)) /\ Apart(RightHalf(d), c)
       /\ ~IsLeaf(d) /\ Within(c, RightHalf(d))
             => Apart(c, LeftHalf(d)) /\ Apart(LeftHalf(d), c)
  BY <1>1, <1>2, <1>3 DEF Within, Apart
<1> QED BY <1>4, <1>5, <1>6, <1>7, <1>8, <1>9, <1>10

(* The segments of the partition are laminar: induction from the top, twice. *)
LEMMA SegmentsLaminar ==
  ASSUME NEW n \in Nat, NEW a \in Segments(n), NEW b \in Segments(n)
  PROVE  Laminar(a, b)
<1>0. n > 0
  BY DEF Segments
<1>1. /\ Segments(n) \in SUBSET Interval(n)
      /\ Closed(Segments(n)) /\ Root(n) \in Segments(n)
  BY <1>0, SegmentsClosed
<1> DEFINE R == Root(n)
           P == {c \in Segments(n) : \A d \in Segments(n) : Laminar(c, d)}
           U == {d \in Segments(n) : d = R \/ Inside(d, R)}
<1>2. Closed(U)
  <2> SUFFICES ASSUME NEW d \in U, ~IsLeaf(d)
               PROVE  LeftHalf(d) \in U /\ RightHalf(d) \in U
    BY DEF Closed
  <2>1. /\ d \in Interval(n) /\ R \in Interval(n)
        /\ LeftHalf(d) \in Segments(n) /\ RightHalf(d) \in Segments(n)
        /\ LeftHalf(d) \in Interval(n) /\ RightHalf(d) \in Interval(n)
    BY <1>1 DEF Closed
  <2>2. Within(LeftHalf(d), d) /\ Within(RightHalf(d), d)
        /\ Inside(LeftHalf(d), d) /\ Inside(RightHalf(d), d)
    BY <2>1, InsideFacts
  <2> HIDE DEF R
  <2>3. Inside(LeftHalf(d), R) /\ Inside(RightHalf(d), R)
    <3>1. CASE d = R
      BY <2>2, <3>1
    <3>2. CASE Inside(d, R)
      BY <2>1, <2>2, <3>2, InsideFacts
    <3> QED BY <3>1, <3>2
  <2> QED BY <2>1, <2>3
<1>3. Segments(n) \subseteq U
  BY <1>1, <1>2, SegmentsWithin
<1>4. R \in P
  BY <1>1, <1>3 DEF Laminar
<1>5. ASSUME NEW c \in P, ~IsLeaf(c), NEW h \in {LeftHalf(c), RightHalf(c)}
      PROVE  h \in P
  <2> DEFINE F == {d \in Segments(n) : Laminar(h, d)}
  <2>1. /\ c \in Segments(n) /\ c \in Interval(n)
        /\ h \in Segments(n) /\ h \in Interval(n)
        /\ Within(h, c) /\ Inside(h, c)
    BY <1>1, <1>5, InsideFacts DEF Closed
  <2>2. R \in F
    BY <1>1, <1>3, <2>1 DEF Laminar
  <2>3. ASSUME NEW d \in F, ~IsLeaf(d), NEW e \in {LeftHalf(d), RightHalf(d)}
        PROVE  e \in F
    <3>1. /\ d \in Segments(n) /\ d \in Interval(n) /\ e \in Segments(n) /\ e \in Interval(n)
          /\ Within(e, d) /\ Inside(e, d) /\ Laminar(h, d) /\ Laminar(c, e)
      BY <1>1, <1>5, <2>3, InsideFacts DEF Closed
    <3>2. CASE Apart(h, d)
      <4>1. Apart(d, h)
        BY <3>2 DEF Apart
      <4>2. Apart(e, h)
        BY <2>1, <3>1, <4>1, InsideFacts
      <4>3. Apart(h, e)
        BY <4>2 DEF Apart
      <4> QED BY <3>1, <4>3 DEF Laminar
    <3>3. CASE h = d
      BY <3>1, <3>3 DEF Laminar
    <3>4. CASE Inside(d, h)
      <4>1. Inside(e, h)
        BY <2>1, <3>1, <3>4, InsideFacts
      <4> QED BY <3>1, <4>1 DEF Laminar
    <3>5. CASE Inside(h, d)
      <4>1. CASE ~Within(h, e)
        <5>1. Apart(h, e)
          BY <2>1, <2>3, <3>1, <3>5, <4>1, InsideFacts DEF Inside
        <5> QED BY <3>1, <5>1 DEF Laminar
      <4>2. CASE Within(h, e)
        <5>1. ~Apart(c, e)
          BY <2>1, <3>1, <4>2, InsideFacts
        <5>2. CASE c = e
          BY <2>1, <3>1, <5>2 DEF Laminar
        <5>3. CASE Inside(c, e)
          <6>1. Inside(h, e)
            BY <2>1, <3>1, <5>3, InsideFacts
          <6> QED BY <3>1, <6>1 DEF Laminar
        <5>4. CASE Inside(e, c)
          <6>1. ~Apart(h, e) /\ ~Apart(e, h)
            <7>1. Within(h, h)
              BY <2>1, Halves DEF Within
            <7> QED BY <2>1, <3>1, <4>2, <7>1, InsideFacts
          <6>2. Within(e, h)
            BY <1>5, <2>1, <3>1, <5>4, <6>1, InsideFacts DEF Inside
          <6>3. h = e
            BY <2>1, <3>1, <4>2, <6>2, InsideFacts
          <6> QED BY <3>1, <6>3 DEF Laminar
        <5> QED BY <3>1, <5>1, <5>2, <5>3, <5>4 DEF Laminar
      <4> QED BY <4>1, <4>2
    <3> QED BY <3>1, <3>2, <3>3, <3>4, <3>5 DEF Laminar
  <2>4. Closed(F)
    <3> HIDE DEF F
    <3> QED BY <2>3 DEF Closed
  <2>5. Segments(n) \subseteq F
    BY <1>1, <2>2, <2>4, SegmentsWithin
  <2> QED BY <2>1, <2>5
<1>6. Closed(P)
  <2> HIDE DEF P
  <2> QED BY <1>5 DEF Closed
<1>7. Segments(n) \subseteq P
  BY <1>1, <1>4, <1>6, SegmentsWithin
<1> QED BY <1>7

(* A segment other than the whole array is a half of one segment only. *)
LEMMA OneParent ==
  ASSUME NEW n \in Nat, NEW c \in Segments(n), ~IsLeaf(c), NEW s \in Sides,
         NEW d \in Segments(n), ~IsLeaf(d), NEW t \in Sides
  PROVE  /\ Half(c, s) = Half(d, t) => c = d /\ s = t
         /\ Half(c, s) # Root(n) /\ Half(c, s) # c
         /\ Half(c, s) \in Segments(n)
<1>1. n > 0
  BY DEF Segments
<1>2. /\ c \in Interval(n) /\ d \in Interval(n) /\ Root(n) \in Interval(n)
      /\ Half(c, s) \in Segments(n) /\ Half(d, t) \in Segments(n)
      /\ Half(c, s) \in Interval(n) /\ Half(d, t) \in Interval(n)
  BY <1>1, SegmentsClosed DEF Closed, Half, Sides
<1>3. Inside(Half(c, s), c) /\ Inside(Half(d, t), d)
      /\ Within(Half(c, s), c) /\ Within(Half(d, t), d)
  BY <1>2, InsideFacts DEF Half, Sides
<1>4. Half(c, s) # c /\ Half(d, t) # d
  BY <1>2, <1>3, InsideFacts
<1>5. Half(c, s) # Root(n)
  <2>1. Within(c, Root(n))
    BY <1>2, Halves DEF Root, Within
  <2> QED BY <1>2, <1>3, <1>4, <2>1, InsideFacts
<1>6. ASSUME NEW x \in Segments(n), NEW y \in Segments(n), x \in Interval(n), y \in Interval(n),
             NEW u \in Sides, NEW v \in Sides, ~IsLeaf(x), ~IsLeaf(y),
             Half(x, u) \in Interval(n), Half(x, u) # x, Within(Half(x, u), x),
             Half(x, u) = Half(y, v)
      PROVE  ~Inside(x, y)
  <2> SUFFICES ASSUME Inside(x, y) PROVE FALSE
    OBVIOUS
  <2>1. Within(Half(y, v), Half(y, v)) /\ Within(Half(y, v), x)
    BY <1>6, Halves DEF Within
  <2>2. Half(y, v) \in Interval(n)
    BY <1>6
  <2>3. Within(x, Half(y, v))
    <3>1. PICK z \in {LeftHalf(y), RightHalf(y)} : Within(x, z) /\ z \in Interval(n)
      BY <1>6, Halves DEF Inside
    <3>2. Within(Half(y, v), z)
      BY <1>6, <2>1, <2>2, <3>1, WithinTransitive
    <3>3. ~Apart(Half(y, v), z) /\ ~Apart(z, Half(y, v))
      BY <2>1, <2>2, <3>1, <3>2, InsideFacts
    <3>4. z = Half(y, v)
      BY <1>6, <2>1, <2>2, <3>1, <3>2, <3>3, InsideFacts DEF Half, Sides
    <3> QED BY <3>1, <3>4
  <2> QED BY <1>6, <2>1, <2>2, <2>3, InsideFacts
<1>7. ASSUME Half(c, s) = Half(d, t)
      PROVE  c = d
  <2>1. ~Apart(c, d)
    BY <1>2, <1>3, <1>7, InsideFacts
  <2>2. ~Inside(c, d) /\ ~Inside(d, c)
    BY <1>2, <1>3, <1>4, <1>6, <1>7
  <2> QED BY <2>1, <2>2, SegmentsLaminar DEF Laminar
<1>8. ASSUME Half(c, s) = Half(d, t)
      PROVE  s = t
  <2>1. Half(c, s) = Half(c, t)
    BY <1>7, <1>8
  <2>2. LeftHalf(c) # RightHalf(c)
    <3>1. c[1] <= Midpoint(c) /\ Midpoint(c) \in Int /\ c[1] \in Int
      BY <1>2, Halves
    <3> QED BY <3>1 DEF LeftHalf, RightHalf
  <2> QED BY <2>1, <2>2 DEF Half, Sides
<1> QED BY <1>2, <1>4, <1>5, <1>7, <1>8

-----------------------------------------------------------------------------
(***************************************************************************)
(* Labelled trees.  L gives every segment of the partition the sum and the *)
(* tag that a structure reads there; the sum includes the segment's own    *)
(* tag, not those above it.  The tree stands for the array E[Root(n)],     *)
(* where E[c] are the elements below c without the tags above c.           *)
(***************************************************************************)
SumOK(state, leftState, rightState, length) ==
  state.sum = leftState.sum + rightState.sum + state.lazy * length

Labelled(n, L) ==
  \A c \in Segments(n) :
    /\ L[c].sum \in Value /\ L[c].lazy \in Value
    /\ ~IsLeaf(c) => SumOK(L[c], L[LeftHalf(c)], L[RightHalf(c)], Length(c))

StandsFor(n, L, E) ==
  \A c \in Segments(n) : \A p \in c[1] .. c[2] :
    /\ E[c][p] \in Int
    /\ IsLeaf(c) => E[c][p] = L[c].sum
    /\ ~IsLeaf(c) => /\ p <= Midpoint(c) => E[c][p] = L[c].lazy + E[LeftHalf(c)][p]
                     /\ p > Midpoint(c) => E[c][p] = L[c].lazy + E[RightHalf(c)][p]

(***************************************************************************)
(* Below tags that add up to h, the elements of a segment are those of w.  *)
(***************************************************************************)
CarriedBy(w, E, c, h) == \A p \in c[1] .. c[2] : w[p] = h + E[c][p]

(* What is read from a label. *)
LEMMA LabelFacts ==
  ASSUME NEW n \in Nat, NEW L, Labelled(n, L), NEW c \in Segments(n)
  PROVE  /\ c \in Interval(n) /\ n > 0
         /\ c[1] \in 1 .. n /\ c[2] \in c[1] .. n /\ Length(c) \in Nat \ {0}
         /\ L[c].sum \in Int /\ L[c].lazy \in Int
         /\ L[c].sum \in Value /\ L[c].lazy \in Value
         /\ L[c].sum # Overflow /\ L[c].lazy # Overflow
         /\ IsLeaf(c) => c[1] = c[2] /\ Length(c) = 1
         /\ ~IsLeaf(c) =>
              /\ LeftHalf(c) \in Segments(n) /\ RightHalf(c) \in Segments(n)
              /\ Midpoint(c) \in c[1] .. c[2] - 1
              /\ LeftHalf(c)[1] = c[1] /\ LeftHalf(c)[2] = Midpoint(c)
              /\ RightHalf(c)[1] = Midpoint(c) + 1 /\ RightHalf(c)[2] = c[2]
              /\ Length(c) = Length(LeftHalf(c)) + Length(RightHalf(c))
              /\ L[c].sum = L[LeftHalf(c)].sum + L[RightHalf(c)].sum
                            + L[c].lazy * Length(c)
<1>1. n > 0
  BY DEF Segments
<1>2. c \in Interval(n) /\ Closed(Segments(n))
  BY <1>1, SegmentsClosed
<1>3. c[1] \in 1 .. n /\ c[2] \in c[1] .. n /\ Length(c) \in Nat \ {0}
  <2>1. c[1] \in 1 .. n /\ c[2] \in 1 .. n /\ c[1] <= c[2]
    BY <1>2, Halves
  <2> QED BY <2>1 DEF Length
<1>4. /\ L[c].sum \in Int /\ L[c].lazy \in Int
      /\ L[c].sum \in Value /\ L[c].lazy \in Value
      /\ L[c].sum # Overflow /\ L[c].lazy # Overflow
  BY ValueFacts DEF Labelled
<1>5. IsLeaf(c) => c[1] = c[2] /\ Length(c) = 1
  BY <1>3 DEF IsLeaf, Length
<1>6. ASSUME ~IsLeaf(c)
      PROVE  /\ LeftHalf(c) \in Segments(n) /\ RightHalf(c) \in Segments(n)
             /\ Midpoint(c) \in c[1] .. c[2] - 1
             /\ LeftHalf(c)[1] = c[1] /\ LeftHalf(c)[2] = Midpoint(c)
             /\ RightHalf(c)[1] = Midpoint(c) + 1 /\ RightHalf(c)[2] = c[2]
             /\ Length(c) = Length(LeftHalf(c)) + Length(RightHalf(c))
             /\ L[c].sum = L[LeftHalf(c)].sum + L[RightHalf(c)].sum
                            + L[c].lazy * Length(c)
  <2>1. LeftHalf(c) \in Segments(n) /\ RightHalf(c) \in Segments(n)
    BY <1>2, <1>6 DEF Closed
  <2>2. Midpoint(c) \in Int /\ c[1] <= Midpoint(c) /\ Midpoint(c) < c[2]
    BY <1>2, <1>6, Halves
  <2>3. /\ LeftHalf(c)[1] = c[1] /\ LeftHalf(c)[2] = Midpoint(c)
        /\ RightHalf(c)[1] = Midpoint(c) + 1 /\ RightHalf(c)[2] = c[2]
    BY DEF LeftHalf, RightHalf
  <2>4. Length(c) = Length(LeftHalf(c)) + Length(RightHalf(c))
    BY <1>2, <1>6, HalvesLength
  <2> QED BY <1>3, <1>6, <2>1, <2>2, <2>3, <2>4 DEF Labelled, SumOK
<1> QED BY <1>1, <1>2, <1>3, <1>4, <1>5, <1>6

(* One level down. *)
LEMMA CarriedDown ==
  ASSUME NEW n \in Nat, NEW L, Labelled(n, L), NEW E, StandsFor(n, L, E),
         NEW c \in Segments(n), ~IsLeaf(c), NEW w, NEW h \in Int, CarriedBy(w, E, c, h)
  PROVE  /\ h + L[c].lazy \in Int
         /\ CarriedBy(w, E, LeftHalf(c), h + L[c].lazy)
         /\ CarriedBy(w, E, RightHalf(c), h + L[c].lazy)
<1>1. /\ L[c].lazy \in Int /\ Midpoint(c) \in c[1] .. c[2] - 1
      /\ c[1] \in Int /\ c[2] \in Int
      /\ LeftHalf(c) \in Segments(n) /\ RightHalf(c) \in Segments(n)
      /\ LeftHalf(c)[1] = c[1] /\ LeftHalf(c)[2] = Midpoint(c)
      /\ RightHalf(c)[1] = Midpoint(c) + 1 /\ RightHalf(c)[2] = c[2]
  BY LabelFacts
<1>2. ASSUME NEW p \in LeftHalf(c)[1] .. LeftHalf(c)[2]
      PROVE  w[p] = (h + L[c].lazy) + E[LeftHalf(c)][p]
  <2>1. p \in c[1] .. c[2] /\ p <= Midpoint(c)
    BY <1>1
  <2>2. E[LeftHalf(c)][p] \in Int /\ E[c][p] = L[c].lazy + E[LeftHalf(c)][p]
    BY <1>1, <2>1 DEF StandsFor
  <2>3. w[p] = h + E[c][p]
    BY <2>1 DEF CarriedBy
  <2> QED BY <1>1, <2>2, <2>3
<1>3. ASSUME NEW p \in RightHalf(c)[1] .. RightHalf(c)[2]
      PROVE  w[p] = (h + L[c].lazy) + E[RightHalf(c)][p]
  <2>1. p \in c[1] .. c[2] /\ p > Midpoint(c)
    BY <1>1
  <2>2. E[RightHalf(c)][p] \in Int /\ E[c][p] = L[c].lazy + E[RightHalf(c)][p]
    BY <1>1, <2>1 DEF StandsFor
  <2>3. w[p] = h + E[c][p]
    BY <2>1 DEF CarriedBy
  <2> QED BY <1>1, <2>2, <2>3
<1> QED BY <1>1, <1>2, <1>3 DEF CarriedBy

(***************************************************************************)
(* Induction over the partition.                                           *)
(***************************************************************************)
LEMMA PartitionInduction ==
  ASSUME NEW n \in Nat, NEW T,
         \A c \in Segments(n) :
           IsLeaf(c) \/ (LeftHalf(c) \in T /\ RightHalf(c) \in T) => c \in T
  PROVE  Segments(n) \subseteq T
<1> SUFFICES ASSUME n > 0 PROVE Segments(n) \subseteq T
  BY DEF Segments
<1>1. Segments(n) \in SUBSET Interval(n) /\ Closed(Segments(n))
  BY SegmentsClosed
<1> DEFINE U == {c \in Interval(n) : c \in Segments(n) => c \in T}
<1>2. ASSUME NEW c \in Interval(n),
             IsLeaf(c) \/ (LeftHalf(c) \in U /\ RightHalf(c) \in U)
      PROVE  c \in U
  BY <1>1, <1>2 DEF Closed
<1>3. Interval(n) \subseteq U
  <2> HIDE DEF U
  <2> QED BY <1>2, SegmentInduction
<1> QED BY <1>1, <1>3

(* The sum in a label is the sum of the elements below it. *)
LEMMA LabelSums ==
  ASSUME NEW n \in Nat, NEW L, Labelled(n, L), NEW E, StandsFor(n, L, E),
         NEW w, NEW S, RunningSums(S, w, n)
  PROVE  \A c \in Segments(n) : \A h \in Int :
           CarriedBy(w, E, c, h) => S[c[2]] - S[c[1] - 1] = L[c].sum + h * Length(c)
<1> DEFINE T == {c \in Segments(n) : \A h \in Int :
                   CarriedBy(w, E, c, h) =>
                     S[c[2]] - S[c[1] - 1] = L[c].sum + h * Length(c)}
<1>1. \A p \in 0 .. n : S[p] \in Int
  BY DEF RunningSums
<1>2. ASSUME NEW c \in Segments(n),
             IsLeaf(c) \/ (LeftHalf(c) \in T /\ RightHalf(c) \in T),
             NEW h \in Int, CarriedBy(w, E, c, h)
      PROVE  S[c[2]] - S[c[1] - 1] = L[c].sum + h * Length(c)
  <2>1. c[1] \in 1 .. n /\ c[2] \in c[1] .. n /\ L[c].sum \in Int /\ L[c].lazy \in Int
    BY LabelFacts
  <2>2. CASE IsLeaf(c)
    <3>1. c[1] = c[2] /\ Length(c) = 1 /\ h * 1 = h
      BY <2>2, LabelFacts
    <3>2. S[c[1]] = S[c[1] - 1] + w[c[1]] /\ w[c[1]] \in Int
      BY <2>1 DEF RunningSums
    <3>3. w[c[1]] = h + L[c].sum
      BY <1>2, <2>1, <2>2, <3>1 DEF CarriedBy, StandsFor
    <3>4. S[c[1]] \in Int /\ S[c[1] - 1] \in Int
      BY <1>1, <2>1
    <3> QED BY <2>1, <3>1, <3>2, <3>3, <3>4
  <2>3. CASE ~IsLeaf(c)
    <3> DEFINE l == LeftHalf(c)
               r == RightHalf(c)
               k == h + L[c].lazy
               m == Midpoint(c)
    <3>1. /\ l \in Segments(n) /\ r \in Segments(n) /\ m \in c[1] .. c[2] - 1
          /\ l[1] = c[1] /\ l[2] = m /\ r[1] = m + 1 /\ r[2] = c[2]
          /\ Length(c) = Length(l) + Length(r)
          /\ L[c].sum = L[l].sum + L[r].sum + L[c].lazy * Length(c)
      BY <2>3, LabelFacts
    <3>2. /\ L[l].sum \in Int /\ L[r].sum \in Int
          /\ Length(l) \in Int /\ Length(r) \in Int
      BY <3>1, LabelFacts
    <3>3. k \in Int /\ CarriedBy(w, E, l, k) /\ CarriedBy(w, E, r, k)
      BY <1>2, <2>3, CarriedDown
    <3>4. l \in T /\ r \in T
      BY <1>2, <2>3
    <3>5. S[l[2]] - S[l[1] - 1] = L[l].sum + k * Length(l)
          /\ S[r[2]] - S[r[1] - 1] = L[r].sum + k * Length(r)
      <4> HIDE DEF l, r, k
      <4> QED BY <3>3, <3>4
    <3>6. PICK a, b, x, y, u, v \in Int :
             a = L[l].sum /\ b = L[r].sum /\ x = Length(l) /\ y = Length(r)
             /\ u = h /\ v = L[c].lazy
      BY <2>1, <3>2
    <3>7. PICK s, t, z \in Int : s = S[c[1] - 1] /\ t = S[m] /\ z = S[c[2]]
      <4>1. c[1] - 1 \in 0 .. n /\ m \in 0 .. n /\ c[2] \in 0 .. n
        BY <2>1, <3>1
      <4> QED BY <1>1, <4>1
    <3>8. t - s = a + (u + v) * x /\ z - t = b + (u + v) * y
      <4>1. r[1] - 1 = m
        BY <2>1, <3>1
      <4> HIDE DEF l, r, m
      <4>2. k = u + v
        BY <3>6
      <4> HIDE DEF k
      <4> QED BY <3>1, <3>5, <3>6, <3>7, <4>1, <4>2
    <3>9. L[c].sum = a + b + v * (x + y)
      <4> HIDE DEF l, r, m, k
      <4> QED BY <3>1, <3>6
    <3>10. z - s = (a + b + v * (x + y)) + u * (x + y)
      <4>1. PICK e, f, g, i, j \in Int : e = (u + v) * x /\ f = (u + v) * y /\ g = v * (x + y)
                                      /\ i = u * (x + y) /\ j = e + f
        BY <3>6
      <4>2. j = g + i
        BY <4>1
      <4>3. t - s = a + e /\ z - t = b + f
        BY <3>8, <4>1
      <4>4. z - s = (a + b + g) + i
        BY <4>1, <4>2, <4>3
      <4> QED BY <4>1, <4>4
    <3>11. Length(c) = x + y
      <4> HIDE DEF l, r, m, k
      <4> QED BY <3>1, <3>6
    <3> QED BY <3>6, <3>7, <3>9, <3>10, <3>11
  <2> QED BY <2>2, <2>3
<1>3. Segments(n) \subseteq T
  <2>1. ASSUME NEW c \in Segments(n),
               IsLeaf(c) \/ (LeftHalf(c) \in T /\ RightHalf(c) \in T)
        PROVE  c \in T
    BY <1>2, <2>1
  <2> HIDE DEF T
  <2> QED BY <2>1, PartitionInduction
<1> QED BY <1>3

-----------------------------------------------------------------------------
(***************************************************************************)
(* Reading a labelled tree from the top: x is a segment and the tags above *)
(* it.  The exact elements, the checked ones of materialize, which are     *)
(* Overflow where an addition is not representable, and the checked sum of *)
(* query.                                                                  *)
(***************************************************************************)
ReadsExactly(n, L, g) ==
  \A c \in Segments(n) : \A h \in Int :
    g[<<c, h>>] = IF IsLeaf(c) THEN <<h + L[c].sum>>
                  ELSE g[<<LeftHalf(c), h + L[c].lazy>>]
                       \o g[<<RightHalf(c), h + L[c].lazy>>]

ReadsLeaves(n, L, g) ==
  \A c \in Segments(n) : \A h \in Int :
    g[<<c, h>>] = IF IsLeaf(c) THEN <<Apply(h, L[c].sum, 1)>>
                  ELSE g[<<LeftHalf(c), CheckedAdd(h, L[c].lazy)>>]
                       \o g[<<RightHalf(c), CheckedAdd(h, L[c].lazy)>>]

ReadsSums(n, L, left, right, g) ==
  \A c \in Segments(n) : \A h \in Int :
    /\ g[<<c, h>>] \in Int
    /\ g[<<c, h>>] = IF Disjoint(left, right, c) THEN 0
                     ELSE IF Covers(left, right, c) THEN Apply(h, L[c].sum, Length(c))
                     ELSE CheckedAdd(g[<<LeftHalf(c), CheckedAdd(h, L[c].lazy)>>],
                                     g[<<RightHalf(c), CheckedAdd(h, L[c].lazy)>>])

(***************************************************************************)
(* A reading that concatenates its halves puts an allowed value at every   *)
(* position, if it does at the leaves and a half allows no more than the   *)
(* whole.                                                                  *)
(***************************************************************************)
Concatenates(n, g, V, next, A) ==
  \A c \in Segments(n) : \A h \in Int :
    IF IsLeaf(c)
    THEN \E x \in V : g[<<c, h>>] = <<x>> /\ x \in A[<<c, h>>][c[1]]
    ELSE /\ next[<<c, h>>] \in Int
         /\ g[<<c, h>>] = g[<<LeftHalf(c), next[<<c, h>>]>>]
                          \o g[<<RightHalf(c), next[<<c, h>>]>>]
         /\ \A p \in c[1] .. c[2] :
              /\ p <= Midpoint(c) => A[<<LeftHalf(c), next[<<c, h>>]>>][p] \subseteq A[<<c, h>>][p]
              /\ p > Midpoint(c) => A[<<RightHalf(c), next[<<c, h>>]>>][p] \subseteq A[<<c, h>>][p]

LEMMA ReadInOrder ==
  ASSUME NEW n \in Nat, NEW g, NEW V, NEW next, NEW A, Concatenates(n, g, V, next, A)
  PROVE  \A c \in Segments(n) : \A h \in Int :
           /\ g[<<c, h>>] \in Seq(V) /\ Len(g[<<c, h>>]) = c[2] - c[1] + 1
           /\ \A p \in c[1] .. c[2] : g[<<c, h>>][p - c[1] + 1] \in A[<<c, h>>][p]
<1> DEFINE Right(c, h) ==
             /\ g[<<c, h>>] \in Seq(V) /\ Len(g[<<c, h>>]) = c[2] - c[1] + 1
             /\ \A p \in c[1] .. c[2] : g[<<c, h>>][p - c[1] + 1] \in A[<<c, h>>][p]
           T == {c \in Segments(n) : \A h \in Int : Right(c, h)}
<1>1. ASSUME NEW c \in Segments(n),
             IsLeaf(c) \/ (LeftHalf(c) \in T /\ RightHalf(c) \in T),
             NEW h \in Int
      PROVE  Right(c, h)
  <2>0. n > 0
    BY DEF Segments
  <2>1. c[1] \in Int /\ c[2] \in Int /\ c[1] <= c[2] /\ c \in Interval(n) /\ Closed(Segments(n))
    BY <2>0, SegmentsClosed, Halves
  <2>2. CASE IsLeaf(c)
    <3>1. PICK x \in V : g[<<c, h>>] = <<x>> /\ x \in A[<<c, h>>][c[1]]
      BY <2>2 DEF Concatenates
    <3>2. c[2] = c[1]
      BY <2>2 DEF IsLeaf
    <3>3. <<x>> \in Seq(V) /\ Len(<<x>>) = 1 /\ <<x>>[1] = x
      OBVIOUS
    <3>4. \A p \in c[1] .. c[2] : p = c[1] /\ p - c[1] + 1 = 1
      BY <2>1, <3>2
    <3> QED BY <2>1, <3>1, <3>2, <3>3, <3>4
  <2>3. CASE ~IsLeaf(c)
    <3> DEFINE l == LeftHalf(c)
               r == RightHalf(c)
    <3>1. PICK a, m, b \in Int : a = c[1] /\ b = c[2] /\ m = Midpoint(c) /\ a <= m /\ m < b
      BY <2>1, <2>3, Halves
    <3>2. /\ l \in Segments(n) /\ r \in Segments(n)
          /\ l[1] = a /\ l[2] = m /\ r[1] = m + 1 /\ r[2] = b
      BY <2>1, <2>3, <3>1 DEF Closed, LeftHalf, RightHalf
    <3>3. PICK k \in Int : k = next[<<c, h>>]
      BY <2>3 DEF Concatenates
    <3>4. PICK s, t, q : s = g[<<l, k>>] /\ t = g[<<r, k>>] /\ q = s \o t
      OBVIOUS
    <3>5. g[<<c, h>>] = q
      BY <2>3, <3>3, <3>4 DEF Concatenates
    <3>6. Right(l, k) /\ Right(r, k)
      <4>1. l \in T /\ r \in T
        BY <1>1, <2>3
      <4> HIDE DEF Right, l, r
      <4> QED BY <4>1
    <3>7. s \in Seq(V) /\ t \in Seq(V) /\ Len(s) = m - a + 1 /\ Len(t) = b - m
      <4> HIDE DEF l, r
      <4>1. s \in Seq(V) /\ t \in Seq(V) /\ Len(s) = m - a + 1 /\ Len(t) = b - (m + 1) + 1
        BY <3>2, <3>4, <3>6
      <4> QED BY <4>1
    <3>8. /\ q \in Seq(V) /\ Len(q) = Len(s) + Len(t)
          /\ \A i \in 1 .. Len(s) + Len(t) :
               q[i] = IF i <= Len(s) THEN s[i] ELSE t[i - Len(s)]
      BY <3>4, <3>7, ConcatProperties, Zenon
    <3>9. ASSUME NEW p \in a .. b
          PROVE  q[p - a + 1] \in A[<<c, h>>][p]
      <4>1. PICK i \in Int : i = p - a + 1
        OBVIOUS
      <4>2. i \in 1 .. Len(s) + Len(t)
        <5>1. a <= p /\ p <= b /\ p \in Int
          BY <3>1
        <5>2. Len(s) + Len(t) = b - a + 1
          BY <3>1, <3>7
        <5> HIDE DEF l, r
        <5> QED BY <3>1, <4>1, <5>1, <5>2
      <4>3. CASE p <= m
        <5>1. i <= Len(s) /\ p \in a .. m
          BY <3>7, <4>1, <4>3
        <5>2. q[i] = s[i]
          BY <3>8, <4>2, <5>1
        <5>3. s[i] \in A[<<l, k>>][p]
          <6> HIDE DEF l, r
          <6>1. p \in l[1] .. l[2] /\ i = p - l[1] + 1
            BY <3>2, <4>1, <5>1
          <6> QED BY <3>4, <3>6, <6>1
        <5>4. A[<<l, k>>][p] \subseteq A[<<c, h>>][p]
          BY <2>3, <3>1, <3>3, <4>3 DEF Concatenates
        <5> QED BY <4>1, <5>2, <5>3, <5>4
      <4>4. CASE p > m
        <5>1. PICK j \in Int : j = p - (m + 1) + 1
          BY <3>1
        <5>2. ~(i <= Len(s)) /\ i - Len(s) = j /\ p \in m + 1 .. b
          <6>1. p \in Int /\ p <= b /\ p > m
            BY <3>1, <4>4
          <6>2. PICK e \in Int : e = Len(s) /\ e = m - a + 1
            BY <3>1, <3>7
          <6>3. ~(i <= e) /\ i - e = j /\ p \in m + 1 .. b
            BY <3>1, <4>1, <5>1, <6>1, <6>2
          <6> QED BY <6>2, <6>3
        <5>3. q[i] = t[j]
          BY <3>8, <4>2, <5>2
        <5>4. t[j] \in A[<<r, k>>][p]
          <6> HIDE DEF l, r
          <6>1. p \in r[1] .. r[2] /\ j = p - r[1] + 1
            BY <3>2, <5>1, <5>2
          <6> QED BY <3>4, <3>6, <6>1
        <5>5. A[<<r, k>>][p] \subseteq A[<<c, h>>][p]
          BY <2>3, <3>1, <3>3, <4>4 DEF Concatenates
        <5> QED BY <4>1, <5>3, <5>4, <5>5
      <4> QED BY <3>1, <4>3, <4>4
    <3>10. Len(q) = b - a + 1
      BY <3>7, <3>8
    <3> QED BY <3>1, <3>5, <3>8, <3>9, <3>10
  <2> QED BY <2>2, <2>3
<1>2. Segments(n) \subseteq T
  <2>1. ASSUME NEW c \in Segments(n),
               IsLeaf(c) \/ (LeftHalf(c) \in T /\ RightHalf(c) \in T)
        PROVE  c \in T
    <3> HIDE DEF Right
    <3> QED BY <1>1, <2>1
  <2> HIDE DEF T
  <2> QED BY <2>1, PartitionInduction
<1> QED BY <1>2

(* The exact elements are those the tree stands for. *)
ElementsRead(n, E, g) ==
  \A c \in Segments(n) : \A h \in Int :
    /\ g[<<c, h>>] \in Seq(Int) /\ Len(g[<<c, h>>]) = c[2] - c[1] + 1
    /\ \A p \in c[1] .. c[2] : g[<<c, h>>][p - c[1] + 1] = h + E[c][p]

LEMMA ExactReading ==
  ASSUME NEW n \in Nat, NEW L, Labelled(n, L), NEW E, StandsFor(n, L, E),
         NEW g, ReadsExactly(n, L, g)
  PROVE  ElementsRead(n, E, g)
<1> DEFINE A == [x \in Segments(n) \X Int |->
                   [p \in x[1][1] .. x[1][2] |-> {x[2] + E[x[1]][p]}]]
           next == [x \in Segments(n) \X Int |-> x[2] + L[x[1]].lazy]
<1>1. ASSUME NEW c \in Segments(n), NEW h \in Int
      PROVE  /\ \A p \in c[1] .. c[2] : A[<<c, h>>][p] = {h + E[c][p]}
             /\ next[<<c, h>>] = h + L[c].lazy
  OBVIOUS
<1> HIDE DEF A, next
<1>2. ASSUME NEW c \in Segments(n), NEW h \in Int, IsLeaf(c)
      PROVE  \E x \in Int : g[<<c, h>>] = <<x>> /\ x \in A[<<c, h>>][c[1]]
  <2>1. c[1] \in c[1] .. c[2] /\ L[c].sum \in Int /\ E[c][c[1]] = L[c].sum
    BY <1>2, LabelFacts DEF StandsFor
  <2>2. g[<<c, h>>] = <<h + L[c].sum>>
    BY <1>2 DEF ReadsExactly
  <2>3. h + L[c].sum \in A[<<c, h>>][c[1]]
    BY <1>1, <2>1
  <2> QED BY <2>1, <2>2, <2>3
<1>3. ASSUME NEW c \in Segments(n), NEW h \in Int, ~IsLeaf(c)
      PROVE  /\ next[<<c, h>>] \in Int
             /\ g[<<c, h>>] = g[<<LeftHalf(c), next[<<c, h>>]>>]
                              \o g[<<RightHalf(c), next[<<c, h>>]>>]
             /\ \A p \in c[1] .. c[2] :
                  /\ p <= Midpoint(c) =>
                       A[<<LeftHalf(c), next[<<c, h>>]>>][p] \subseteq A[<<c, h>>][p]
                  /\ p > Midpoint(c) =>
                       A[<<RightHalf(c), next[<<c, h>>]>>][p] \subseteq A[<<c, h>>][p]
  <2>1. /\ L[c].lazy \in Int /\ LeftHalf(c) \in Segments(n) /\ RightHalf(c) \in Segments(n)
        /\ c[1] \in Int /\ c[2] \in Int /\ Midpoint(c) \in c[1] .. c[2] - 1
        /\ LeftHalf(c)[1] = c[1] /\ LeftHalf(c)[2] = Midpoint(c)
        /\ RightHalf(c)[1] = Midpoint(c) + 1 /\ RightHalf(c)[2] = c[2]
    BY <1>3, LabelFacts
  <2>2. PICK k \in Int : k = next[<<c, h>>] /\ k = h + L[c].lazy
    BY <1>1, <2>1
  <2>3. g[<<c, h>>] = g[<<LeftHalf(c), k>>] \o g[<<RightHalf(c), k>>]
    BY <1>3, <2>2 DEF ReadsExactly
  <2>4. ASSUME NEW p \in c[1] .. c[2]
        PROVE  /\ p <= Midpoint(c) => A[<<LeftHalf(c), k>>][p] = A[<<c, h>>][p]
               /\ p > Midpoint(c) => A[<<RightHalf(c), k>>][p] = A[<<c, h>>][p]
    <3>1. CASE p <= Midpoint(c)
      <4>1. p \in LeftHalf(c)[1] .. LeftHalf(c)[2]
        BY <2>1, <3>1
      <4>2. E[LeftHalf(c)][p] \in Int /\ E[c][p] = L[c].lazy + E[LeftHalf(c)][p]
        BY <1>3, <2>1, <3>1, <4>1 DEF StandsFor
      <4>3. k + E[LeftHalf(c)][p] = h + E[c][p]
        BY <2>1, <2>2, <4>2
      <4>4. A[<<LeftHalf(c), k>>][p] = {k + E[LeftHalf(c)][p]}
        BY <1>1, <2>1, <2>2, <4>1
      <4>5. A[<<c, h>>][p] = {h + E[c][p]}
        BY <1>1
      <4> QED BY <2>1, <3>1, <4>3, <4>4, <4>5
    <3>2. CASE p > Midpoint(c)
      <4>1. p \in RightHalf(c)[1] .. RightHalf(c)[2]
        BY <2>1, <3>2
      <4>2. E[RightHalf(c)][p] \in Int /\ E[c][p] = L[c].lazy + E[RightHalf(c)][p]
        BY <1>3, <2>1, <3>2, <4>1 DEF StandsFor
      <4>3. k + E[RightHalf(c)][p] = h + E[c][p]
        BY <2>1, <2>2, <4>2
      <4>4. A[<<RightHalf(c), k>>][p] = {k + E[RightHalf(c)][p]}
        BY <1>1, <2>1, <2>2, <4>1
      <4>5. A[<<c, h>>][p] = {h + E[c][p]}
        BY <1>1
      <4> QED BY <2>1, <3>2, <4>3, <4>4, <4>5
    <3> QED BY <2>1, <3>1, <3>2
  <2> QED BY <2>2, <2>3, <2>4
<1>4. Concatenates(n, g, Int, next, A)
  BY <1>2, <1>3 DEF Concatenates
<1>5. \A c \in Segments(n) : \A h \in Int :
        /\ g[<<c, h>>] \in Seq(Int) /\ Len(g[<<c, h>>]) = c[2] - c[1] + 1
        /\ \A p \in c[1] .. c[2] : g[<<c, h>>][p - c[1] + 1] \in A[<<c, h>>][p]
  BY <1>4, ReadInOrder
<1>6. ASSUME NEW c \in Segments(n), NEW h \in Int, NEW p \in c[1] .. c[2]
      PROVE  g[<<c, h>>][p - c[1] + 1] = h + E[c][p]
  <2>1. A[<<c, h>>][p] = {h + E[c][p]}
    BY <1>1
  <2>2. g[<<c, h>>][p - c[1] + 1] \in A[<<c, h>>][p]
    BY <1>5
  <2> QED BY <2>1, <2>2
<1> QED BY <1>5, <1>6 DEF ElementsRead

(***************************************************************************)
(* A checked element is the one the tree stands for, or Overflow where     *)
(* adding up the tags above it leaves the width.                           *)
(***************************************************************************)
LEMMA LeavesReading ==
  ASSUME NEW n \in Nat, NEW L, Labelled(n, L), NEW E, StandsFor(n, L, E),
         NEW g, ReadsLeaves(n, L, g)
  PROVE  \A c \in Segments(n) : \A h \in Int :
           /\ g[<<c, h>>] \in Seq(Outcome) /\ Len(g[<<c, h>>]) = c[2] - c[1] + 1
           /\ \A p \in c[1] .. c[2] :
                g[<<c, h>>][p - c[1] + 1] \in {Overflow, h + E[c][p]}
<1> DEFINE A == [x \in Segments(n) \X Int |->
                   [p \in x[1][1] .. x[1][2] |->
                      IF x[2] = Overflow THEN {Overflow}
                      ELSE {Overflow, x[2] + E[x[1]][p]}]]
           next == [x \in Segments(n) \X Int |-> CheckedAdd(x[2], L[x[1]].lazy)]
<1>1. ASSUME NEW c \in Segments(n), NEW h \in Int
      PROVE  /\ \A p \in c[1] .. c[2] :
                  /\ h = Overflow => A[<<c, h>>][p] = {Overflow}
                  /\ h # Overflow => A[<<c, h>>][p] = {Overflow, h + E[c][p]}
             /\ next[<<c, h>>] = CheckedAdd(h, L[c].lazy)
  OBVIOUS
<1> HIDE DEF A, next
<1>2. ASSUME NEW c \in Segments(n), NEW h \in Int, IsLeaf(c)
      PROVE  \E x \in Outcome : g[<<c, h>>] = <<x>> /\ x \in A[<<c, h>>][c[1]]
  <2>1. c[1] \in c[1] .. c[2] /\ L[c].sum \in Int /\ E[c][c[1]] = L[c].sum
    BY <1>2, LabelFacts DEF StandsFor
  <2>2. PICK x \in Outcome : x = Apply(h, L[c].sum, 1)
    BY CheckedAddOutcome DEF Apply
  <2>3. g[<<c, h>>] = <<x>>
    BY <1>2, <2>2 DEF ReadsLeaves
  <2>4. x # Overflow => h # Overflow /\ x = h + E[c][c[1]]
    <3>1. SUFFICES ASSUME x # Overflow PROVE h # Overflow /\ x = h + L[c].sum
      BY <2>1
    <3>2. h # Overflow /\ x = L[c].sum + h * 1
      BY <2>1, <2>2, <3>1, ApplyExact
    <3> QED BY <2>1, <3>2
  <2>5. /\ h = Overflow => A[<<c, h>>][c[1]] = {Overflow}
        /\ h # Overflow => A[<<c, h>>][c[1]] = {Overflow, h + E[c][c[1]]}
    BY <1>1, <2>1
  <2>6. x \in A[<<c, h>>][c[1]]
    BY <2>4, <2>5
  <2> QED BY <2>3, <2>6
<1>3. ASSUME NEW c \in Segments(n), NEW h \in Int, ~IsLeaf(c)
      PROVE  /\ next[<<c, h>>] \in Int
             /\ g[<<c, h>>] = g[<<LeftHalf(c), next[<<c, h>>]>>]
                              \o g[<<RightHalf(c), next[<<c, h>>]>>]
             /\ \A p \in c[1] .. c[2] :
                  /\ p <= Midpoint(c) =>
                       A[<<LeftHalf(c), next[<<c, h>>]>>][p] \subseteq A[<<c, h>>][p]
                  /\ p > Midpoint(c) =>
                       A[<<RightHalf(c), next[<<c, h>>]>>][p] \subseteq A[<<c, h>>][p]
  <2>1. /\ L[c].lazy \in Int /\ LeftHalf(c) \in Segments(n) /\ RightHalf(c) \in Segments(n)
        /\ c[1] \in Int /\ c[2] \in Int /\ Midpoint(c) \in c[1] .. c[2] - 1
        /\ LeftHalf(c)[1] = c[1] /\ LeftHalf(c)[2] = Midpoint(c)
        /\ RightHalf(c)[1] = Midpoint(c) + 1 /\ RightHalf(c)[2] = c[2]
    BY <1>3, LabelFacts
  <2>2. PICK k \in Int : k = next[<<c, h>>] /\ k = CheckedAdd(h, L[c].lazy)
    BY <1>1, <2>1, CheckedAddInt
  <2>3. g[<<c, h>>] = g[<<LeftHalf(c), k>>] \o g[<<RightHalf(c), k>>]
    BY <1>3, <2>2 DEF ReadsLeaves
  <2>4. k # Overflow => h # Overflow /\ k = h + L[c].lazy
    BY <2>1, <2>2, CheckedAddExact
  <2>5. ASSUME NEW p \in c[1] .. c[2], p <= Midpoint(c)
        PROVE  A[<<LeftHalf(c), k>>][p] \subseteq A[<<c, h>>][p]
    <3>1. p \in LeftHalf(c)[1] .. LeftHalf(c)[2]
      BY <2>1, <2>5
    <3>2. E[LeftHalf(c)][p] \in Int /\ E[c][p] = L[c].lazy + E[LeftHalf(c)][p]
      BY <1>3, <2>1, <2>5, <3>1 DEF StandsFor
    <3>3. /\ k = Overflow => A[<<LeftHalf(c), k>>][p] = {Overflow}
          /\ k # Overflow => A[<<LeftHalf(c), k>>][p] = {Overflow, k + E[LeftHalf(c)][p]}
      BY <1>1, <2>1, <2>2, <3>1
    <3>4. /\ h = Overflow => A[<<c, h>>][p] = {Overflow}
          /\ h # Overflow => A[<<c, h>>][p] = {Overflow, h + E[c][p]}
      BY <1>1
    <3>5. k # Overflow => h # Overflow /\ k + E[LeftHalf(c)][p] = h + E[c][p]
      BY <2>1, <2>4, <3>2
    <3> QED BY <3>3, <3>4, <3>5
  <2>6. ASSUME NEW p \in c[1] .. c[2], p > Midpoint(c)
        PROVE  A[<<RightHalf(c), k>>][p] \subseteq A[<<c, h>>][p]
    <3>1. p \in RightHalf(c)[1] .. RightHalf(c)[2]
      BY <2>1, <2>6
    <3>2. E[RightHalf(c)][p] \in Int /\ E[c][p] = L[c].lazy + E[RightHalf(c)][p]
      BY <1>3, <2>1, <2>6, <3>1 DEF StandsFor
    <3>3. /\ k = Overflow => A[<<RightHalf(c), k>>][p] = {Overflow}
          /\ k # Overflow => A[<<RightHalf(c), k>>][p] = {Overflow, k + E[RightHalf(c)][p]}
      BY <1>1, <2>1, <2>2, <3>1
    <3>4. /\ h = Overflow => A[<<c, h>>][p] = {Overflow}
          /\ h # Overflow => A[<<c, h>>][p] = {Overflow, h + E[c][p]}
      BY <1>1
    <3>5. k # Overflow => h # Overflow /\ k + E[RightHalf(c)][p] = h + E[c][p]
      BY <2>1, <2>4, <3>2
    <3> QED BY <3>3, <3>4, <3>5
  <2> QED BY <2>2, <2>3, <2>5, <2>6
<1>4. Concatenates(n, g, Outcome, next, A)
  BY <1>2, <1>3 DEF Concatenates
<1>5. \A c \in Segments(n) : \A h \in Int :
        /\ g[<<c, h>>] \in Seq(Outcome) /\ Len(g[<<c, h>>]) = c[2] - c[1] + 1
        /\ \A p \in c[1] .. c[2] : g[<<c, h>>][p - c[1] + 1] \in A[<<c, h>>][p]
  BY <1>4, ReadInOrder
<1>6. ASSUME NEW c \in Segments(n), NEW h \in Int, NEW p \in c[1] .. c[2]
      PROVE  g[<<c, h>>][p - c[1] + 1] \in {Overflow, h + E[c][p]}
  <2>1. /\ h = Overflow => A[<<c, h>>][p] = {Overflow}
        /\ h # Overflow => A[<<c, h>>][p] = {Overflow, h + E[c][p]}
    BY <1>1
  <2>2. g[<<c, h>>][p - c[1] + 1] \in A[<<c, h>>][p]
    BY <1>5
  <2> QED BY <2>1, <2>2
<1> QED BY <1>5, <1>6

(***************************************************************************)
(* The part of left .. right in a segment, and what a checked sum that is  *)
(* not Overflow is: the sum of those elements.                             *)
(***************************************************************************)
From(left, c)  == IF left > c[1] THEN left ELSE c[1]
Upto(right, c) == IF right < c[2] THEN right ELSE c[2]

LEMMA SumsReading ==
  ASSUME NEW n \in Nat, NEW L, Labelled(n, L), NEW E, StandsFor(n, L, E),
         NEW w, NEW S, RunningSums(S, w, n),
         NEW left \in 1 .. n, NEW right \in left .. n,
         NEW g, ReadsSums(n, L, left, right, g)
  PROVE  \A c \in Segments(n) : \A h \in Int :
           ~Disjoint(left, right, c) /\ g[<<c, h>>] # Overflow =>
             /\ h # Overflow
             /\ CarriedBy(w, E, c, h) =>
                  g[<<c, h>>] = S[Upto(right, c)] - S[From(left, c) - 1]
<1> DEFINE Exact(c, h) ==
             ~Disjoint(left, right, c) /\ g[<<c, h>>] # Overflow =>
               /\ h # Overflow
               /\ CarriedBy(w, E, c, h) =>
                    g[<<c, h>>] = S[Upto(right, c)] - S[From(left, c) - 1]
           T == {c \in Segments(n) : \A h \in Int : Exact(c, h)}
<1>1. \A p \in 0 .. n : S[p] \in Int
  BY DEF RunningSums
<1>2. ASSUME NEW c \in Segments(n), NEW h \in Int,
             ~Disjoint(left, right, c), g[<<c, h>>] # Overflow,
             IsLeaf(c) \/ (LeftHalf(c) \in T /\ RightHalf(c) \in T)
      PROVE  /\ h # Overflow
             /\ CarriedBy(w, E, c, h) =>
                  g[<<c, h>>] = S[Upto(right, c)] - S[From(left, c) - 1]
  <2>1. /\ c[1] \in 1 .. n /\ c[2] \in c[1] .. n /\ Length(c) \in Nat
        /\ L[c].sum \in Int /\ L[c].lazy \in Int
    BY LabelFacts
  <2>2. CASE Covers(left, right, c)
    <3>1. g[<<c, h>>] = Apply(h, L[c].sum, Length(c))
      BY <1>2, <2>2 DEF ReadsSums
    <3>2. h # Overflow /\ g[<<c, h>>] = L[c].sum + h * Length(c)
      BY <1>2, <2>1, <3>1, ApplyExact
    <3>3. ASSUME CarriedBy(w, E, c, h)
          PROVE  g[<<c, h>>] = S[Upto(right, c)] - S[From(left, c) - 1]
      <4>1. S[c[2]] - S[c[1] - 1] = L[c].sum + h * Length(c)
        BY <3>3, LabelSums
      <4>2. Upto(right, c) = c[2] /\ From(left, c) = c[1]
        BY <2>1, <2>2 DEF Covers, From, Upto
      <4> QED BY <3>2, <4>1, <4>2
    <3> QED BY <3>2, <3>3
  <2>3. CASE ~Covers(left, right, c)
    <3> DEFINE l == LeftHalf(c)
               r == RightHalf(c)
               k == CheckedAdd(h, L[c].lazy)
    <3>1. /\ ~IsLeaf(c)
          /\ left <= c[2] /\ c[1] <= right
      BY <1>2, <2>1, <2>3 DEF IsLeaf, Covers, Disjoint
    <3>2. PICK m \in Int : /\ m = Midpoint(c) /\ c[1] <= m /\ m < c[2]
      BY <2>1, <3>1, LabelFacts
    <3>3. /\ l \in Segments(n) /\ r \in Segments(n)
          /\ l[1] = c[1] /\ l[2] = m /\ r[1] = m + 1 /\ r[2] = c[2]
      BY <3>1, <3>2, LabelFacts
    <3>4. PICK kk \in Int : kk = k
      BY <2>1, CheckedAddInt
    <3>5. PICK x, y \in Int : x = g[<<l, kk>>] /\ y = g[<<r, kk>>]
      BY <3>3 DEF ReadsSums
    <3>6. g[<<c, h>>] = CheckedAdd(x, y)
      BY <1>2, <2>3, <3>4, <3>5 DEF ReadsSums
    <3>7. x # Overflow /\ y # Overflow /\ g[<<c, h>>] = x + y
      BY <1>2, <3>6, CheckedAddExact
    <3>8. /\ Disjoint(left, right, l) <=> m < left
          /\ Disjoint(left, right, r) <=> m >= right
      <4> HIDE DEF l, r
      <4> QED BY <2>1, <3>1, <3>2, <3>3 DEF Disjoint
    <3>9. /\ m < left => x = 0
          /\ m >= right => y = 0
      <4> HIDE DEF l, r
      <4> QED BY <3>3, <3>5, <3>8 DEF ReadsSums
    <3>10. Exact(l, kk) /\ Exact(r, kk)
      <4>1. l \in T /\ r \in T
        BY <1>2, <3>1
      <4> HIDE DEF l, r, Exact
      <4> QED BY <4>1
    <3>11. kk # Overflow
      <4> HIDE DEF l, r
      <4>1. m >= left => kk # Overflow
        BY <3>5, <3>7, <3>8, <3>10
      <4>2. m < right => kk # Overflow
        BY <3>2, <3>5, <3>7, <3>8, <3>10
      <4> QED BY <3>2, <4>1, <4>2
    <3>12. h # Overflow /\ kk = h + L[c].lazy
      BY <2>1, <3>4, <3>11, CheckedAddExact
    <3>13. ASSUME CarriedBy(w, E, c, h)
           PROVE  g[<<c, h>>] = S[Upto(right, c)] - S[From(left, c) - 1]
      <4>1. CarriedBy(w, E, l, kk) /\ CarriedBy(w, E, r, kk)
        BY <3>1, <3>12, <3>13, CarriedDown
      <4>2. /\ m >= left => x = S[Upto(right, l)] - S[From(left, l) - 1]
            /\ m < right => y = S[Upto(right, r)] - S[From(left, r) - 1]
        <5> HIDE DEF l, r
        <5>1. m >= left => x = S[Upto(right, l)] - S[From(left, l) - 1]
          BY <3>5, <3>7, <3>8, <3>10, <4>1
        <5>2. m < right => y = S[Upto(right, r)] - S[From(left, r) - 1]
          BY <3>2, <3>5, <3>7, <3>8, <3>10, <4>1
        <5> QED BY <5>1, <5>2
      <4>3. /\ Upto(right, l) = IF right < m THEN right ELSE m
            /\ From(left, l) = From(left, c)
            /\ Upto(right, r) = Upto(right, c)
            /\ From(left, r) = IF left > m + 1 THEN left ELSE m + 1
        <5> HIDE DEF l, r
        <5> QED BY <3>3 DEF From, Upto
      <4>4. /\ Upto(right, c) \in 0 .. n /\ From(left, c) - 1 \in 0 .. n /\ m \in 0 .. n
        <5>1. m \in 0 .. n
          BY <2>1, <3>2
        <5>2. Upto(right, c) \in 1 .. n
          BY <2>1 DEF Upto
        <5>3. From(left, c) \in 1 .. n
          BY <2>1 DEF From
        <5> QED BY <5>1, <5>2, <5>3
      <4>5. PICK u, v, z \in Int : u = S[Upto(right, c)] /\ v = S[From(left, c) - 1] /\ z = S[m]
        BY <1>1, <4>4
      <4>6. CASE m < left
        <5>1. From(left, c) = left /\ From(left, r) = left
          BY <2>1, <3>2, <4>3, <4>6 DEF From
        <5>2. y = u - v
          BY <3>2, <4>2, <4>3, <4>5, <4>6, <5>1
        <5> QED BY <3>7, <3>9, <4>5, <4>6, <5>2
      <4>7. CASE m >= right
        <5>1. Upto(right, c) = right /\ Upto(right, l) = right
          BY <2>1, <3>2, <4>3, <4>7 DEF Upto
        <5>2. x = u - v
          BY <3>2, <4>2, <4>3, <4>5, <4>7, <5>1
        <5> QED BY <3>7, <3>9, <4>5, <4>7, <5>2
      <4>8. CASE m >= left /\ m < right
        <5>1. Upto(right, l) = m /\ From(left, r) = m + 1 /\ (m + 1) - 1 = m
          BY <3>2, <4>3, <4>8
        <5>2. x = z - v /\ y = u - z
          BY <4>2, <4>3, <4>5, <4>8, <5>1
        <5>3. (z - v) + (u - z) = u - v
          OBVIOUS
        <5> QED BY <3>7, <4>5, <5>2, <5>3
      <4> QED BY <3>2, <4>6, <4>7, <4>8
    <3> QED BY <3>12, <3>13
  <2> QED BY <2>2, <2>3
<1>3. Segments(n) \subseteq T
  <2>1. ASSUME NEW c \in Segments(n),
               IsLeaf(c) \/ (LeftHalf(c) \in T /\ RightHalf(c) \in T)
        PROVE  c \in T
    <3>1. ASSUME NEW h \in Int PROVE Exact(c, h)
      BY <1>2, <2>1
    <3> HIDE DEF Exact
    <3> QED BY <3>1
  <2> HIDE DEF T
  <2> QED BY <2>1, PartitionInduction
<1> QED BY <1>3

(***************************************************************************)
(* The guard reads the elements materialize gives it.  Where one of those  *)
(* overflows although the element itself does not, the guard still admits  *)
(* only updates that keep the exact elements in the domain.                *)
(***************************************************************************)
LEMMA GuardSoundForLeaves ==
  ASSUME NEW w \in Seq(Value), w # <<>>, NEW leaves \in Seq(Outcome), Len(leaves) = Len(w),
         \A p \in 1 .. Len(w) : leaves[p] \in {Overflow, w[p]},
         NEW b \in Bound, MaxMagnitude(w) <= b,
         NEW left, NEW right, NEW value \in Value,
         ValidateRangeAdd(b, leaves, left, right, value)
  PROVE  /\ AddToRange(w, left, right, value) \in Seq(Value)
         /\ Admissible(AddToRange(w, left, right, value))
         /\ NextBound(b, leaves, left, right, value) \in Bound
         /\ MaxMagnitude(AddToRange(w, left, right, value))
              <= NextBound(b, leaves, left, right, value)
<1> DEFINE c == Conservative(b, value)
           n == Len(w)
<1>0. n \in Nat /\ DOMAIN w = 1 .. n /\ DOMAIN leaves = 1 .. n
  BY LenProperties
<1>1. CASE ProvesCanonicalRepresentability(c, n)
  <2>1. ValidateRangeAdd(b, w, left, right, value)
    BY <1>1 DEF ValidateRangeAdd
  <2>2. NextBound(b, leaves, left, right, value) = NextBound(b, w, left, right, value)
    BY <1>1 DEF NextBound
  <2> QED BY <2>1, <2>2, GuardSound
<1>2. CASE ~ProvesCanonicalRepresentability(c, n)
  <2>1. PICK next : next = AddToRange(leaves, left, right, value)
    OBVIOUS
  <2>2. Admissible(next)
    BY <1>2, <2>1 DEF ValidateRangeAdd
  <2>3. next = [p \in 1 .. n |-> IF p \in left .. right THEN CheckedAdd(leaves[p], value)
                                 ELSE leaves[p]]
    BY <1>0, <2>1 DEF AddToRange
  <2>4. next \in [1 .. n -> Outcome]
    <3>1. \A p \in 1 .. n : leaves[p] \in Outcome /\ CheckedAdd(leaves[p], value) \in Outcome
      BY <1>0, ElementOfSeq, CheckedAddOutcome
    <3> QED BY <2>3, <3>1
  <2>5. next \in Seq(Outcome) /\ Len(next) = n
    BY <1>0, <2>4, IsASeq, LenProperties
  <2>6. \A p \in 1 .. n : next[p] \in Outcome
    BY <2>4
  <2>7. n # 0 /\ n > 0 /\ next # <<>> /\ Root(n) \in Interval(n)
    BY <1>0, <2>5, EmptySeq, RootIsSegment
  <2>8. CanonicalSum(next)[Root(n)] # Overflow
    BY <2>2, <2>5, <2>7 DEF Admissible
  <2>9. \A p \in 1 .. n : next[p] \in Value
    <3>1. \A p \in Root(n)[1] .. Root(n)[2] : next[p] \in Value
      BY <1>0, <2>5, <2>6, <2>7, <2>8, CanonicalElements
    <3> QED BY <3>1 DEF Root
  <2>10. \A p \in 1 .. n : leaves[p] = w[p]
    <3>1. SUFFICES ASSUME NEW p \in 1 .. n PROVE leaves[p] # Overflow
      OBVIOUS
    <3>2. next[p] \in Value /\ next[p] = IF p \in left .. right THEN CheckedAdd(leaves[p], value)
                                         ELSE leaves[p]
      BY <2>3, <2>9
    <3>3. CheckedAdd(Overflow, value) = Overflow
      BY DEF CheckedAdd
    <3> QED BY <3>2, <3>3, ValueFacts
  <2>11. leaves = w
    <3>1. /\ leaves = [p \in 1 .. n |-> leaves[p]]
          /\ w = [p \in 1 .. n |-> w[p]]
      BY <1>0, LenProperties
    <3> QED BY <2>10, <3>1
  <2> QED BY <2>11, GuardSound
<1> QED BY <1>1, <1>2

(***************************************************************************)
(* An update: it records a new label for the segments D it visits, adds    *)
(* value to the tags of those it covers, and descends to the halves that   *)
(* meet left .. right of those it does not.                                *)
(***************************************************************************)
Updates(n, L, M, D, left, right, value) ==
  /\ Root(n) \in D
  /\ \A c \in Segments(n) :
       /\ c \in D =>
            /\ ~Disjoint(left, right, c)
            /\ M[c].lazy = L[c].lazy + IF Covers(left, right, c) THEN value ELSE 0
            /\ IsLeaf(c) => M[c].sum = L[c].sum + value
       /\ c \notin D => M[c].sum = L[c].sum /\ M[c].lazy = L[c].lazy
       /\ ~IsLeaf(c) => \A side \in Sides :
            Half(c, side) \in D <=>
              /\ c \in D /\ ~Covers(left, right, c)
              /\ ~Disjoint(left, right, Half(c, side))

Raised(n, E, D, left, right, value) ==
  [c \in Segments(n) |-> [p \in c[1] .. c[2] |->
     E[c][p] + IF c \in D /\ p \in left .. right THEN value ELSE 0]]

LEMMA UpdatedTree ==
  ASSUME NEW n \in Nat, NEW L, Labelled(n, L), NEW E, StandsFor(n, L, E),
         NEW M, NEW D, NEW left \in Int, NEW right \in Int, NEW value \in Int,
         Updates(n, L, M, D, left, right, value)
  PROVE  StandsFor(n, M, Raised(n, E, D, left, right, value))
<1> DEFINE add(c, p) == IF c \in D /\ p \in left .. right THEN value ELSE 0
           F == Raised(n, E, D, left, right, value)
<1>1. ASSUME NEW c \in Segments(n), NEW p \in c[1] .. c[2]
      PROVE  F[c][p] = E[c][p] + add(c, p) /\ E[c][p] \in Int /\ add(c, p) \in Int
  BY DEF Raised, StandsFor
<1> HIDE DEF F
<1>2. ASSUME NEW c \in Segments(n), NEW p \in c[1] .. c[2], IsLeaf(c)
      PROVE  F[c][p] = M[c].sum
  <2>1. c[1] = c[2] /\ c[1] \in Int /\ p = c[1]
    BY <1>2, LabelFacts
  <2>2. E[c][p] = L[c].sum /\ L[c].sum \in Int
    BY <1>2, LabelFacts DEF StandsFor
  <2>3. CASE c \in D
    <3>1. ~Disjoint(left, right, c) /\ M[c].sum = L[c].sum + value
      BY <1>2, <2>3 DEF Updates
    <3>2. p \in left .. right
      BY <2>1, <3>1 DEF Disjoint
    <3> QED BY <1>1, <2>2, <2>3, <3>1, <3>2
  <2>4. CASE c \notin D
    <3>1. M[c].sum = L[c].sum
      BY <2>4 DEF Updates
    <3> QED BY <1>1, <2>2, <2>4, <3>1
  <2> QED BY <2>3, <2>4
<1>3. ASSUME NEW c \in Segments(n), NEW p \in c[1] .. c[2], ~IsLeaf(c), NEW side \in Sides,
             p \in Half(c, side)[1] .. Half(c, side)[2], Half(c, side) \in Segments(n),
             E[c][p] = L[c].lazy + E[Half(c, side)][p]
      PROVE  F[c][p] = M[c].lazy + F[Half(c, side)][p]
  <2> DEFINE half == Half(c, side)
  <2>0. c[1] \in Int /\ c[2] \in Int /\ p \in Int /\ L[c].lazy \in Int
    BY LabelFacts
  <2>1. /\ F[c][p] = E[c][p] + add(c, p)
        /\ F[half][p] = E[half][p] + add(half, p)
        /\ E[c][p] \in Int /\ E[half][p] \in Int
    BY <1>1, <1>3
  <2>2. half \in D <=> /\ c \in D /\ ~Covers(left, right, c) /\ ~Disjoint(left, right, half)
    BY <1>3 DEF Updates
  <2>3. half[1] \in Int /\ half[2] \in Int
    BY <1>3, LabelFacts
  <2>4. p \in left .. right => ~Disjoint(left, right, half)
    <3> HIDE DEF half
    <3> QED BY <1>3, <2>0, <2>3 DEF Disjoint, half
  <2>5. CASE c \notin D
    <3>1. M[c].lazy = L[c].lazy /\ half \notin D
      BY <2>2, <2>5 DEF Updates
    <3> HIDE DEF half
    <3>2. add(c, p) = 0 /\ add(half, p) = 0
      BY <2>5, <3>1
    <3> HIDE DEF add
    <3> QED BY <1>3, <2>1, <3>1, <3>2 DEF half
  <2>6. CASE c \in D /\ Covers(left, right, c)
    <3>1. M[c].lazy = L[c].lazy + value /\ half \notin D
      BY <2>2, <2>6 DEF Updates
    <3>2. p \in left .. right
      BY <2>0, <2>6 DEF Covers
    <3> HIDE DEF half
    <3>3. add(c, p) = value /\ add(half, p) = 0
      BY <2>6, <3>1, <3>2
    <3> HIDE DEF add
    <3>4. E[c][p] = L[c].lazy + E[half][p]
      BY <1>3 DEF half
    <3>5. F[c][p] = M[c].lazy + F[half][p]
      BY <2>0, <2>1, <3>1, <3>3, <3>4
    <3> QED BY <3>5 DEF half
  <2>7. CASE c \in D /\ ~Covers(left, right, c)
    <3>1. M[c].lazy = L[c].lazy
      BY <2>0, <2>7 DEF Updates
    <3>2. p \in left .. right => half \in D
      BY <2>2, <2>4, <2>7
    <3> HIDE DEF half
    <3>3. add(c, p) = add(half, p) /\ add(half, p) \in Int
      BY <2>7, <3>2
    <3> HIDE DEF add
    <3>4. E[c][p] = L[c].lazy + E[half][p]
      BY <1>3 DEF half
    <3>5. F[c][p] = M[c].lazy + F[half][p]
      BY <2>0, <2>1, <3>1, <3>3, <3>4
    <3> QED BY <3>5 DEF half
  <2> QED BY <2>5, <2>6, <2>7
<1>4. ASSUME NEW c \in Segments(n), NEW p \in c[1] .. c[2], ~IsLeaf(c)
      PROVE  /\ p <= Midpoint(c) => F[c][p] = M[c].lazy + F[LeftHalf(c)][p]
             /\ p > Midpoint(c) => F[c][p] = M[c].lazy + F[RightHalf(c)][p]
  <2>1. /\ c[1] \in Int /\ c[2] \in Int /\ Midpoint(c) \in c[1] .. c[2] - 1
        /\ LeftHalf(c) \in Segments(n) /\ RightHalf(c) \in Segments(n)
        /\ LeftHalf(c)[1] = c[1] /\ LeftHalf(c)[2] = Midpoint(c)
        /\ RightHalf(c)[1] = Midpoint(c) + 1 /\ RightHalf(c)[2] = c[2]
    BY <1>4, LabelFacts
  <2>2. Half(c, "left") = LeftHalf(c) /\ Half(c, "right") = RightHalf(c)
        /\ "left" \in Sides /\ "right" \in Sides
    BY DEF Half, Sides
  <2>3. ASSUME p <= Midpoint(c) PROVE F[c][p] = M[c].lazy + F[LeftHalf(c)][p]
    <3>1. p \in LeftHalf(c)[1] .. LeftHalf(c)[2]
      BY <2>1, <2>3
    <3>2. E[c][p] = L[c].lazy + E[LeftHalf(c)][p]
      BY <1>4, <2>3 DEF StandsFor
    <3>3. F[c][p] = M[c].lazy + F[Half(c, "left")][p]
      BY <1>3, <1>4, <2>1, <2>2, <3>1, <3>2
    <3> QED BY <2>2, <3>3
  <2>4. ASSUME p > Midpoint(c) PROVE F[c][p] = M[c].lazy + F[RightHalf(c)][p]
    <3>1. p \in RightHalf(c)[1] .. RightHalf(c)[2]
      BY <2>1, <2>4
    <3>2. E[c][p] = L[c].lazy + E[RightHalf(c)][p]
      BY <1>4, <2>4 DEF StandsFor
    <3>3. F[c][p] = M[c].lazy + F[Half(c, "right")][p]
      BY <1>3, <1>4, <2>1, <2>2, <3>1, <3>2
    <3> QED BY <2>2, <3>3
  <2> QED BY <2>3, <2>4
<1>5. ASSUME NEW c \in Segments(n), NEW p \in c[1] .. c[2]
      PROVE  F[c][p] \in Int
  BY <1>1
<1>6. StandsFor(n, M, F)
  <2> HIDE DEF add
  <2> QED BY <1>2, <1>4, <1>5 DEF StandsFor
<1> QED BY <1>6 DEF F

(***************************************************************************)
(* A tree without tags: what it stands for is what its leaves hold.        *)
(***************************************************************************)
LEMMA UntaggedTree ==
  ASSUME NEW n \in Nat, NEW L, Labelled(n, L), NEW w,
         \A c \in Segments(n) : IF IsLeaf(c) THEN L[c].sum = w[c[1]] ELSE L[c].lazy = 0
  PROVE  StandsFor(n, L, [c \in Segments(n) |-> [p \in c[1] .. c[2] |-> w[p]]])
<1> DEFINE E == [c \in Segments(n) |-> [p \in c[1] .. c[2] |-> w[p]]]
           T == {c \in Segments(n) : \A p \in c[1] .. c[2] : w[p] \in Int}
<1>1. Segments(n) \subseteq T
  <2>1. ASSUME NEW c \in Segments(n),
               IsLeaf(c) \/ (LeftHalf(c) \in T /\ RightHalf(c) \in T),
               NEW p \in c[1] .. c[2]
        PROVE  w[p] \in Int
    <3>1. c[1] \in Int /\ c[2] \in Int /\ L[c].sum \in Int
      BY LabelFacts
    <3>2. CASE IsLeaf(c)
      <4>1. p = c[1]
        BY <3>1, <3>2, LabelFacts
      <4> QED BY <3>1, <3>2, <4>1
    <3>3. CASE ~IsLeaf(c)
      <4>1. /\ Midpoint(c) \in c[1] .. c[2] - 1
            /\ LeftHalf(c)[1] = c[1] /\ LeftHalf(c)[2] = Midpoint(c)
            /\ RightHalf(c)[1] = Midpoint(c) + 1 /\ RightHalf(c)[2] = c[2]
        BY <3>3, LabelFacts
      <4>2. p \in LeftHalf(c)[1] .. LeftHalf(c)[2] \/ p \in RightHalf(c)[1] .. RightHalf(c)[2]
        BY <3>1, <4>1
      <4> QED BY <2>1, <3>3, <4>2
    <3> QED BY <3>2, <3>3
  <2>2. ASSUME NEW c \in Segments(n), IsLeaf(c) \/ (LeftHalf(c) \in T /\ RightHalf(c) \in T)
        PROVE  c \in T
    BY <2>1, <2>2
  <2> HIDE DEF T
  <2> QED BY <2>2, PartitionInduction
<1>2. ASSUME NEW c \in Segments(n), NEW p \in c[1] .. c[2]
      PROVE  E[c][p] = w[p] /\ w[p] \in Int
  BY <1>1
<1> HIDE DEF E
<1>3. ASSUME NEW c \in Segments(n), NEW p \in c[1] .. c[2]
      PROVE  /\ E[c][p] \in Int
             /\ IsLeaf(c) => E[c][p] = L[c].sum
             /\ ~IsLeaf(c) =>
                  /\ p <= Midpoint(c) => E[c][p] = L[c].lazy + E[LeftHalf(c)][p]
                  /\ p > Midpoint(c) => E[c][p] = L[c].lazy + E[RightHalf(c)][p]
  <2>1. c[1] \in Int /\ c[2] \in Int /\ p \in Int /\ E[c][p] = w[p] /\ w[p] \in Int
    BY <1>2, LabelFacts
  <2>2. IsLeaf(c) => E[c][p] = L[c].sum
    BY <2>1, LabelFacts
  <2>3. ASSUME ~IsLeaf(c)
        PROVE  /\ p <= Midpoint(c) => E[c][p] = L[c].lazy + E[LeftHalf(c)][p]
               /\ p > Midpoint(c) => E[c][p] = L[c].lazy + E[RightHalf(c)][p]
    <3>1. /\ Midpoint(c) \in c[1] .. c[2] - 1
          /\ LeftHalf(c) \in Segments(n) /\ RightHalf(c) \in Segments(n)
          /\ LeftHalf(c)[1] = c[1] /\ LeftHalf(c)[2] = Midpoint(c)
          /\ RightHalf(c)[1] = Midpoint(c) + 1 /\ RightHalf(c)[2] = c[2]
      BY <2>3, LabelFacts
    <3>2. p <= Midpoint(c) => p \in LeftHalf(c)[1] .. LeftHalf(c)[2]
      BY <2>1, <3>1
    <3>3. p > Midpoint(c) => p \in RightHalf(c)[1] .. RightHalf(c)[2]
      BY <2>1, <3>1
    <3>4. p <= Midpoint(c) => E[LeftHalf(c)][p] = w[p]
      BY <1>2, <3>1, <3>2
    <3>5. p > Midpoint(c) => E[RightHalf(c)][p] = w[p]
      BY <1>2, <3>1, <3>3
    <3>6. L[c].lazy = 0
      BY <2>3
    <3> QED BY <2>1, <3>4, <3>5, <3>6
  <2> QED BY <2>1, <2>2, <2>3
<1>4. StandsFor(n, L, E)
  BY <1>3 DEF StandsFor
<1> QED BY <1>4 DEF E

(***************************************************************************)
(* The labels L are a tree of the array w.                                 *)
(***************************************************************************)
TreeOf(n, L, w) ==
  /\ Labelled(n, L)
  /\ w \in Seq(Value) /\ Len(w) = n
  /\ \E E : /\ StandsFor(n, L, E)
            /\ n # 0 => \A p \in 1 .. n : w[p] = E[Root(n)][p]

LEMMA RootOfSegments ==
  ASSUME NEW n \in Nat, n # 0
  PROVE  /\ Root(n) \in Segments(n) /\ Root(n)[1] = 1 /\ Root(n)[2] = n
         /\ 0 \in Int
<1> QED BY SegmentsClosed DEF Root

LEMMA TreeElements ==
  ASSUME NEW n \in Nat, n # 0, NEW L, NEW w, TreeOf(n, L, w), NEW g, ReadsExactly(n, L, g)
  PROVE  g[<<Root(n), 0>>] = w
<1>1. PICK E : StandsFor(n, L, E) /\ \A p \in 1 .. n : w[p] = E[Root(n)][p]
  BY DEF TreeOf
<1>2. Labelled(n, L) /\ w \in Seq(Value) /\ Len(w) = n
  BY DEF TreeOf
<1>3. PICK c \in Segments(n) : c = Root(n) /\ c[1] = 1 /\ c[2] = n
  BY RootOfSegments
<1>4. PICK s : s = g[<<c, 0>>]
  OBVIOUS
<1>5. /\ s \in Seq(Int) /\ Len(s) = n - 1 + 1
      /\ \A p \in 1 .. n : s[p - 1 + 1] = 0 + E[c][p]
  <2>1. ElementsRead(n, E, g)
    BY <1>1, <1>2, ExactReading
  <2>2. /\ g[<<c, 0>>] \in Seq(Int) /\ Len(g[<<c, 0>>]) = c[2] - c[1] + 1
        /\ \A p \in c[1] .. c[2] : g[<<c, 0>>][p - c[1] + 1] = 0 + E[c][p]
    BY <2>1 DEF ElementsRead
  <2> QED BY <1>3, <1>4, <2>2
<1>6. \A p \in 1 .. n : s[p] = w[p]
  <2>1. ASSUME NEW p \in 1 .. n PROVE s[p] = w[p]
    <3>1. p - 1 + 1 = p
      OBVIOUS
    <3>2. E[c][p] \in Int
      BY <1>1, <1>3 DEF StandsFor
    <3> QED BY <1>1, <1>3, <1>5, <3>1, <3>2
  <2> QED BY <2>1
<1>7. s = [p \in 1 .. n |-> s[p]] /\ w = [p \in 1 .. n |-> w[p]]
  BY <1>2, <1>5, LenProperties
<1>8. s = w
  BY <1>6, <1>7
<1> QED BY <1>3, <1>4, <1>8

LEMMA TreeLeaves ==
  ASSUME NEW n \in Nat, n # 0, NEW L, NEW w, TreeOf(n, L, w), NEW g, ReadsLeaves(n, L, g)
  PROVE  /\ g[<<Root(n), 0>>] \in Seq(Outcome) /\ Len(g[<<Root(n), 0>>]) = n
         /\ \A p \in 1 .. n : g[<<Root(n), 0>>][p] \in {Overflow, w[p]}
<1>1. PICK E : StandsFor(n, L, E) /\ \A p \in 1 .. n : w[p] = E[Root(n)][p]
  BY DEF TreeOf
<1>2. Labelled(n, L) /\ w \in Seq(Value) /\ Len(w) = n
  BY DEF TreeOf
<1>3. PICK c \in Segments(n) : c = Root(n) /\ c[1] = 1 /\ c[2] = n
  BY RootOfSegments
<1>4. PICK s : s = g[<<c, 0>>]
  OBVIOUS
<1>5. /\ s \in Seq(Outcome) /\ Len(s) = n - 1 + 1
      /\ \A p \in 1 .. n : s[p - 1 + 1] \in {Overflow, 0 + E[c][p]}
  <2>1. \A d \in Segments(n) : \A h \in Int :
          /\ g[<<d, h>>] \in Seq(Outcome) /\ Len(g[<<d, h>>]) = d[2] - d[1] + 1
          /\ \A p \in d[1] .. d[2] : g[<<d, h>>][p - d[1] + 1] \in {Overflow, h + E[d][p]}
    BY <1>1, <1>2, LeavesReading, Zenon
  <2>2. /\ g[<<c, 0>>] \in Seq(Outcome) /\ Len(g[<<c, 0>>]) = c[2] - c[1] + 1
        /\ \A p \in c[1] .. c[2] : g[<<c, 0>>][p - c[1] + 1] \in {Overflow, 0 + E[c][p]}
    BY <2>1
  <2> QED BY <1>3, <1>4, <2>2
<1>6. ASSUME NEW p \in 1 .. n PROVE s[p] \in {Overflow, w[p]}
  <2>1. p - 1 + 1 = p
    OBVIOUS
  <2>2. E[c][p] \in Int
    BY <1>1, <1>3 DEF StandsFor
  <2> QED BY <1>1, <1>3, <1>5, <2>1, <2>2
<1>7. Len(s) = n
  BY <1>5
<1> QED BY <1>3, <1>4, <1>5, <1>6, <1>7

LEMMA TreeSum ==
  ASSUME NEW n \in Nat, NEW L, NEW w, TreeOf(n, L, w),
         NEW left \in 1 .. n, NEW right \in left .. n,
         NEW g, ReadsSums(n, L, left, right, g)
  PROVE  g[<<Root(n), 0>>] \in {ExactSum(w, left, right), Overflow}
<1>0. n # 0
  OBVIOUS
<1>1. PICK E : StandsFor(n, L, E) /\ \A p \in 1 .. n : w[p] = E[Root(n)][p]
  BY <1>0 DEF TreeOf
<1>2. Labelled(n, L)
  BY DEF TreeOf
<1>3. PICK c \in Segments(n) : c = Root(n) /\ c[1] = 1 /\ c[2] = n
  BY <1>0, RootOfSegments
<1>4. \A p \in 1 .. n : w[p] \in Int /\ E[c][p] \in Int
  BY <1>1, <1>3 DEF StandsFor
<1>5. PICK S : RunningSums(S, w, n)
  BY <1>4, PrefixSums
<1>6. CarriedBy(w, E, c, 0)
  BY <1>1, <1>3, <1>4 DEF CarriedBy
<1>7. ~Disjoint(left, right, c) /\ Upto(right, c) = right /\ From(left, c) = left
  BY <1>3 DEF Disjoint, Upto, From
<1>8. g[<<c, 0>>] # Overflow => g[<<c, 0>>] = S[right] - S[left - 1]
  BY <1>1, <1>2, <1>5, <1>6, <1>7, SumsReading
<1>9. ExactSum(w, left, right) = S[right] - S[left - 1]
  BY <1>5, ExactSumIs
<1> QED BY <1>3, <1>8, <1>9

LEMMA TreeUpdated ==
  ASSUME NEW n \in Nat, n # 0, NEW L, NEW w, TreeOf(n, L, w),
         NEW M, NEW D, NEW left \in Int, NEW right \in Int, NEW value \in Value,
         Updates(n, L, M, D, left, right, value), Labelled(n, M),
         NEW next, next = AddToRange(w, left, right, value), next \in Seq(Value)
  PROVE  TreeOf(n, M, next)
<1>1. PICK E : StandsFor(n, L, E) /\ \A p \in 1 .. n : w[p] = E[Root(n)][p]
  BY DEF TreeOf
<1>2. Labelled(n, L) /\ w \in Seq(Value) /\ Len(w) = n
  BY DEF TreeOf
<1>3. PICK c \in Segments(n) : c = Root(n) /\ c[1] = 1 /\ c[2] = n
  BY RootOfSegments
<1>4. PICK F : F = Raised(n, E, D, left, right, value)
  OBVIOUS
<1>5. StandsFor(n, M, F)
  BY <1>1, <1>2, <1>4, UpdatedTree, ValueFacts
<1>6. Len(next) = n /\ \A p \in 1 .. n : next[p] \in Value
  BY <1>2, AddToRangeFacts, ElementOfSeq
<1>7. ASSUME NEW p \in 1 .. n PROVE next[p] = F[c][p]
  <2>1. next[p] = w[p] + IF p \in left .. right THEN value ELSE 0
    BY <1>2, <1>6, AddToRangeFacts
  <2>2. c \in D
    BY <1>3 DEF Updates
  <2>3. F[c][p] = E[c][p] + IF c \in D /\ p \in left .. right THEN value ELSE 0
    BY <1>3, <1>4 DEF Raised
  <2> QED BY <1>1, <1>3, <2>1, <2>2, <2>3
<1> QED BY <1>3, <1>5, <1>6, <1>7 DEF TreeOf

LEMMA UntaggedTreeOf ==
  ASSUME NEW n \in Nat, NEW L, Labelled(n, L), NEW w \in Seq(Value), Len(w) = n,
         \A c \in Segments(n) : IF IsLeaf(c) THEN L[c].sum = w[c[1]] ELSE L[c].lazy = 0
  PROVE  TreeOf(n, L, w)
<1>1. PICK E : E = [c \in Segments(n) |-> [p \in c[1] .. c[2] |-> w[p]]]
  OBVIOUS
<1>2. StandsFor(n, L, E)
  BY <1>1, UntaggedTree
<1>3. n # 0 => \A p \in 1 .. n : w[p] = E[Root(n)][p]
  BY <1>1, RootOfSegments
<1> QED BY <1>2, <1>3 DEF TreeOf

LEMMA SameLabels ==
  ASSUME NEW n \in Nat, NEW L, NEW w, TreeOf(n, L, w), NEW M,
         \A c \in Segments(n) : M[c].sum = L[c].sum /\ M[c].lazy = L[c].lazy
  PROVE  TreeOf(n, M, w)
<1>1. PICK E : /\ StandsFor(n, L, E)
               /\ n # 0 => \A p \in 1 .. n : w[p] = E[Root(n)][p]
  BY DEF TreeOf
<1>2. Labelled(n, L) /\ w \in Seq(Value) /\ Len(w) = n
  BY DEF TreeOf
<1>3. StandsFor(n, M, E)
  BY <1>1 DEF StandsFor
<1>4. Labelled(n, M)
  <2>1. ASSUME NEW c \in Segments(n), ~IsLeaf(c)
        PROVE  SumOK(M[c], M[LeftHalf(c)], M[RightHalf(c)], Length(c))
    <3>1. LeftHalf(c) \in Segments(n) /\ RightHalf(c) \in Segments(n)
      BY <1>2, <2>1, LabelFacts
    <3>2. SumOK(L[c], L[LeftHalf(c)], L[RightHalf(c)], Length(c))
      BY <1>2, <2>1 DEF Labelled
    <3> QED BY <3>1, <3>2 DEF SumOK
  <2> QED BY <1>2, <2>1 DEF Labelled
<1> QED BY <1>1, <1>2, <1>3, <1>4 DEF TreeOf

=============================================================================
