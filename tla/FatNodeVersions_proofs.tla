------------------------ MODULE FatNodeVersions_proofs ------------------------
(***************************************************************************)
(* What the published versions of the fat-node tree stand for.  A version  *)
(* is read at its stamp: a node placed on every segment of the partition,  *)
(* whose states at that stamp are the labels of a tree of one array.  An   *)
(* update only appends states with a later stamp, so it cannot disturb a   *)
(* published version, and what it publishes is the reference's update of   *)
(* the latest one.                                                         *)
(***************************************************************************)
EXTENDS FatNodePersistentSegmentTree_proofs

-----------------------------------------------------------------------------
(***************************************************************************)
(* The state of a node at a version.                                       *)
(***************************************************************************)
Stamps(node, v) == {k \in DOMAIN node : node[k].version <= v}

LEMMA StampsOrdered ==
  ASSUME TypeOK, HistoriesOK, NEW i \in DOMAIN nodes, NEW v \in Nat,
         nodes[i][1].version <= v
  PROVE  /\ Max(Stamps(nodes[i], v)) \in Stamps(nodes[i], v)
         /\ \A k \in Stamps(nodes[i], v) : Max(Stamps(nodes[i], v)) >= k
         /\ StateAt(nodes[i], v) = nodes[i][Max(Stamps(nodes[i], v))]
         /\ LatestState(nodes[i]).version <= v => StateAt(nodes[i], v) = LatestState(nodes[i])
<1> DEFINE S == Stamps(nodes[i], v)
<1>1. PICK n \in 1 .. 3 :
        /\ n = Len(nodes[i]) /\ DOMAIN nodes[i] = 1 .. n
        /\ LatestState(nodes[i]) = nodes[i][n]
  BY NodeFacts DEF HISTORY_CAPACITY
<1>2. S \subseteq 1 .. n /\ 1 \in S
  BY <1>1 DEF Stamps
<1>3. \E m \in S : \A k \in S : m >= k
  <2> HIDE DEF S
  <2>1. CASE 3 \in S
    BY <1>2, <2>1
  <2>2. CASE 3 \notin S /\ 2 \in S
    BY <1>2, <2>2
  <2>3. CASE 3 \notin S /\ 2 \notin S
    BY <1>2, <2>3
  <2> QED BY <2>1, <2>2, <2>3
<1>4. Max(S) \in S /\ \A k \in S : Max(S) >= k
  <2> HIDE DEF S
  <2> QED BY <1>3 DEF Max
<1>5. StateAt(nodes[i], v) = nodes[i][Max(S)]
  BY DEF StateAt, Stamps
<1>6. ASSUME LatestState(nodes[i]).version <= v
      PROVE  StateAt(nodes[i], v) = LatestState(nodes[i])
  <2>1. n \in S
    BY <1>1, <1>6 DEF Stamps
  <2>2. Max(S) = n
    <3> HIDE DEF S
    <3> QED BY <1>2, <1>4, <2>1
  <2> QED BY <1>1, <1>5, <2>2
<1> QED BY <1>4, <1>5, <1>6

LEMMA StateAtFacts ==
  ASSUME TypeOK, HistoriesOK, NEW i \in DOMAIN nodes, NEW v \in Nat,
         nodes[i][1].version <= v
  PROVE  /\ StateAt(nodes[i], v) \in Modification
         /\ StateAt(nodes[i], v).version <= v
         /\ LiveAt(i, v) /\ Seen(i, v) = StateAt(nodes[i], v)
<1>1. Max(Stamps(nodes[i], v)) \in Stamps(nodes[i], v)
      /\ StateAt(nodes[i], v) = nodes[i][Max(Stamps(nodes[i], v))]
  BY StampsOrdered
<1>2. PICK k \in DOMAIN nodes[i] : StateAt(nodes[i], v) = nodes[i][k] /\ nodes[i][k].version <= v
  BY <1>1 DEF Stamps
<1> QED BY <1>2, NodeFacts DEF LiveAt, Seen

LEMMA SeenType ==
  ASSUME TypeOK, HistoriesOK, NEW i, NEW v \in Nat
  PROVE  Seen(i, v) \in Modification
<1>1. [version |-> 0, leftChild |-> 0, rightChild |-> 0, sum |-> 0, lazy |-> 0]
        \in Modification
  BY ValueFacts DEF Modification
<1>2. (CHOOSE state \in Modification : TRUE) \in Modification
  BY <1>1
<1> QED BY <1>2, StateAtFacts DEF Seen, LiveAt

(* Between updates a node's latest state is the one the latest version has. *)
LEMMA LatestIsLastVersion ==
  ASSUME TypeOK, HistoriesOK, NEW i \in DOMAIN nodes, i \notin Written,
         nodes[i][1].version <= Len(roots)
  PROVE  StateAt(nodes[i], Len(roots)) = LatestState(nodes[i])
<1>1. LatestState(nodes[i]).version \in Nat /\ Len(roots) \in Nat
  BY NodeFacts, ModificationFacts
<1>2. LatestState(nodes[i]).version <= Len(roots)
  BY <1>1 DEF Written
<1> QED BY <1>1, <1>2, StampsOrdered

-----------------------------------------------------------------------------
(***************************************************************************)
(* Recursions over the states S that a reading finds: those of a version,  *)
(* or the latest ones.                                                     *)
(***************************************************************************)
Asked(S, tags, V, base, join) ==
  /\ S \in [Nat -> Modification] /\ tags \in [Visit -> Int] /\ base \in [Visit -> V]
  /\ join \in [Visit \X V \X V -> V]

Answered(f, S, tags, V, stop, base, join) ==
  /\ f \in [Visit -> V]
  /\ \A at \in Visit :
       f[at] = IF IsLeaf(at.segment) \/ at \in stop THEN base[at]
               ELSE join[<<at, f[LeftVisit(at, S[at.node], tags[at])],
                               f[RightVisit(at, S[at.node], tags[at])]>>]

LEMMA StateVisits ==
  ASSUME arraySize \in Nat, NEW S \in [Nat -> Modification], NEW at \in Visit, NEW k \in Int
  PROVE  /\ at.segment \in Interval(arraySize) /\ at.node \in Nat /\ at.inherited \in Int
         /\ S[at.node] \in Modification
         /\ LeftVisit(at, S[at.node], k).segment = LeftHalf(at.segment)
         /\ RightVisit(at, S[at.node], k).segment = RightHalf(at.segment)
         /\ ~IsLeaf(at.segment) =>
              /\ LeftVisit(at, S[at.node], k) \in Visit
              /\ RightVisit(at, S[at.node], k) \in Visit
<1>1. at.segment \in Interval(arraySize) /\ at.node \in Nat /\ at.inherited \in Int
  BY DEF Visit
<1>2. S[at.node] \in Modification
  BY <1>1
<1>3. S[at.node].leftChild \in Nat /\ S[at.node].rightChild \in Nat
  BY <1>2, ModificationFacts
<1>4. ~IsLeaf(at.segment) => /\ LeftHalf(at.segment) \in Interval(arraySize)
                             /\ RightHalf(at.segment) \in Interval(arraySize)
  BY <1>1, Halves
<1> QED BY <1>1, <1>2, <1>3, <1>4 DEF LeftVisit, RightVisit, Visit

LEMMA StateRecursion ==
  ASSUME arraySize \in Nat
  PROVE  \A S, tags, V, stop, base, join :
           Asked(S, tags, V, base, join) =>
             \E f : Answered(f, S, tags, V, stop, base, join)
<1> SUFFICES ASSUME NEW S, NEW tags, NEW V, NEW stop, NEW base, NEW join,
                    Asked(S, tags, V, base, join)
             PROVE  \E f : Answered(f, S, tags, V, stop, base, join)
  OBVIOUS
<1> DEFINE toLeft == [at \in Visit |-> LeftVisit(at, S[at.node], tags[at])]
           toRight == [at \in Visit |-> RightVisit(at, S[at.node], tags[at])]
<1>1. /\ tags \in [Visit -> Int] /\ base \in [Visit -> V] /\ S \in [Nat -> Modification]
      /\ join \in [Visit \X V \X V -> V] /\ arraySize \in Nat
  BY DEF Asked
<1>2. \A at \in Visit : /\ toLeft[at] = LeftVisit(at, S[at.node], tags[at])
                        /\ toRight[at] = RightVisit(at, S[at.node], tags[at])
  OBVIOUS
<1> HIDE DEF toLeft, toRight
<1>3. \A at \in Visit :
        /\ at.segment \in Interval(arraySize)
        /\ ~IsLeaf(at.segment) =>
             /\ toLeft[at] \in Visit /\ toLeft[at].segment = LeftHalf(at.segment)
             /\ toRight[at] \in Visit /\ toRight[at].segment = RightHalf(at.segment)
  <2> TAKE at \in Visit
  <2>1. PICK k \in Int : k = tags[at]
    BY <1>1
  <2>2. /\ toLeft[at] = LeftVisit(at, S[at.node], k)
        /\ toRight[at] = RightVisit(at, S[at.node], k)
    BY <1>2, <2>1
  <2>3. /\ at.segment \in Interval(arraySize)
        /\ LeftVisit(at, S[at.node], k).segment = LeftHalf(at.segment)
        /\ RightVisit(at, S[at.node], k).segment = RightHalf(at.segment)
        /\ ~IsLeaf(at.segment) =>
             /\ LeftVisit(at, S[at.node], k) \in Visit
             /\ RightVisit(at, S[at.node], k) \in Visit
    BY <1>1, StateVisits
  <2> QED BY <2>2, <2>3
<1>4. NodeRecursion(arraySize, Visit, V, stop, base, toLeft, toRight, join)
  BY <1>1, <1>3 DEF NodeRecursion, Visits
<1>5. PICK f : NodeSolution(f, Visit, V, stop, base, toLeft, toRight, join)
  BY <1>4, NodeRecursionSolved
<1>6. \A at \in Visit :
        f[at] = IF IsLeaf(at.segment) \/ at \in stop THEN base[at]
                ELSE join[<<at, f[LeftVisit(at, S[at.node], tags[at])],
                                f[RightVisit(at, S[at.node], tags[at])]>>]
  BY <1>2, <1>5 DEF NodeSolution
<1> QED BY <1>5, <1>6 DEF NodeSolution, Answered

-----------------------------------------------------------------------------
(***************************************************************************)
(* A tree in the arena: p places a node on every segment of the partition, *)
(* and the states S that are read there link the nodes accordingly.        *)
(***************************************************************************)
Linked(p, S) ==
  \A c \in Segments(arraySize) : ~IsLeaf(c) =>
    S[p[c]].leftChild = p[LeftHalf(c)] /\ S[p[c]].rightChild = p[RightHalf(c)]

LabelsOf(p, S) == [c \in Segments(arraySize) |-> S[p[c]]]

Readable(p, S, root, w) ==
  /\ S \in [Nat -> Modification]
  /\ p \in [Segments(arraySize) -> Nat]
  /\ Linked(p, S)
  /\ arraySize # 0 => p[Root(arraySize)] = root
  /\ TreeOf(arraySize, LabelsOf(p, S), w)

VisitAt(p, c, h) == [node |-> p[c], segment |-> c, inherited |-> h]

LEMMA PlacedVisits ==
  ASSUME arraySize \in Nat, NEW S, NEW p, NEW root, NEW w, Readable(p, S, root, w),
         NEW c \in Segments(arraySize), NEW h \in Int
  PROVE  /\ VisitAt(p, c, h) \in Visit
         /\ VisitAt(p, c, h).node = p[c] /\ VisitAt(p, c, h).segment = c
         /\ VisitAt(p, c, h).inherited = h
         /\ p[c] \in Nat /\ S[p[c]] \in Modification /\ LabelsOf(p, S)[c] = S[p[c]]
         /\ c \in Interval(arraySize) /\ Length(c) \in Nat
         /\ ~IsLeaf(c) => \A k \in Int :
              /\ LeftHalf(c) \in Segments(arraySize) /\ RightHalf(c) \in Segments(arraySize)
              /\ LeftVisit(VisitAt(p, c, h), S[p[c]], k) = VisitAt(p, LeftHalf(c), k)
              /\ RightVisit(VisitAt(p, c, h), S[p[c]], k) = VisitAt(p, RightHalf(c), k)
<1>1. arraySize > 0 /\ c \in Interval(arraySize) /\ Closed(Segments(arraySize))
  <2>1. arraySize # 0
    BY DEF Segments
  <2> QED BY <2>1, SegmentsClosed
<1>2. p[c] \in Nat /\ S[p[c]] \in Modification /\ LabelsOf(p, S)[c] = S[p[c]]
  BY DEF Readable, LabelsOf
<1>3. /\ VisitAt(p, c, h) \in Visit
      /\ VisitAt(p, c, h).node = p[c] /\ VisitAt(p, c, h).segment = c
      /\ VisitAt(p, c, h).inherited = h
  BY <1>1, <1>2 DEF VisitAt, Visit
<1>4. ASSUME ~IsLeaf(c), NEW k \in Int
      PROVE  /\ LeftHalf(c) \in Segments(arraySize) /\ RightHalf(c) \in Segments(arraySize)
             /\ LeftVisit(VisitAt(p, c, h), S[p[c]], k) = VisitAt(p, LeftHalf(c), k)
             /\ RightVisit(VisitAt(p, c, h), S[p[c]], k) = VisitAt(p, RightHalf(c), k)
  <2>1. S[p[c]].leftChild = p[LeftHalf(c)] /\ S[p[c]].rightChild = p[RightHalf(c)]
    BY <1>4 DEF Readable, Linked
  <2> QED BY <1>1, <1>3, <1>4, <2>1 DEF Closed, LeftVisit, RightVisit, VisitAt
<1>5. Length(c) \in Nat
  BY <1>1, Halves
<1> QED BY <1>1, <1>2, <1>3, <1>4, <1>5

LEMMA RootVisitAt ==
  ASSUME arraySize \in Nat, arraySize # 0, NEW S, NEW p, NEW root, NEW w,
         Readable(p, S, root, w)
  PROVE  RootVisit(root) = VisitAt(p, Root(arraySize), 0)
BY DEF Readable, RootVisit, VisitAt

(* The exact elements of a version. *)
LEMMA ElementsOf ==
  ASSUME arraySize \in Nat, arraySize # 0, NEW S, NEW p, NEW root, NEW w,
         Readable(p, S, root, w), NEW f,
         \A at \in Visit :
           f[at] = IF IsLeaf(at.segment) THEN <<at.inherited + S[at.node].sum>>
                   ELSE f[LeftVisit(at, S[at.node], at.inherited + S[at.node].lazy)]
                        \o f[RightVisit(at, S[at.node], at.inherited + S[at.node].lazy)]
  PROVE  f[RootVisit(root)] = w
<1> DEFINE L == LabelsOf(p, S)
<1>1. PICK g : g = [x \in Segments(arraySize) \X Int |-> f[VisitAt(p, x[1], x[2])]]
  OBVIOUS
<1>2. \A c \in Segments(arraySize) : \A h \in Int : g[<<c, h>>] = f[VisitAt(p, c, h)]
  BY <1>1
<1>3. ASSUME NEW c \in Segments(arraySize), NEW h \in Int
      PROVE  g[<<c, h>>] = IF IsLeaf(c) THEN <<h + L[c].sum>>
                           ELSE g[<<LeftHalf(c), h + L[c].lazy>>]
                                \o g[<<RightHalf(c), h + L[c].lazy>>]
  <2>1. PICK at \in Visit : /\ at = VisitAt(p, c, h) /\ at.node = p[c]
                            /\ at.segment = c /\ at.inherited = h
    BY PlacedVisits
  <2>2. L[c] = S[at.node] /\ S[at.node] \in Modification
    BY <2>1, PlacedVisits
  <2>3. PICK k \in Int : k = h + L[c].lazy
    <3>1. L[c].lazy \in Int
      BY <2>2, ModificationFacts, ValueFacts
    <3> QED BY <3>1
  <2>4. f[at] = IF IsLeaf(c) THEN <<h + L[c].sum>>
                ELSE f[LeftVisit(at, S[at.node], k)] \o f[RightVisit(at, S[at.node], k)]
    BY <2>1, <2>2, <2>3
  <2>5. ASSUME ~IsLeaf(c)
        PROVE  /\ f[LeftVisit(at, S[at.node], k)] = g[<<LeftHalf(c), k>>]
               /\ f[RightVisit(at, S[at.node], k)] = g[<<RightHalf(c), k>>]
    <3>1. /\ LeftHalf(c) \in Segments(arraySize) /\ RightHalf(c) \in Segments(arraySize)
          /\ LeftVisit(at, S[at.node], k) = VisitAt(p, LeftHalf(c), k)
          /\ RightVisit(at, S[at.node], k) = VisitAt(p, RightHalf(c), k)
      BY <2>1, <2>5, PlacedVisits
    <3> QED BY <1>2, <3>1
  <2>6. g[<<c, h>>] = f[at]
    BY <1>2, <2>1
  <2> HIDE DEF L
  <2> QED BY <2>3, <2>4, <2>5, <2>6
<1>4. ReadsExactly(arraySize, L, g)
  <2> HIDE DEF L
  <2> QED BY <1>3 DEF ReadsExactly
<1>5. g[<<Root(arraySize), 0>>] = w
  BY <1>4, TreeElements DEF Readable
<1>6. f[RootVisit(root)] = g[<<Root(arraySize), 0>>]
  BY <1>2, RootVisitAt, RootOfSegments
<1> QED BY <1>5, <1>6

(* What materialize returns. *)
LEMMA LeavesOf ==
  ASSUME arraySize \in Nat, arraySize # 0, NEW S, NEW p, NEW root, NEW w,
         Readable(p, S, root, w), NEW f,
         \A at \in Visit :
           f[at] = IF IsLeaf(at.segment) THEN <<Apply(at.inherited, S[at.node].sum, 1)>>
                   ELSE f[LeftVisit(at, S[at.node], CheckedAdd(at.inherited, S[at.node].lazy))]
                        \o f[RightVisit(at, S[at.node],
                                        CheckedAdd(at.inherited, S[at.node].lazy))]
  PROVE  /\ f[RootVisit(root)] \in Seq(Outcome) /\ Len(f[RootVisit(root)]) = arraySize
         /\ \A q \in 1 .. arraySize : f[RootVisit(root)][q] \in {Overflow, w[q]}
<1> DEFINE L == LabelsOf(p, S)
<1>1. PICK g : g = [x \in Segments(arraySize) \X Int |-> f[VisitAt(p, x[1], x[2])]]
  OBVIOUS
<1>2. \A c \in Segments(arraySize) : \A h \in Int : g[<<c, h>>] = f[VisitAt(p, c, h)]
  BY <1>1
<1>3. ASSUME NEW c \in Segments(arraySize), NEW h \in Int
      PROVE  g[<<c, h>>] = IF IsLeaf(c) THEN <<Apply(h, L[c].sum, 1)>>
                           ELSE g[<<LeftHalf(c), CheckedAdd(h, L[c].lazy)>>]
                                \o g[<<RightHalf(c), CheckedAdd(h, L[c].lazy)>>]
  <2>1. PICK at \in Visit : /\ at = VisitAt(p, c, h) /\ at.node = p[c]
                            /\ at.segment = c /\ at.inherited = h
    BY PlacedVisits
  <2>2. L[c] = S[at.node] /\ S[at.node] \in Modification
    BY <2>1, PlacedVisits
  <2>3. PICK k \in Int : k = CheckedAdd(h, L[c].lazy)
    <3>1. L[c].lazy \in Int
      BY <2>2, ModificationFacts, ValueFacts
    <3> QED BY <3>1, CheckedAddInt
  <2>4. f[at] = IF IsLeaf(c) THEN <<Apply(h, L[c].sum, 1)>>
                ELSE f[LeftVisit(at, S[at.node], k)] \o f[RightVisit(at, S[at.node], k)]
    BY <2>1, <2>2, <2>3
  <2>5. ASSUME ~IsLeaf(c)
        PROVE  /\ f[LeftVisit(at, S[at.node], k)] = g[<<LeftHalf(c), k>>]
               /\ f[RightVisit(at, S[at.node], k)] = g[<<RightHalf(c), k>>]
    <3>1. /\ LeftHalf(c) \in Segments(arraySize) /\ RightHalf(c) \in Segments(arraySize)
          /\ LeftVisit(at, S[at.node], k) = VisitAt(p, LeftHalf(c), k)
          /\ RightVisit(at, S[at.node], k) = VisitAt(p, RightHalf(c), k)
      BY <2>1, <2>5, PlacedVisits
    <3> QED BY <1>2, <3>1
  <2>6. g[<<c, h>>] = f[at]
    BY <1>2, <2>1
  <2> HIDE DEF L
  <2> QED BY <2>3, <2>4, <2>5, <2>6
<1>4. ReadsLeaves(arraySize, L, g)
  <2> HIDE DEF L
  <2> QED BY <1>3 DEF ReadsLeaves
<1>5. PICK s : s = g[<<Root(arraySize), 0>>]
  OBVIOUS
<1>6. s \in Seq(Outcome) /\ Len(s) = arraySize /\ \A q \in 1 .. arraySize : s[q] \in {Overflow, w[q]}
  BY <1>4, <1>5, TreeLeaves DEF Readable
<1>7. f[RootVisit(root)] = s
  BY <1>2, <1>5, RootVisitAt, RootOfSegments
<1> QED BY <1>6, <1>7

(* The sum query computes. *)
LEMMA SumOf ==
  ASSUME arraySize \in Nat, NEW S, NEW p, NEW root, NEW w, Readable(p, S, root, w),
         NEW left \in 1 .. arraySize, NEW right \in left .. arraySize, NEW f,
         \A at \in Visit :
           /\ f[at] \in Int
           /\ f[at] =
                IF Disjoint(left, right, at.segment) THEN 0
                ELSE IF Covers(left, right, at.segment)
                     THEN Apply(at.inherited, S[at.node].sum, Length(at.segment))
                     ELSE CheckedAdd(
                            f[LeftVisit(at, S[at.node], CheckedAdd(at.inherited, S[at.node].lazy))],
                            f[RightVisit(at, S[at.node],
                                         CheckedAdd(at.inherited, S[at.node].lazy))])
  PROVE  f[RootVisit(root)] \in {ExactSum(w, left, right), Overflow}
<1> DEFINE L == LabelsOf(p, S)
<1>0. arraySize # 0
  OBVIOUS
<1>1. PICK g : g = [x \in Segments(arraySize) \X Int |-> f[VisitAt(p, x[1], x[2])]]
  OBVIOUS
<1>2. \A c \in Segments(arraySize) : \A h \in Int : g[<<c, h>>] = f[VisitAt(p, c, h)]
  BY <1>1
<1>3. ASSUME NEW c \in Segments(arraySize), NEW h \in Int
      PROVE  /\ g[<<c, h>>] \in Int
             /\ g[<<c, h>>] =
                  IF Disjoint(left, right, c) THEN 0
                  ELSE IF Covers(left, right, c) THEN Apply(h, L[c].sum, Length(c))
                       ELSE CheckedAdd(g[<<LeftHalf(c), CheckedAdd(h, L[c].lazy)>>],
                                       g[<<RightHalf(c), CheckedAdd(h, L[c].lazy)>>])
  <2>1. PICK at \in Visit : /\ at = VisitAt(p, c, h) /\ at.node = p[c]
                            /\ at.segment = c /\ at.inherited = h
    BY PlacedVisits
  <2>2. L[c] = S[at.node] /\ S[at.node] \in Modification
    BY <2>1, PlacedVisits
  <2>3. PICK k \in Int : k = CheckedAdd(h, L[c].lazy)
    <3>1. L[c].lazy \in Int
      BY <2>2, ModificationFacts, ValueFacts
    <3> QED BY <3>1, CheckedAddInt
  <2>4. /\ f[at] \in Int
        /\ f[at] = IF Disjoint(left, right, c) THEN 0
                   ELSE IF Covers(left, right, c) THEN Apply(h, L[c].sum, Length(c))
                   ELSE CheckedAdd(f[LeftVisit(at, S[at.node], k)],
                                   f[RightVisit(at, S[at.node], k)])
    BY <2>1, <2>2, <2>3
  <2>5. ~Disjoint(left, right, c) /\ ~Covers(left, right, c) => ~IsLeaf(c)
    BY LeafCovered, PlacedVisits
  <2>6. ASSUME ~IsLeaf(c)
        PROVE  /\ f[LeftVisit(at, S[at.node], k)] = g[<<LeftHalf(c), k>>]
               /\ f[RightVisit(at, S[at.node], k)] = g[<<RightHalf(c), k>>]
    <3>1. /\ LeftHalf(c) \in Segments(arraySize) /\ RightHalf(c) \in Segments(arraySize)
          /\ LeftVisit(at, S[at.node], k) = VisitAt(p, LeftHalf(c), k)
          /\ RightVisit(at, S[at.node], k) = VisitAt(p, RightHalf(c), k)
      BY <2>1, <2>6, PlacedVisits
    <3> QED BY <1>2, <3>1
  <2>7. g[<<c, h>>] = f[at]
    BY <1>2, <2>1
  <2> HIDE DEF L
  <2> QED BY <2>3, <2>4, <2>5, <2>6, <2>7
<1>4. ReadsSums(arraySize, L, left, right, g)
  <2> HIDE DEF L
  <2> QED BY <1>3 DEF ReadsSums
<1>5. g[<<Root(arraySize), 0>>] \in {ExactSum(w, left, right), Overflow}
  BY <1>4, TreeSum DEF Readable
<1>6. f[RootVisit(root)] = g[<<Root(arraySize), 0>>]
  BY <1>0, <1>2, RootVisitAt, RootOfSegments
<1> QED BY <1>5, <1>6

-----------------------------------------------------------------------------
(***************************************************************************)
(* The invariant: every version is a tree of an array, read at its stamp;  *)
(* the latest one is in the domain of the guard, and so is what a running  *)
(* call makes of it.                                                       *)
(***************************************************************************)
Placed(p) ==
  /\ p \in [Segments(arraySize) -> DOMAIN nodes]
  /\ \A c, d \in Segments(arraySize) : p[c] = p[d] => c = d

StatesAt(v) == [i \in Nat |-> Seen(i, v)]

LatestStates == [i \in Nat |-> Latest(i)]

VersionOK(v, p, w) ==
  /\ Placed(p)
  /\ \A c \in Segments(arraySize) : LiveAt(p[c], v)
  /\ Readable(p, StatesAt(v), roots[v], w)

(***************************************************************************)
(* A running update: q places a node on every segment, the one of p where  *)
(* no state has been recorded.  Recorded states differ from those of the   *)
(* latest version as the update asks; the segments of active frames are    *)
(* still to be done, the others hold together.                             *)
(***************************************************************************)
NodeUpdated(p, q, c) ==
  IF q[c] \in Written
  THEN /\ ~Disjoint(call.left, call.right, c)
       /\ Latest(q[c]).lazy = Seen(p[c], Len(roots)).lazy
                              + IF Covers(call.left, call.right, c) THEN call.value ELSE 0
       /\ IsLeaf(c) => Latest(q[c]).sum = Seen(p[c], Len(roots)).sum + call.value
  ELSE q[c] = p[c]

HalvesUpdated(q, c) ==
  /\ Latest(q[c]).leftChild = q[LeftHalf(c)]
  /\ Latest(q[c]).rightChild = q[RightHalf(c)]
  /\ SumOK(Latest(q[c]), Latest(q[LeftHalf(c)]), Latest(q[RightHalf(c)]), Length(c))
  /\ \A side \in Sides :
       q[Half(c, side)] \in Written <=>
         /\ q[c] \in Written /\ ~Covers(call.left, call.right, c)
         /\ ~Disjoint(call.left, call.right, Half(c, side))

FrameLinked(q, f) ==
  /\ f.segment \in Segments(arraySize) /\ f.node = q[f.segment]
  /\ ~IsLeaf(f.segment) => \A side \in Sides :
       /\ Child(f, side) = q[Half(f.segment, side)]
       /\ q[Half(f.segment, side)] \in Written <=>
            /\ side \notin f.todo /\ ~Covers(call.left, call.right, f.segment)
            /\ ~Disjoint(call.left, call.right, Half(f.segment, side))

OnStack == {stack[k].segment : k \in DOMAIN stack}

UpdateTree(p, q) ==
  /\ Placed(q)
  /\ \A c \in Segments(arraySize) :
       /\ NodeUpdated(p, q, c)
       /\ c \notin OnStack /\ ~IsLeaf(c) => HalvesUpdated(q, c)
  /\ \A k \in DOMAIN stack : FrameLinked(q, stack[k])
  /\ stack = <<>> => call.root = q[Root(arraySize)] /\ q[Root(arraySize)] \in Written

AskedFor(w) ==
  LET next == AddToRange(w, call.left, call.right, call.value)
  IN  /\ next \in Seq(Value) /\ Admissible(next) /\ MaxMagnitude(next) <= call.nextBound
      /\ Len(roots) < MaxVersions

LatestOK(p, w) ==
  /\ Admissible(w) /\ MaxMagnitude(w) <= bound
  /\ call.phase # "idle" => AskedFor(w)
  /\ call.phase = "update" => \E q : UpdateTree(p, q)

VersionsOK == \A v \in DOMAIN roots : \E p, w : VersionOK(v, p, w)

VInv ==
  /\ FInv
  /\ VersionsOK
  /\ roots # <<>> => \E p, w : VersionOK(Len(roots), p, w) /\ LatestOK(p, w)

LEMMA FInvFacts ==
  FInv => /\ TypeOK /\ HistoriesOK /\ CallOK /\ arraySize \in Nat
          /\ Len(roots) \in Nat /\ DOMAIN roots = 1 .. Len(roots)
          /\ \A v \in DOMAIN roots : v \in Nat /\ v <= Len(roots) /\ roots[v] \in Nat
<1> SUFFICES ASSUME FInv
             PROVE  /\ TypeOK /\ HistoriesOK /\ CallOK /\ arraySize \in Nat
                    /\ Len(roots) \in Nat /\ DOMAIN roots = 1 .. Len(roots)
                    /\ \A v \in DOMAIN roots : v \in Nat /\ v <= Len(roots) /\ roots[v] \in Nat
  OBVIOUS
<1>1. TypeOK /\ HistoriesOK /\ CallOK
  BY DEF FInv
<1>2. arraySize \in Nat /\ roots \in Seq(Nat)
  BY <1>1 DEF TypeOK
<1>3. Len(roots) \in Nat /\ DOMAIN roots = 1 .. Len(roots)
  BY <1>2, LenProperties
<1>4. \A v \in DOMAIN roots : v \in Nat /\ v <= Len(roots) /\ roots[v] \in Nat
  BY <1>2, <1>3, ElementOfSeq
<1> QED BY <1>1, <1>2, <1>3, <1>4

LEMMA VersionFacts ==
  ASSUME TypeOK, HistoriesOK, NEW v \in Nat, NEW p, NEW w, VersionOK(v, p, w),
         NEW c \in Segments(arraySize)
  PROVE  /\ p[c] \in DOMAIN nodes /\ p[c] \in Nat /\ nodes[p[c]][1].version <= v
         /\ LiveAt(p[c], v)
         /\ Seen(p[c], v) \in Modification /\ Seen(p[c], v) = StateAt(nodes[p[c]], v)
         /\ StatesAt(v)[p[c]] = Seen(p[c], v)
         /\ LabelsOf(p, StatesAt(v))[c] = Seen(p[c], v)
<1>1. p[c] \in DOMAIN nodes /\ LiveAt(p[c], v) /\ nodes[p[c]][1].version <= v
  BY DEF VersionOK, Placed, LiveAt
<1>2. p[c] \in Nat
  BY <1>1, NodeFacts
<1>3. Seen(p[c], v) \in Modification /\ Seen(p[c], v) = StateAt(nodes[p[c]], v)
  BY <1>1, StateAtFacts
<1> QED BY <1>1, <1>2, <1>3 DEF StatesAt, LabelsOf

LEMMA LatestReadable ==
  ASSUME TypeOK, HistoriesOK, NEW p, NEW w, Written = {}, VersionOK(Len(roots), p, w)
  PROVE  /\ Readable(p, LatestStates, roots[Len(roots)], w)
         /\ \A c \in Segments(arraySize) : Latest(p[c]) = Seen(p[c], Len(roots))
<1>0. Len(roots) \in Nat
  BY NodeFacts
<1>1. ASSUME NEW c \in Segments(arraySize)
      PROVE  /\ Latest(p[c]) = Seen(p[c], Len(roots)) /\ p[c] \in Nat
             /\ LatestStates[p[c]] = StatesAt(Len(roots))[p[c]]
  <2>1. /\ p[c] \in DOMAIN nodes /\ p[c] \in Nat /\ nodes[p[c]][1].version <= Len(roots)
        /\ Seen(p[c], Len(roots)) = StateAt(nodes[p[c]], Len(roots))
        /\ StatesAt(Len(roots))[p[c]] = Seen(p[c], Len(roots))
    BY <1>0, VersionFacts
  <2>2. StateAt(nodes[p[c]], Len(roots)) = LatestState(nodes[p[c]])
    BY <2>1, LatestIsLastVersion
  <2> QED BY <2>1, <2>2 DEF Latest, LatestStates
<1>2. LatestStates \in [Nat -> Modification]
  BY LatestFacts DEF LatestStates
<1>3. LabelsOf(p, LatestStates) = LabelsOf(p, StatesAt(Len(roots)))
  BY <1>1 DEF LabelsOf
<1>4. Linked(p, LatestStates)
  BY <1>1 DEF VersionOK, Readable, Linked
<1> QED BY <1>1, <1>2, <1>3, <1>4 DEF VersionOK, Readable

-----------------------------------------------------------------------------
(***************************************************************************)
(* What the invariant says of the published versions.                      *)
(***************************************************************************)
LEMMA ElementsAre ==
  ASSUME TypeOK, HistoriesOK, NEW v \in Nat, NEW p, NEW w, VersionOK(v, p, w)
  PROVE  Elements(v) = w
<1>0. arraySize \in Nat /\ StatesAt(v) \in [Nat -> Modification]
      /\ \A i \in Nat : StatesAt(v)[i] = Seen(i, v)
  BY SeenType DEF TypeOK, StatesAt
<1>1. CASE arraySize = 0
  <2>1. w \in Seq(Value) /\ Len(w) = 0
    BY <1>1 DEF VersionOK, Readable, TreeOf
  <2>2. w = <<>>
    BY <2>1, EmptySeq
  <2> QED BY <1>1, <2>2 DEF Elements
<1>2. CASE arraySize # 0
  <2> DEFINE Solved(f) == [at \in Visit |->
               IF IsLeaf(at.segment) THEN <<at.inherited + Seen(at.node, v).sum>>
               ELSE f[LeftVisit(at, Seen(at.node, v), at.inherited + Seen(at.node, v).lazy)]
                    \o f[RightVisit(at, Seen(at.node, v), at.inherited + Seen(at.node, v).lazy)]]
             tags == [at \in Visit |-> at.inherited + StatesAt(v)[at.node].lazy]
             base == [at \in Visit |-> <<at.inherited + StatesAt(v)[at.node].sum>>]
             join == [x \in Visit \X Seq(Int) \X Seq(Int) |-> x[2] \o x[3]]
  <2>1. \A at \in Visit : /\ at.inherited \in Int /\ at.node \in Nat
                          /\ StatesAt(v)[at.node] = Seen(at.node, v)
                          /\ Seen(at.node, v).lazy \in Int /\ Seen(at.node, v).sum \in Int
    BY <1>0, ModificationFacts, ValueFacts DEF Visit
  <2>2. Asked(StatesAt(v), tags, Seq(Int), base, join)
    <3>1. tags \in [Visit -> Int]
      BY <2>1
    <3>2. base \in [Visit -> Seq(Int)]
      <4>1. \A k \in Int : <<k>> \in Seq(Int)
        OBVIOUS
      <4>2. \A at \in Visit : at.inherited + StatesAt(v)[at.node].sum \in Int
        BY <2>1
      <4> QED BY <4>1, <4>2
    <3>3. join \in [Visit \X Seq(Int) \X Seq(Int) -> Seq(Int)]
      <4>1. \A s, t \in Seq(Int) : s \o t \in Seq(Int)
        BY ConcatProperties
      <4> QED BY <4>1
    <3> HIDE DEF tags, base, join
    <3> QED BY <1>0, <3>1, <3>2, <3>3 DEF Asked
  <2>3. PICK f : Answered(f, StatesAt(v), tags, Seq(Int), {}, base, join)
    <3> HIDE DEF tags, base, join
    <3> QED BY <1>0, <2>2, StateRecursion
  <2>4. ASSUME NEW at \in Visit
        PROVE  f[at] = Solved(f)[at]
    <3>1. f \in [Visit -> Seq(Int)]
      BY <2>3 DEF Answered
    <3>2. PICK k \in Int : k = tags[at] /\ k = at.inherited + Seen(at.node, v).lazy
      <4>1. at.inherited + Seen(at.node, v).lazy \in Int
        BY <2>1
      <4> QED BY <2>1, <4>1
    <3>3. f[at] = IF IsLeaf(at.segment) THEN base[at]
                  ELSE join[<<at, f[LeftVisit(at, Seen(at.node, v), k)],
                                  f[RightVisit(at, Seen(at.node, v), k)]>>]
      <4> HIDE DEF tags, base, join
      <4> QED BY <2>1, <2>3, <3>2 DEF Answered
    <3>4. CASE IsLeaf(at.segment)
      BY <2>1, <3>3, <3>4
    <3>5. CASE ~IsLeaf(at.segment)
      <4>1. /\ LeftVisit(at, Seen(at.node, v), k) \in Visit
            /\ RightVisit(at, Seen(at.node, v), k) \in Visit
        BY <1>0, <2>1, <3>5, StateVisits
      <4>2. /\ f[LeftVisit(at, Seen(at.node, v), k)] \in Seq(Int)
            /\ f[RightVisit(at, Seen(at.node, v), k)] \in Seq(Int)
        BY <3>1, <4>1
      <4> QED BY <3>2, <3>3, <3>5, <4>2
    <3> QED BY <3>4, <3>5
  <2>5. f = Solved(f)
    <3>1. f = [at \in Visit |-> f[at]]
      BY <2>3 DEF Answered
    <3> HIDE DEF tags, base, join
    <3> QED BY <2>4, <3>1
  <2>6. PICK g : g = Solved(g) /\ Elements(v) = g[RootVisit(roots[v])]
    BY <1>2, <2>5 DEF Elements
  <2>7. \A at \in Visit :
          g[at] = IF IsLeaf(at.segment) THEN <<at.inherited + StatesAt(v)[at.node].sum>>
                  ELSE g[LeftVisit(at, StatesAt(v)[at.node],
                                   at.inherited + StatesAt(v)[at.node].lazy)]
                       \o g[RightVisit(at, StatesAt(v)[at.node],
                                       at.inherited + StatesAt(v)[at.node].lazy)]
    <3> SUFFICES ASSUME NEW at \in Visit
                 PROVE  g[at] = IF IsLeaf(at.segment)
                                THEN <<at.inherited + StatesAt(v)[at.node].sum>>
                                ELSE g[LeftVisit(at, StatesAt(v)[at.node],
                                                 at.inherited + StatesAt(v)[at.node].lazy)]
                                     \o g[RightVisit(at, StatesAt(v)[at.node],
                                                     at.inherited + StatesAt(v)[at.node].lazy)]
      OBVIOUS
    <3>1. g[at] = Solved(g)[at]
      BY <2>6
    <3>2. StatesAt(v)[at.node] = Seen(at.node, v)
      BY <2>1
    <3> QED BY <3>1, <3>2
  <2>8. Readable(p, StatesAt(v), roots[v], w)
    BY DEF VersionOK
  <2>9. g[RootVisit(roots[v])] = w
    BY <1>0, <1>2, <2>7, <2>8, ElementsOf
  <2> QED BY <2>6, <2>9
<1> QED BY <1>1, <1>2

LEMMA VersionConsistent ==
  ASSUME TypeOK, HistoriesOK, NEW v \in Nat, NEW p, NEW w, VersionOK(v, p, w)
  PROVE  ConsistentAt(v)
<1> DEFINE Left(at) == LeftVisit(at, Seen(at.node, v), 0)
           Right(at) == RightVisit(at, Seen(at.node, v), 0)
           SumsUp(at) == Seen(at.node, v).sum
                           = Seen(Left(at).node, v).sum + Seen(Right(at).node, v).sum
                             + Seen(at.node, v).lazy * Length(at.segment)
           Good(f, at) == /\ LiveAt(at.node, v)
                          /\ ~IsLeaf(at.segment) => f[Left(at)] /\ f[Right(at)] /\ SumsUp(at)
<1>0. arraySize \in Nat /\ StatesAt(v) \in [Nat -> Modification]
      /\ \A i \in Nat : StatesAt(v)[i] = Seen(i, v)
  BY SeenType DEF TypeOK, StatesAt
<1>1. \E f : f = [at \in Visit |-> Good(f, at)]
  <2> DEFINE tags == [at \in Visit |-> 0]
             base == [at \in Visit |-> IF LiveAt(at.node, v) THEN 1 ELSE 0]
             join == [x \in Visit \X {0, 1} \X {0, 1} |->
                        IF LiveAt(x[1].node, v) /\ x[2] = 1 /\ x[3] = 1 /\ SumsUp(x[1])
                        THEN 1 ELSE 0]
  <2>1. Asked(StatesAt(v), tags, {0, 1}, base, join)
    BY <1>0 DEF Asked
  <2>2. PICK g : Answered(g, StatesAt(v), tags, {0, 1}, {}, base, join)
    <3> HIDE DEF tags, base, join
    <3> QED BY <1>0, <2>1, StateRecursion
  <2>3. PICK f : f = [at \in Visit |-> g[at] = 1]
    OBVIOUS
  <2>4. ASSUME NEW at \in Visit
        PROVE  f[at] <=> Good(f, at)
    <3>1. g \in [Visit -> {0, 1}] /\ at.node \in Nat
      BY <2>2 DEF Answered, Visit
    <3>2. tags[at] = 0 /\ StatesAt(v)[at.node] = Seen(at.node, v)
      BY <1>0, <3>1
    <3>3. g[at] = IF IsLeaf(at.segment) THEN base[at]
                  ELSE join[<<at, g[Left(at)], g[Right(at)]>>]
      <4> HIDE DEF tags, base, join
      <4> QED BY <2>2, <3>2 DEF Answered
    <3>4. f[at] <=> g[at] = 1
      BY <2>3
    <3>5. CASE IsLeaf(at.segment)
      <4>1. g[at] = IF LiveAt(at.node, v) THEN 1 ELSE 0
        BY <3>3, <3>5
      <4>2. g[at] = 1 <=> LiveAt(at.node, v)
        BY <4>1
      <4>3. Good(f, at) <=> LiveAt(at.node, v)
        BY <3>5
      <4> QED BY <3>4, <4>2, <4>3
    <3>6. CASE ~IsLeaf(at.segment)
      <4>1. Left(at) \in Visit /\ Right(at) \in Visit
        <5>1. /\ LeftVisit(at, StatesAt(v)[at.node], 0) \in Visit
              /\ RightVisit(at, StatesAt(v)[at.node], 0) \in Visit
          <6>1. 0 \in Int
            OBVIOUS
          <6> QED BY <1>0, <3>6, <6>1, StateVisits
        <5> QED BY <3>2, <5>1
      <4>2. g[Left(at)] \in {0, 1} /\ g[Right(at)] \in {0, 1}
        <5> HIDE DEF Left, Right
        <5> QED BY <3>1, <4>1
      <4>3. (f[Left(at)] <=> g[Left(at)] = 1) /\ (f[Right(at)] <=> g[Right(at)] = 1)
        <5> HIDE DEF Left, Right
        <5> QED BY <2>3, <4>1
      <4>4. g[at] = IF LiveAt(at.node, v) /\ g[Left(at)] = 1 /\ g[Right(at)] = 1 /\ SumsUp(at)
                    THEN 1 ELSE 0
        <5>1. <<at, g[Left(at)], g[Right(at)]>> \in Visit \X {0, 1} \X {0, 1}
          <6> HIDE DEF Left, Right
          <6> QED BY <4>2
        <5> HIDE DEF Left, Right, SumsUp
        <5> QED BY <3>3, <3>6, <5>1
      <4>5. g[at] = 1 <=> LiveAt(at.node, v) /\ g[Left(at)] = 1 /\ g[Right(at)] = 1 /\ SumsUp(at)
        <5> HIDE DEF Left, Right, SumsUp
        <5> QED BY <4>4
      <4> HIDE DEF Left, Right, SumsUp
      <4> QED BY <3>4, <3>6, <4>3, <4>5
    <3> QED BY <3>5, <3>6
  <2>5. f = [at \in Visit |-> Good(f, at)]
    <3>1. \A at \in Visit : f[at] = Good(f, at)
      <4> SUFFICES ASSUME NEW at \in Visit PROVE f[at] = Good(f, at)
        OBVIOUS
      <4>1. f[at] <=> Good(f, at)
        BY <2>4
      <4>2. f[at] = (g[at] = 1)
        BY <2>3
      <4> HIDE DEF Left, Right, SumsUp
      <4> QED BY <4>1, <4>2
    <3>2. f = [at \in Visit |-> f[at]]
      BY <2>3
    <3> HIDE DEF Good
    <3> QED BY <3>1, <3>2
  <2> QED BY <2>5
<1>2. PICK f : /\ f = [at \in Visit |-> Good(f, at)]
               /\ ConsistentAt(v) <=> arraySize = 0 \/ f[RootVisit(roots[v])]
  <2> DEFINE chosen == CHOOSE f : f = [at \in Visit |-> Good(f, at)]
  <2>1. chosen = [at \in Visit |-> Good(chosen, at)]
    <3> HIDE DEF Good
    <3> QED BY <1>1
  <2>2. ConsistentAt(v) <=> arraySize = 0 \/ chosen[RootVisit(roots[v])]
    BY DEF ConsistentAt
  <2> HIDE DEF chosen, Good
  <2> QED BY <2>1, <2>2
<1>3. Readable(p, StatesAt(v), roots[v], w)
  BY DEF VersionOK
<1>4. CASE arraySize # 0
  <2> DEFINE T == {c \in Segments(arraySize) : f[VisitAt(p, c, 0)]}
  <2>1. ASSUME NEW c \in Segments(arraySize),
               IsLeaf(c) \/ (LeftHalf(c) \in T /\ RightHalf(c) \in T)
        PROVE  c \in T
    <3>1. PICK at \in Visit : at = VisitAt(p, c, 0) /\ at.node = p[c] /\ at.segment = c
      BY <1>0, <1>3, PlacedVisits
    <3>2. /\ LiveAt(p[c], v) /\ Seen(p[c], v) = StatesAt(v)[p[c]]
          /\ LabelsOf(p, StatesAt(v))[c] = Seen(p[c], v)
      BY VersionFacts
    <3>3. ASSUME ~IsLeaf(c)
          PROVE  f[Left(at)] /\ f[Right(at)] /\ SumsUp(at)
      <4>1. /\ LeftHalf(c) \in Segments(arraySize) /\ RightHalf(c) \in Segments(arraySize)
            /\ Left(at) = VisitAt(p, LeftHalf(c), 0)
            /\ Right(at) = VisitAt(p, RightHalf(c), 0)
        BY <1>0, <1>3, <3>1, <3>2, <3>3, PlacedVisits
      <4>2. f[Left(at)] /\ f[Right(at)]
        BY <2>1, <3>3, <4>1
      <4>3. Left(at).node = p[LeftHalf(c)] /\ Right(at).node = p[RightHalf(c)]
        BY <4>1 DEF VisitAt
      <4>4. /\ LabelsOf(p, StatesAt(v))[LeftHalf(c)] = Seen(p[LeftHalf(c)], v)
            /\ LabelsOf(p, StatesAt(v))[RightHalf(c)] = Seen(p[RightHalf(c)], v)
        BY <4>1, VersionFacts
      <4>5. Labelled(arraySize, LabelsOf(p, StatesAt(v)))
        BY <1>3 DEF Readable, TreeOf
      <4>6. SumOK(Seen(p[c], v), Seen(p[LeftHalf(c)], v), Seen(p[RightHalf(c)], v), Length(c))
        <5>1. SumOK(LabelsOf(p, StatesAt(v))[c], LabelsOf(p, StatesAt(v))[LeftHalf(c)],
                    LabelsOf(p, StatesAt(v))[RightHalf(c)], Length(c))
          BY <3>3, <4>5 DEF Labelled
        <5> QED BY <3>2, <4>4, <5>1
      <4>7. SumsUp(at)
        BY <3>1, <4>3, <4>6 DEF SumOK
      <4> QED BY <4>2, <4>7
    <3>4. Good(f, at)
      <4> HIDE DEF Left, Right, SumsUp
      <4> QED BY <3>1, <3>2, <3>3
    <3>5. f[at] = Good(f, at)
      <4> HIDE DEF Good
      <4> QED BY <1>2, <3>1
    <3>6. f[at]
      BY <3>4, <3>5
    <3> QED BY <3>1, <3>6
  <2>2. Segments(arraySize) \subseteq T
    <3> HIDE DEF T
    <3> QED BY <1>0, <2>1, PartitionInduction
  <2>3. Root(arraySize) \in T /\ RootVisit(roots[v]) = VisitAt(p, Root(arraySize), 0)
    BY <1>0, <1>3, <1>4, <2>2, RootOfSegments, RootVisitAt
  <2> QED BY <1>2, <2>3
<1> QED BY <1>2, <1>4

LEMMA VersionSums ==
  ASSUME TypeOK, HistoriesOK, NEW v \in Nat, NEW p, NEW w, VersionOK(v, p, w),
         NEW left \in 1 .. arraySize, NEW right \in left .. arraySize
  PROVE  RangeSum(v, left, right) \in {ExactSum(w, left, right), Overflow}
<1> DEFINE S == StatesAt(v)
           L(f, at) == f[LeftVisit(at, Seen(at.node, v),
                                   CheckedAdd(at.inherited, Seen(at.node, v).lazy))]
           R(f, at) == f[RightVisit(at, Seen(at.node, v),
                                    CheckedAdd(at.inherited, Seen(at.node, v).lazy))]
           Solved(f) == [at \in Visit |->
             IF Disjoint(left, right, at.segment) THEN 0
             ELSE IF Covers(left, right, at.segment)
                  THEN Apply(at.inherited, Seen(at.node, v).sum, Length(at.segment))
                  ELSE CheckedAdd(L(f, at), R(f, at))]
           stop == {at \in Visit : \/ Disjoint(left, right, at.segment)
                                   \/ Covers(left, right, at.segment)}
           tags == [at \in Visit |-> CheckedAdd(at.inherited, S[at.node].lazy)]
           base == [at \in Visit |->
                      IF Disjoint(left, right, at.segment) THEN 0
                      ELSE Apply(at.inherited, S[at.node].sum, Length(at.segment))]
           join == [x \in Visit \X Int \X Int |-> CheckedAdd(x[2], x[3])]
<1>0. /\ arraySize \in Nat /\ S \in [Nat -> Modification] /\ \A i \in Nat : S[i] = Seen(i, v)
      /\ left \in Int /\ right \in Int
  BY SeenType DEF TypeOK, StatesAt
<1>1. \A at \in Visit :
        /\ at.inherited \in Int /\ at.node \in Nat /\ at.segment \in Interval(arraySize)
        /\ Length(at.segment) \in Nat /\ S[at.node] = Seen(at.node, v)
        /\ Seen(at.node, v).lazy \in Int /\ Seen(at.node, v).sum \in Int
  <2> TAKE at \in Visit
  <2>1. at.inherited \in Int /\ at.node \in Nat /\ at.segment \in Interval(arraySize)
    BY DEF Visit
  <2>2. S[at.node] = Seen(at.node, v) /\ Seen(at.node, v) \in Modification
    BY <1>0, <2>1, SeenType
  <2>3. Seen(at.node, v).lazy \in Int /\ Seen(at.node, v).sum \in Int
    BY <2>2, ModificationFacts, ValueFacts
  <2> QED BY <1>0, <2>1, <2>2, <2>3, Halves
<1>2. Asked(S, tags, Int, base, join)
  <2> HIDE DEF S
  <2>1. tags \in [Visit -> Int]
    BY <1>1, CheckedAddInt
  <2>2. base \in [Visit -> Int]
    <3>1. \A a, b, k : Apply(a, b, k) \in Int
      BY OutcomeFacts, CheckedAddOutcome DEF Apply
    <3>2. \A at \in Visit : Apply(at.inherited, S[at.node].sum, Length(at.segment)) \in Int
      BY <3>1
    <3> QED BY <3>2
  <2>3. join \in [Visit \X Int \X Int -> Int]
    BY CheckedAddInt
  <2> HIDE DEF tags, base, join
  <2> QED BY <1>0, <2>1, <2>2, <2>3 DEF Asked
<1>3. PICK f : Answered(f, S, tags, Int, stop, base, join)
  <2> HIDE DEF S, tags, base, join, stop
  <2> QED BY <1>0, <1>2, StateRecursion
<1>4. ASSUME NEW at \in Visit
      PROVE  f[at] = Solved(f)[at]
  <2>1. f \in [Visit -> Int]
    BY <1>3 DEF Answered
  <2>2. f[at] = IF IsLeaf(at.segment) \/ at \in stop THEN base[at]
                ELSE join[<<at, f[LeftVisit(at, S[at.node], tags[at])],
                                f[RightVisit(at, S[at.node], tags[at])]>>]
    <3> HIDE DEF S, tags, base, join, stop
    <3> QED BY <1>3 DEF Answered
  <2>3. PICK k \in Int : k = tags[at] /\ k = CheckedAdd(at.inherited, Seen(at.node, v).lazy)
    <3> HIDE DEF S
    <3> QED BY <1>1, CheckedAddInt
  <2>4. IsLeaf(at.segment) => Disjoint(left, right, at.segment) \/ Covers(left, right, at.segment)
    BY <1>0, <1>1, LeafCovered
  <2>5. CASE at \in stop
    <3> HIDE DEF S, L, R
    <3> QED BY <1>1, <2>2, <2>5
  <2>6. CASE at \notin stop
    <3>1. ~IsLeaf(at.segment) /\ ~Disjoint(left, right, at.segment)
          /\ ~Covers(left, right, at.segment)
      BY <2>4, <2>6
    <3>2. /\ LeftVisit(at, Seen(at.node, v), k) \in Visit
          /\ RightVisit(at, Seen(at.node, v), k) \in Visit
      <4> HIDE DEF S
      <4> QED BY <1>0, <1>1, <3>1, StateVisits
    <3>3. L(f, at) \in Int /\ R(f, at) \in Int
      BY <2>1, <2>3, <3>2
    <3>4. f[at] = join[<<at, L(f, at), R(f, at)>>]
      <4> HIDE DEF S, base, join, stop, tags
      <4> QED BY <1>1, <2>2, <2>3, <2>6, <3>1
    <3>5. f[at] = CheckedAdd(L(f, at), R(f, at))
      <4> HIDE DEF L, R
      <4> QED BY <3>3, <3>4
    <3> HIDE DEF S, L, R, base, join, stop, tags
    <3> QED BY <3>1, <3>5
  <2> QED BY <2>5, <2>6
<1>5. f = Solved(f) /\ f \in [Visit -> Int]
  <2>1. f \in [Visit -> Int] /\ f = [at \in Visit |-> f[at]]
    BY <1>3 DEF Answered
  <2> HIDE DEF S, L, R, base, join, stop, tags
  <2> QED BY <1>4, <2>1
<1>6. PICK g : g = Solved(g) /\ RangeSum(v, left, right) = g[RootVisit(roots[v])]
  BY <1>5 DEF RangeSum, Query
<1>7. \A at \in Visit :
        /\ g[at] \in Int
        /\ g[at] =
             IF Disjoint(left, right, at.segment) THEN 0
             ELSE IF Covers(left, right, at.segment)
                  THEN Apply(at.inherited, S[at.node].sum, Length(at.segment))
                  ELSE CheckedAdd(
                         g[LeftVisit(at, S[at.node], CheckedAdd(at.inherited, S[at.node].lazy))],
                         g[RightVisit(at, S[at.node], CheckedAdd(at.inherited, S[at.node].lazy))])
  <2> TAKE at \in Visit
  <2>1. S[at.node] = Seen(at.node, v)
    BY <1>1
  <2>2. g[at] = Solved(g)[at]
    <3> HIDE DEF S, L, R
    <3> QED BY <1>6
  <2>3. g[at] = IF Disjoint(left, right, at.segment) THEN 0
                ELSE IF Covers(left, right, at.segment)
                     THEN Apply(at.inherited, Seen(at.node, v).sum, Length(at.segment))
                     ELSE CheckedAdd(L(g, at), R(g, at))
    <3> HIDE DEF S, L, R
    <3> QED BY <2>2
  <2>4. g[at] \in Int
    <3>1. \A a, b, k : Apply(a, b, k) \in Int /\ CheckedAdd(a, b) \in Int
      BY OutcomeFacts, CheckedAddOutcome DEF Apply
    <3> HIDE DEF S, L, R
    <3> QED BY <2>3, <3>1
  <2> HIDE DEF S
  <2> QED BY <2>1, <2>3, <2>4
<1>8. Readable(p, S, roots[v], w)
  BY DEF VersionOK
<1>9. g[RootVisit(roots[v])] \in {ExactSum(w, left, right), Overflow}
  <2> HIDE DEF S, L, R, Solved, stop, tags, base, join
  <2> QED BY <1>0, <1>7, <1>8, SumOf
<1> QED BY <1>6, <1>9

LEMMA MaterializeReads ==
  ASSUME TypeOK, HistoriesOK, arraySize # 0, NEW p, NEW root, NEW w,
         Readable(p, LatestStates, root, w)
  PROVE  /\ Materialize(root) \in Seq(Outcome) /\ Len(Materialize(root)) = arraySize
         /\ \A q \in 1 .. arraySize : Materialize(root)[q] \in {Overflow, w[q]}
<1> DEFINE S == LatestStates
           V == Seq(Outcome)
           L(f, at) == f[LeftVisit(at, Latest(at.node),
                                   CheckedAdd(at.inherited, Latest(at.node).lazy))]
           R(f, at) == f[RightVisit(at, Latest(at.node),
                                    CheckedAdd(at.inherited, Latest(at.node).lazy))]
           Solved(f) == [at \in Visit |->
             IF IsLeaf(at.segment) THEN <<Apply(at.inherited, Latest(at.node).sum, 1)>>
             ELSE L(f, at) \o R(f, at)]
           tags == [at \in Visit |-> CheckedAdd(at.inherited, S[at.node].lazy)]
           base == [at \in Visit |-> <<Apply(at.inherited, S[at.node].sum, 1)>>]
           join == [x \in Visit \X V \X V |-> x[2] \o x[3]]
<1>0. arraySize \in Nat /\ S \in [Nat -> Modification] /\ \A i \in Nat : S[i] = Latest(i)
  BY LatestFacts DEF TypeOK, LatestStates
<1>1. \A at \in Visit :
        /\ at.inherited \in Int /\ at.node \in Nat /\ S[at.node] = Latest(at.node)
        /\ Latest(at.node).lazy \in Int
  <2> TAKE at \in Visit
  <2>1. at.inherited \in Int /\ at.node \in Nat
    BY DEF Visit
  <2>2. S[at.node] = Latest(at.node) /\ Latest(at.node) \in Modification
    BY <1>0, <2>1, LatestFacts
  <2>3. Latest(at.node).lazy \in Int
    BY <2>2, ModificationFacts, ValueFacts
  <2> QED BY <2>1, <2>2, <2>3
<1>2. Asked(S, tags, V, base, join)
  <2> HIDE DEF S
  <2>1. tags \in [Visit -> Int]
    BY <1>1, CheckedAddInt
  <2>2. base \in [Visit -> V]
    <3>1. \A a, b : <<Apply(a, b, 1)>> \in V
      BY CheckedAddOutcome DEF Apply
    <3> HIDE DEF V
    <3> QED BY <3>1
  <2>3. join \in [Visit \X V \X V -> V]
    <3>1. \A s, t \in V : s \o t \in V
      BY ConcatProperties
    <3> HIDE DEF V
    <3> QED BY <3>1
  <2> HIDE DEF tags, base, join, V
  <2> QED BY <1>0, <2>1, <2>2, <2>3 DEF Asked
<1>3. PICK f : Answered(f, S, tags, V, {}, base, join)
  <2> HIDE DEF S, tags, base, join, V
  <2> QED BY <1>0, <1>2, StateRecursion
<1>4. ASSUME NEW at \in Visit
      PROVE  f[at] = Solved(f)[at]
  <2>1. f \in [Visit -> V]
    BY <1>3 DEF Answered
  <2>2. f[at] = IF IsLeaf(at.segment) THEN base[at]
                ELSE join[<<at, f[LeftVisit(at, S[at.node], tags[at])],
                                f[RightVisit(at, S[at.node], tags[at])]>>]
    <3> HIDE DEF S, tags, base, join, V
    <3> QED BY <1>3 DEF Answered
  <2>3. PICK k \in Int : k = tags[at] /\ k = CheckedAdd(at.inherited, Latest(at.node).lazy)
    <3> HIDE DEF S
    <3> QED BY <1>1, CheckedAddInt
  <2>4. CASE IsLeaf(at.segment)
    <3> HIDE DEF S, L, R
    <3> QED BY <1>1, <2>2, <2>4
  <2>5. CASE ~IsLeaf(at.segment)
    <3>1. /\ LeftVisit(at, S[at.node], k) \in Visit
          /\ RightVisit(at, S[at.node], k) \in Visit
      <4> HIDE DEF S
      <4> QED BY <1>0, <2>5, StateVisits
    <3>2. L(f, at) \in V /\ R(f, at) \in V
      <4> HIDE DEF S, V
      <4> QED BY <1>1, <2>1, <2>3, <3>1
    <3>3. f[at] = join[<<at, L(f, at), R(f, at)>>]
      <4> HIDE DEF S, V, base, join, tags
      <4> QED BY <1>1, <2>2, <2>3, <2>5
    <3>4. f[at] = L(f, at) \o R(f, at)
      <4> HIDE DEF L, R, V
      <4> QED BY <3>2, <3>3
    <3> HIDE DEF S, L, R, V, base, join, tags
    <3> QED BY <2>5, <3>4
  <2> QED BY <2>4, <2>5
<1>5. f = Solved(f)
  <2>1. f = [at \in Visit |-> f[at]]
    BY <1>3 DEF Answered
  <2> HIDE DEF S, L, R, V, base, join, tags
  <2> QED BY <1>4, <2>1
<1>6. PICK g : g = Solved(g) /\ Materialize(root) = g[RootVisit(root)]
  BY <1>5 DEF Materialize
<1>7. \A at \in Visit :
        g[at] = IF IsLeaf(at.segment) THEN <<Apply(at.inherited, S[at.node].sum, 1)>>
                ELSE g[LeftVisit(at, S[at.node], CheckedAdd(at.inherited, S[at.node].lazy))]
                     \o g[RightVisit(at, S[at.node],
                                     CheckedAdd(at.inherited, S[at.node].lazy))]
  <2> SUFFICES ASSUME NEW at \in Visit
               PROVE  g[at] =
                 IF IsLeaf(at.segment) THEN <<Apply(at.inherited, S[at.node].sum, 1)>>
                 ELSE g[LeftVisit(at, S[at.node], CheckedAdd(at.inherited, S[at.node].lazy))]
                      \o g[RightVisit(at, S[at.node],
                                      CheckedAdd(at.inherited, S[at.node].lazy))]
    OBVIOUS
  <2>1. S[at.node] = Latest(at.node)
    BY <1>1
  <2>2. g[at] = Solved(g)[at]
    <3> HIDE DEF S, L, R
    <3> QED BY <1>6
  <2>3. g[at] = IF IsLeaf(at.segment) THEN <<Apply(at.inherited, Latest(at.node).sum, 1)>>
                ELSE L(g, at) \o R(g, at)
    <3> HIDE DEF S, L, R
    <3> QED BY <2>2
  <2> HIDE DEF S
  <2> QED BY <2>1, <2>3
<1>8. /\ g[RootVisit(root)] \in Seq(Outcome) /\ Len(g[RootVisit(root)]) = arraySize
      /\ \A q \in 1 .. arraySize : g[RootVisit(root)][q] \in {Overflow, w[q]}
  <2> HIDE DEF S, L, R, Solved, V, tags, base, join
  <2> QED BY <1>0, <1>7, LeavesOf DEF S
<1> QED BY <1>6, <1>8

-----------------------------------------------------------------------------
(***************************************************************************)
(* Steps that write to no node.                                            *)
(***************************************************************************)
LEMMA SameVersion ==
  ASSUME UNCHANGED <<nodes, arraySize>>, NEW v, roots'[v] = roots[v],
         NEW p, NEW w, VersionOK(v, p, w)
  PROVE  VersionOK(v, p, w)'
<1>1. Placed(p)' /\ StatesAt(v)' = StatesAt(v)
      /\ \A c \in Segments(arraySize)' : LiveAt(p[c], v)'
  BY DEF VersionOK, Placed, StatesAt, Seen, LiveAt
<1>2. PICK r, S : r = roots[v] /\ S = StatesAt(v)
  OBVIOUS
<1>3. Readable(p, S, r, w)'
  BY <1>2 DEF VersionOK, Readable, Linked, LabelsOf
<1> QED BY <1>1, <1>2, <1>3 DEF VersionOK

LEMMA InitVInv == Init => VInv
<1> SUFFICES ASSUME Init PROVE VInv
  OBVIOUS
<1>1. FInv
  BY InitFInv
<1>2. roots = <<>> /\ DOMAIN roots = {}
  BY DEF Init
<1> QED BY <1>1, <1>2 DEF VInv, VersionsOK

(* A step of rangeAdd before it publishes: the latest version stays as it was. *)
LEMMA SameVersions ==
  ASSUME VInv, FInv', UNCHANGED <<nodes, roots, arraySize, bound>>,
         NEW p, NEW w, VersionOK(Len(roots), p, w), LatestOK(p, w)',
         roots # <<>>
  PROVE  VInv'
<1>1. VersionsOK'
  <2>1. \A v \in DOMAIN roots : \E q, x : VersionOK(v, q, x)'
    BY SameVersion DEF VInv, VersionsOK
  <2> QED BY <2>1 DEF VersionsOK
<1>2. VersionOK(Len(roots), p, w)' /\ roots'[Len(roots)] = roots[Len(roots)]
  BY SameVersion
<1>3. PICK n : n = Len(roots) /\ n = Len(roots')
  OBVIOUS
<1>4. VersionOK(n, p, w)'
  BY <1>2, <1>3
<1> QED BY <1>1, <1>3, <1>4 DEF VInv

LEMMA BeginRangeAddVInv ==
  ASSUME VInv, NEW left \in 1 .. arraySize, NEW right \in 1 .. arraySize,
         NEW value \in Deltas, BeginRangeAdd(left, right, value)
  PROVE  VInv'
<1> DEFINE leaves == Materialize(Last(roots))
<1>1. FInv /\ FInv'
  BY BeginRangeAddFInv DEF VInv
<1>2. TypeOK /\ HistoriesOK /\ CallOK /\ arraySize \in Nat /\ Len(roots) \in Nat
  BY <1>1, FInvFacts
<1>3. /\ call = Idle /\ roots # <<>> /\ Len(roots) < MaxVersions
      /\ ValidateRangeAdd(bound, leaves, left, right, value)
      /\ call'.left = left /\ call'.right = right /\ call'.value = value
      /\ call'.phase = "reserve" /\ call'.nextBound = NextBound(bound, leaves, left, right, value)
      /\ UNCHANGED <<nodes, roots, arraySize, bound>>
  BY DEF BeginRangeAdd, ValidRangeAdd
<1>4. PICK p, w : VersionOK(Len(roots), p, w) /\ LatestOK(p, w)
  BY <1>3 DEF VInv
<1>5. /\ arraySize # 0 /\ Last(roots) = roots[Len(roots)] /\ Written = {}
      /\ bound \in Bound /\ value \in Value
  <2>1. call.phase = "idle"
    BY <1>3 DEF Idle
  <2> QED BY <1>2, <2>1, DeltasAssumption DEF Last, CallOK, TypeOK
<1>6. Readable(p, LatestStates, Last(roots), w)
  BY <1>2, <1>4, <1>5, LatestReadable
<1>7. /\ leaves \in Seq(Outcome) /\ Len(leaves) = arraySize
      /\ \A q \in 1 .. arraySize : leaves[q] \in {Overflow, w[q]}
  BY <1>2, <1>5, <1>6, MaterializeReads
<1>8. w \in Seq(Value) /\ Len(w) = arraySize /\ w # <<>>
  BY <1>2, <1>4, <1>5, EmptySeq DEF VersionOK, Readable, TreeOf
<1>9. Admissible(w) /\ MaxMagnitude(w) <= bound
  BY <1>4 DEF LatestOK
<1>10. PICK s : s = leaves
  OBVIOUS
<1>11. /\ AddToRange(w, left, right, value) \in Seq(Value)
       /\ Admissible(AddToRange(w, left, right, value))
       /\ MaxMagnitude(AddToRange(w, left, right, value))
            <= NextBound(bound, s, left, right, value)
  <2> HIDE DEF leaves
  <2>1. /\ s \in Seq(Outcome) /\ Len(s) = Len(w)
        /\ \A q \in 1 .. Len(w) : s[q] \in {Overflow, w[q]}
        /\ ValidateRangeAdd(bound, s, left, right, value)
    BY <1>3, <1>7, <1>8, <1>10
  <2> QED BY <1>5, <1>8, <1>9, <2>1, GuardSoundForLeaves
<1>12. AskedFor(w)'
  <2>1. /\ call'.left = left /\ call'.right = right /\ call'.value = value
        /\ call'.nextBound = NextBound(bound, s, left, right, value)
        /\ Len(roots') = Len(roots)
    BY <1>3, <1>10
  <2> HIDE DEF leaves
  <2> QED BY <1>3, <1>11, <2>1 DEF AskedFor
<1>13. LatestOK(p, w)'
  BY <1>3, <1>9, <1>12 DEF LatestOK
<1> QED BY <1>1, <1>3, <1>4, <1>13, SameVersions

LEMMA ThrowVInv == VInv /\ Throw => VInv'
<1> SUFFICES ASSUME VInv, Throw PROVE VInv'
  OBVIOUS
<1>1. FInv /\ FInv'
  BY ThrowFInv DEF VInv
<1>2. call.phase # "idle" /\ call' = Idle /\ UNCHANGED <<nodes, roots, arraySize, bound>>
  BY DEF Throw
<1>3. roots # <<>>
  BY <1>1, <1>2, FInvFacts DEF CallOK
<1>4. PICK p, w : VersionOK(Len(roots), p, w) /\ LatestOK(p, w)
  BY <1>3 DEF VInv
<1>5. LatestOK(p, w)'
  BY <1>2, <1>4 DEF LatestOK, Idle
<1> QED BY <1>1, <1>2, <1>3, <1>4, <1>5, SameVersions

LEMMA SameStates ==
  ASSUME UNCHANGED <<nodes, roots>>
  PROVE  /\ Written' = Written /\ Len(roots') = Len(roots)
         /\ \A i : Latest(i)' = Latest(i)
         /\ \A i, v : Seen(i, v)' = Seen(i, v)
<1>1. \A i, v : Seen(i, v)' = Seen(i, v)
  BY DEF Seen, LiveAt
<1> QED BY <1>1 DEF Written, Latest

LEMMA SameUpdate ==
  ASSUME UNCHANGED <<nodes, roots, arraySize, call, stack>>
  PROVE  \A p, q : UpdateTree(p, q) => UpdateTree(p, q)'
<1> SUFFICES ASSUME NEW p, NEW q, UpdateTree(p, q) PROVE UpdateTree(p, q)'
  OBVIOUS
<1>1. /\ Written' = Written /\ Len(roots') = Len(roots)
      /\ \A i : Latest(i)' = Latest(i)
      /\ \A i, v : Seen(i, v)' = Seen(i, v)
  BY SameStates
<1>2. \A c : NodeUpdated(p, q, c) => NodeUpdated(p, q, c)'
  BY <1>1 DEF NodeUpdated
<1>3. \A c : HalvesUpdated(q, c) => HalvesUpdated(q, c)'
  BY <1>1 DEF HalvesUpdated
<1>4. \A k \in DOMAIN stack : FrameLinked(q, stack[k]) => FrameLinked(q, stack[k])'
  BY <1>1 DEF FrameLinked
<1>5. Placed(q)' /\ OnStack' = OnStack
  BY DEF UpdateTree, Placed, OnStack
<1> QED BY <1>1, <1>2, <1>3, <1>4, <1>5 DEF UpdateTree

LEMMA StutterVInv == VInv /\ UNCHANGED vars => VInv'
<1> SUFFICES ASSUME VInv, UNCHANGED vars PROVE VInv'
  OBVIOUS
<1>1. FInv'
  BY StutterFInv DEF VInv
<1>2. UNCHANGED <<nodes, roots, arraySize, bound, call, stack>>
  BY DEF vars
<1>3. VersionsOK'
  <2>1. \A v \in DOMAIN roots : \E p, w : VersionOK(v, p, w)'
    BY <1>2, SameVersion DEF VInv, VersionsOK
  <2> QED BY <1>2, <2>1 DEF VersionsOK
<1>4. roots # <<>> => \E p, w : VersionOK(Len(roots), p, w)' /\ LatestOK(p, w)'
  <2> SUFFICES ASSUME NEW p, NEW w, VersionOK(Len(roots), p, w), LatestOK(p, w)
               PROVE  VersionOK(Len(roots), p, w)' /\ LatestOK(p, w)'
    BY DEF VInv
  <2>1. VersionOK(Len(roots), p, w)'
    BY <1>2, SameVersion
  <2>2. AskedFor(w) => AskedFor(w)'
    BY <1>2 DEF AskedFor
  <2>3. \A q : UpdateTree(p, q) => UpdateTree(p, q)'
    BY <1>2, SameUpdate
  <2> QED BY <1>2, <2>1, <2>2, <2>3 DEF LatestOK
<1>5. PICK n : n = Len(roots) /\ n = Len(roots')
  BY <1>2
<1>6. roots' # <<>> => \E p, w : VersionOK(n, p, w)' /\ LatestOK(p, w)'
  BY <1>2, <1>4, <1>5
<1> QED BY <1>1, <1>3, <1>5, <1>6 DEF VInv

-----------------------------------------------------------------------------
(***************************************************************************)
(* Steps that publish a version: the tree that the latest states form.     *)
(***************************************************************************)
LEMMA PublishedVersion ==
  ASSUME TypeOK, HistoriesOK, UNCHANGED <<nodes, arraySize>>, NEW root \in Nat,
         roots' = Append(roots, root), NEW n, n = Len(roots) + 1,
         NEW q, NEW w, Placed(q), Readable(q, LatestStates, root, w)
  PROVE  VersionOK(n, q, w)'
<1>1. n \in Nat /\ Len(roots) \in Nat /\ roots'[n] = root
  <2>1. roots \in Seq(Nat) /\ Len(roots) \in Nat
    BY LenProperties DEF TypeOK
  <2> QED BY <2>1, AppendProperties
<1>2. ASSUME NEW c \in Segments(arraySize)
      PROVE  /\ LiveAt(q[c], n) /\ q[c] \in Nat
             /\ StatesAt(n)[q[c]] = LatestStates[q[c]]
  <2>1. q[c] \in DOMAIN nodes
    BY DEF Placed
  <2>2. /\ q[c] \in Nat /\ LatestState(nodes[q[c]]).version <= n
        /\ nodes[q[c]][1].version <= n
    <3>1. /\ q[c] \in Nat /\ 1 \in DOMAIN nodes[q[c]]
          /\ Len(nodes[q[c]]) \in DOMAIN nodes[q[c]]
          /\ LatestState(nodes[q[c]]) = nodes[q[c]][Len(nodes[q[c]])]
      BY <2>1, NodeFacts DEF HISTORY_CAPACITY
    <3> QED BY <1>1, <2>1, <3>1, StampBounds
  <2>3. LiveAt(q[c], n) /\ Seen(q[c], n) = LatestState(nodes[q[c]])
    BY <1>1, <2>1, <2>2, StampsOrdered, StateAtFacts
  <2> QED BY <2>1, <2>2, <2>3 DEF StatesAt, LatestStates, Latest
<1>3. StatesAt(n) \in [Nat -> Modification]
  BY <1>1, SeenType DEF StatesAt
<1>4. LabelsOf(q, StatesAt(n)) = LabelsOf(q, LatestStates)
  BY <1>2 DEF LabelsOf
<1>5. Linked(q, StatesAt(n))
  BY <1>2 DEF Readable, Linked
<1>6. Readable(q, StatesAt(n), root, w)
  BY <1>3, <1>4, <1>5 DEF Readable
<1>7. Placed(q)' /\ StatesAt(n)' = StatesAt(n)
      /\ \A c \in Segments(arraySize)' : LiveAt(q[c], n)'
  <2>1. \A i : LiveAt(i, n)' = LiveAt(i, n) /\ Seen(i, n)' = Seen(i, n)
    BY DEF Seen, LiveAt
  <2>2. Placed(q)'
    BY DEF Placed
  <2>3. StatesAt(n)' = StatesAt(n)
    BY <2>1 DEF StatesAt
  <2> QED BY <1>2, <2>1, <2>2, <2>3
<1>8. PICK S : S = StatesAt(n)
  OBVIOUS
<1>9. Readable(q, S, root, w)'
  BY <1>6, <1>8 DEF Readable, Linked, LabelsOf
<1> QED BY <1>1, <1>7, <1>8, <1>9 DEF VersionOK

LEMMA Extended ==
  ASSUME VInv, FInv', UNCHANGED <<nodes, arraySize>>, NEW root \in Nat,
         roots' = Append(roots, root),
         NEW q, NEW w, Placed(q), Readable(q, LatestStates, root, w), LatestOK(q, w)'
  PROVE  VInv'
<1>1. /\ TypeOK /\ HistoriesOK /\ Len(roots) \in Nat /\ DOMAIN roots = 1 .. Len(roots)
      /\ roots \in Seq(Nat)
  BY FInvFacts DEF VInv, TypeOK
<1>2. PICK n : n = Len(roots) + 1
  OBVIOUS
<1>3. /\ Len(roots') = n /\ DOMAIN roots' = 1 .. n /\ n \in Nat
      /\ \A v \in 1 .. Len(roots) : roots'[v] = roots[v]
  BY <1>1, <1>2, AppendProperties
<1>4. VersionOK(n, q, w)'
  BY <1>1, <1>2, PublishedVersion
<1>5. ASSUME NEW v \in 1 .. n
      PROVE  \E p, x : VersionOK(v, p, x)'
  <2>1. CASE v = n
    BY <1>4, <2>1
  <2>2. CASE v \in 1 .. Len(roots)
    <3>1. PICK p, x : VersionOK(v, p, x)
      BY <1>1, <2>2 DEF VInv, VersionsOK
    <3>2. VersionOK(v, p, x)'
      BY <1>3, <2>2, <3>1, SameVersion
    <3> QED BY <3>2
  <2> QED BY <1>1, <1>2, <2>1, <2>2
<1>6. VersionsOK'
  BY <1>3, <1>5 DEF VersionsOK
<1> QED BY <1>3, <1>4, <1>6 DEF VInv

LEMMA RangeAddZeroMakes ==
  ASSUME VInv, NEW left, NEW right, RangeAddZero(left, right)
  PROVE  \E p, w, root :
           /\ VersionOK(Len(roots), p, w) /\ Admissible(w)
           /\ root = Last(roots) /\ root \in Nat
           /\ Placed(p) /\ Readable(p, LatestStates, root, w) /\ LatestOK(p, w)'
<1>1. FInv /\ TypeOK /\ HistoriesOK /\ CallOK /\ Len(roots) \in Nat
  BY FInvFacts DEF VInv
<1>2. /\ call = Idle /\ call' = Idle /\ bound' = bound /\ roots # <<>>
  BY DEF RangeAddZero, ValidRangeAdd
<1>3. PICK p, w : VersionOK(Len(roots), p, w) /\ LatestOK(p, w)
  BY <1>2 DEF VInv
<1>4. Written = {} /\ Last(roots) = roots[Len(roots)] /\ Last(roots) \in Nat
  <2>1. call.phase = "idle"
    BY <1>2 DEF Idle
  <2>2. Last(roots) = roots[Len(roots)] /\ Len(roots) \in DOMAIN roots
    BY <1>1, <1>2, FInvFacts, EmptySeq DEF Last, TypeOK
  <2> QED BY <1>1, <2>1, <2>2, FInvFacts DEF CallOK
<1>5. Readable(p, LatestStates, Last(roots), w)
  BY <1>1, <1>3, <1>4, LatestReadable
<1>6. Placed(p) /\ Admissible(w)
  BY <1>3 DEF VersionOK, LatestOK
<1>7. LatestOK(p, w)'
  BY <1>2, <1>3 DEF LatestOK, Idle
<1> QED BY <1>3, <1>4, <1>5, <1>6, <1>7

LEMMA RangeAddZeroVInv ==
  ASSUME VInv, NEW left, NEW right, RangeAddZero(left, right)
  PROVE  VInv'
<1>1. FInv'
  BY RangeAddZeroFInv DEF VInv
<1>2. UNCHANGED <<nodes, arraySize>> /\ roots' = Append(roots, Last(roots))
  BY DEF RangeAddZero
<1>3. PICK p, w, root : /\ root = Last(roots) /\ root \in Nat
                        /\ Placed(p) /\ Readable(p, LatestStates, root, w) /\ LatestOK(p, w)'
  BY RangeAddZeroMakes
<1> QED BY <1>1, <1>2, <1>3, Extended

(* The tree an update has made when it is about to publish it. *)
LEMMA FinishedTree ==
  ASSUME FInv, call.phase = "update", stack = <<>>, roots # <<>>,
         NEW p, NEW w, VersionOK(Len(roots), p, w), AskedFor(w),
         NEW q, UpdateTree(p, q)
  PROVE  /\ Placed(q) /\ call.root \in Nat
         /\ Readable(q, LatestStates, call.root,
                     AddToRange(w, call.left, call.right, call.value))
<1> DEFINE n == arraySize
           L == LabelsOf(p, StatesAt(Len(roots)))
           M == LabelsOf(q, LatestStates)
           D == {c \in Segments(arraySize) : q[c] \in Written}
<1>1. /\ TypeOK /\ HistoriesOK /\ CallOK /\ n \in Nat /\ Len(roots) \in Nat
      /\ call.phase # "idle"
  BY FInvFacts
<1>2. /\ call.left \in Int /\ call.right \in Int /\ call.value \in Value /\ n # 0
  BY <1>1, CallFacts DEF CallOK
<1>3. \A c \in Segments(n) :
        /\ NodeUpdated(p, q, c)
        /\ ~IsLeaf(c) => HalvesUpdated(q, c)
  BY DEF UpdateTree, OnStack
<1>4. Placed(q) /\ call.root = q[Root(n)] /\ q[Root(n)] \in Written
  BY DEF UpdateTree
<1>5. \A c \in Segments(n) :
        /\ q[c] \in DOMAIN nodes /\ q[c] \in Nat
        /\ Latest(q[c]) \in Modification /\ LatestStates[q[c]] = Latest(q[c])
        /\ M[c] = Latest(q[c])
        /\ L[c] = Seen(p[c], Len(roots))
        /\ q[c] \notin Written => L[c] = M[c]
  <2> TAKE c \in Segments(n)
  <2>1. q[c] \in DOMAIN nodes /\ q[c] \in Nat
    BY <1>1, <1>4, NodeFacts DEF Placed
  <2>2. Latest(q[c]) \in Modification /\ LatestStates[q[c]] = Latest(q[c])
    BY <1>1, <2>1, LatestFacts DEF LatestStates
  <2>3. M[c] = Latest(q[c])
    BY <2>2 DEF LabelsOf
  <2>4. /\ L[c] = Seen(p[c], Len(roots)) /\ p[c] \in DOMAIN nodes
        /\ nodes[p[c]][1].version <= Len(roots)
        /\ Seen(p[c], Len(roots)) = StateAt(nodes[p[c]], Len(roots))
    BY <1>1, VersionFacts
  <2>5. ASSUME q[c] \notin Written PROVE L[c] = M[c]
    <3>1. q[c] = p[c]
      BY <1>3, <2>5 DEF NodeUpdated
    <3>2. StateAt(nodes[p[c]], Len(roots)) = LatestState(nodes[p[c]])
      BY <1>1, <2>4, <2>5, <3>1, LatestIsLastVersion
    <3>3. Latest(q[c]) = LatestState(nodes[p[c]])
      BY <2>4, <3>1 DEF Latest
    <3> HIDE DEF L, M
    <3> QED BY <2>3, <2>4, <3>2, <3>3
  <2> HIDE DEF L, M
  <2> QED BY <2>1, <2>2, <2>3, <2>4, <2>5
<1>6. \A c \in Segments(n) : ~IsLeaf(c) => LeftHalf(c) \in Segments(n) /\ RightHalf(c) \in Segments(n)
  BY <1>1, <1>2, SegmentsClosed DEF Closed
<1>7. Labelled(n, M)
  <2>1. \A c \in Segments(n) : M[c].sum \in Value /\ M[c].lazy \in Value
    <3> HIDE DEF M, L
    <3> QED BY <1>5, ModificationFacts
  <2>2. \A c \in Segments(n) : ~IsLeaf(c) =>
          SumOK(M[c], M[LeftHalf(c)], M[RightHalf(c)], Length(c))
    <3> HIDE DEF M, L
    <3> QED BY <1>3, <1>5, <1>6 DEF HalvesUpdated
  <2> HIDE DEF M, L
  <2> QED BY <2>1, <2>2 DEF Labelled
<1>8. Updates(n, L, M, D, call.left, call.right, call.value)
  <2>1. Root(n) \in D
    BY <1>1, <1>2, <1>4, RootOfSegments
  <2>2. ASSUME NEW c \in Segments(n)
        PROVE  /\ c \in D =>
                    /\ ~Disjoint(call.left, call.right, c)
                    /\ M[c].lazy = L[c].lazy
                         + IF Covers(call.left, call.right, c) THEN call.value ELSE 0
                    /\ IsLeaf(c) => M[c].sum = L[c].sum + call.value
               /\ c \notin D => M[c].sum = L[c].sum /\ M[c].lazy = L[c].lazy
               /\ ~IsLeaf(c) => \A side \in Sides :
                    Half(c, side) \in D <=>
                      /\ c \in D /\ ~Covers(call.left, call.right, c)
                      /\ ~Disjoint(call.left, call.right, Half(c, side))
    <3>1. c \in D =>
            /\ ~Disjoint(call.left, call.right, c)
            /\ M[c].lazy = L[c].lazy
                 + IF Covers(call.left, call.right, c) THEN call.value ELSE 0
            /\ IsLeaf(c) => M[c].sum = L[c].sum + call.value
      <4> HIDE DEF M, L
      <4> QED BY <1>3, <1>5 DEF NodeUpdated
    <3>2. c \notin D => M[c].sum = L[c].sum /\ M[c].lazy = L[c].lazy
      <4> HIDE DEF M, L
      <4> QED BY <1>5
    <3>3. ASSUME ~IsLeaf(c), NEW side \in Sides
          PROVE  Half(c, side) \in D <=>
                   /\ c \in D /\ ~Covers(call.left, call.right, c)
                   /\ ~Disjoint(call.left, call.right, Half(c, side))
      <4>1. Half(c, side) \in Segments(n)
        BY <1>6, <3>3 DEF Half
      <4>2. HalvesUpdated(q, c)
        BY <1>3, <3>3
      <4>3. q[Half(c, side)] \in Written <=>
              /\ q[c] \in Written /\ ~Covers(call.left, call.right, c)
              /\ ~Disjoint(call.left, call.right, Half(c, side))
        BY <4>2 DEF HalvesUpdated
      <4> QED BY <4>1, <4>3
    <3> HIDE DEF M, L, D
    <3> QED BY <3>1, <3>2, <3>3
  <2> HIDE DEF M, L, D
  <2> QED BY <2>1, <2>2 DEF Updates
<1>9. PICK next : /\ next = AddToRange(w, call.left, call.right, call.value)
                  /\ next \in Seq(Value)
  BY DEF AskedFor
<1>10. TreeOf(n, L, w)
  BY DEF VersionOK, Readable
<1>11. TreeOf(n, M, next)
  <2> HIDE DEF n, L, M, D
  <2>1. call.left \in Int /\ call.right \in Int /\ call.value \in Value
    BY <1>2
  <2> QED BY <1>1, <1>2, <1>7, <1>8, <1>9, <1>10, <2>1, TreeUpdated
<1>12. Linked(q, LatestStates)
  <2>1. \A c \in Segments(n) : ~IsLeaf(c) =>
          /\ LatestStates[q[c]].leftChild = q[LeftHalf(c)]
          /\ LatestStates[q[c]].rightChild = q[RightHalf(c)]
    <3> HIDE DEF M, L
    <3> QED BY <1>3, <1>5 DEF HalvesUpdated
  <2> QED BY <2>1 DEF Linked
<1>13. /\ LatestStates \in [Nat -> Modification] /\ q \in [Segments(n) -> Nat]
       /\ call.root \in Nat
  <2>1. LatestStates \in [Nat -> Modification]
    BY <1>1, LatestFacts DEF LatestStates
  <2>2. call.root \in Nat
    BY <1>1, CallFacts
  <2> HIDE DEF M, L
  <2> QED BY <1>4, <1>5, <2>1, <2>2 DEF Placed
<1>14. Readable(q, LatestStates, call.root, next)
  BY <1>4, <1>11, <1>12, <1>13 DEF Readable
<1> QED BY <1>4, <1>9, <1>13, <1>14

LEMMA PublishMakes ==
  ASSUME VInv, Publish
  PROVE  \E p, w, q, next :
           /\ VersionOK(Len(roots), p, w) /\ AskedFor(w)
           /\ next = AddToRange(w, call.left, call.right, call.value)
           /\ Placed(q) /\ call.root \in Nat /\ Readable(q, LatestStates, call.root, next)
           /\ LatestOK(q, next)'
<1>1. /\ FInv /\ call.phase = "update" /\ stack = <<>> /\ call' = Idle /\ bound' = call.nextBound
  BY DEF Publish, VInv
<1>2. roots # <<>>
  BY <1>1, FInvFacts DEF CallOK
<1>3. PICK p, w : VersionOK(Len(roots), p, w) /\ LatestOK(p, w)
  BY <1>2 DEF VInv
<1>4. PICK q : UpdateTree(p, q)
  BY <1>1, <1>3 DEF LatestOK
<1>5. AskedFor(w)
  BY <1>1, <1>3 DEF LatestOK
<1>6. PICK next : next = AddToRange(w, call.left, call.right, call.value)
  OBVIOUS
<1>7. Placed(q) /\ call.root \in Nat /\ Readable(q, LatestStates, call.root, next)
  BY <1>1, <1>2, <1>3, <1>4, <1>5, <1>6, FinishedTree
<1>8. LatestOK(q, next)'
  BY <1>1, <1>5, <1>6 DEF AskedFor, LatestOK, Idle
<1> QED BY <1>3, <1>5, <1>6, <1>7, <1>8

LEMMA PublishVInv == VInv /\ Publish => VInv'
<1> SUFFICES ASSUME VInv, Publish PROVE VInv'
  OBVIOUS
<1>1. FInv'
  BY PublishFInv DEF VInv
<1>2. UNCHANGED <<nodes, arraySize>> /\ roots' = Append(roots, call.root)
  BY DEF Publish
<1>3. PICK q, next : /\ Placed(q) /\ call.root \in Nat
                     /\ Readable(q, LatestStates, call.root, next)
                     /\ LatestOK(q, next)'
  BY PublishMakes
<1> QED BY <1>1, <1>2, <1>3, Extended

-----------------------------------------------------------------------------
(***************************************************************************)
(* Steps of a running update.                                              *)
(***************************************************************************)

(* A node without a new state still has the label of the latest version. *)
LEMMA Unwritten ==
  ASSUME FInv, NEW p, NEW w, VersionOK(Len(roots), p, w), NEW q, UpdateTree(p, q),
         NEW c \in Segments(arraySize)
  PROVE  /\ q[c] \in DOMAIN nodes /\ Latest(q[c]) = LatestState(nodes[q[c]])
         /\ Latest(q[c]) \in Modification
         /\ Seen(p[c], Len(roots)) \in Modification
         /\ q[c] \notin Written => /\ q[c] = p[c]
                                   /\ Latest(q[c]) = Seen(p[c], Len(roots))
<1>1. TypeOK /\ HistoriesOK /\ Len(roots) \in Nat
  BY FInvFacts
<1>2. q[c] \in DOMAIN nodes /\ Latest(q[c]) = LatestState(nodes[q[c]])
  BY DEF UpdateTree, Placed, Latest
<1>3. Latest(q[c]) \in Modification
  BY <1>1, LatestFacts
<1>4. /\ p[c] \in DOMAIN nodes /\ nodes[p[c]][1].version <= Len(roots)
      /\ Seen(p[c], Len(roots)) = StateAt(nodes[p[c]], Len(roots))
      /\ Seen(p[c], Len(roots)) \in Modification
  BY <1>1, VersionFacts
<1>5. ASSUME q[c] \notin Written
      PROVE  q[c] = p[c] /\ Latest(q[c]) = Seen(p[c], Len(roots))
  <2>1. NodeUpdated(p, q, c)
    BY DEF UpdateTree
  <2>2. q[c] = p[c]
    BY <1>5, <2>1 DEF NodeUpdated
  <2>3. StateAt(nodes[p[c]], Len(roots)) = LatestState(nodes[p[c]])
    BY <1>1, <1>4, <1>5, <2>2, LatestIsLastVersion
  <2> QED BY <1>2, <1>4, <2>2, <2>3
<1> QED BY <1>2, <1>3, <1>4, <1>5

LEMMA FrameStarts ==
  ASSUME TypeOK, NEW q, NEW c \in Segments(arraySize), q[c] \in DOMAIN nodes,
         call.left \in Int, call.right \in Int, ~Disjoint(call.left, call.right, c),
         ~IsLeaf(c) => /\ Latest(q[c]).leftChild = q[LeftHalf(c)]
                       /\ Latest(q[c]).rightChild = q[RightHalf(c)]
                       /\ \A side \in Sides : q[Half(c, side)] \notin Written,
         NEW f, f = UpdateFrame(q[c], c, call.left, call.right)
  PROVE  FrameLinked(q, f) /\ f.segment = c
<1>1. arraySize \in Nat /\ arraySize > 0 /\ c \in Interval(arraySize)
  <2>1. arraySize \in Nat /\ arraySize # 0
    BY DEF TypeOK, Segments
  <2> QED BY <2>1, SegmentsClosed
<1>2. /\ f.segment = c /\ f.node = q[c]
      /\ f.newLeft = Latest(q[c]).leftChild /\ f.newRight = Latest(q[c]).rightChild
      /\ f.todo = IF Covers(call.left, call.right, c) THEN {}
                  ELSE MeetingSides(c, call.left, call.right)
  BY DEF UpdateFrame, Latest
<1>3. ASSUME ~IsLeaf(c), NEW side \in Sides
      PROVE  /\ Child(f, side) = q[Half(c, side)]
             /\ q[Half(c, side)] \in Written <=>
                  /\ side \notin f.todo /\ ~Covers(call.left, call.right, c)
                  /\ ~Disjoint(call.left, call.right, Half(c, side))
  <2>1. Child(f, side) = q[Half(c, side)]
    BY <1>2, <1>3 DEF Child, Half, Sides
  <2>2. q[Half(c, side)] \notin Written
    BY <1>3
  <2>3. side \in MeetingSides(c, call.left, call.right)
          <=> ~Disjoint(call.left, call.right, Half(c, side))
    BY <1>1, <1>3, MeetingHalves
  <2> QED BY <1>2, <2>1, <2>2, <2>3
<1> QED BY <1>2, <1>3 DEF FrameLinked

LEMMA ReserveVInv == VInv /\ Reserve => VInv'
<1> SUFFICES ASSUME VInv, Reserve PROVE VInv'
  OBVIOUS
<1>1. FInv /\ FInv'
  BY ReserveFInv DEF VInv
<1>2. /\ TypeOK /\ HistoriesOK /\ CallOK /\ arraySize \in Nat /\ Len(roots) \in Nat
      /\ call.phase = "reserve" /\ call.phase # "idle" /\ call.phase # "update"
      /\ roots # <<>> /\ Written = {}
  BY <1>1, FInvFacts DEF Reserve, CallOK
<1>3. /\ call' = [call EXCEPT !.phase = "update"]
      /\ stack' = <<UpdateFrame(Last(roots), Root(arraySize), call.left, call.right)>>
      /\ UNCHANGED <<nodes, roots, arraySize, bound>>
  BY DEF Reserve
<1>4. PICK p, w : VersionOK(Len(roots), p, w) /\ LatestOK(p, w)
  BY <1>2 DEF VInv
<1>5. /\ call.left \in Int /\ call.right \in Int /\ 1 <= call.left
      /\ call.left <= call.right /\ call.right <= arraySize /\ arraySize # 0
  BY <1>2, CallFacts DEF CallOK
<1>6. /\ call'.left = call.left /\ call'.right = call.right /\ call'.value = call.value
      /\ call'.nextBound = call.nextBound /\ call'.phase = "update"
  <2>1. PICK l, r, x, v, t, b :
          call = [phase |-> "reserve", left |-> l, right |-> r, value |-> x,
                  version |-> v, root |-> t, nextBound |-> b]
    BY <1>2, CallFacts
  <2> QED BY <1>3, <2>1
<1>7. /\ Readable(p, LatestStates, roots[Len(roots)], w)
      /\ \A c \in Segments(arraySize) : Latest(p[c]) = Seen(p[c], Len(roots))
  BY <1>2, <1>4, LatestReadable
<1>8. /\ Root(arraySize) \in Segments(arraySize) /\ Root(arraySize)[1] = 1
      /\ Root(arraySize)[2] = arraySize
  BY <1>2, <1>5, RootOfSegments
<1>9. p[Root(arraySize)] = Last(roots) /\ Placed(p)
  BY <1>4, <1>5, <1>7 DEF Readable, VersionOK, Last
<1>10. \A c \in Segments(arraySize) : p[c] \in DOMAIN nodes /\ p[c] \in Nat
  BY <1>2, <1>9, NodeFacts DEF Placed
<1>11. ASSUME NEW c \in Segments(arraySize), ~IsLeaf(c)
       PROVE  /\ Latest(p[c]).leftChild = p[LeftHalf(c)]
              /\ Latest(p[c]).rightChild = p[RightHalf(c)]
              /\ SumOK(Latest(p[c]), Latest(p[LeftHalf(c)]), Latest(p[RightHalf(c)]), Length(c))
  <2>1. LeftHalf(c) \in Segments(arraySize) /\ RightHalf(c) \in Segments(arraySize)
    BY <1>2, <1>5, <1>11, SegmentsClosed DEF Closed
  <2>2. \A d \in Segments(arraySize) :
          LatestStates[p[d]] = Latest(p[d]) /\ LabelsOf(p, LatestStates)[d] = Latest(p[d])
    BY <1>10 DEF LatestStates, LabelsOf
  <2>3. /\ LatestStates[p[c]].leftChild = p[LeftHalf(c)]
        /\ LatestStates[p[c]].rightChild = p[RightHalf(c)]
    BY <1>7, <1>11 DEF Readable, Linked
  <2>4. SumOK(LabelsOf(p, LatestStates)[c], LabelsOf(p, LatestStates)[LeftHalf(c)],
              LabelsOf(p, LatestStates)[RightHalf(c)], Length(c))
    BY <1>7, <1>11 DEF Readable, TreeOf, Labelled
  <2> QED BY <2>1, <2>2, <2>3, <2>4
<1>12. PICK f : f = UpdateFrame(Last(roots), Root(arraySize), call.left, call.right)
  OBVIOUS
<1>13. FrameLinked(p, f) /\ f.segment = Root(arraySize)
  <2>1. ~Disjoint(call.left, call.right, Root(arraySize))
    BY <1>2, <1>5, <1>8 DEF Disjoint
  <2> QED BY <1>2, <1>5, <1>8, <1>9, <1>10, <1>11, <1>12, <2>1, FrameStarts
<1>14. stack' = <<f>> /\ DOMAIN stack' = {1} /\ stack'[1] = f
  BY <1>3, <1>12
<1>15. /\ Written' = {} /\ \A i : Latest(i)' = Latest(i)
       /\ \A c : NodeUpdated(p, p, c)'
  <2>1. Written' = {} /\ \A i : Latest(i)' = Latest(i)
    BY <1>2, <1>3, SameStates
  <2> QED BY <2>1 DEF NodeUpdated
<1>16. \A c \in Segments(arraySize) : ~IsLeaf(c) => HalvesUpdated(p, c)'
  BY <1>11, <1>15 DEF HalvesUpdated
<1>17. FrameLinked(p, f)'
  BY <1>2, <1>3, <1>6, <1>13, <1>15 DEF FrameLinked
<1>18. UpdateTree(p, p)'
  <2>1. Placed(p)'
    BY <1>3, <1>9 DEF Placed
  <2>2. (\A k \in DOMAIN stack : FrameLinked(p, stack[k]))'
    BY <1>14, <1>17
  <2>3. stack' # <<>>
    BY <1>14
  <2> QED BY <1>3, <1>15, <1>16, <2>1, <2>2, <2>3 DEF UpdateTree
<1>19. AskedFor(w)'
  BY <1>2, <1>3, <1>4, <1>6 DEF LatestOK, AskedFor
<1>20. LatestOK(p, w)'
  BY <1>3, <1>4, <1>18, <1>19 DEF LatestOK
<1> QED BY <1>1, <1>2, <1>3, <1>4, <1>20, SameVersions

LEMMA StackSegments ==
  ASSUME NEW seg, NEW foreseen, Running(seg, foreseen), stack # <<>>
  PROVE  /\ \A k, m \in DOMAIN stack : k < m =>
              /\ Inside(stack[m].segment, stack[k].segment)
              /\ stack[m].segment # stack[k].segment
         /\ Len(stack) = 1 => Top.segment = Root(arraySize)
         /\ \A m \in Nat \ {0} : Len(stack) = m + 1 =>
              /\ m \in DOMAIN stack /\ ~IsLeaf(stack[m].segment)
              /\ NextSide(stack[m]) \in Sides /\ NextSide(stack[m]) \in stack[m].todo
              /\ Top.segment = Half(stack[m].segment, NextSide(stack[m]))
              /\ ~Covers(call.left, call.right, stack[m].segment)
              /\ ~Disjoint(call.left, call.right, Top.segment)
         /\ ~IsLeaf(Top.segment) => \A side \in Sides : Half(Top.segment, side) \notin OnStack
<1>1. /\ stack \in Seq(Frame) /\ Len(stack) \in Nat \ {0}
      /\ DOMAIN stack = 1 .. Len(stack) /\ Len(stack) \in DOMAIN stack
      /\ Top = stack[Len(stack)] /\ FrameOK(seg, foreseen, Top)
      /\ arraySize \in Nat \ {0} /\ FramesIn(stack, arraySize)
      /\ \A k \in DOMAIN stack : stack[k] \in Frame /\ FrameOK(seg, foreseen, stack[k])
  BY TopFrame
<1>2. Nested(stack) /\ \A k \in DOMAIN stack : FrameInPlace(k)
  BY DEF Running, UpdateOK
<1>3. \A k \in DOMAIN stack :
        /\ stack[k].segment \in Interval(arraySize)
        /\ stack[k].todo # {} => /\ ~IsLeaf(stack[k].segment)
                                 /\ NextSide(stack[k]) \in Sides
                                 /\ NextSide(stack[k]) \in stack[k].todo
  BY <1>1 DEF FramesIn, NextSide, Frame, Sides
<1>4. ASSUME NEW k \in DOMAIN stack, NEW m \in DOMAIN stack, k < m
      PROVE  /\ Inside(stack[m].segment, stack[k].segment)
             /\ stack[m].segment # stack[k].segment
             /\ stack[k].todo # {}
  <2>1. /\ stack[k].todo # {}
        /\ Within(stack[m].segment, Half(stack[k].segment, NextSide(stack[k])))
    BY <1>2, <1>4 DEF Nested
  <2>2. Inside(stack[m].segment, stack[k].segment)
    BY <1>3, <2>1 DEF Inside, Half
  <2>3. stack[m].segment # stack[k].segment
    BY <1>1, <1>3, <2>2, InsideFacts
  <2> QED BY <2>1, <2>2, <2>3
<1>5. Len(stack) = 1 => Top.segment = Root(arraySize)
  BY <1>1, <1>2 DEF FrameInPlace
<1>6. ASSUME NEW m \in Nat \ {0}, Len(stack) = m + 1
      PROVE  /\ m \in DOMAIN stack /\ ~IsLeaf(stack[m].segment)
             /\ NextSide(stack[m]) \in Sides /\ NextSide(stack[m]) \in stack[m].todo
             /\ Top.segment = Half(stack[m].segment, NextSide(stack[m]))
             /\ ~Covers(call.left, call.right, stack[m].segment)
             /\ ~Disjoint(call.left, call.right, Top.segment)
  <2>1. m \in DOMAIN stack /\ m < Len(stack) /\ Len(stack) # 1 /\ Len(stack) - 1 = m
    BY <1>1, <1>6
  <2>2. stack[m].todo # {}
    BY <1>1, <1>4, <2>1
  <2>3. Top.segment = Half(stack[m].segment, NextSide(stack[m]))
    <3>1. FrameInPlace(Len(stack))
      BY <1>1, <1>2
    <3> QED BY <1>1, <2>1, <3>1 DEF FrameInPlace
  <2>4. ~Covers(call.left, call.right, stack[m].segment)
    BY <1>1, <2>1, <2>2 DEF FrameOK
  <2>5. ~Disjoint(call.left, call.right, Top.segment)
    BY <1>1 DEF FrameOK
  <2> QED BY <1>3, <2>1, <2>2, <2>3, <2>4, <2>5
<1>7. ASSUME ~IsLeaf(Top.segment), NEW side \in Sides
      PROVE  Half(Top.segment, side) \notin OnStack
  <2>1. PICK c, h : c = Top.segment /\ h = Half(c, side)
    OBVIOUS
  <2>2. c \in Interval(arraySize) /\ ~IsLeaf(c) /\ h \in Interval(arraySize)
    BY <1>1, <1>3, <1>7, <2>1, HalfFacts
  <2>3. Within(h, c) /\ Inside(h, c)
    BY <1>1, <2>1, <2>2, InsideFacts DEF Half, Sides
  <2>4. ASSUME NEW k \in DOMAIN stack PROVE stack[k].segment # h
    <3>1. CASE k = Len(stack)
      BY <1>1, <2>1, <2>2, <2>3, <3>1, InsideFacts
    <3>2. CASE k < Len(stack)
      <4>1. Inside(c, stack[k].segment)
        BY <1>1, <1>4, <2>1, <3>2
      <4>2. Inside(h, stack[k].segment)
        BY <1>1, <1>3, <2>2, <2>3, <4>1, InsideFacts
      <4> QED BY <1>1, <1>3, <2>2, <4>2, InsideFacts
    <3> QED BY <1>1, <3>1, <3>2
  <2> QED BY <2>1, <2>4 DEF OnStack
<1> QED BY <1>4, <1>5, <1>6, <1>7

LEMMA DescendVInv == VInv /\ Descend => VInv'
<1> SUFFICES ASSUME VInv, Descend PROVE VInv'
  OBVIOUS
<1>1. FInv /\ FInv'
  BY DescendFInv DEF VInv
<1>2. /\ stack # <<>> /\ Top.todo # {}
      /\ UNCHANGED <<nodes, roots, arraySize, bound, call>>
  BY DEF Descend
<1>3. PICK seg, foreseen : Running(seg, foreseen)
  BY <1>1, <1>2, WhileRunning
<1>4. /\ TypeOK /\ HistoriesOK /\ CallOK /\ call.phase = "update" /\ roots # <<>>
      /\ call.left \in Int /\ call.right \in Int /\ arraySize \in Nat
  <2>1. TypeOK /\ HistoriesOK /\ CallOK /\ call.phase = "update" /\ call.phase # "idle"
    BY <1>3 DEF Running
  <2> QED BY <1>1, <2>1, CallFacts, FInvFacts DEF CallOK
<1>5. PICK p, w : VersionOK(Len(roots), p, w) /\ LatestOK(p, w)
  BY <1>4 DEF VInv
<1>6. PICK q : UpdateTree(p, q)
  BY <1>4, <1>5 DEF LatestOK
<1>7. PICK side, c, h : /\ side = NextSide(Top) /\ c = Top.segment /\ h = Half(c, side)
  OBVIOUS
<1>8. /\ stack \in Seq(Frame) /\ Len(stack) \in Nat \ {0} /\ DOMAIN stack = 1 .. Len(stack)
      /\ Len(stack) \in DOMAIN stack /\ Top = stack[Len(stack)]
      /\ FramesIn(stack, arraySize)
  BY <1>2, <1>3, TopFrame
<1>9. /\ side \in Top.todo /\ side \in Sides /\ ~Disjoint(call.left, call.right, h)
  BY <1>2, <1>3, <1>7, NextHalf
<1>10. FrameLinked(q, Top) /\ ~IsLeaf(c) /\ c \in Segments(arraySize)
  BY <1>2, <1>6, <1>7, <1>8 DEF UpdateTree, FramesIn, FrameLinked
<1>11. Child(Top, side) = q[h] /\ q[h] \notin Written
  BY <1>7, <1>9, <1>10 DEF FrameLinked
<1>12. h \in Segments(arraySize) /\ h \notin OnStack
  <2>1. h \in Segments(arraySize)
    BY <1>4, <1>7, <1>9, <1>10, OneParent
  <2> QED BY <1>2, <1>3, <1>7, <1>9, <1>10, <2>1, StackSegments
<1>13. q[h] \in DOMAIN nodes
  BY <1>6, <1>12 DEF UpdateTree, Placed
<1>14. ~IsLeaf(h) => HalvesUpdated(q, h)
  BY <1>6, <1>12 DEF UpdateTree
<1>15. ~IsLeaf(h) => /\ Latest(q[h]).leftChild = q[LeftHalf(h)]
                     /\ Latest(q[h]).rightChild = q[RightHalf(h)]
                     /\ \A s \in Sides : q[Half(h, s)] \notin Written
  BY <1>11, <1>14 DEF HalvesUpdated
<1>16. PICK g : g = UpdateFrame(q[h], h, call.left, call.right)
  OBVIOUS
<1>17. FrameLinked(q, g) /\ g.segment = h
  BY <1>4, <1>9, <1>12, <1>13, <1>15, <1>16, FrameStarts
<1>18. stack' = Append(stack, g)
  BY <1>7, <1>11, <1>16 DEF Descend
<1>19. /\ DOMAIN stack' = 1 .. Len(stack) + 1 /\ stack' # <<>>
       /\ stack'[Len(stack) + 1] = g
       /\ \A k \in DOMAIN stack : stack'[k] = stack[k]
  <2>1. g \in Frame
    <3>1. FInv' /\ stack' \in Seq(Frame)
      BY <1>1 DEF FInv, TypeOK
    <3>2. Len(stack') = Len(stack) + 1 /\ stack'[Len(stack) + 1] = g
      BY <1>8, <1>18
    <3>3. Len(stack) + 1 \in 1 .. Len(stack')
      BY <1>8, <3>2
    <3> QED BY <3>1, <3>2, <3>3, ElementOfSeq
  <2> QED BY <1>8, <1>18, <2>1, AppendProperties
<1>20. OnStack \subseteq OnStack'
  BY <1>8, <1>19 DEF OnStack
<1>21. /\ Written' = Written /\ Len(roots') = Len(roots)
       /\ \A i : Latest(i)' = Latest(i)
       /\ \A i, v : Seen(i, v)' = Seen(i, v)
  BY <1>2, SameStates
<1>22. \A x : NodeUpdated(p, q, x) => NodeUpdated(p, q, x)'
  BY <1>2, <1>21 DEF NodeUpdated
<1>23. \A x : HalvesUpdated(q, x) => HalvesUpdated(q, x)'
  BY <1>2, <1>21 DEF HalvesUpdated
<1>24. \A f : FrameLinked(q, f) => FrameLinked(q, f)'
  BY <1>2, <1>21 DEF FrameLinked
<1>25. (\A k \in DOMAIN stack : FrameLinked(q, stack[k]))'
  <2>1. ASSUME NEW k \in 1 .. Len(stack) + 1, NEW f, f = stack'[k] PROVE FrameLinked(q, f)
    <3>1. CASE k = Len(stack) + 1
      BY <1>17, <1>19, <2>1, <3>1
    <3>2. CASE k \in 1 .. Len(stack)
      BY <1>6, <1>8, <1>19, <2>1, <3>2 DEF UpdateTree
    <3> QED BY <1>8, <3>1, <3>2
  <2>2. ASSUME NEW k \in 1 .. Len(stack) + 1, NEW f, f = stack'[k] PROVE FrameLinked(q, f)'
    BY <1>24, <2>1, <2>2
  <2> QED BY <1>19, <2>2
<1>26. UpdateTree(p, q)'
  <2>1. Placed(q)'
    BY <1>2, <1>6 DEF UpdateTree, Placed
  <2>2. \A x \in Segments(arraySize) :
          /\ NodeUpdated(p, q, x)'
          /\ x \notin OnStack' /\ ~IsLeaf(x) => HalvesUpdated(q, x)'
    BY <1>6, <1>20, <1>22, <1>23 DEF UpdateTree
  <2> QED BY <1>2, <1>19, <1>25, <2>1, <2>2 DEF UpdateTree
<1>27. AskedFor(w)'
  BY <1>2, <1>4, <1>5 DEF LatestOK, AskedFor
<1>28. LatestOK(p, w)'
  BY <1>2, <1>5, <1>26, <1>27 DEF LatestOK
<1> QED BY <1>1, <1>2, <1>4, <1>5, <1>28, SameVersions

-----------------------------------------------------------------------------
(***************************************************************************)
(* Recording a state, in place or in a copy: no published version sees it, *)
(* and the running update's tree is carried on.                            *)
(***************************************************************************)
LEMMA UnseenByVersions ==
  ASSUME NEW seg, NEW foreseen, NEW seg2, NEW index, Recording(seg, foreseen, seg2, index),
         NEW v \in Nat, v <= Len(roots)
  PROVE  \A i : /\ LiveAt(i, v)' <=> LiveAt(i, v)
                /\ Seen(i, v)' = Seen(i, v)
<1>1. /\ TypeOK /\ HistoriesOK /\ Len(roots) \in Nat
      /\ NextState(Top).version = Len(roots) + 1
      /\ DOMAIN nodes' = DOMAIN nodes \cup {index}
      /\ \A i \in DOMAIN nodes : i # index => nodes'[i] = nodes[i]
  BY Finishes, NodeFacts DEF Recording, Running, Recorded
<1>2. ASSUME NEW i, i # index
      PROVE  (LiveAt(i, v)' <=> LiveAt(i, v)) /\ Seen(i, v)' = Seen(i, v)
  <2>1. LiveAt(i, v)' <=> LiveAt(i, v)
    BY <1>1, <1>2 DEF LiveAt
  <2>2. LiveAt(i, v) => StateAt(nodes[i], v)' = StateAt(nodes[i], v)
    BY <1>1, <1>2 DEF LiveAt, StateAt
  <2> QED BY <2>1, <2>2 DEF Seen
<1>3. CASE index \notin DOMAIN nodes
  <2>1. nodes'[index][1] = NextState(Top) /\ index \in DOMAIN nodes'
    BY <1>1, <1>3, RecordedNode DEF Recording
  <2>2. ~LiveAt(index, v)' /\ ~LiveAt(index, v)
    BY <1>1, <1>3, <2>1 DEF LiveAt
  <2>3. Seen(index, v)' = Seen(index, v)
    BY <2>2 DEF Seen
  <2> QED BY <1>2, <2>2, <2>3
<1>4. CASE index \in DOMAIN nodes
  <2>1. PICK old, new : old = nodes[index] /\ new = nodes'[index]
    OBVIOUS
  <2>2. /\ DOMAIN new = 1 .. Len(new) /\ DOMAIN old = 1 .. Len(old)
        /\ Len(new) = Len(old) + 1 /\ Len(old) \in Nat
        /\ new[1] = old[1] /\ new[Len(new)] = NextState(Top)
        /\ \A k \in DOMAIN new : k # Len(new) => k \in DOMAIN old /\ new[k] = old[k]
    BY <1>1, <1>4, <2>1, RecordedNode, NodeFacts DEF Recording
  <2>3. LiveAt(index, v)' <=> LiveAt(index, v)
    BY <1>1, <1>4, <2>1, <2>2 DEF LiveAt
  <2>4. Stamps(new, v) = Stamps(old, v)
    <3>1. \A k \in DOMAIN old : k \in DOMAIN new /\ k # Len(new) /\ new[k] = old[k]
      <4>1. \A k \in DOMAIN old : k \in DOMAIN new /\ k # Len(new)
        BY <2>2
      <4> QED BY <2>2, <4>1
    <3>2. new[Len(new)].version > v
      BY <1>1, <2>2
    <3>3. \A k : k \in Stamps(new, v) <=> k \in Stamps(old, v)
      BY <1>1, <2>2, <3>1, <3>2 DEF Stamps
    <3> QED BY <3>3 DEF Stamps
  <2>5. ASSUME LiveAt(index, v) PROVE StateAt(new, v) = StateAt(old, v)
    <3>1. /\ Max(Stamps(old, v)) \in Stamps(old, v)
          /\ StateAt(old, v) = old[Max(Stamps(old, v))]
      BY <1>1, <1>4, <2>1, <2>5, StampsOrdered DEF LiveAt
    <3>2. StateAt(new, v) = new[Max(Stamps(old, v))]
      BY <2>4 DEF StateAt, Stamps
    <3>3. \A k \in DOMAIN old : new[k] = old[k]
      <4>1. \A k \in DOMAIN old : k \in DOMAIN new /\ k # Len(new)
        BY <2>2
      <4> QED BY <2>2, <4>1
    <3>4. Max(Stamps(old, v)) \in DOMAIN old
      BY <3>1 DEF Stamps
    <3> QED BY <3>1, <3>2, <3>3, <3>4
  <2>6. Seen(index, v)' = Seen(index, v)
    <3>1. Seen(index, v)' = IF LiveAt(index, v)' THEN StateAt(new, v)
                            ELSE CHOOSE state \in Modification : TRUE
      BY <2>1 DEF Seen
    <3>2. Seen(index, v) = IF LiveAt(index, v) THEN StateAt(old, v)
                           ELSE CHOOSE state \in Modification : TRUE
      BY <2>1 DEF Seen
    <3> QED BY <2>3, <2>5, <3>1, <3>2
  <2> QED BY <1>2, <2>3, <2>6
<1> QED BY <1>3, <1>4

LEMMA VersionKept ==
  ASSUME NEW seg, NEW foreseen, NEW seg2, NEW index, Recording(seg, foreseen, seg2, index),
         NEW v \in Nat, v <= Len(roots), NEW p, NEW w, VersionOK(v, p, w)
  PROVE  VersionOK(v, p, w)'
<1>1. \A i : (LiveAt(i, v)' <=> LiveAt(i, v)) /\ Seen(i, v)' = Seen(i, v)
  BY UnseenByVersions
<1>2. UNCHANGED <<roots, arraySize>> /\ DOMAIN nodes \subseteq DOMAIN nodes'
  BY DEF Recording, Recorded
<1>3. Placed(p)'
  BY <1>2 DEF VersionOK, Placed
<1>4. StatesAt(v)' = StatesAt(v)
  BY <1>1 DEF StatesAt
<1>5. PICK r, S : r = roots[v] /\ S = StatesAt(v)
  OBVIOUS
<1>6. Readable(p, S, r, w)'
  BY <1>2, <1>5 DEF VersionOK, Readable, Linked, LabelsOf
<1>7. (\A c \in Segments(arraySize) : LiveAt(p[c], v))'
  <2>1. \A c \in Segments(arraySize) : LiveAt(p[c], v)'
    BY <1>1 DEF VersionOK
  <2> QED BY <1>2, <2>1
<1>8. roots'[v] = r /\ StatesAt(v)' = S
  BY <1>2, <1>4, <1>5
<1> QED BY <1>3, <1>6, <1>7, <1>8 DEF VersionOK

(* The label the finished frame records. *)
LEMMA NewLabel ==
  ASSUME FInv, NEW seg, NEW foreseen, Running(seg, foreseen), stack # <<>>, Top.todo = {},
         NEW p, NEW w, VersionOK(Len(roots), p, w), NEW q, UpdateTree(p, q),
         NEW c, c = Top.segment, NEW state, state = NextState(Top),
         NEW old, old = Seen(p[c], Len(roots))
  PROVE  /\ c \in Segments(arraySize) /\ q[c] = Top.node /\ q[c] \notin Written
         /\ ~Disjoint(call.left, call.right, c)
         /\ state.lazy = old.lazy + IF Covers(call.left, call.right, c) THEN call.value ELSE 0
         /\ IsLeaf(c) => state.sum = old.sum + call.value
         /\ ~IsLeaf(c) =>
              /\ state.leftChild = q[LeftHalf(c)] /\ state.rightChild = q[RightHalf(c)]
              /\ SumOK(state, Latest(q[LeftHalf(c)]), Latest(q[RightHalf(c)]), Length(c))
              /\ \A side \in Sides :
                   q[Half(c, side)] \in Written <=>
                     /\ ~Covers(call.left, call.right, c)
                     /\ ~Disjoint(call.left, call.right, Half(c, side))
<1>1. /\ TypeOK /\ HistoriesOK /\ call.phase # "idle" /\ Len(roots) \in Nat
      /\ arraySize \in Nat \ {0} /\ c \in Interval(arraySize)
      /\ Top = stack[Len(stack)] /\ Len(stack) \in DOMAIN stack
      /\ FrameOK(seg, foreseen, Top)
  BY TopFrame, FInvFacts DEF Running
<1>2. /\ call.left \in Int /\ call.right \in Int /\ call.value \in Int
  BY <1>1, CallFacts, ValueFacts
<1>3. FrameLinked(q, Top) /\ c \in Segments(arraySize) /\ q[c] = Top.node
  BY <1>1 DEF UpdateTree, FrameLinked
<1>4. q[c] \notin Written /\ ~Disjoint(call.left, call.right, c)
  BY <1>1, <1>3 DEF FrameOK
<1>5. /\ LatestState(nodes[Top.node]) = old /\ old \in Modification
      /\ old.sum \in Int /\ old.lazy \in Int /\ Length(c) \in Nat
  <2>1. LatestState(nodes[Top.node]) = old /\ old \in Modification
    BY <1>3, <1>4, Unwritten
  <2> QED BY <1>1, <2>1, ModificationFacts, ValueFacts, Halves
<1>6. state.sum # Overflow /\ state.lazy # Overflow
  BY Finishes DEF Computed
<1>7. ASSUME Covers(call.left, call.right, c)
      PROVE  /\ state.sum = old.sum + call.value * Length(c)
             /\ state.lazy = old.lazy + call.value
  <2>1. /\ state.sum = Apply(call.value, old.sum, Length(c))
        /\ state.lazy = CheckedAdd(old.lazy, call.value)
    BY <1>5, <1>7 DEF NextState
  <2> QED BY <1>2, <1>5, <1>6, <2>1, ApplyExact, CheckedAddExact
<1>8. IsLeaf(c) => Covers(call.left, call.right, c) /\ Length(c) = 1
  <2>1. IsLeaf(c) => Length(c) = 1
    BY <1>1, Halves DEF IsLeaf, Length
  <2> QED BY <1>1, <1>2, <1>4, <2>1, LeafCovered
<1>9. ASSUME ~IsLeaf(c)
      PROVE  /\ state.leftChild = q[LeftHalf(c)] /\ state.rightChild = q[RightHalf(c)]
             /\ Top.newLeft = q[LeftHalf(c)] /\ Top.newRight = q[RightHalf(c)]
             /\ \A side \in Sides :
                  q[Half(c, side)] \in Written <=>
                    /\ ~Covers(call.left, call.right, c)
                    /\ ~Disjoint(call.left, call.right, Half(c, side))
  <2>1. \A side \in Sides :
          /\ Child(Top, side) = q[Half(c, side)]
          /\ q[Half(c, side)] \in Written <=>
               /\ ~Covers(call.left, call.right, c)
               /\ ~Disjoint(call.left, call.right, Half(c, side))
    BY <1>3, <1>9 DEF FrameLinked
  <2>2. Top.newLeft = q[LeftHalf(c)] /\ Top.newRight = q[RightHalf(c)]
    BY <2>1 DEF Child, Half, Sides
  <2>3. state.leftChild = Top.newLeft /\ state.rightChild = Top.newRight
    BY DEF NextState
  <2> QED BY <2>1, <2>2, <2>3
<1>10. ASSUME ~IsLeaf(c)
       PROVE  LeftHalf(c) \in Segments(arraySize) /\ RightHalf(c) \in Segments(arraySize)
  BY <1>1, <1>3, <1>10, SegmentsClosed DEF Closed
<1>11. ASSUME ~IsLeaf(c), ~Covers(call.left, call.right, c)
       PROVE  /\ state.lazy = old.lazy
              /\ SumOK(state, Latest(q[LeftHalf(c)]), Latest(q[RightHalf(c)]), Length(c))
  <2>1. PICK l, r : l = Latest(q[LeftHalf(c)]) /\ r = Latest(q[RightHalf(c)])
    OBVIOUS
  <2>2. /\ l = LatestState(nodes[Top.newLeft]) /\ r = LatestState(nodes[Top.newRight])
        /\ l \in Modification /\ r \in Modification
    BY <1>9, <1>10, <1>11, <2>1, Unwritten
  <2>3. /\ state.sum = Apply(old.lazy, CheckedAdd(l.sum, r.sum), Length(c))
        /\ state.lazy = old.lazy
    BY <1>5, <1>11, <2>2 DEF NextState
  <2>4. l.sum \in Int /\ r.sum \in Int
    BY <2>2, ModificationFacts, ValueFacts
  <2>5. CheckedAdd(l.sum, r.sum) \in Int
    BY <2>4, CheckedAddInt
  <2>6. /\ state.sum = CheckedAdd(l.sum, r.sum) + old.lazy * Length(c)
        /\ CheckedAdd(l.sum, r.sum) # Overflow
    BY <1>5, <1>6, <2>3, <2>5, ApplyExact
  <2>7. CheckedAdd(l.sum, r.sum) = l.sum + r.sum
    BY <2>4, <2>6, CheckedAddExact
  <2> QED BY <2>1, <2>3, <2>6, <2>7 DEF SumOK
<1>12. ASSUME ~IsLeaf(c), Covers(call.left, call.right, c)
       PROVE  SumOK(state, Latest(q[LeftHalf(c)]), Latest(q[RightHalf(c)]), Length(c))
  <2>1. /\ q[LeftHalf(c)] \notin Written /\ q[RightHalf(c)] \notin Written
    BY <1>9, <1>12 DEF Half, Sides
  <2>2. PICK l, r : l = Latest(q[LeftHalf(c)]) /\ r = Latest(q[RightHalf(c)])
    OBVIOUS
  <2>3. /\ l = Seen(p[LeftHalf(c)], Len(roots)) /\ r = Seen(p[RightHalf(c)], Len(roots))
        /\ l \in Modification /\ r \in Modification
    BY <1>10, <1>12, <2>1, <2>2, Unwritten
  <2>4. SumOK(old, l, r, Length(c))
    <3>1. Labelled(arraySize, LabelsOf(p, StatesAt(Len(roots))))
      BY DEF VersionOK, Readable, TreeOf
    <3>2. \A d \in Segments(arraySize) :
            LabelsOf(p, StatesAt(Len(roots)))[d] = Seen(p[d], Len(roots))
      BY <1>1, VersionFacts
    <3>3. SumOK(LabelsOf(p, StatesAt(Len(roots)))[c],
                LabelsOf(p, StatesAt(Len(roots)))[LeftHalf(c)],
                LabelsOf(p, StatesAt(Len(roots)))[RightHalf(c)], Length(c))
      BY <1>3, <1>12, <3>1 DEF Labelled
    <3> QED BY <1>3, <1>10, <1>12, <2>3, <3>2, <3>3
  <2>5. /\ state.sum = old.sum + call.value * Length(c)
        /\ state.lazy = old.lazy + call.value
    BY <1>7, <1>12
  <2>6. l.sum \in Int /\ r.sum \in Int
    BY <2>3, ModificationFacts, ValueFacts
  <2>7. old.sum = l.sum + r.sum + old.lazy * Length(c)
    BY <2>4 DEF SumOK
  <2>8. l.sum + r.sum + old.lazy * Length(c) + call.value * Length(c)
          = l.sum + r.sum + (old.lazy + call.value) * Length(c)
    BY <1>2, <1>5, <2>6, TagAbsorbed
  <2>9. state.sum = l.sum + r.sum + state.lazy * Length(c)
    BY <2>5, <2>7, <2>8
  <2> QED BY <2>2, <2>9 DEF SumOK
<1>13. state.lazy = old.lazy + IF Covers(call.left, call.right, c) THEN call.value ELSE 0
  <2>1. CASE Covers(call.left, call.right, c)
    BY <1>7, <2>1
  <2>2. CASE ~Covers(call.left, call.right, c)
    BY <1>5, <1>8, <1>11, <2>2
  <2> QED BY <2>1, <2>2
<1>14. IsLeaf(c) => state.sum = old.sum + call.value
  <2>1. call.value * 1 = call.value
    BY <1>2
  <2> QED BY <1>7, <1>8, <2>1
<1> QED BY <1>3, <1>4, <1>9, <1>11, <1>12, <1>13, <1>14

(* What a recording changes: the node of one segment, and its latest state. *)
LEMMA RecordedLatest ==
  ASSUME NEW seg, NEW foreseen, NEW seg2, NEW index, Recording(seg, foreseen, seg2, index)
  PROVE  /\ index \notin Written /\ Written' = Written \cup {index}
         /\ index \in DOMAIN nodes => index = Top.node
         /\ index \in DOMAIN nodes' /\ DOMAIN nodes \subseteq DOMAIN nodes'
         /\ Latest(index)' = NextState(Top)
         /\ \A i : i # index => Latest(i)' = Latest(i)
         /\ \A i : Seen(i, Len(roots))' = Seen(i, Len(roots))
         /\ UNCHANGED <<roots, arraySize, bound>>
         /\ call'.left = call.left /\ call'.right = call.right /\ call'.value = call.value
         /\ call'.phase = "update" /\ call'.nextBound = call.nextBound
         /\ Len(stack) = 1 => call'.root = index
         /\ stack' = Resume(stack, index) /\ index \in Nat
<1>1. /\ Running(seg, foreseen) /\ stack # <<>> /\ Top.todo = {} /\ Recorded(seg, seg2, index)
      /\ TypeOK /\ HistoriesOK /\ call.phase = "update" /\ call.phase # "idle"
      /\ Len(roots) \in Nat
  BY NodeFacts DEF Recording, Running
<1>2. /\ DOMAIN nodes' = DOMAIN nodes \cup {index}
      /\ \A i \in DOMAIN nodes : i # index => nodes'[i] = nodes[i]
      /\ UNCHANGED <<roots, arraySize, bound>>
      /\ call' = IF Len(stack) = 1 THEN [call EXCEPT !.root = index] ELSE call
      /\ stack' = Resume(stack, index) /\ index \in Nat
  BY <1>1 DEF Recorded
<1>3. /\ index \notin Written
      /\ index \in DOMAIN nodes => index = Top.node
  BY <1>1, RecordedNode
<1>4. LatestState(nodes'[index]) = NextState(Top)
  BY <1>1, RecordedNode
<1>5. Written' = Written \cup {index}
  BY <1>1, RecordedArena
<1>6. Latest(index)' = NextState(Top)
  BY <1>2, <1>4 DEF Latest
<1>7. \A i : i # index => Latest(i)' = Latest(i)
  BY <1>2 DEF Latest
<1>8. \A i : Seen(i, Len(roots))' = Seen(i, Len(roots))
  <2>1. PICK v : v = Len(roots) /\ v' = v
    BY <1>2
  <2>2. \A i : Seen(i, v)' = Seen(i, v)
    BY <1>1, <2>1, UnseenByVersions
  <2> QED BY <1>2, <2>1, <2>2
<1>9. /\ call'.left = call.left /\ call'.right = call.right /\ call'.value = call.value
      /\ call'.phase = "update"
      /\ Len(stack) = 1 => call'.root = index
  BY <1>1, RecordedCall
<1>10. call'.nextBound = call.nextBound
  <2>1. PICK l, r, x, v, t, b :
          call = [phase |-> "update", left |-> l, right |-> r, value |-> x,
                  version |-> v, root |-> t, nextBound |-> b]
    BY <1>1, CallFacts
  <2> QED BY <1>2, <2>1
<1>11. index \in DOMAIN nodes' /\ DOMAIN nodes \subseteq DOMAIN nodes'
  BY <1>2
<1>12. UNCHANGED <<roots, arraySize, bound>> /\ stack' = Resume(stack, index) /\ index \in Nat
  BY <1>2
<1> QED BY <1>3, <1>5, <1>6, <1>7, <1>8, <1>9, <1>10, <1>11, <1>12

Moved(q, c, i) == [q EXCEPT ![c] = i]

LEMMA OneBefore ==
  ASSUME NEW n \in Nat \ {0}, n # 1
  PROVE  \E m \in Nat \ {0} : n = m + 1
<1>1. n - 1 \in Nat \ {0} /\ n = (n - 1) + 1
  OBVIOUS
<1> QED BY <1>1

LEMMA RecordedPlaces ==
  ASSUME NEW seg, NEW foreseen, NEW seg2, NEW index, Recording(seg, foreseen, seg2, index),
         NEW q, Placed(q), NEW t \in Segments(arraySize), t = Top.segment, q[t] = Top.node,
         NEW next, next = Moved(q, t, index)
  PROVE  /\ Placed(next)'
         /\ next[t] = index /\ next[t] \in Written' /\ Latest(next[t])' = NextState(Top)
         /\ \A c \in Segments(arraySize) : c # t =>
              /\ next[c] = q[c] /\ Latest(next[c])' = Latest(q[c])
              /\ next[c] \in Written' <=> q[c] \in Written
<1>1. /\ index \notin Written /\ Written' = Written \cup {index}
      /\ index \in DOMAIN nodes => index = q[t]
      /\ index \in DOMAIN nodes' /\ DOMAIN nodes \subseteq DOMAIN nodes'
      /\ Latest(index)' = NextState(Top)
      /\ \A i : i # index => Latest(i)' = Latest(i)
      /\ arraySize' = arraySize
  BY RecordedLatest
<1>2. /\ q \in [Segments(arraySize) -> DOMAIN nodes]
      /\ \A c, d \in Segments(arraySize) : q[c] = q[d] => c = d
  BY DEF Placed
<1>3. /\ next \in [Segments(arraySize) -> DOMAIN nodes'] /\ next[t] = index
      /\ \A c \in Segments(arraySize) : c # t => next[c] = q[c]
  BY <1>1, <1>2 DEF Moved
<1>4. \A c \in Segments(arraySize) : c # t => q[c] # index
  BY <1>1, <1>2
<1>5. \A c, d \in Segments(arraySize) : next[c] = next[d] => c = d
  <2> SUFFICES ASSUME NEW c \in Segments(arraySize), NEW d \in Segments(arraySize),
                      next[c] = next[d]
               PROVE  c = d
    OBVIOUS
  <2>1. CASE c = t /\ d # t
    BY <1>3, <1>4, <2>1
  <2>2. CASE c # t /\ d = t
    BY <1>3, <1>4, <2>2
  <2>3. CASE c # t /\ d # t
    BY <1>2, <1>3, <2>3
  <2> QED BY <2>1, <2>2, <2>3
<1>6. Placed(next)'
  BY <1>1, <1>3, <1>5 DEF Placed
<1>7. next[t] \in Written' /\ Latest(next[t])' = NextState(Top)
  <2>1. PICK x : x = next[t]
    OBVIOUS
  <2>2. x = index
    BY <1>3, <2>1
  <2>3. Latest(x)' = NextState(Top)
    BY <1>1, <2>2
  <2> QED BY <1>1, <2>1, <2>2, <2>3
<1>8. ASSUME NEW c \in Segments(arraySize), c # t
      PROVE  /\ next[c] = q[c] /\ Latest(next[c])' = Latest(q[c])
             /\ next[c] \in Written' <=> q[c] \in Written
  <2>1. next[c] = q[c] /\ q[c] # index
    BY <1>3, <1>4, <1>8
  <2>2. Latest(q[c])' = Latest(q[c])
    BY <1>1, <2>1
  <2> QED BY <1>1, <2>1, <2>2
<1> QED BY <1>3, <1>6, <1>7, <1>8

(* The frames of the callers, the innermost of which receives the node. *)
LEMMA RecordedFrames ==
  ASSUME NEW seg, NEW foreseen, NEW seg2, NEW index, Recording(seg, foreseen, seg2, index),
         NEW m \in Nat \ {0}, Len(stack) = m + 1
  PROVE  /\ DOMAIN stack' = 1 .. m /\ stack' # <<>> /\ m \in DOMAIN stack /\ DOMAIN stack = 1 .. m + 1
         /\ stack'[m] = Receive(stack[m], index)
         /\ \A k \in 1 .. m : k # m => stack'[k] = stack[k]
         /\ \A k \in 1 .. m : k \in DOMAIN stack /\ stack'[k].segment = stack[k].segment
         /\ stack[m] \in Frame /\ stack[m].todo # {}
<1>1. /\ Running(seg, foreseen) /\ stack # <<>> /\ Top.todo = {}
      /\ stack' = Resume(stack, index) /\ index \in Nat
  BY RecordedLatest DEF Recording
<1>2. /\ stack \in Seq(Frame) /\ DOMAIN stack = 1 .. m + 1
      /\ \A k \in DOMAIN stack : stack[k] \in Frame
  BY <1>1, TopFrame
<1>3. m \in DOMAIN stack /\ stack[m].todo # {} /\ stack[m] \in Frame
  BY <1>1, <1>2, StackSegments
<1>4. /\ DOMAIN stack' = 1 .. m /\ stack' # <<>>
      /\ stack'[m] = Receive(stack[m], index)
      /\ \A k \in 1 .. m : k # m => stack'[k] = stack[k]
  <2>1. /\ DOMAIN Resume(stack, index) = 1 .. m /\ Resume(stack, index) # <<>>
        /\ Resume(stack, index)[m] = Receive(stack[m], index)
        /\ \A k \in 1 .. m : k # m => Resume(stack, index)[k] = stack[k]
    BY <1>1, <1>2, <1>3, ResumedStack
  <2> QED BY <1>1, <2>1
<1>5. \A k \in 1 .. m : k \in DOMAIN stack /\ stack'[k].segment = stack[k].segment
  <2>1. stack'[m].segment = stack[m].segment
    BY <1>1, <1>3, <1>4, ReceiveFacts
  <2> QED BY <1>2, <1>4, <2>1
<1> QED BY <1>2, <1>3, <1>4, <1>5

(* A caller's frame stays linked: only the child it waits for has changed. *)
LEMMA RecordedFrameLinked ==
  ASSUME NEW seg, NEW foreseen, NEW seg2, NEW index, Recording(seg, foreseen, seg2, index),
         NEW p, NEW q, UpdateTree(p, q), NEW t \in Segments(arraySize), t = Top.segment,
         q[t] = Top.node, NEW next, next = Moved(q, t, index),
         NEW m \in Nat \ {0}, Len(stack) = m + 1, NEW k \in 1 .. m, NEW g, g = stack'[k]
  PROVE  FrameLinked(next, g)'
<1>1. /\ Running(seg, foreseen) /\ stack # <<>> /\ arraySize \in Nat
  BY FInvFacts, RunningFInv DEF Recording
<1>2. /\ arraySize' = arraySize
      /\ call'.left = call.left /\ call'.right = call.right
      /\ index \in Nat
  BY RecordedLatest
<1>3. PICK f, c : f = stack[k] /\ c = f.segment
  OBVIOUS
<1>4. /\ k \in DOMAIN stack /\ DOMAIN stack = 1 .. m + 1 /\ m \in DOMAIN stack
      /\ stack[m] \in Frame /\ stack[m].todo # {}
      /\ g = IF k = m THEN Receive(stack[m], index) ELSE f
  BY <1>3, RecordedFrames
<1>5. FrameLinked(q, f) /\ c \in Segments(arraySize) /\ f.node = q[c]
  BY <1>3, <1>4 DEF UpdateTree, FrameLinked
<1>6. /\ c # t /\ (k < m => c # stack[m].segment)
      /\ ~IsLeaf(stack[m].segment) /\ NextSide(stack[m]) \in Sides
      /\ t = Half(stack[m].segment, NextSide(stack[m]))
      /\ ~Covers(call.left, call.right, stack[m].segment)
      /\ ~Disjoint(call.left, call.right, t)
  <2>1. Top.segment = stack[m + 1].segment
    BY DEF Top
  <2>2. c # t /\ (k < m => c # stack[m].segment)
    BY <1>1, <1>3, <1>4, <2>1, StackSegments
  <2> QED BY <1>1, <2>2, StackSegments
<1>7. stack[m].segment \in Segments(arraySize)
  BY <1>4 DEF UpdateTree, FrameLinked
<1>8. /\ next[t] = index /\ next[t] \in Written'
      /\ \A d \in Segments(arraySize) : d # t =>
           /\ next[d] = q[d]
           /\ next[d] \in Written' <=> q[d] \in Written
  <2>1. Placed(q)
    BY DEF UpdateTree
  <2> QED BY <2>1, RecordedPlaces
<1>9. g.segment = c /\ g.node = next[c]
  <2>1. CASE k = m
    BY <1>2, <1>3, <1>4, <1>5, <1>6, <1>8, <2>1, ReceiveFacts
  <2>2. CASE k # m
    BY <1>3, <1>4, <1>5, <1>6, <1>8, <2>2
  <2> QED BY <2>1, <2>2
<1>10. ASSUME ~IsLeaf(c), NEW side \in Sides, NEW h, h = Half(c, side)
       PROVE  /\ Child(g, side) = next[h]
              /\ next[h] \in Written' <=>
                   /\ side \notin g.todo /\ ~Covers(call.left, call.right, c)
                   /\ ~Disjoint(call.left, call.right, h)
  <2>1. /\ Child(f, side) = q[h]
        /\ q[h] \in Written <=>
             /\ side \notin f.todo /\ ~Covers(call.left, call.right, c)
             /\ ~Disjoint(call.left, call.right, h)
    BY <1>3, <1>5, <1>10 DEF FrameLinked
  <2>2. h \in Segments(arraySize) /\ (h = t => c = stack[m].segment /\ side = NextSide(stack[m]))
    BY <1>1, <1>5, <1>6, <1>7, <1>10, OneParent
  <2>3. CASE k # m
    <3>1. h # t
      BY <1>6, <2>2, <2>3
    <3> QED BY <1>4, <1>8, <2>1, <2>2, <2>3, <3>1
  <2>4. CASE k = m /\ side = NextSide(stack[m])
    <3>1. h = t /\ f = stack[m] /\ c = stack[m].segment
      BY <1>3, <1>6, <1>10, <2>4
    <3>2. Child(g, side) = index /\ side \notin g.todo
      <4>1. Receive(stack[m], index).todo = stack[m].todo \ {NextSide(stack[m])}
        BY <1>2, <1>4, ReceiveFacts
      <4>2. Child(g, side) = index
        BY <1>2, <1>4, <2>4, ReceiveFacts DEF Child, Sides
      <4> QED BY <1>4, <2>4, <4>1, <4>2
    <3> QED BY <1>6, <1>8, <3>1, <3>2
  <2>5. CASE k = m /\ side # NextSide(stack[m])
    <3>1. h # t /\ f = stack[m]
      BY <1>3, <2>2, <2>5
    <3>2. Child(g, side) = Child(f, side) /\ (side \in g.todo <=> side \in f.todo)
      <4>1. Receive(stack[m], index).todo = stack[m].todo \ {NextSide(stack[m])}
        BY <1>2, <1>4, ReceiveFacts
      <4>2. Child(g, side) = Child(f, side)
        BY <1>2, <1>4, <1>6, <2>5, <3>1, ReceiveFacts DEF Child, Sides
      <4> QED BY <1>4, <2>5, <3>1, <4>1, <4>2
    <3> QED BY <1>8, <2>1, <2>2, <3>1, <3>2
  <2> QED BY <2>3, <2>4, <2>5
<1>11. \A side \in Sides : ~IsLeaf(c) =>
         /\ Child(g, side) = next[Half(c, side)]
         /\ next[Half(c, side)] \in Written' <=>
              /\ side \notin g.todo /\ ~Covers(call.left, call.right, c)
              /\ ~Disjoint(call.left, call.right, Half(c, side))
  BY <1>10
<1> QED BY <1>2, <1>5, <1>9, <1>11 DEF FrameLinked

LEMMA RecordedTree ==
  ASSUME NEW seg, NEW foreseen, NEW seg2, NEW index, Recording(seg, foreseen, seg2, index),
         NEW p, NEW w, VersionOK(Len(roots), p, w), NEW q, UpdateTree(p, q)
  PROVE  \E next : UpdateTree(p, next)'
<1>1. /\ Running(seg, foreseen) /\ stack # <<>> /\ Top.todo = {} /\ FInv /\ arraySize \in Nat
      /\ Len(stack) \in Nat \ {0} /\ DOMAIN stack = 1 .. Len(stack) /\ stack \in Seq(Frame)
      /\ Top = stack[Len(stack)]
  BY FInvFacts, RunningFInv, TopFrame DEF Recording
<1>2. PICK t, state : t = Top.segment /\ state = NextState(Top)
  OBVIOUS
<1>3. PICK old : old = Seen(p[t], Len(roots))
  OBVIOUS
<1>4. /\ t \in Segments(arraySize) /\ q[t] = Top.node /\ q[t] \notin Written
      /\ ~Disjoint(call.left, call.right, t)
      /\ state.lazy = old.lazy + IF Covers(call.left, call.right, t) THEN call.value ELSE 0
      /\ IsLeaf(t) => state.sum = old.sum + call.value
      /\ ~IsLeaf(t) =>
           /\ state.leftChild = q[LeftHalf(t)] /\ state.rightChild = q[RightHalf(t)]
           /\ SumOK(state, Latest(q[LeftHalf(t)]), Latest(q[RightHalf(t)]), Length(t))
           /\ \A side \in Sides :
                q[Half(t, side)] \in Written <=>
                  /\ ~Covers(call.left, call.right, t)
                  /\ ~Disjoint(call.left, call.right, Half(t, side))
  BY <1>1, <1>2, <1>3, NewLabel
<1>5. PICK next : next = Moved(q, t, index)
  OBVIOUS
<1>6. Placed(q)
  BY DEF UpdateTree
<1>7. /\ Placed(next)'
      /\ next[t] = index /\ next[t] \in Written' /\ Latest(next[t])' = state
      /\ \A c \in Segments(arraySize) : c # t =>
           /\ next[c] = q[c] /\ Latest(next[c])' = Latest(q[c])
           /\ next[c] \in Written' <=> q[c] \in Written
  BY <1>2, <1>4, <1>5, <1>6, RecordedPlaces
<1>8. /\ arraySize' = arraySize /\ Len(roots') = Len(roots)
      /\ call'.left = call.left /\ call'.right = call.right /\ call'.value = call.value
      /\ \A i : Seen(i, Len(roots))' = Seen(i, Len(roots))
      /\ Len(stack) = 1 => call'.root = index
      /\ stack' = Resume(stack, index)
  BY RecordedLatest
<1>9. ASSUME NEW c \in Segments(arraySize)
      PROVE  NodeUpdated(p, next, c)'
  <2>1. CASE c = t
    <3>1. /\ next[c] \in Written' /\ Latest(next[c])' = state
          /\ Seen(p[c], Len(roots))' = old
      BY <1>3, <1>7, <1>8, <2>1
    <3> QED BY <1>4, <1>8, <2>1, <3>1 DEF NodeUpdated
  <2>2. CASE c # t
    <3>1. NodeUpdated(p, q, c)
      BY DEF UpdateTree
    <3>2. /\ next[c] = q[c] /\ Latest(next[c])' = Latest(q[c])
          /\ next[c] \in Written' <=> q[c] \in Written
      BY <1>7, <2>2
    <3>3. Seen(p[c], Len(roots))' = Seen(p[c], Len(roots))
      BY <1>8
    <3> QED BY <1>8, <3>1, <3>2, <3>3 DEF NodeUpdated
  <2> QED BY <2>1, <2>2
<1>10. OnStack \subseteq OnStack' \cup {t}
  <2>1. CASE Len(stack) = 1
    BY <1>1, <1>2, <2>1 DEF OnStack
  <2>2. CASE Len(stack) # 1
    <3>1. PICK m \in Nat \ {0} : Len(stack) = m + 1
      BY <1>1, <2>2, OneBefore
    <3>2. /\ DOMAIN stack' = 1 .. m
          /\ \A k \in 1 .. m : stack'[k].segment = stack[k].segment
      BY <3>1, RecordedFrames
    <3>3. \A k \in DOMAIN stack : k = m + 1 \/ k \in 1 .. m
      BY <1>1, <3>1
    <3>4. Top = stack[m + 1]
      BY <1>1, <3>1
    <3>5. ASSUME NEW k \in DOMAIN stack PROVE stack[k].segment \in OnStack' \cup {t}
      <4>1. CASE k = m + 1
        BY <1>2, <3>4, <4>1
      <4>2. CASE k \in 1 .. m
        BY <3>2, <4>2 DEF OnStack
      <4> QED BY <3>3, <4>1, <4>2
    <3> QED BY <3>5 DEF OnStack
  <2> QED BY <2>1, <2>2
<1>11. ASSUME NEW c \in Segments(arraySize), c \notin OnStack', ~IsLeaf(c)
       PROVE  HalvesUpdated(next, c)'
  <2>1. \A side \in Sides : Half(c, side) \in Segments(arraySize) /\ Half(c, side) # c
    BY <1>1, <1>11, OneParent
  <2>2. \A side \in Sides : c # t => Half(c, side) # t
    <3> SUFFICES ASSUME NEW side \in Sides, c # t, Half(c, side) = t PROVE FALSE
      OBVIOUS
    <3>1. Len(stack) # 1
      <4>1. Half(c, side) # Root(arraySize)
        BY <1>1, <1>11, OneParent
      <4> QED BY <1>1, <1>2, <4>1, StackSegments
    <3>2. PICK m \in Nat \ {0} : Len(stack) = m + 1
      BY <1>1, <3>1, OneBefore
    <3>3. /\ m \in DOMAIN stack /\ ~IsLeaf(stack[m].segment) /\ NextSide(stack[m]) \in Sides
          /\ t = Half(stack[m].segment, NextSide(stack[m]))
      BY <1>1, <1>2, <3>2, StackSegments
    <3>4. stack[m].segment \in Segments(arraySize)
      BY <3>3 DEF UpdateTree, FrameLinked
    <3>5. c = stack[m].segment
      BY <1>1, <1>11, <3>3, <3>4, OneParent
    <3>6. stack[m].segment \in OnStack'
      <4>1. m \in DOMAIN stack' /\ stack'[m].segment = stack[m].segment
        BY <3>2, RecordedFrames
      <4> QED BY <4>1 DEF OnStack
    <3> QED BY <1>11, <3>5, <3>6
  <2>3. LeftHalf(c) = Half(c, "left") /\ RightHalf(c) = Half(c, "right")
        /\ "left" \in Sides /\ "right" \in Sides
    BY DEF Half, Sides
  <2>4. \A side \in Sides :
          /\ next[Half(c, side)] = q[Half(c, side)]
          /\ Latest(next[Half(c, side)])' = Latest(q[Half(c, side)])
          /\ next[Half(c, side)] \in Written' <=> q[Half(c, side)] \in Written
    BY <1>7, <2>1, <2>2
  <2>5. /\ next[LeftHalf(c)] = q[LeftHalf(c)] /\ next[RightHalf(c)] = q[RightHalf(c)]
        /\ Latest(next[LeftHalf(c)])' = Latest(q[LeftHalf(c)])
        /\ Latest(next[RightHalf(c)])' = Latest(q[RightHalf(c)])
    BY <2>3, <2>4
  <2>6. CASE c = t
    <3>1. next[c] \in Written' /\ Latest(next[c])' = state
      BY <1>7, <2>6
    <3> QED BY <1>4, <1>8, <1>11, <2>4, <2>5, <2>6, <3>1 DEF HalvesUpdated
  <2>7. CASE c # t
    <3>1. HalvesUpdated(q, c)
      BY <1>10, <1>11, <2>7 DEF UpdateTree
    <3>2. next[c] = q[c] /\ Latest(next[c])' = Latest(q[c])
          /\ (next[c] \in Written' <=> q[c] \in Written)
      BY <1>7, <2>7
    <3> QED BY <1>8, <2>4, <2>5, <3>1, <3>2 DEF HalvesUpdated
  <2> QED BY <2>6, <2>7
<1>12. (\A k \in DOMAIN stack : FrameLinked(next, stack[k]))'
  <2>1. CASE Len(stack) = 1
    <3>1. stack' = <<>>
      BY <1>1, <1>8, <2>1, ResumedEmpty
    <3>2. DOMAIN stack' = {}
      BY <3>1
    <3> QED BY <3>2
  <2>2. CASE Len(stack) # 1
    <3>1. PICK m \in Nat \ {0} : Len(stack) = m + 1
      BY <1>1, <2>2, OneBefore
    <3>2. DOMAIN stack' = 1 .. m
      BY <3>1, RecordedFrames
    <3>3. ASSUME NEW k \in 1 .. m, NEW g, g = stack'[k] PROVE FrameLinked(next, g)'
      BY <1>2, <1>4, <1>5, <3>1, <3>3, RecordedFrameLinked
    <3> QED BY <3>2, <3>3
  <2> QED BY <2>1, <2>2
<1>13. stack' = <<>> => call'.root = next[Root(arraySize)] /\ next[Root(arraySize)] \in Written'
  <2>1. CASE Len(stack) = 1
    BY <1>1, <1>2, <1>7, <1>8, <2>1, StackSegments
  <2>2. CASE Len(stack) # 1
    <3>1. PICK m \in Nat \ {0} : Len(stack) = m + 1
      BY <1>1, <2>2, OneBefore
    <3> QED BY <3>1, RecordedFrames
  <2> QED BY <2>1, <2>2
<1>14. UpdateTree(p, next)'
  BY <1>7, <1>8, <1>9, <1>11, <1>12, <1>13 DEF UpdateTree
<1> QED BY <1>14

LEMMA RecordedVInv ==
  ASSUME VInv, NEW seg, NEW foreseen, NEW seg2, NEW index, Recording(seg, foreseen, seg2, index)
  PROVE  VInv'
<1>1. FInv' /\ FInv
  BY RecordedFInv, RunningFInv DEF Recording
<1>2. /\ Len(roots) \in Nat /\ DOMAIN roots = 1 .. Len(roots)
      /\ call.phase = "update" /\ call.phase # "idle" /\ roots # <<>>
  <2>1. call.phase = "update"
    BY DEF Recording, Running
  <2> QED BY <1>1, <2>1, FInvFacts DEF CallOK
<1>3. /\ UNCHANGED <<roots, arraySize, bound>>
      /\ call'.left = call.left /\ call'.right = call.right /\ call'.value = call.value
      /\ call'.phase = "update" /\ call'.nextBound = call.nextBound
  BY RecordedLatest
<1>4. VersionsOK'
  <2>1. ASSUME NEW v \in 1 .. Len(roots) PROVE \E p, w : VersionOK(v, p, w)'
    <3>1. PICK p, w : VersionOK(v, p, w)
      BY <1>2 DEF VInv, VersionsOK
    <3>2. v \in Nat /\ v <= Len(roots)
      BY <1>2
    <3> QED BY <3>1, <3>2, VersionKept
  <2> QED BY <1>2, <1>3, <2>1 DEF VersionsOK
<1>5. PICK p, w : VersionOK(Len(roots), p, w) /\ LatestOK(p, w)
  BY <1>2 DEF VInv
<1>6. PICK q : UpdateTree(p, q)
  BY <1>2, <1>5 DEF LatestOK
<1>7. PICK next : UpdateTree(p, next)'
  BY <1>5, <1>6, RecordedTree
<1>8. AskedFor(w)'
  BY <1>2, <1>3, <1>5 DEF LatestOK, AskedFor
<1>9. LatestOK(p, w)'
  BY <1>3, <1>5, <1>7, <1>8 DEF LatestOK
<1>10. PICK v : v = Len(roots) /\ v' = v
  BY <1>3
<1>11. VersionOK(v, p, w)'
  BY <1>2, <1>5, <1>10, VersionKept
<1>12. (\E x, y : VersionOK(Len(roots), x, y) /\ LatestOK(x, y))'
  BY <1>3, <1>9, <1>10, <1>11
<1> QED BY <1>1, <1>4, <1>12 DEF VInv

LEMMA RecordVInv == VInv /\ (RecordInPlace \/ RecordInCopy) => VInv'
<1>1. ASSUME VInv, RecordInPlace PROVE VInv'
  <2>1. FInv
    BY <1>1 DEF VInv
  <2> QED BY <1>1, <2>1, RecordInPlaceIs, RecordedVInv
<1>2. ASSUME VInv, RecordInCopy PROVE VInv'
  <2>1. FInv
    BY <1>2 DEF VInv
  <2> QED BY <1>2, <2>1, RecordInCopyIs, RecordedVInv
<1> QED BY <1>1, <1>2

-----------------------------------------------------------------------------
(***************************************************************************)
(* initialize: the built arena is a tree of the array, read at version 1.  *)
(***************************************************************************)
LEMMA BuiltPlaces ==
  ASSUME NEW n \in Nat \ {0}, NEW l \in Nat, NEW seg \in [1 .. l -> Interval(n)], NEW sums, NEW t,
         l # 0, seg[l] = Root(n), \A i \in 1 .. l : NodeBuilt(sums, seg, t[i], i)
  PROVE  \E p \in [Segments(n) -> 1 .. l] : \A c \in Segments(n) : seg[p[c]] = c
<1> DEFINE F == {seg[i] : i \in 1 .. l}
<1>1. F \in SUBSET Interval(n) /\ Root(n) \in F
  BY l \in 1 .. l
<1>2. ASSUME NEW c \in F, ~IsLeaf(c) PROVE LeftHalf(c) \in F /\ RightHalf(c) \in F
  <2>1. PICK i \in 1 .. l : c = seg[i]
    OBVIOUS
  <2>2. NodeBuilt(sums, seg, t[i], i) /\ DOMAIN seg = 1 .. l
    OBVIOUS
  <2> QED BY <1>2, <2>1, <2>2 DEF NodeBuilt
<1>3. Segments(n) \subseteq F
  <2>1. Closed(F) /\ (n > 0 => Root(n) \in F) /\ n \in Nat
    BY <1>1, <1>2 DEF Closed
  <2> HIDE DEF F
  <2> QED BY <1>1, <2>1, SegmentsWithin
<1>4. PICK p : p = [c \in Segments(n) |-> CHOOSE i \in 1 .. l : seg[i] = c]
  OBVIOUS
<1>5. ASSUME NEW c \in Segments(n) PROVE p[c] \in 1 .. l /\ seg[p[c]] = c
  <2>1. \E i \in 1 .. l : seg[i] = c
    BY <1>3
  <2> QED BY <1>4, <2>1
<1>6. p \in [Segments(n) -> 1 .. l]
  BY <1>4, <1>5
<1> QED BY <1>5, <1>6

LEMMA InitializeVInv ==
  ASSUME FInv, NEW values \in Arrays, Initialize(values)
  PROVE  VInv' /\ (\E p : VersionOK(1, p, values))' /\ Len(roots') = 1 /\ DOMAIN roots' = {1}
<1>1. /\ call = Idle /\ call'.phase = "idle" /\ Admissible(values) /\ values \in Seq(Value)
      /\ nodes' = Built(values) /\ roots' = <<Len(nodes')>>
      /\ arraySize' = Len(values) /\ bound' = MaxMagnitude(values)
  BY ArraysAssumption DEF Initialize, Idle
<1>2. FInv' /\ TypeOK' /\ HistoriesOK'
  <2>1. FInv'
    BY InitializeFInv
  <2> QED BY <2>1 DEF FInv
<1>3. PICK seg, n, l, sums :
        /\ sums = CanonicalSum(values)
        /\ n = Len(values) /\ n \in Nat /\ l = Len(nodes') /\ l \in Nat
        /\ nodes' \in Seq(Seq(Modification))
        /\ seg \in [1 .. l -> Interval(n)]
        /\ \A i, k \in 1 .. l : seg[i] = seg[k] => i = k
        /\ n # 0 => l # 0 /\ seg[l] = Root(n)
        /\ \A i \in 1 .. l : NodeBuilt(sums, seg, nodes'[i], i)
  BY <1>1, BuiltArena
<1>4. /\ DOMAIN nodes' = 1 .. l /\ Len(roots') = 1 /\ DOMAIN roots' = {1}
      /\ roots'[1] = l /\ arraySize' = n
  BY <1>1, <1>3, LenProperties
<1>5. PICK p \in [Segments(n) -> 1 .. l] : \A c \in Segments(n) : seg[p[c]] = c
  <2>1. CASE n = 0
    <3>1. Segments(n) = {}
      BY <2>1 DEF Segments
    <3>2. [c \in {} |-> 0] \in [Segments(n) -> 1 .. l]
      BY <3>1
    <3> QED BY <3>1, <3>2
  <2>2. CASE n # 0
    <3>1. PICK t : t = nodes'
      OBVIOUS
    <3>2. /\ n \in Nat \ {0} /\ l \in Nat /\ l # 0 /\ seg \in [1 .. l -> Interval(n)]
          /\ seg[l] = Root(n) /\ \A i \in 1 .. l : NodeBuilt(sums, seg, t[i], i)
      BY <1>3, <2>2, <3>1
    <3> QED BY <3>2, BuiltPlaces
  <2> QED BY <2>1, <2>2
<1>6. \A c \in Segments(n) : p[c] \in 1 .. l /\ p[c] \in Nat /\ p[c] \in DOMAIN nodes'
  BY <1>3, <1>4, <1>5
<1>7. Placed(p)'
  <2>1. \A c, d \in Segments(n) : p[c] = p[d] => c = d
    BY <1>5
  <2> QED BY <1>4, <1>5, <2>1 DEF Placed
<1>8. ASSUME NEW i \in 1 .. l
      PROVE  /\ DOMAIN nodes'[i] = {1} /\ nodes'[i][1].version = 1 /\ nodes'[i][1] \in Modification
  <2>1. Len(nodes'[i]) = 1 /\ nodes'[i][1].version = 1 /\ nodes'[i] \in Seq(Modification)
    BY <1>3, ElementOfSeq DEF NodeBuilt
  <2>2. DOMAIN nodes'[i] = {1}
    BY <2>1, LenProperties
  <2> QED BY <2>1, <2>2, ElementOfSeq
<1>9. ASSUME NEW i \in 1 .. l
      PROVE  LiveAt(i, 1)' /\ Seen(i, 1)' = nodes'[i][1]
  <2>1. PICK node : node = nodes'[i]
    OBVIOUS
  <2>2. LiveAt(i, 1)' /\ Seen(i, 1)' = StateAt(node, 1)
    BY <1>4, <1>8, <2>1 DEF LiveAt, Seen
  <2>3. {k \in DOMAIN node : node[k].version <= 1} = {1}
    BY <1>8, <2>1
  <2>4. Max({1}) = 1
    BY DEF Max
  <2>5. StateAt(node, 1) = node[1]
    BY <2>3, <2>4 DEF StateAt
  <2> QED BY <2>1, <2>2, <2>5
<1>10. PICK S : S = StatesAt(1)'
  OBVIOUS
<1>11. S \in [Nat -> Modification]
  <2>1. \A i : Seen(i, 1)' \in Modification
    <3>1. [version |-> 0, leftChild |-> 0, rightChild |-> 0, sum |-> 0, lazy |-> 0]
            \in Modification
      BY ValueFacts DEF Modification
    <3>2. (CHOOSE state \in Modification : TRUE) \in Modification
      BY <3>1
    <3> SUFFICES ASSUME NEW i PROVE Seen(i, 1)' \in Modification
      OBVIOUS
    <3>3. CASE i \in 1 .. l
      BY <1>8, <1>9, <3>3
    <3>4. CASE i \notin 1 .. l
      BY <1>4, <3>2, <3>4 DEF Seen, LiveAt
    <3> QED BY <3>3, <3>4
  <2>2. S = [i \in Nat |-> Seen(i, 1)']
    BY <1>10 DEF StatesAt
  <2> QED BY <2>1, <2>2
<1>11a. \A i \in Nat : S[i] = Seen(i, 1)'
  <2>1. S = [i \in Nat |-> Seen(i, 1)']
    BY <1>10 DEF StatesAt
  <2> QED BY <2>1
<1>12. ASSUME NEW c \in Segments(n)
       PROVE  /\ S[p[c]] = nodes'[p[c]][1] /\ LiveAt(p[c], 1)'
              /\ S[p[c]].sum = sums[c] /\ S[p[c]].lazy = 0
              /\ ~IsLeaf(c) => /\ S[p[c]].leftChild \in 1 .. l
                               /\ seg[S[p[c]].leftChild] = LeftHalf(c)
                               /\ S[p[c]].rightChild \in 1 .. l
                               /\ seg[S[p[c]].rightChild] = RightHalf(c)
  <2>1. p[c] \in 1 .. l /\ p[c] \in Nat /\ seg[p[c]] = c
    BY <1>5, <1>6
  <2>2. S[p[c]] = nodes'[p[c]][1] /\ LiveAt(p[c], 1)'
    BY <1>9, <1>11a, <2>1
  <2>3. NodeBuilt(sums, seg, nodes'[p[c]], p[c]) /\ DOMAIN seg = 1 .. l
    BY <1>3, <2>1
  <2> QED BY <2>1, <2>2, <2>3 DEF NodeBuilt
<1>13. \A c \in Segments(n) : /\ c \in Interval(n)
                              /\ ~IsLeaf(c) => LeftHalf(c) \in Segments(n)
                                               /\ RightHalf(c) \in Segments(n)
  <2>1. n # 0 \/ Segments(n) = {}
    BY DEF Segments
  <2>2. CASE n # 0
    BY <1>3, <2>2, SegmentsClosed DEF Closed
  <2> QED BY <2>1, <2>2
<1>14. ASSUME NEW c \in Segments(n), ~IsLeaf(c)
       PROVE  S[p[c]].leftChild = p[LeftHalf(c)] /\ S[p[c]].rightChild = p[RightHalf(c)]
  <2>1. LeftHalf(c) \in Segments(n) /\ RightHalf(c) \in Segments(n)
    BY <1>13, <1>14
  <2>2. /\ p[LeftHalf(c)] \in 1 .. l /\ seg[p[LeftHalf(c)]] = LeftHalf(c)
        /\ p[RightHalf(c)] \in 1 .. l /\ seg[p[RightHalf(c)]] = RightHalf(c)
    BY <1>5, <1>6, <2>1
  <2> QED BY <1>3, <1>12, <1>14, <2>2
<1>15. \A c \in Segments(n) : sums[c] # Overflow /\ sums[c] \in Value
  <2>1. \A c \in Segments(n) : S[p[c]] \in Modification /\ S[p[c]].sum = sums[c]
    BY <1>6, <1>11, <1>12
  <2> QED BY <2>1, ModificationFacts, ValueFacts
<1>16. PICK L : L = [c \in Segments(n) |-> S[p[c]]]
  OBVIOUS
<1>17. \A c \in Segments(n) : L[c].sum = sums[c] /\ L[c].lazy = 0
  BY <1>12, <1>16
<1>18. ASSUME NEW c \in Segments(n)
       PROVE  /\ IsLeaf(c) => sums[c] = values[c[1]]
              /\ ~IsLeaf(c) => sums[c] = sums[LeftHalf(c)] + sums[RightHalf(c)]
  <2>1. \A i \in 1 .. n : values[i] \in Outcome
    BY <1>1, <1>3, ElementOfSeq, OutcomeFacts
  <2> QED BY <1>3, <1>13, <1>15, <2>1, CanonicalSumExact
<1>19. Labelled(n, L)
  <2>1. ASSUME NEW c \in Segments(n), ~IsLeaf(c)
        PROVE  SumOK(L[c], L[LeftHalf(c)], L[RightHalf(c)], Length(c))
    <3>1. LeftHalf(c) \in Segments(n) /\ RightHalf(c) \in Segments(n) /\ Length(c) \in Nat
      BY <1>3, <1>13, <2>1, Halves
    <3>2. /\ L[c].sum = sums[c] /\ L[c].lazy = 0
          /\ L[LeftHalf(c)].sum = sums[LeftHalf(c)] /\ L[RightHalf(c)].sum = sums[RightHalf(c)]
          /\ sums[c] = sums[LeftHalf(c)] + sums[RightHalf(c)]
      BY <1>17, <1>18, <2>1, <3>1
    <3>3. sums[LeftHalf(c)] \in Int /\ sums[RightHalf(c)] \in Int
      BY <1>15, <3>1, ValueFacts
    <3>4. 0 * Length(c) = 0
      BY <3>1
    <3> QED BY <3>2, <3>3, <3>4 DEF SumOK
  <2>2. \A c \in Segments(n) : L[c].sum \in Value /\ L[c].lazy \in Value
    BY <1>15, <1>17, ValueFacts
  <2> QED BY <2>1, <2>2 DEF Labelled
<1>20. TreeOf(n, L, values)
  <2>1. \A c \in Segments(n) : IF IsLeaf(c) THEN L[c].sum = values[c[1]] ELSE L[c].lazy = 0
    BY <1>17, <1>18
  <2> QED BY <1>1, <1>3, <1>19, <2>1, UntaggedTreeOf
<1>21. Readable(p, S, l, values)'
  <2>1. n # 0 => p[Root(n)] = l
    <3>1. ASSUME n # 0 PROVE p[Root(n)] = l
      <4>1. Root(n) \in Segments(n) /\ l \in 1 .. l
        BY <1>3, <3>1, RootOfSegments
      <4>2. p[Root(n)] \in 1 .. l /\ seg[p[Root(n)]] = Root(n)
        BY <1>5, <1>6, <4>1
      <4> QED BY <1>3, <3>1, <4>1, <4>2
    <3> QED BY <3>1
  <2>2. p \in [Segments(n) -> Nat]
    BY <1>5, <1>6
  <2> QED BY <1>4, <1>11, <1>14, <1>16, <1>20, <2>1, <2>2 DEF Readable, Linked, LabelsOf
<1>22. VersionOK(1, p, values)'
  <2>1. (\A c \in Segments(arraySize) : LiveAt(p[c], 1))'
    BY <1>4, <1>12
  <2> QED BY <1>4, <1>7, <1>10, <1>21, <2>1 DEF VersionOK
<1>23. LatestOK(p, values)'
  <2>1. MaxMagnitude(values) <= MaxMagnitude(values)
    <3>1. \A i \in DOMAIN values : values[i] \in Outcome
      BY <1>1, LenProperties, ElementOfSeq, OutcomeFacts
    <3>2. MaxMagnitude(values) \in Bound
      BY <3>1, MaxMagnitudeFacts
    <3> QED BY <3>2 DEF Bound
  <2> QED BY <1>1, <2>1 DEF LatestOK
<1>24. VersionsOK'
  BY <1>4, <1>22 DEF VersionsOK
<1> QED BY <1>2, <1>4, <1>22, <1>23, <1>24 DEF VInv

-----------------------------------------------------------------------------
(***************************************************************************)
(* The theorems about the published versions.                              *)
(***************************************************************************)
LEMMA NextVInv == VInv /\ [Next]_vars => VInv'
<1> SUFFICES ASSUME VInv, [Next]_vars PROVE VInv'
  OBVIOUS
<1>1. ASSUME NEW values \in Arrays, Initialize(values) PROVE VInv'
  BY <1>1, InitializeVInv DEF VInv
<1>2. ASSUME NEW left \in 1 .. arraySize, NEW right \in 1 .. arraySize,
             RangeAddZero(left, right)
      PROVE  VInv'
  BY <1>2, RangeAddZeroVInv
<1>3. ASSUME NEW left \in 1 .. arraySize, NEW right \in 1 .. arraySize, NEW value \in Deltas,
             BeginRangeAdd(left, right, value)
      PROVE  VInv'
  BY <1>3, BeginRangeAddVInv
<1>4. ASSUME Step PROVE VInv'
  BY <1>4, ReserveVInv, DescendVInv, RecordVInv, PublishVInv, ThrowVInv DEF Step
<1>5. CASE UNCHANGED vars
  BY <1>5, StutterVInv
<1> QED BY <1>1, <1>2, <1>3, <1>4, <1>5 DEF Next

(***************************************************************************)
(* Every version stands for an array, whatever calls and failures came     *)
(* before: its nodes, read at its stamp, are a tree of the array, and no   *)
(* state recorded since, in place or in a copy, shows in it.               *)
(***************************************************************************)
THEOREM VersionsInvariant == Spec => []VInv
<1>1. Init => VInv
  BY InitVInv
<1>2. VInv /\ [Next]_vars => VInv'
  BY NextVInv
<1> QED BY <1>1, <1>2, PTL DEF Spec

(***************************************************************************)
(* Every published version is a whole tree when its nodes are read at that *)
(* version, also while an update is writing to them.                       *)
(***************************************************************************)
THEOREM SnapshotsStayConsistent == Spec => []SnapshotsConsistent
<1>1. ASSUME VInv PROVE SnapshotsConsistent
  <2>1. TypeOK /\ HistoriesOK /\ \A v \in DOMAIN roots : v \in Nat
    BY <1>1, FInvFacts DEF VInv
  <2>2. ASSUME NEW v \in DOMAIN roots PROVE ConsistentAt(v)
    <3>1. PICK p, w : VersionOK(v, p, w)
      BY <1>1 DEF VInv, VersionsOK
    <3> QED BY <2>1, <3>1, VersionConsistent
  <2> QED BY <2>2 DEF SnapshotsConsistent
<1> QED BY <1>1, VersionsInvariant, PTL

(***************************************************************************)
(* rangeSum of any published version is exact or reports an overflow,      *)
(* whatever newer states its nodes hold.                                   *)
(***************************************************************************)
THEOREM VersionQueriesExact == Spec => []QueriesExact
<1>1. ASSUME VInv PROVE QueriesExact
  <2>1. TypeOK /\ HistoriesOK /\ arraySize \in Nat /\ \A v \in DOMAIN roots : v \in Nat
    BY <1>1, FInvFacts DEF VInv
  <2>2. ASSUME NEW v \in DOMAIN roots, NEW right \in 1 .. arraySize, NEW left \in 1 .. right
        PROVE  RangeSum(v, left, right) \in {ExactSum(Versions[v], left, right), Overflow}
    <3>1. PICK p, w : VersionOK(v, p, w)
      BY <1>1 DEF VInv, VersionsOK
    <3>2. Versions[v] = w
      BY <2>1, <3>1, ElementsAre DEF Versions
    <3>3. left \in 1 .. arraySize /\ right \in left .. arraySize
      BY <2>1
    <3>4. RangeSum(v, left, right) \in {ExactSum(w, left, right), Overflow}
      BY <2>1, <3>1, <3>3, VersionSums
    <3> QED BY <3>2, <3>4
  <2> QED BY <2>2 DEF QueriesExact
<1> QED BY <1>1, VersionsInvariant, PTL

-----------------------------------------------------------------------------
(***************************************************************************)
(* The refinement.                                                         *)
(***************************************************************************)
LEMMA ReferenceOperators ==
  ASSUME NEW values, NEW left, NEW right, NEW value
  PROVE  /\ Reference!Admissible(values) <=> Admissible(values)
         /\ Reference!AddToRange(values, left, right, value)
              = AddToRange(values, left, right, value)
<1>1. Reference!Admissible(values) <=> Admissible(values)
  BY DEF Reference!Admissible, Reference!CanonicalSum, Reference!Interval,
         Reference!IsLeaf, Reference!CheckedAdd, Reference!Root, Reference!Overflow,
         Reference!Value, Reference!Representable, Reference!LeftHalf,
         Reference!RightHalf, Reference!Midpoint, Reference!MinVal,
         Admissible, CanonicalSum, Interval, IsLeaf, CheckedAdd, Root, Overflow,
         Value, Representable, LeftHalf, RightHalf, Midpoint, MinVal
<1>2. \A x, y : Reference!CheckedAdd(x, y) = CheckedAdd(x, y)
  BY DEF Reference!CheckedAdd, Reference!Overflow, Reference!Value,
         Reference!Representable, Reference!MinVal,
         CheckedAdd, Overflow, Value, Representable, MinVal
<1>3. Reference!AddToRange(values, left, right, value)
        = AddToRange(values, left, right, value)
  BY <1>2 DEF Reference!AddToRange, AddToRange
<1> QED BY <1>1, <1>3

(* What a version stands for is what its elements are. *)
StandForArrays ==
  /\ \A v \in DOMAIN roots : \E p, w : VersionOK(v, p, w)
  /\ \A v \in DOMAIN roots : \A p, w : VersionOK(v, p, w) =>
       Versions[v] = w /\ w \in Seq(Value) /\ Len(w) = arraySize
  /\ Versions \in Seq(Seq(Value)) /\ Len(Versions) = Len(roots)
  /\ Len(roots) \in Nat /\ DOMAIN roots = 1 .. Len(roots)
  /\ DOMAIN Versions = 1 .. Len(roots)

LEMMA VersionsStand == VInv => StandForArrays
<1> SUFFICES ASSUME VInv PROVE StandForArrays
  OBVIOUS
<1>1. /\ TypeOK /\ HistoriesOK /\ Len(roots) \in Nat /\ DOMAIN roots = 1 .. Len(roots)
      /\ \A v \in DOMAIN roots : v \in Nat
  BY FInvFacts DEF VInv
<1>2. \A v \in DOMAIN roots : \E p, w : VersionOK(v, p, w)
  BY DEF VInv, VersionsOK
<1>3. ASSUME NEW v \in DOMAIN roots, NEW p, NEW w, VersionOK(v, p, w)
      PROVE  Versions[v] = w /\ w \in Seq(Value) /\ Len(w) = arraySize
  <2>1. Versions[v] = w
    BY <1>1, <1>3, ElementsAre DEF Versions
  <2> QED BY <1>3, <2>1 DEF VersionOK, Readable, TreeOf
<1>4. \A v \in 1 .. Len(roots) : Versions[v] \in Seq(Value)
  BY <1>1, <1>2, <1>3
<1>5. PICK n \in Nat : n = Len(roots)
  BY <1>1
<1>6. Versions = [v \in 1 .. n |-> Versions[v]] /\ DOMAIN Versions = 1 .. n
  BY <1>1, <1>5 DEF Versions
<1>7. Versions \in Seq(Seq(Value)) /\ Len(Versions) = n
  <2>1. PICK f : f = Versions
    OBVIOUS
  <2>2. f = [v \in 1 .. n |-> f[v]] /\ \A v \in 1 .. n : f[v] \in Seq(Value)
    BY <1>4, <1>5, <1>6, <2>1
  <2>3. f \in Seq(Seq(Value))
    BY <2>2, IsASeq
  <2>4. DOMAIN f = 1 .. n
    BY <2>2
  <2>5. Len(f) = n
    BY <2>3, <2>4, LenProperties
  <2> QED BY <2>1, <2>3, <2>5
<1> QED BY <1>1, <1>2, <1>3, <1>5, <1>6, <1>7 DEF StandForArrays

(* No step but initialize touches a published version. *)
LEMMA VersionsPersist ==
  ASSUME VInv, [Next]_vars, ~(\E values \in Arrays : Initialize(values)),
         NEW v \in DOMAIN roots, NEW p, NEW w, VersionOK(v, p, w)
  PROVE  VersionOK(v, p, w)'
<1>1. /\ FInv /\ roots \in Seq(Nat) /\ DOMAIN roots = 1 .. Len(roots) /\ Len(roots) \in Nat
      /\ v \in Nat /\ v <= Len(roots)
  BY FInvFacts DEF VInv, TypeOK
<1>2. CASE UNCHANGED <<nodes, roots, arraySize>>
  BY <1>2, SameVersion
<1>3. ASSUME UNCHANGED <<nodes, arraySize>>, NEW root \in Nat, roots' = Append(roots, root)
      PROVE  VersionOK(v, p, w)'
  <2>1. roots'[v] = roots[v]
    BY <1>1, <1>3, AppendProperties
  <2> QED BY <1>3, <2>1, SameVersion
<1>4. ASSUME NEW left, NEW right, RangeAddZero(left, right) PROVE VersionOK(v, p, w)'
  <2>1. UNCHANGED <<nodes, arraySize>> /\ roots' = Append(roots, Last(roots))
    BY <1>4 DEF RangeAddZero
  <2>2. PICK root : root = Last(roots) /\ root \in Nat
    BY <1>4, RangeAddZeroMakes
  <2> QED BY <1>3, <2>1, <2>2
<1>5. CASE Publish
  <2>1. UNCHANGED <<nodes, arraySize>> /\ roots' = Append(roots, call.root)
    BY <1>5 DEF Publish
  <2>2. call.root \in Nat
    BY <1>5, PublishMakes
  <2> QED BY <1>3, <2>1, <2>2
<1>6. CASE RecordInPlace
  BY <1>1, <1>6, RecordInPlaceIs, VersionKept
<1>7. CASE RecordInCopy
  BY <1>1, <1>7, RecordInCopyIs, VersionKept
<1>8. Reserve \/ Descend \/ Throw => UNCHANGED <<nodes, roots, arraySize>>
  BY DEF Reserve, Descend, Throw
<1>9. \A left, right, value : BeginRangeAdd(left, right, value)
                                => UNCHANGED <<nodes, roots, arraySize>>
  BY DEF BeginRangeAdd
<1>10. UNCHANGED vars => UNCHANGED <<nodes, roots, arraySize>>
  BY DEF vars
<1> QED BY <1>2, <1>4, <1>5, <1>6, <1>7, <1>8, <1>9, <1>10 DEF Next, Step

(* A step that publishes nothing leaves every version as it was. *)
LEMMA NothingPublished ==
  ASSUME VInv, VInv', [Next]_vars, ~(\E values \in Arrays : Initialize(values)), roots' = roots
  PROVE  Versions' = Versions
<1>1. StandForArrays /\ StandForArrays'
  BY VersionsStand, PTL
<1>2. ASSUME NEW v \in DOMAIN roots PROVE Versions'[v] = Versions[v]
  <2>1. PICK p, w : VersionOK(v, p, w)
    BY <1>1 DEF StandForArrays
  <2>2. VersionOK(v, p, w)'
    BY <2>1, VersionsPersist
  <2>3. Versions'[v] = w
    BY <1>1, <2>2 DEF StandForArrays
  <2> QED BY <1>1, <2>1, <2>3 DEF StandForArrays
<1>3. Versions \in Seq(Seq(Value)) /\ Versions' \in Seq(Seq(Value))
      /\ Len(Versions') = Len(Versions) /\ DOMAIN roots = 1 .. Len(Versions)
  BY <1>1 DEF StandForArrays
<1> QED BY <1>2, <1>3, SeqEqual

LEMMA VersionsExtended ==
  ASSUME VInv, VInv', [Next]_vars, ~(\E values \in Arrays : Initialize(values)),
         NEW root \in Nat, roots' = Append(roots, root),
         NEW n, n = Len(roots) + 1, NEW p, NEW w, VersionOK(n, p, w)'
  PROVE  Versions' = Append(Versions, w) /\ w \in Seq(Value)
<1>1. StandForArrays /\ StandForArrays'
  BY VersionsStand, PTL
<1>2. /\ Len(roots) \in Nat /\ DOMAIN roots = 1 .. Len(roots)
      /\ Len(roots') = n /\ DOMAIN roots' = 1 .. n /\ n \in DOMAIN roots'
  <2>1. roots \in Seq(Nat) /\ Len(roots) \in Nat /\ DOMAIN roots = 1 .. Len(roots)
    BY FInvFacts DEF VInv, TypeOK
  <2> QED BY <2>1, AppendProperties
<1>3. Versions'[n] = w /\ w \in Seq(Value)
  BY <1>1, <1>2 DEF StandForArrays
<1>4. ASSUME NEW v \in DOMAIN roots PROVE Versions'[v] = Versions[v]
  <2>1. PICK q, x : VersionOK(v, q, x)
    BY <1>1 DEF StandForArrays
  <2>2. VersionOK(v, q, x)'
    BY <2>1, VersionsPersist
  <2>3. Versions'[v] = x
    BY <1>1, <1>2, <2>2 DEF StandForArrays
  <2> QED BY <1>1, <2>1, <2>3 DEF StandForArrays
<1>5. /\ Versions \in Seq(Seq(Value)) /\ Len(Versions) = Len(roots)
      /\ Versions' \in Seq(Seq(Value)) /\ Len(Versions') = n
  BY <1>1, <1>2 DEF StandForArrays
<1>6. /\ Append(Versions, w) \in Seq(Seq(Value)) /\ Len(Append(Versions, w)) = n
      /\ \A v \in 1 .. Len(roots) : Append(Versions, w)[v] = Versions[v]
      /\ Append(Versions, w)[n] = w
  BY <1>3, <1>5, AppendProperties
<1>7. \A v \in 1 .. n : Versions'[v] = Append(Versions, w)[v]
  BY <1>2, <1>3, <1>4, <1>6
<1> QED BY <1>3, <1>5, <1>6, <1>7, SeqEqual

LEMMA InitializeRefines ==
  ASSUME VInv, VInv', NEW values \in Arrays, Initialize(values)
  PROVE  Reference!Initialize(values)
<1>1. StandForArrays'
  BY VersionsStand, PTL
<1>2. Len(roots') = 1 /\ DOMAIN roots' = {1} /\ (\E p : VersionOK(1, p, values))'
  BY InitializeVInv DEF VInv
<1>3. PICK p : VersionOK(1, p, values)'
  BY <1>2
<1>4. /\ Versions'[1] = values /\ values \in Seq(Value)
      /\ Versions' \in Seq(Seq(Value)) /\ Len(Versions') = 1
  BY <1>1, <1>2, <1>3 DEF StandForArrays
<1>5. <<values>> \in Seq(Seq(Value)) /\ Len(<<values>>) = 1 /\ <<values>>[1] = values
  BY <1>4
<1>6. \A i \in 1 .. Len(Versions') : Versions'[i] = <<values>>[i]
  BY <1>4, <1>5
<1>7. Versions' = <<values>>
  BY <1>4, <1>5, <1>6, SeqEqual
<1>8. Reference!Admissible(values)
  BY ReferenceOperators DEF Initialize
<1> QED BY <1>7, <1>8 DEF Reference!Initialize

(* What a call that extends the latest version asks of the reference. *)
LEMMA ExtensionRefines ==
  ASSUME VInv, VInv', [Next]_vars, ~(\E values \in Arrays : Initialize(values)),
         NEW root \in Nat, roots' = Append(roots, root), roots # <<>>, Len(roots) < MaxVersions,
         NEW p, NEW w, VersionOK(Len(roots), p, w),
         NEW n, n = Len(roots) + 1, NEW q, NEW next, VersionOK(n, q, next)',
         NEW left, NEW right, NEW value, left \in 1 .. arraySize, right \in left .. arraySize,
         next = AddToRange(w, left, right, value), Admissible(next)
  PROVE  /\ Versions # <<>> /\ Len(Versions) = Len(roots)
         /\ right \in 1 .. Len(Versions[Len(Versions)]) /\ left \in 1 .. right
         /\ Reference!RangeAdd(Len(roots), left, right, value)
<1>1. Versions' = Append(Versions, next)
  BY VersionsExtended
<1>2. StandForArrays /\ Len(roots) \in DOMAIN roots /\ arraySize \in Nat
  <2>1. roots \in Seq(Nat) /\ Len(roots) \in Nat /\ DOMAIN roots = 1 .. Len(roots)
        /\ arraySize \in Nat
    BY FInvFacts DEF VInv, TypeOK
  <2> QED BY <2>1, VersionsStand, EmptySeq
<1>3. /\ Versions[Len(roots)] = w /\ Len(w) = arraySize
      /\ Len(Versions) = Len(roots) /\ DOMAIN Versions = DOMAIN roots /\ Len(roots) \in Nat
  BY <1>2 DEF StandForArrays
<1>4. Versions # <<>>
  BY <1>2, <1>3
<1>5. right \in 1 .. Len(Versions[Len(roots)]) /\ left \in 1 .. right
      /\ left <= right /\ right <= Len(Versions[Len(roots)])
  BY <1>2, <1>3
<1>6. Reference!ValidRange(Len(roots), left, right)
  BY <1>2, <1>3, <1>5 DEF Reference!ValidRange
<1>7. Reference!AddToRange(Versions[Len(roots)], left, right, value) = next
      /\ Reference!Admissible(next)
  BY <1>3, ReferenceOperators
<1>8. Reference!RangeAdd(Len(roots), left, right, value)
  BY <1>1, <1>3, <1>6, <1>7 DEF Reference!RangeAdd
<1> QED BY <1>3, <1>4, <1>5, <1>8

(* An update publishes as the reference's update of the latest version. *)
LEMMA PublishRefines ==
  ASSUME VInv, VInv', Publish
  PROVE  /\ call.value \in Deltas /\ Versions # <<>> /\ Len(Versions) = Len(roots)
         /\ call.right \in 1 .. Len(Versions[Len(Versions)]) /\ call.left \in 1 .. call.right
         /\ Reference!RangeAdd(Len(roots), call.left, call.right, call.value)
<1>1. /\ TypeOK /\ HistoriesOK /\ CallOK /\ arraySize \in Nat /\ call.phase # "idle"
      /\ UNCHANGED <<nodes, arraySize>> /\ roots' = Append(roots, call.root)
  BY FInvFacts DEF VInv, Publish
<1>2. /\ call.left \in 1 .. arraySize /\ call.right \in call.left .. arraySize
      /\ call.value \in Deltas /\ roots # <<>>
  BY <1>1, CallFacts DEF CallOK
<1>3. PICK p, w, q, next :
        /\ VersionOK(Len(roots), p, w) /\ AskedFor(w)
        /\ next = AddToRange(w, call.left, call.right, call.value)
        /\ Placed(q) /\ call.root \in Nat /\ Readable(q, LatestStates, call.root, next)
  BY PublishMakes
<1>4. PICK n : n = Len(roots) + 1
  OBVIOUS
<1>5. VersionOK(n, q, next)'
  BY <1>1, <1>3, <1>4, PublishedVersion
<1>6. Admissible(next) /\ Len(roots) < MaxVersions
  BY <1>3 DEF AskedFor
<1>7. [Next]_vars /\ ~(\E values \in Arrays : Initialize(values))
  <2>1. Next
    BY DEF Next, Step
  <2>2. ~(\E values \in Arrays : Initialize(values))
    BY <1>1 DEF Initialize, Idle
  <2> QED BY <2>1, <2>2
<1>8. PICK root, left, right, value :
        root = call.root /\ left = call.left /\ right = call.right /\ value = call.value
  OBVIOUS
<1>9. /\ Versions # <<>> /\ Len(Versions) = Len(roots)
      /\ right \in 1 .. Len(Versions[Len(Versions)]) /\ left \in 1 .. right
      /\ Reference!RangeAdd(Len(roots), left, right, value)
  BY <1>1, <1>2, <1>3, <1>4, <1>5, <1>6, <1>7, <1>8, ExtensionRefines
<1> QED BY <1>2, <1>8, <1>9

(* The zero-delta path publishes as the reference's update by zero. *)
LEMMA RangeAddZeroRefines ==
  ASSUME VInv, VInv', NEW left \in 1 .. arraySize, NEW right \in 1 .. arraySize,
         RangeAddZero(left, right)
  PROVE  /\ 0 \in Deltas /\ Versions # <<>> /\ Len(Versions) = Len(roots)
         /\ right \in 1 .. Len(Versions[Len(Versions)]) /\ left \in 1 .. right
         /\ Reference!RangeAdd(Len(roots), left, right, 0)
<1>1. /\ TypeOK /\ HistoriesOK
      /\ UNCHANGED <<nodes, arraySize>> /\ roots' = Append(roots, Last(roots))
      /\ 0 \in Deltas /\ roots # <<>> /\ Len(roots) < MaxVersions
      /\ left \in 1 .. arraySize /\ right \in left .. arraySize
  BY FInvFacts DEF VInv, RangeAddZero, ValidRangeAdd
<1>2. PICK p, w, root :
        /\ VersionOK(Len(roots), p, w) /\ Admissible(w)
        /\ root = Last(roots) /\ root \in Nat
        /\ Placed(p) /\ Readable(p, LatestStates, root, w)
  BY RangeAddZeroMakes
<1>3. PICK n : n = Len(roots) + 1
  OBVIOUS
<1>4. VersionOK(n, p, w)'
  BY <1>1, <1>2, <1>3, PublishedVersion
<1>5. w = AddToRange(w, left, right, 0)
  <2>1. w \in Seq(Value) /\ Len(w) \in Nat /\ DOMAIN w = 1 .. Len(w)
    BY <1>2, LenProperties DEF VersionOK, Readable, TreeOf
  <2>2. w \in [1 .. Len(w) -> Value]
    BY <2>1, LenProperties
  <2>3. \A x \in Value : CheckedAdd(x, 0) = x
    BY ValueFacts DEF CheckedAdd, Representable
  <2>4. AddToRange(w, left, right, 0) = [k \in 1 .. Len(w) |-> w[k]]
    BY <2>1, <2>2, <2>3 DEF AddToRange
  <2> QED BY <2>2, <2>4
<1>6. [Next]_vars /\ ~(\E values \in Arrays : Initialize(values))
  <2>1. Next
    BY DEF Next
  <2>2. ~(\E values \in Arrays : Initialize(values))
    <3>1. Len(roots') = Len(roots) + 1 /\ Len(roots) \in Nat \ {0}
      BY <1>1, AppendProperties, EmptySeq, LenProperties DEF TypeOK
    <3>2. \A values : Initialize(values) => Len(roots') = 1
      BY DEF Initialize
    <3> QED BY <3>1, <3>2
  <2> QED BY <2>1, <2>2
<1>7. PICK zero : zero = 0
  OBVIOUS
<1>8. /\ Versions # <<>> /\ Len(Versions) = Len(roots)
      /\ right \in 1 .. Len(Versions[Len(Versions)]) /\ left \in 1 .. right
      /\ Reference!RangeAdd(Len(roots), left, right, zero)
  BY <1>1, <1>2, <1>3, <1>4, <1>5, <1>6, <1>7, ExtensionRefines
<1> QED BY <1>1, <1>7, <1>8

LEMMA StepRefines ==
  ASSUME VInv, VInv', [Next]_vars
  PROVE  Versions' # Versions => Reference!LatestNext
<1>1. ASSUME NEW values \in Arrays, Initialize(values) PROVE Reference!LatestNext
  BY <1>1, InitializeRefines DEF Reference!LatestNext
<1>2. ASSUME NEW left \in 1 .. arraySize, NEW right \in 1 .. arraySize,
             RangeAddZero(left, right)
      PROVE  Reference!LatestNext
  BY <1>2, RangeAddZeroRefines DEF Reference!LatestNext
<1>3. CASE Publish
  BY <1>3, PublishRefines DEF Reference!LatestNext
<1>4. ASSUME ~(\E values \in Arrays : Initialize(values)),
             \/ \E left, right, value : BeginRangeAdd(left, right, value)
             \/ Reserve \/ Descend \/ RecordInPlace \/ RecordInCopy \/ Throw
             \/ UNCHANGED vars
      PROVE  Versions' = Versions
  <2>1. roots' = roots
    BY <1>4 DEF BeginRangeAdd, Reserve, Descend, RecordInPlace, RecordInCopy, ReturnIndex,
                Throw, vars
  <2> QED BY <1>4, <2>1, NothingPublished
<1> QED BY <1>1, <1>2, <1>3, <1>4 DEF Next, Step

(***************************************************************************)
(* The structure implements the reference: however its updates overwrite   *)
(* and copy nodes, the versions they publish are made one by one as        *)
(* brute_force_array.cpp makes them, from the latest one and as the call   *)
(* asked, and no version changes at any other step.                        *)
(***************************************************************************)
THEOREM ImplementsReference == Spec => ImplementsBruteForceArray
<1>1. Init => Reference!Init
  <2>1. Init => Versions = [v \in {} |-> Elements(v)]
    BY DEF Init, Versions
  <2>2. [v \in {} |-> Elements(v)] = <<>>
    OBVIOUS
  <2> QED BY <2>1, <2>2 DEF Reference!Init
<1>2. ASSUME VInv, VInv', [Next]_vars
      PROVE  [Versions' # Versions => Reference!LatestNext]_Versions
  BY <1>2, StepRefines
<1>3. ASSUME VInv, VInv', [Next]_vars
      PROVE  [PublishesAsAsked]_vars
  BY <1>3, PublishRefines DEF PublishesAsAsked
<1> QED BY <1>1, <1>2, <1>3, VersionsInvariant, PTL
        DEF Spec, ImplementsBruteForceArray, Reference!LatestSpec

=============================================================================
