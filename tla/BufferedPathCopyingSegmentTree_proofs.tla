----------------- MODULE BufferedPathCopyingSegmentTree_proofs -----------------
(***************************************************************************)
(* Proofs about BufferedPathCopyingSegmentTree for every width, every      *)
(* array, every sequence of calls and every place an exception can strike. *)
(***************************************************************************)
EXTENDS BufferedPathCopyingSegmentTree, SegmentTrees_proofs, FiniteSetTheorems

-----------------------------------------------------------------------------
(***************************************************************************)
(* The trees: children are older than their parents and were made for the  *)
(* halves of their segments, whatever is written into the buffers.         *)
(***************************************************************************)
LinkedAt(arena, i) ==
  ~IsLeaf(arena[i].segment) =>
    /\ arena[i].leftChild \in 1 .. i - 1
    /\ arena[i].rightChild \in 1 .. i - 1
    /\ arena[arena[i].leftChild].segment = LeftHalf(arena[i].segment)
    /\ arena[arena[i].rightChild].segment = RightHalf(arena[i].segment)

Linked(arena) == \A i \in DOMAIN arena : LinkedAt(arena, i)

ChildOK(arena, index, c) == index \in DOMAIN arena /\ arena[index].segment = c

RootOK(root) == arraySize # 0 => ChildOK(nodes, root, Root(arraySize))

TreesLinked ==
  /\ Linked(nodes)
  /\ Linked(newNodes)
  /\ \A v \in DOMAIN roots : RootOK(roots[v])

(***************************************************************************)
(* The recursion: each frame works on the segment its caller descended to, *)
(* an update's frame on a published node of that segment.                  *)
(***************************************************************************)
CallSize == IF call.op = "initialize" THEN Len(call.values) ELSE arraySize

BuildFrameOK(f) ==
  IF IsLeaf(f.segment) THEN f.todo = {}
  ELSE /\ "left" \in f.todo \/ ChildOK(newNodes, f.newLeft, LeftHalf(f.segment))
       /\ "right" \in f.todo \/ ChildOK(newNodes, f.newRight, RightHalf(f.segment))

UpdateFrameOK(f) ==
  /\ f.node \in 1 .. call.checkpoint
  /\ nodes[f.node].segment = f.segment
  /\ ~Disjoint(call.left, call.right, f.segment)
  /\ Covers(call.left, call.right, f.segment) => f.todo = {}
  /\ ~IsLeaf(f.segment) =>
       /\ ChildOK(nodes, f.newLeft, LeftHalf(f.segment))
       /\ ChildOK(nodes, f.newRight, RightHalf(f.segment))
  /\ "left" \in f.todo => call.left <= Midpoint(f.segment)
  /\ "right" \in f.todo => call.right > Midpoint(f.segment)

FrameOK(f) ==
  /\ f.segment \in Interval(CallSize)
  /\ call.op = "initialize" => BuildFrameOK(f)
  /\ call.op = "rangeAdd" => UpdateFrameOK(f)

FrameInPlace(k) ==
  /\ FrameOK(stack[k])
  /\ IF k = 1 THEN stack[k].segment = Root(CallSize)
     ELSE stack[k].segment = Half(stack[k - 1].segment, NextSide(stack[k - 1]))

FramesOK ==
  /\ Nested(stack)
  /\ \A k \in DOMAIN stack : FrameInPlace(k)

CallOK ==
  /\ call.op = "idle" => stack = <<>>
  /\ call.op # "initialize" => newNodes = <<>>
  /\ call.op = "initialize" =>
       IF call.values = <<>> THEN stack = <<>> /\ newNodes = <<>>
       ELSE stack = <<>> => ChildOK(newNodes, returned, Root(CallSize))
  /\ call.op = "rangeAdd" =>
       /\ call.left <= call.right /\ call.right <= arraySize
       /\ call.version = Len(roots) + 1
       /\ call.checkpoint <= Len(nodes)
       /\ \A v \in DOMAIN roots : roots[v] <= call.checkpoint
       /\ stack = <<>> => ChildOK(nodes, returned, Root(arraySize))

(***************************************************************************)
(* The buffers: an entry of the version being made is the last one of a    *)
(* node that is recorded, and every recorded node has one.  A node is      *)
(* recorded once, because the recursion has passed its segment.            *)
(***************************************************************************)
Written == IF call.op = "rangeAdd" THEN Range(bufferedThisUpdate) ELSE {}

Ordered(b) ==
  /\ Len(b) <= BufferCapacity
  /\ \A k \in DOMAIN b : k > 1 => b[k - 1].version < b[k].version

Settled(b) == \A k \in DOMAIN b : b[k].version <= Len(roots)

Pending(b) ==
  /\ b # <<>>
  /\ \A k \in DOMAIN b : IF k = Len(b) THEN b[k].version = Len(roots) + 1
                         ELSE b[k].version <= Len(roots)

BufferOK(i) ==
  /\ Ordered(nodes[i].buffer)
  /\ IF i \in Written THEN Pending(nodes[i].buffer) ELSE Settled(nodes[i].buffer)

BuffersOK ==
  /\ \A i \in DOMAIN nodes : BufferOK(i)
  /\ \A i \in DOMAIN newNodes : newNodes[i].buffer = <<>>

Done == {nodes[i].segment : i \in Written}

RecordOK ==
  call.op = "rangeAdd" =>
    /\ bufferedThisUpdate \in Seq(1 .. call.checkpoint)
    /\ \A j, k \in DOMAIN bufferedThisUpdate :
         bufferedThisUpdate[j] = bufferedThisUpdate[k] => j = k
    /\ Done \subseteq Interval(arraySize)
    /\ Passed(stack, Done)

(***************************************************************************)
(* The inductive invariant.                                                *)
(***************************************************************************)
BInv == TypeOK /\ TreesLinked /\ CallOK /\ FramesOK /\ BuffersOK /\ RecordOK

-----------------------------------------------------------------------------
(***************************************************************************)
(* Reading a node at a version.                                            *)
(***************************************************************************)
Snapshot == [sum : Outcome, lazy : Outcome]

After(entry, version, s) ==
  IF entry.version > version THEN s
  ELSE [sum  |-> CheckedAdd(s.sum, entry.deltaSum),
        lazy |-> CheckedAdd(s.lazy, entry.deltaLazy)]

(* The recursion of snapshotAt over the entries. *)
States(f, node, version) ==
  /\ f \in [0 .. Len(node.buffer) -> Snapshot]
  /\ f[0] = [sum |-> node.baseSum, lazy |-> node.baseLazy]
  /\ \A k \in 1 .. Len(node.buffer) : f[k] = After(node.buffer[k], version, f[k - 1])

LEMMA SnapshotStates ==
  ASSUME NEW node \in Node, NEW version
  PROVE  \E f : States(f, node, version) /\ SnapshotAt(node, version) = f[Len(node.buffer)]
<1> DEFINE n == Len(node.buffer)
           first == [sum |-> node.baseSum, lazy |-> node.baseLazy]
           next == [x \in (1 .. n) \X Snapshot |-> After(node.buffer[x[1]], version, x[2])]
           Solved(f) == [k \in 0 .. n |->
                         IF k = 0 THEN first
                         ELSE IF node.buffer[k].version > version THEN f[k - 1]
                         ELSE [sum  |-> CheckedAdd(f[k - 1].sum, node.buffer[k].deltaSum),
                               lazy |-> CheckedAdd(f[k - 1].lazy, node.buffer[k].deltaLazy)]]
<1>1. n \in Nat
  BY LenProperties DEF Node
<1>2. first \in Snapshot
  BY DEF Node, Snapshot, Outcome
<1>3. next \in [(1 .. n) \X Snapshot -> Snapshot]
  BY CheckedAddOutcome DEF After, Snapshot
<1>4. PICK g : CountSolution(g, n, Snapshot, first, next)
  <2> HIDE DEF n, first, next, Snapshot
  <2> QED BY <1>1, <1>2, <1>3, CountRecursionSolved
<1>5. g = Solved(g)
  <2>1. ASSUME NEW k \in 0 .. n PROVE g[k] = Solved(g)[k]
    <3>1. CASE k = 0
      BY <1>4, <3>1 DEF CountSolution
    <3>2. CASE k # 0
      <4>1. k \in 1 .. n /\ g[k - 1] \in Snapshot
        BY <1>1, <1>4, <3>2 DEF CountSolution
      <4>2. g[k] = next[<<k, g[k - 1]>>]
        BY <1>4, <4>1 DEF CountSolution
      <4>3. g[k] = After(node.buffer[k], version, g[k - 1])
        BY <4>1, <4>2
      <4> QED BY <3>2, <4>3 DEF After
    <3> QED BY <3>1, <3>2
  <2>2. g \in [0 .. n -> Snapshot]
    BY <1>4 DEF CountSolution
  <2> QED BY <2>1, <2>2
<1>6. \E f : f = Solved(f)
  BY <1>5
<1>7. PICK f : f = Solved(f) /\ SnapshotAt(node, version) = f[n]
  BY <1>6 DEF SnapshotAt
<1>8. f[0] = first
  BY <1>1, <1>7
<1>9. \A k \in 1 .. n : f[k] = After(node.buffer[k], version, f[k - 1])
  <2> TAKE k \in 1 .. n
  <2>1. f[k] = Solved(f)[k]
    BY <1>7
  <2>2. k \in 0 .. n /\ k # 0
    BY <1>1
  <2> QED BY <2>1, <2>2 DEF After
<1>10. f \in [0 .. n -> Snapshot]
  <2> DEFINE T == {k \in Nat : k <= n => f[k] \in Snapshot}
  <2>1. 0 \in T
    BY <1>2, <1>8
  <2>2. ASSUME NEW k \in Nat, k \in T PROVE k + 1 \in T
    <3> HIDE DEF n, first
    <3> SUFFICES ASSUME k + 1 <= n PROVE f[k + 1] \in Snapshot
      OBVIOUS
    <3>1. k + 1 \in 1 .. n /\ (k + 1) - 1 = k /\ f[k] \in Snapshot
      BY <1>1, <2>2
    <3>2. f[k + 1] = After(node.buffer[k + 1], version, f[k])
      BY <1>9, <3>1
    <3> QED BY <3>1, <3>2, CheckedAddOutcome DEF After, Snapshot
  <2>3. Nat \subseteq T
    <3> HIDE DEF T
    <3> QED BY <2>1, <2>2, SetInduction
  <2>4. \A k \in 0 .. n : f[k] \in Snapshot
    BY <1>1, <2>3
  <2> QED BY <1>7, <2>4
<1> QED BY <1>7, <1>8, <1>9, <1>10 DEF States

(* Both fields of a node as read at a version are values or overflows. *)
LEMMA SnapshotType ==
  ASSUME NEW node \in Node, NEW version
  PROVE  /\ SnapshotAt(node, version) \in Snapshot
         /\ node.buffer = <<>> =>
              SnapshotAt(node, version) = [sum |-> node.baseSum, lazy |-> node.baseLazy]
<1>1. PICK f : States(f, node, version) /\ SnapshotAt(node, version) = f[Len(node.buffer)]
  BY SnapshotStates
<1>2. Len(node.buffer) \in Nat
  BY LenProperties DEF Node
<1>3. SnapshotAt(node, version) \in Snapshot
  BY <1>1, <1>2 DEF States
<1>4. node.buffer = <<>> => Len(node.buffer) = 0
  OBVIOUS
<1> QED BY <1>1, <1>3, <1>4 DEF States

LEMMA NodeAtType ==
  ASSUME TypeOK, NEW i
  PROVE  /\ NodeAt(i) \in Node
         /\ NodeAt(i).leftChild \in Nat /\ NodeAt(i).rightChild \in Nat
<1>1. [leftChild |-> 0, rightChild |-> 0, baseSum |-> 0, baseLazy |-> 0,
       buffer |-> <<>>, segment |-> <<0, 0>>] \in Node
  BY ValueFacts, EmptySeq DEF Node
<1>2. (CHOOSE node \in Node : TRUE) \in Node
  BY <1>1
<1>3. \A j \in DOMAIN nodes : nodes[j] \in Node
  BY ElementOfSeq, LenProperties DEF TypeOK
<1>4. NodeAt(i) \in Node
  BY <1>2, <1>3 DEF NodeAt
<1> QED BY <1>4 DEF Node

(* The recursion of a read goes from one visit to two others. *)
LEMMA VisitType ==
  ASSUME TypeOK
  PROVE  /\ \A root \in Nat : arraySize # 0 => RootVisit(root) \in Visit
         /\ \A at \in Visit : \A k \in Int :
              /\ at.segment \in Interval(arraySize)
              /\ LeftVisit(at, k).segment = LeftHalf(at.segment)
              /\ RightVisit(at, k).segment = RightHalf(at.segment)
              /\ ~IsLeaf(at.segment) =>
                   LeftVisit(at, k) \in Visit /\ RightVisit(at, k) \in Visit
<1>1. arraySize \in Nat
  BY DEF TypeOK
<1>2. ASSUME NEW root \in Nat, arraySize # 0
      PROVE  RootVisit(root) \in Visit
  <2>1. Root(arraySize) \in Interval(arraySize)
    BY <1>1, <1>2, RootIsSegment
  <2> QED BY <2>1 DEF RootVisit, Visit
<1>3. ASSUME NEW at \in Visit, NEW k \in Int
      PROVE  /\ at.segment \in Interval(arraySize)
             /\ LeftVisit(at, k).segment = LeftHalf(at.segment)
             /\ RightVisit(at, k).segment = RightHalf(at.segment)
  BY DEF Visit, LeftVisit, RightVisit
<1>4. ASSUME NEW at \in Visit, NEW k \in Int, ~IsLeaf(at.segment)
      PROVE  LeftVisit(at, k) \in Visit /\ RightVisit(at, k) \in Visit
  <2>1. /\ LeftHalf(at.segment) \in Interval(arraySize)
        /\ RightHalf(at.segment) \in Interval(arraySize)
    BY <1>1, <1>3, <1>4, Halves
  <2>2. NodeAt(at.node).leftChild \in Nat /\ NodeAt(at.node).rightChild \in Nat
    BY NodeAtType
  <2> QED BY <2>1, <2>2 DEF LeftVisit, RightVisit, Visit
<1> QED BY <1>2, <1>3, <1>4

LEMMA BelowInt == \A snapshot, inherited : Below(snapshot, inherited) \in Int
BY CheckedAddOutcome, OutcomeFacts DEF Below

(* A recursion over visits has a solution. *)
VisitsAsked(tags, V, base, join) ==
  /\ tags \in [Visit -> Int] /\ base \in [Visit -> V]
  /\ join \in [Visit \X V \X V -> V]

VisitsAnswered(f, tags, V, stop, base, join) ==
  /\ f \in [Visit -> V]
  /\ \A at \in Visit :
       f[at] = IF IsLeaf(at.segment) \/ at \in stop THEN base[at]
               ELSE join[<<at, f[LeftVisit(at, tags[at])], f[RightVisit(at, tags[at])]>>]

LEMMA VisitsSolved ==
  TypeOK => \A tags, V, stop, base, join :
    VisitsAsked(tags, V, base, join) => \E f : VisitsAnswered(f, tags, V, stop, base, join)
<1> SUFFICES ASSUME TypeOK, NEW tags, NEW V, NEW stop, NEW base, NEW join,
                    VisitsAsked(tags, V, base, join)
             PROVE  \E f : VisitsAnswered(f, tags, V, stop, base, join)
  OBVIOUS
<1> DEFINE toLeft == [at \in Visit |-> LeftVisit(at, tags[at])]
           toRight == [at \in Visit |-> RightVisit(at, tags[at])]
<1>1. /\ arraySize \in Nat /\ tags \in [Visit -> Int] /\ base \in [Visit -> V]
      /\ join \in [Visit \X V \X V -> V]
  BY DEF TypeOK, VisitsAsked
<1>2. \A at \in Visit : /\ toLeft[at] = LeftVisit(at, tags[at])
                        /\ toRight[at] = RightVisit(at, tags[at])
  OBVIOUS
<1> HIDE DEF toLeft, toRight
<1>3. \A at \in Visit :
        /\ at.segment \in Interval(arraySize)
        /\ ~IsLeaf(at.segment) =>
             /\ toLeft[at] \in Visit /\ toLeft[at].segment = LeftHalf(at.segment)
             /\ toRight[at] \in Visit /\ toRight[at].segment = RightHalf(at.segment)
  <2> TAKE at \in Visit
  <2>1. PICK k \in Int : k = tags[at]
    BY <1>1
  <2>2. toLeft[at] = LeftVisit(at, k) /\ toRight[at] = RightVisit(at, k)
    BY <1>2, <2>1
  <2> QED BY <2>2, VisitType
<1>4. NodeRecursion(arraySize, Visit, V, stop, base, toLeft, toRight, join)
  BY <1>1, <1>3 DEF NodeRecursion, Visits
<1>5. PICK f : NodeSolution(f, Visit, V, stop, base, toLeft, toRight, join)
  BY <1>4, NodeRecursionSolved
<1>6. \A at \in Visit :
        f[at] = IF IsLeaf(at.segment) \/ at \in stop THEN base[at]
                ELSE join[<<at, f[LeftVisit(at, tags[at])], f[RightVisit(at, tags[at])]>>]
  BY <1>2, <1>5 DEF NodeSolution
<1> QED BY <1>5, <1>6 DEF NodeSolution, VisitsAnswered

(* materialize returns one value or overflow for every element. *)
LEMMA MaterializeType ==
  ASSUME TypeOK, NEW root \in Nat, NEW version
  PROVE  Materialize(root, version) \in Seq(Outcome)
<1> DEFINE V == Seq(Outcome)
           tag(at) == Below(Seen(at, version), at.inherited)
           tags == [at \in Visit |-> tag(at)]
           base == [at \in Visit |-> <<Covered(Seen(at, version), at.inherited, 1)>>]
           join == [x \in Visit \X V \X V |-> x[2] \o x[3]]
           Solved(f) == [at \in Visit |->
                         IF IsLeaf(at.segment)
                         THEN <<Covered(Seen(at, version), at.inherited, 1)>>
                         ELSE f[LeftVisit(at, tag(at))] \o f[RightVisit(at, tag(at))]]
<1>1. \A at : Covered(Seen(at, version), at.inherited, 1) \in Outcome
  BY CheckedAddOutcome, OutcomeFacts DEF Covered, Apply
<1>2. base \in [Visit -> V]
  BY <1>1
<1>3. join \in [Visit \X V \X V -> V]
  BY ConcatProperties
<1>3a. tags \in [Visit -> Int]
  BY BelowInt
<1>4. PICK f : VisitsAnswered(f, tags, V, {}, base, join)
  <2>1. VisitsAsked(tags, V, base, join)
    BY <1>2, <1>3, <1>3a DEF VisitsAsked
  <2> HIDE DEF V, tags, base, join
  <2> QED BY <2>1, VisitsSolved
<1>5. \A at \in Visit : f[at] = Solved(f)[at]
  <2> TAKE at \in Visit
  <2>1. PICK k \in Int : k = tag(at)
    BY BelowInt
  <2>2. tags[at] = k
    BY <2>1
  <2>3. ~IsLeaf(at.segment) => f[LeftVisit(at, k)] \in V /\ f[RightVisit(at, k)] \in V
    BY <1>4, VisitType DEF VisitsAnswered
  <2>4. f[at] = IF IsLeaf(at.segment) THEN base[at]
                ELSE join[<<at, f[LeftVisit(at, k)], f[RightVisit(at, k)]>>]
    <3> HIDE DEF tags, V, base, join
    <3> QED BY <1>4, <2>2 DEF VisitsAnswered
  <2>5. ~IsLeaf(at.segment) =>
          join[<<at, f[LeftVisit(at, k)], f[RightVisit(at, k)]>>]
            = f[LeftVisit(at, k)] \o f[RightVisit(at, k)]
    <3> HIDE DEF V
    <3> QED BY <2>3
  <2>6. base[at] = <<Covered(Seen(at, version), at.inherited, 1)>>
    OBVIOUS
  <2>7. Solved(f)[at] = IF IsLeaf(at.segment)
                        THEN <<Covered(Seen(at, version), at.inherited, 1)>>
                        ELSE f[LeftVisit(at, k)] \o f[RightVisit(at, k)]
    BY <2>1
  <2> HIDE DEF Solved, base, join
  <2> QED BY <2>4, <2>5, <2>6, <2>7
<1>6. f = Solved(f)
  <2>1. f \in [Visit -> V]
    BY <1>4 DEF VisitsAnswered
  <2> QED BY <1>5, <2>1
<1>7. \E g : g = Solved(g)
  BY <1>6
<1>8. PICK g : /\ g = Solved(g)
               /\ Materialize(root, version)
                    = IF arraySize = 0 THEN <<>> ELSE g[RootVisit(root)]
  BY <1>7 DEF Materialize
<1>9. \A c \in Interval(arraySize) : \A at \in Visit : at.segment = c => g[at] \in V
  <2> DEFINE T == {c \in Interval(arraySize) :
                     \A at \in Visit : at.segment = c => g[at] \in V}
  <2>1. ASSUME NEW c \in Interval(arraySize),
               IsLeaf(c) \/ (LeftHalf(c) \in T /\ RightHalf(c) \in T)
        PROVE  c \in T
    <3> SUFFICES ASSUME NEW at \in Visit, at.segment = c PROVE g[at] \in V
      OBVIOUS
    <3>1. CASE IsLeaf(c)
      BY <1>1, <1>8, <3>1
    <3>2. CASE ~IsLeaf(c)
      <4>0. PICK k \in Int : k = tag(at)
        BY BelowInt
      <4>1. /\ LeftVisit(at, k) \in Visit /\ RightVisit(at, k) \in Visit
            /\ LeftVisit(at, k).segment = LeftHalf(c)
            /\ RightVisit(at, k).segment = RightHalf(c)
        BY <3>2, VisitType
      <4>2. g[LeftVisit(at, k)] \in V /\ g[RightVisit(at, k)] \in V
        BY <2>1, <3>2, <4>1
      <4>3. g[at] = g[LeftVisit(at, k)] \o g[RightVisit(at, k)]
        BY <1>8, <3>2, <4>0
      <4> QED BY <4>2, <4>3, ConcatProperties
    <3> QED BY <3>1, <3>2
  <2>2. Interval(arraySize) \subseteq T
    <3> HIDE DEF T
    <3> QED BY <2>1, SegmentInduction DEF TypeOK
  <2> QED BY <2>2
<1>10. CASE arraySize = 0
  BY <1>8, <1>10, EmptySeq
<1>11. CASE arraySize # 0
  <2>1. RootVisit(root) \in Visit /\ RootVisit(root).segment \in Interval(arraySize)
    BY <1>11, VisitType
  <2> QED BY <1>8, <1>9, <1>11, <2>1
<1> QED BY <1>10, <1>11

-----------------------------------------------------------------------------
(***************************************************************************)
(* One lemma for each action: it preserves the inductive invariant.        *)
(***************************************************************************)
LEMMA InitBInv == Init => BInv
<1> SUFFICES ASSUME Init PROVE BInv
  OBVIOUS
<1>1. /\ nodes = <<>> /\ newNodes = <<>> /\ roots = <<>> /\ stack = <<>>
      /\ arraySize = 0 /\ bound = 0 /\ nextBound = 0 /\ bufferedThisUpdate = <<>>
      /\ returned = 0 /\ call = Idle /\ call.op = "idle" /\ call \in Call
  BY DEF Init, NoNode, Idle, Call
<1>2. 0 \in Bound
  BY MaxValAssumption DEF Bound, MaxBound
<1>3. TypeOK
  BY <1>1, <1>2, EmptySeq DEF TypeOK
<1>4. TreesLinked
  BY <1>1 DEF TreesLinked, Linked
<1>5. CallOK /\ FramesOK /\ BuffersOK /\ RecordOK
  BY <1>1 DEF CallOK, FramesOK, Nested, BuffersOK, RecordOK
<1> QED BY <1>3, <1>4, <1>5 DEF BInv

(* What the type invariant says of a running state. *)
LEMMA TypeFacts ==
  ASSUME BInv
  PROVE  /\ nodes \in Seq(Node) /\ newNodes \in Seq(Node)
         /\ DOMAIN nodes = 1 .. Len(nodes) /\ Len(nodes) \in Nat
         /\ DOMAIN newNodes = 1 .. Len(newNodes) /\ Len(newNodes) \in Nat
         /\ \A i \in DOMAIN nodes : nodes[i] \in Node
         /\ \A i \in DOMAIN newNodes : newNodes[i] \in Node
         /\ roots \in Seq(Nat) /\ DOMAIN roots = 1 .. Len(roots) /\ Len(roots) \in Nat
         /\ \A v \in DOMAIN roots : roots[v] \in Nat
         /\ arraySize \in Nat /\ bound \in Bound /\ nextBound \in Bound
         /\ bufferedThisUpdate \in Seq(Nat)
         /\ call \in Call /\ call.op \in {"idle", "initialize", "rangeAdd"}
         /\ call.op = "idle" => call = Idle
         /\ call.op = "initialize" => call.values \in Seq(Value)
         /\ call.op = "rangeAdd" =>
              /\ call.left \in Nat \ {0} /\ call.right \in Nat /\ call.value \in Value
              /\ call.version = Len(roots) + 1
              /\ call.checkpoint \in 0 .. Len(nodes)
         /\ stack \in Seq(Frame) /\ DOMAIN stack = 1 .. Len(stack) /\ Len(stack) \in Nat
         /\ \A k \in DOMAIN stack : stack[k] \in Frame
         /\ returned \in Nat
         /\ CallSize \in Nat
<1>1. TypeOK
  BY DEF BInv
<1>2. /\ DOMAIN nodes = 1 .. Len(nodes) /\ Len(nodes) \in Nat
      /\ DOMAIN newNodes = 1 .. Len(newNodes) /\ Len(newNodes) \in Nat
      /\ DOMAIN roots = 1 .. Len(roots) /\ Len(roots) \in Nat
      /\ DOMAIN stack = 1 .. Len(stack) /\ Len(stack) \in Nat
  BY <1>1, LenProperties DEF TypeOK
<1>3. /\ \A i \in DOMAIN nodes : nodes[i] \in Node
      /\ \A i \in DOMAIN newNodes : newNodes[i] \in Node
      /\ \A v \in DOMAIN roots : roots[v] \in Nat
      /\ \A k \in DOMAIN stack : stack[k] \in Frame
  BY <1>1, <1>2, ElementOfSeq DEF TypeOK
<1>4. /\ call.op \in {"idle", "initialize", "rangeAdd"}
      /\ call.op = "idle" => call = Idle
      /\ call.op = "initialize" => call.values \in Arrays
      /\ call.op = "rangeAdd" =>
           /\ call.left \in Nat \ {0} /\ call.right \in Nat /\ call.value \in Deltas
           /\ call.checkpoint \in Nat
  BY <1>1 DEF TypeOK, Call, Idle
<1>5. call.op = "rangeAdd" => /\ call.checkpoint <= Len(nodes)
                              /\ call.version = Len(roots) + 1
  BY DEF BInv, CallOK
<1>6. call.op = "rangeAdd" => call.checkpoint \in 0 .. Len(nodes)
  BY <1>2, <1>4, <1>5
<1>7. /\ call.op = "initialize" => call.values \in Seq(Value)
      /\ call.op = "rangeAdd" => call.value \in Value
  BY <1>4, ArraysAssumption, DeltasAssumption
<1>8. CallSize \in Nat
  BY <1>1, <1>7, LenProperties DEF CallSize, TypeOK
<1> QED BY <1>1, <1>2, <1>3, <1>4, <1>5, <1>6, <1>7, <1>8 DEF TypeOK

LEMMA EntryFacts ==
  ASSUME NEW node \in Node
  PROVE  /\ node.buffer \in Seq(Modification)
         /\ DOMAIN node.buffer = 1 .. Len(node.buffer) /\ Len(node.buffer) \in Nat
         /\ \A k \in DOMAIN node.buffer :
              node.buffer[k] \in Modification /\ node.buffer[k].version \in Nat
<1>1. PICK b : b = node.buffer /\ b \in Seq(Modification)
  BY DEF Node
<1>2. DOMAIN b = 1 .. Len(b) /\ Len(b) \in Nat
  BY <1>1, LenProperties
<1>3. \A k \in DOMAIN b : b[k] \in Modification
  BY <1>1, <1>2, ElementOfSeq
<1>4. \A m \in Modification : m.version \in Nat
  BY DEF Modification
<1> QED BY <1>1, <1>2, <1>3, <1>4

LEMMA BeginInitializeBInv ==
  ASSUME BInv, NEW values \in Arrays, BeginInitialize(values)
  PROVE  BInv'
<1>0. /\ call = Idle /\ call.op = "idle"
      /\ call' = [op |-> "initialize", values |-> values]
      /\ stack' = IF values = <<>> THEN <<>> ELSE <<BuildFrame(Root(Len(values)))>>
      /\ UNCHANGED <<nodes, roots, arraySize, bound, nextBound, newNodes,
                     bufferedThisUpdate, returned>>
  BY DEF BeginInitialize, published, Idle
<1>1. values \in Seq(Value) /\ Len(values) \in Nat
  BY ArraysAssumption, LenProperties
<1>2. /\ call'.op = "initialize" /\ call'.values = values /\ call' \in Call
      /\ CallSize' = Len(values)
  BY <1>0 DEF Call, CallSize
<1>3. ASSUME values # <<>>
      PROVE  /\ Root(Len(values)) \in Interval(Len(values))
             /\ BuildFrame(Root(Len(values))) \in Frame
             /\ stack' = <<BuildFrame(Root(Len(values)))>>
  <2>1. Root(Len(values)) \in Interval(Len(values))
    BY <1>1, <1>3, EmptySeq, RootIsSegment
  <2>2. Root(Len(values)) \in Nat \X Nat
    BY <1>1, <2>1, Halves
  <2> QED BY <1>0, <1>3, <2>1, <2>2 DEF BuildFrame, Frame, Sides, NoNode
<1>4. TypeOK'
  <2>1. stack' \in Seq(Frame)
    BY <1>0, <1>3, EmptySeq
  <2> QED BY <1>0, <1>2, <2>1 DEF BInv, TypeOK
<1>5. TreesLinked'
  BY <1>0 DEF BInv, TreesLinked, Linked, LinkedAt, RootOK, ChildOK
<1>6. newNodes' = <<>>
  BY <1>0 DEF BInv, CallOK
<1>7. CallOK'
  BY <1>0, <1>2, <1>3, <1>6 DEF CallOK
<1>8. FramesOK'
  <2>1. CASE values = <<>>
    BY <1>0, <2>1 DEF FramesOK, Nested
  <2>2. CASE values # <<>>
    <3>1. PICK f : f = BuildFrame(Root(Len(values)))
      OBVIOUS
    <3>2. DOMAIN stack' = {1} /\ stack'[1] = f
      BY <1>3, <2>2, <3>1
    <3>3. f.segment = Root(Len(values)) /\ BuildFrameOK(f)'
      BY <3>1 DEF BuildFrame, BuildFrameOK, Sides
    <3>4. FrameOK(f)'
      BY <1>2, <1>3, <2>2, <3>3 DEF FrameOK
    <3> QED BY <1>2, <3>2, <3>3, <3>4 DEF FramesOK, FrameInPlace, Nested
  <2> QED BY <2>1, <2>2
<1>9. BuffersOK'
  <2>1. Written = {} /\ Written' = {}
    BY <1>0, <1>2 DEF Written
  <2> QED BY <1>0, <2>1 DEF BInv, BuffersOK, BufferOK, Ordered, Settled, Pending
<1>10. RecordOK'
  BY <1>2 DEF RecordOK
<1> QED BY <1>4, <1>5, <1>7, <1>8, <1>9, <1>10 DEF BInv

(* What an update may assume of the latest root. *)
LEMMA LatestRoot ==
  ASSUME BInv, NEW left, NEW right, ValidRangeAdd(left, right)
  PROVE  /\ arraySize \in Nat /\ arraySize > 0
         /\ left \in 1 .. arraySize /\ right \in left .. arraySize
         /\ Len(roots) \in DOMAIN roots
         /\ roots[Len(roots)] \in DOMAIN nodes
         /\ nodes[roots[Len(roots)]].segment = Root(arraySize)
<1>1. /\ arraySize \in Nat /\ arraySize > 0
      /\ left \in 1 .. arraySize /\ right \in left .. arraySize
  BY DEF BInv, TypeOK, ValidRangeAdd
<1>2. Len(roots) \in DOMAIN roots
  BY EmptySeq, LenProperties DEF BInv, TypeOK, ValidRangeAdd
<1> QED BY <1>1, <1>2 DEF BInv, TreesLinked, RootOK, ChildOK

(* Appending a version. *)
LEMMA RootsExtended ==
  ASSUME BInv, NEW root \in Nat, RootOK(root), roots' = Append(roots, root),
         UNCHANGED <<nodes, newNodes, arraySize>>
  PROVE  /\ roots' \in Seq(Nat) /\ Len(roots') = Len(roots) + 1
         /\ DOMAIN roots' = 1 .. Len(roots) + 1
         /\ \A v \in DOMAIN roots : v \in DOMAIN roots' /\ roots'[v] = roots[v]
         /\ roots'[Len(roots) + 1] = root
         /\ TreesLinked'
<1>1. roots \in Seq(Nat) /\ DOMAIN roots = 1 .. Len(roots) /\ Len(roots) \in Nat
  BY TypeFacts
<1>2. /\ roots' \in Seq(Nat) /\ Len(roots') = Len(roots) + 1
      /\ \A v \in 1 .. Len(roots) : roots'[v] = roots[v]
      /\ roots'[Len(roots) + 1] = root
  BY <1>1, AppendProperties
<1>3. DOMAIN roots' = 1 .. Len(roots) + 1
  BY <1>2, LenProperties
<1>4. \A v \in DOMAIN roots : v \in DOMAIN roots' /\ roots'[v] = roots[v]
  BY <1>1, <1>2, <1>3
<1>5. ASSUME NEW v \in DOMAIN roots' PROVE RootOK(roots'[v])
  <2>1. v \in DOMAIN roots \/ v = Len(roots) + 1
    BY <1>1, <1>3
  <2> QED BY <1>2, <1>4, <2>1 DEF BInv, TreesLinked
<1>6. TreesLinked'
  BY <1>5 DEF BInv, TreesLinked, Linked, LinkedAt, RootOK, ChildOK
<1> QED BY <1>2, <1>3, <1>4, <1>6

LEMMA RangeAddZeroBInv ==
  ASSUME BInv, RangeAddZero
  PROVE  BInv'
<1>1. /\ call = Idle /\ call.op = "idle" /\ ValidRangeAdd(1, 1)
      /\ roots' = Append(roots, roots[Len(roots)])
      /\ UNCHANGED <<nodes, arraySize, bound, nextBound, newNodes, bufferedThisUpdate,
                     call, stack, returned>>
  BY DEF RangeAddZero, Idle
<1>2. PICK root \in Nat : root = roots[Len(roots)] /\ RootOK(root)
  BY <1>1, LatestRoot, TypeFacts DEF RootOK, ChildOK
<1>3. /\ roots' \in Seq(Nat) /\ Len(roots') = Len(roots) + 1 /\ TreesLinked'
      /\ Len(roots) \in Nat
  BY <1>1, <1>2, RootsExtended, TypeFacts
<1>4. TypeOK'
  BY <1>1, <1>3 DEF BInv, TypeOK
<1>5. CallOK'
  BY <1>1 DEF BInv, CallOK
<1>6. FramesOK'
  <2>1. stack' = <<>>
    BY <1>1 DEF BInv, CallOK
  <2> QED BY <2>1 DEF FramesOK, Nested
<1>7. BuffersOK'
  <2>1. Written = {} /\ Written' = {}
    BY <1>1 DEF Written
  <2>2. ASSUME NEW i \in DOMAIN nodes
        PROVE  \A k \in DOMAIN nodes[i].buffer : nodes[i].buffer[k].version <= Len(roots) + 1
    <3>1. nodes[i] \in Node
      BY TypeFacts
    <3>2. \A k \in DOMAIN nodes[i].buffer : nodes[i].buffer[k].version \in Nat
      BY <3>1, EntryFacts
    <3>3. \A k \in DOMAIN nodes[i].buffer : nodes[i].buffer[k].version <= Len(roots)
      BY <2>1 DEF BInv, BuffersOK, BufferOK, Ordered, Settled, Pending
    <3> QED BY <1>3, <3>2, <3>3
  <2> QED BY <1>1, <1>3, <2>1, <2>2 DEF BInv, BuffersOK, BufferOK, Ordered, Settled, Pending
<1>8. RecordOK'
  BY <1>1 DEF RecordOK
<1> QED BY <1>3, <1>4, <1>5, <1>6, <1>7, <1>8 DEF BInv

(***************************************************************************)
(* A frame of update opened on a node of the segment that meets the range  *)
(* is in order.                                                            *)
(***************************************************************************)
LEMMA UpdateFrameInOrder ==
  ASSUME BInv, NEW c \in Interval(arraySize), NEW i \in DOMAIN nodes,
         nodes[i].segment = c,
         NEW left \in Nat, NEW right \in Nat, ~Disjoint(left, right, c)
  PROVE  LET f == UpdateFrame(i, c, left, right)
         IN  /\ f \in Frame /\ f.segment = c /\ f.node = i
             /\ Covers(left, right, c) => f.todo = {}
             /\ "left" \in f.todo => left <= Midpoint(c)
             /\ "right" \in f.todo => right > Midpoint(c)
             /\ ~IsLeaf(c) => /\ ChildOK(nodes, f.newLeft, LeftHalf(c))
                              /\ ChildOK(nodes, f.newRight, RightHalf(c))
             /\ f.todo # {} => ~IsLeaf(f.segment)
<1> DEFINE f == UpdateFrame(i, c, left, right)
<1>1. /\ nodes[i] \in Node /\ LinkedAt(nodes, i) /\ arraySize \in Nat
      /\ DOMAIN nodes = 1 .. Len(nodes) /\ Len(nodes) \in Nat /\ i \in Nat
  <2>1. LinkedAt(nodes, i)
    BY DEF BInv, TreesLinked, Linked
  <2>2. /\ nodes[i] \in Node /\ arraySize \in Nat
        /\ DOMAIN nodes = 1 .. Len(nodes) /\ Len(nodes) \in Nat
    BY TypeFacts
  <2>3. i \in Nat
    BY <2>2
  <2> QED BY <2>1, <2>2, <2>3
<1>2. c \in Nat \X Nat /\ c[1] \in Nat /\ c[2] \in Nat
  BY <1>1, Halves
<1>3. f \in Frame /\ f.segment = c /\ f.node = i
      /\ f.newLeft = nodes[i].leftChild /\ f.newRight = nodes[i].rightChild
  <2>1. PICK todo : todo = IF Covers(left, right, c) THEN {} ELSE MeetingSides(c, left, right)
    OBVIOUS
  <2>2. todo \in SUBSET Sides
    BY <2>1 DEF MeetingSides, Sides
  <2>3. nodes[i].leftChild \in Nat /\ nodes[i].rightChild \in Nat
    BY <1>1 DEF Node
  <2>4. f = [segment |-> c, node |-> i, newLeft |-> nodes[i].leftChild,
             newRight |-> nodes[i].rightChild, todo |-> todo]
    BY <2>1 DEF UpdateFrame
  <2> QED BY <1>1, <1>2, <2>2, <2>3, <2>4 DEF Frame
<1>4. /\ Covers(left, right, c) => f.todo = {}
      /\ "left" \in f.todo => left <= Midpoint(c)
      /\ "right" \in f.todo => right > Midpoint(c)
  BY DEF UpdateFrame, MeetingSides, Sides
<1>5. ~IsLeaf(c) => /\ ChildOK(nodes, f.newLeft, LeftHalf(c))
                    /\ ChildOK(nodes, f.newRight, RightHalf(c))
  BY <1>1, <1>3 DEF LinkedAt, ChildOK
<1>6. IsLeaf(c) => Covers(left, right, c)
  BY <1>2 DEF IsLeaf, Covers, Disjoint
<1> QED BY <1>3, <1>4, <1>5, <1>6

LEMMA BeginRangeAddBInv ==
  ASSUME BInv, NEW left, NEW right, NEW value \in Deltas,
         BeginRangeAdd(left, right, value)
  PROVE  BInv'
<1> DEFINE latest == roots[Len(roots)]
<1>0. PICK f : f = UpdateFrame(latest, Root(arraySize), left, right)
  OBVIOUS
<1>1. /\ call.op = "idle"
      /\ call' = [op |-> "rangeAdd", left |-> left, right |-> right, value |-> value,
                  version |-> Len(roots) + 1, checkpoint |-> Len(nodes)]
      /\ nextBound' = NextBound(bound, Materialize(latest, Len(roots)), left, right, value)
      /\ stack' = <<f>> /\ bufferedThisUpdate' = <<>>
      /\ UNCHANGED <<nodes, roots, arraySize, bound, newNodes, returned>>
  BY <1>0 DEF BeginRangeAdd, published, Idle
<1>2. /\ arraySize \in Nat /\ arraySize > 0
      /\ left \in 1 .. arraySize /\ right \in left .. arraySize
      /\ latest \in DOMAIN nodes
      /\ nodes[latest].segment = Root(arraySize)
  BY LatestRoot DEF BeginRangeAdd
<1>3. Root(arraySize) \in Interval(arraySize)
      /\ ~Disjoint(left, right, Root(arraySize))
  BY <1>2, RootIsSegment DEF Disjoint, Root
<1>4. /\ call'.op = "rangeAdd" /\ call'.left = left /\ call'.right = right
      /\ call'.checkpoint = Len(nodes) /\ call'.version = Len(roots) + 1
      /\ call' \in Call /\ CallSize' = arraySize
  BY <1>1, <1>2, TypeFacts DEF Call, CallSize
<1>5. /\ f \in Frame /\ f.segment = Root(arraySize) /\ f.node = latest
      /\ Covers(left, right, Root(arraySize)) => f.todo = {}
      /\ "left" \in f.todo => left <= Midpoint(Root(arraySize))
      /\ "right" \in f.todo => right > Midpoint(Root(arraySize))
      /\ ~IsLeaf(Root(arraySize)) =>
           /\ ChildOK(nodes, f.newLeft, LeftHalf(Root(arraySize)))
           /\ ChildOK(nodes, f.newRight, RightHalf(Root(arraySize)))
  <2>1. PICK i \in DOMAIN nodes : i = latest /\ nodes[i].segment = Root(arraySize)
    BY <1>2
  <2>2. PICK c \in Interval(arraySize) : c = Root(arraySize)
    BY <1>3
  <2>3. left \in Nat /\ right \in Nat
    BY <1>2
  <2>4. /\ f = UpdateFrame(i, c, left, right) /\ nodes[i].segment = c
        /\ ~Disjoint(left, right, c)
    BY <1>0, <1>3, <2>1, <2>2
  <2> HIDE DEF latest
  <2>5. /\ f \in Frame /\ f.segment = c /\ f.node = i
        /\ Covers(left, right, c) => f.todo = {}
        /\ "left" \in f.todo => left <= Midpoint(c)
        /\ "right" \in f.todo => right > Midpoint(c)
        /\ ~IsLeaf(c) => /\ ChildOK(nodes, f.newLeft, LeftHalf(c))
                         /\ ChildOK(nodes, f.newRight, RightHalf(c))
    BY <2>3, <2>4, UpdateFrameInOrder
  <2> QED BY <2>1, <2>2, <2>5
<1>6. nextBound' \in Bound
  <2>1. latest \in Nat /\ value \in Value /\ bound \in Bound
    BY <1>2, TypeFacts, DeltasAssumption
  <2>2. Materialize(latest, Len(roots)) \in Seq(Outcome)
    BY <2>1, MaterializeType DEF BInv
  <2> QED BY <1>1, <2>1, <2>2, NextBoundType
<1>7. TypeOK'
  BY <1>1, <1>4, <1>5, <1>6, EmptySeq DEF BInv, TypeOK
<1>8. TreesLinked'
  BY <1>1 DEF BInv, TreesLinked, Linked, LinkedAt, RootOK, ChildOK
<1>9. CallOK'
  <2>1. newNodes' = <<>>
    BY <1>1 DEF BInv, CallOK
  <2>2. \A v \in DOMAIN roots : roots[v] <= Len(nodes)
    BY <1>2, TypeFacts DEF BInv, TreesLinked, RootOK, ChildOK
  <2>3. Len(nodes) <= Len(nodes) /\ left <= right /\ right <= arraySize
    BY <1>2, TypeFacts
  <2> QED BY <1>1, <1>4, <2>1, <2>2, <2>3 DEF CallOK
<1>10. FramesOK'
  <2>1. UpdateFrameOK(f)'
    BY <1>1, <1>2, <1>3, <1>4, <1>5, TypeFacts DEF UpdateFrameOK, ChildOK
  <2>2. FrameOK(f)'
    BY <1>3, <1>4, <1>5, <2>1 DEF FrameOK
  <2>3. DOMAIN stack' = {1} /\ stack'[1] = f
    BY <1>1
  <2> QED BY <1>4, <1>5, <2>2, <2>3 DEF FramesOK, FrameInPlace, Nested
<1>11. BuffersOK'
  <2>1. Written = {} /\ Written' = {}
    BY <1>1, <1>4 DEF Written, Range
  <2> QED BY <1>1, <2>1 DEF BInv, BuffersOK, BufferOK, Ordered, Settled, Pending
<1>12. RecordOK'
  <2>1. Done' = {}
    BY <1>1, <1>4 DEF Done, Written, Range
  <2>2. bufferedThisUpdate' \in Seq(1 .. Len(nodes))
    BY <1>1, EmptySeq
  <2> QED BY <1>1, <1>4, <2>1, <2>2 DEF RecordOK, Passed
<1> QED BY <1>7, <1>8, <1>9, <1>10, <1>11, <1>12 DEF BInv

(***************************************************************************)
(* The innermost frame of a running call.                                  *)
(***************************************************************************)
LEMMA TopFrame ==
  ASSUME BInv, stack # <<>>
  PROVE  /\ Len(stack) \in Nat \ {0} /\ Len(stack) \in DOMAIN stack
         /\ Top \in Frame /\ FrameOK(Top)
         /\ call.op \in {"initialize", "rangeAdd"}
         /\ Top.segment \in Interval(CallSize)
         /\ FramesIn(stack, CallSize)
<1>1. /\ stack \in Seq(Frame) /\ Len(stack) \in Nat \ {0} /\ DOMAIN stack = 1 .. Len(stack)
      /\ Len(stack) \in DOMAIN stack
  BY EmptySeq, TypeFacts
<1>2. call.op \in {"initialize", "rangeAdd"}
  BY TypeFacts DEF BInv, CallOK
<1>3. ASSUME NEW k \in DOMAIN stack
      PROVE  /\ stack[k] \in Frame /\ FrameOK(stack[k])
             /\ stack[k].segment \in Interval(CallSize)
             /\ stack[k].todo # {} => ~IsLeaf(stack[k].segment)
  <2>1. PICK f : f = stack[k]
    OBVIOUS
  <2>2. f \in Frame /\ FrameOK(f)
    BY <2>1, TypeFacts DEF BInv, FramesOK, FrameInPlace
  <2>3. f.segment \in Interval(CallSize)
    BY <2>2 DEF FrameOK
  <2>4. CASE call.op = "initialize"
    BY <2>1, <2>2, <2>3, <2>4 DEF FrameOK, BuildFrameOK
  <2>5. CASE call.op = "rangeAdd"
    <3>1. UpdateFrameOK(f) /\ call.left \in Int /\ call.right \in Int
      BY <2>2, <2>5, TypeFacts DEF FrameOK
    <3>2. f.segment[1] \in Int /\ f.segment[2] \in Int
      BY <2>3, TypeFacts, Halves
    <3>3. IsLeaf(f.segment) => Covers(call.left, call.right, f.segment)
      BY <3>1, <3>2 DEF UpdateFrameOK, IsLeaf, Covers, Disjoint
    <3> QED BY <2>1, <2>2, <2>3, <3>1, <3>3 DEF UpdateFrameOK
  <2> QED BY <1>2, <2>4, <2>5
<1>4. Top = stack[Len(stack)]
  BY DEF Top
<1> QED BY <1>1, <1>2, <1>3, <1>4 DEF FramesIn

LEMMA DescendBInv ==
  ASSUME BInv, Descend
  PROVE  BInv'
<1> DEFINE side == NextSide(Top)
           half == Half(Top.segment, side)
<1>0. PICK g : g = IF call.op = "initialize" THEN BuildFrame(half)
                   ELSE UpdateFrame(Child(Top, side), half, call.left, call.right)
  OBVIOUS
<1>. /\ stack # <<>> /\ Top.todo # {}
     /\ stack' = Append(stack, g)
     /\ UNCHANGED <<nodes, roots, arraySize, bound, nextBound, newNodes,
                    bufferedThisUpdate, call, returned>>
  BY <1>0 DEF Descend, published
<1>1. /\ stack \in Seq(Frame) /\ Len(stack) \in Nat \ {0}
      /\ DOMAIN stack = 1 .. Len(stack) /\ Len(stack) \in DOMAIN stack
      /\ Top = stack[Len(stack)] /\ Top \in Frame /\ FrameOK(Top)
      /\ call.op \in {"initialize", "rangeAdd"}
      /\ CallSize \in Nat /\ Top.segment \in Interval(CallSize)
      /\ FramesIn(stack, CallSize) /\ ~IsLeaf(Top.segment)
  BY TopFrame, TypeFacts DEF Top, FramesIn
<1>2. side \in Top.todo /\ side \in Sides /\ (side = "left" \/ side = "right")
  BY <1>1 DEF Frame, NextSide, Sides
<1>3. half \in Interval(CallSize) /\ half \in Nat \X Nat
  BY <1>1, <1>2, Halves DEF Half
<1>4. ASSUME call.op = "initialize"
      PROVE  /\ g \in Frame /\ g.segment = half /\ BuildFrameOK(g)
             /\ g.todo # {} => ~IsLeaf(g.segment)
  BY <1>0, <1>3, <1>4 DEF BuildFrame, Frame, Sides, NoNode, BuildFrameOK
<1>5. ASSUME call.op = "rangeAdd"
      PROVE  /\ g \in Frame /\ g.segment = half /\ UpdateFrameOK(g)
             /\ g.todo # {} => ~IsLeaf(g.segment)
  <2>1. CallSize = arraySize /\ UpdateFrameOK(Top)
        /\ g = UpdateFrame(Child(Top, side), half, call.left, call.right)
        /\ DOMAIN nodes = 1 .. Len(nodes) /\ Len(nodes) \in Nat
        /\ call.checkpoint \in 0 .. Len(nodes)
        /\ call.left \in Nat /\ call.right \in Nat
    BY <1>0, <1>1, <1>5, TypeFacts DEF CallSize, FrameOK
  <2>2. LinkedAt(nodes, Top.node) /\ Top.node \in 1 .. call.checkpoint
        /\ nodes[Top.node].segment = Top.segment
    BY <2>1 DEF UpdateFrameOK, BInv, TreesLinked, Linked
  <2>3. /\ Child(Top, side) \in 1 .. call.checkpoint
        /\ Child(Top, side) \in DOMAIN nodes
        /\ nodes[Child(Top, side)].segment = half
    <3>1. PICK i \in 1 .. call.checkpoint : i = Top.node
      BY <2>2
    <3>2. /\ nodes[i].leftChild \in 1 .. i - 1 /\ nodes[i].rightChild \in 1 .. i - 1
          /\ nodes[nodes[i].leftChild].segment = LeftHalf(Top.segment)
          /\ nodes[nodes[i].rightChild].segment = RightHalf(Top.segment)
      BY <1>1, <2>2, <3>1 DEF LinkedAt
    <3>3. \A j \in 1 .. i - 1 : j \in 1 .. call.checkpoint /\ j \in DOMAIN nodes
      BY <2>1, <3>1
    <3>4. CASE side = "left"
      <4>1. Child(Top, side) = nodes[i].leftChild /\ half = LeftHalf(Top.segment)
        BY <1>0, <3>1, <3>4 DEF Child, Half
      <4> QED BY <3>2, <3>3, <4>1
    <3>5. CASE side = "right"
      <4>1. Child(Top, side) = nodes[i].rightChild /\ half = RightHalf(Top.segment)
        BY <1>0, <3>1, <3>5 DEF Child, Half
      <4> QED BY <3>2, <3>3, <4>1
    <3> QED BY <1>2, <3>4, <3>5
  <2>4. ~Disjoint(call.left, call.right, half)
    <3>1. /\ Top.segment[1] \in Int /\ Top.segment[2] \in Int
          /\ Midpoint(Top.segment) \in Int
          /\ Top.segment[1] <= Midpoint(Top.segment)
          /\ Midpoint(Top.segment) < Top.segment[2]
      BY <1>1, Halves
    <3>2. /\ call.left \in Int /\ call.right \in Int
          /\ ~(Top.segment[2] < call.left) /\ ~(Top.segment[1] > call.right)
          /\ "left" \in Top.todo => call.left <= Midpoint(Top.segment)
          /\ "right" \in Top.todo => call.right > Midpoint(Top.segment)
      BY <2>1 DEF UpdateFrameOK, Disjoint
    <3>3. CASE side = "left"
      <4>1. half[1] = Top.segment[1] /\ half[2] = Midpoint(Top.segment)
        BY <3>3 DEF Half, LeftHalf
      <4> QED BY <1>2, <3>1, <3>2, <3>3, <4>1 DEF Disjoint
    <3>4. CASE side = "right"
      <4>1. half[1] = Midpoint(Top.segment) + 1 /\ half[2] = Top.segment[2]
        BY <3>4 DEF Half, RightHalf
      <4> QED BY <1>2, <3>1, <3>2, <3>4, <4>1 DEF Disjoint
    <3> QED BY <1>2, <3>3, <3>4
  <2>5. PICK i \in DOMAIN nodes : i = Child(Top, side) /\ nodes[i].segment = half
    BY <2>3
  <2>6. PICK c \in Interval(arraySize) : c = half
    BY <1>3, <2>1
  <2>7. /\ g = UpdateFrame(i, c, call.left, call.right) /\ nodes[i].segment = c
        /\ ~Disjoint(call.left, call.right, c)
    BY <2>1, <2>4, <2>5, <2>6
  <2> HIDE DEF half, side
  <2>8. /\ g \in Frame /\ g.segment = c /\ g.node = i
        /\ Covers(call.left, call.right, c) => g.todo = {}
        /\ "left" \in g.todo => call.left <= Midpoint(c)
        /\ "right" \in g.todo => call.right > Midpoint(c)
        /\ ~IsLeaf(c) => /\ ChildOK(nodes, g.newLeft, LeftHalf(c))
                         /\ ChildOK(nodes, g.newRight, RightHalf(c))
        /\ g.todo # {} => ~IsLeaf(g.segment)
    <3>1. call.left \in Nat /\ call.right \in Nat
      BY <2>1
    <3> QED BY <2>7, <3>1, UpdateFrameInOrder
  <2> QED BY <2>3, <2>5, <2>6, <2>7, <2>8 DEF UpdateFrameOK
<1>6. g \in Frame /\ g.segment = half /\ FrameOK(g) /\ (g.todo # {} => ~IsLeaf(g.segment))
  BY <1>1, <1>3, <1>4, <1>5 DEF FrameOK
<1>7. /\ stack' \in Seq(Frame) /\ stack' # <<>> /\ Len(stack') = Len(stack) + 1
      /\ \A k \in 1 .. Len(stack) : stack'[k] = stack[k]
      /\ stack'[Len(stack) + 1] = g
      /\ DOMAIN stack' = 1 .. Len(stack) + 1
  BY <1>1, <1>6, AppendProperties, LenProperties
<1>8. TypeOK'
  BY <1>7 DEF BInv, TypeOK
<1>9. TreesLinked'
  BY DEF BInv, TreesLinked, Linked, LinkedAt, RootOK, ChildOK
<1>10. CallOK'
  BY <1>1, <1>7 DEF BInv, CallOK
<1>11. CallSize' = CallSize /\ Written' = Written /\ Done' = Done
  BY DEF CallSize, Done, Written
<1>12. FramesOK'
  <2>1. \A f : FrameOK(f)' <=> FrameOK(f)
    BY <1>11 DEF FrameOK, BuildFrameOK, UpdateFrameOK, ChildOK
  <2>2. ASSUME NEW k \in 1 .. Len(stack)
        PROVE  FrameInPlace(k)'
    <3>1. stack'[k] = stack[k] /\ (k # 1 => stack'[k - 1] = stack[k - 1])
      BY <1>1, <1>7
    <3>2. FrameInPlace(k)
      BY <1>1 DEF BInv, FramesOK
    <3>3. PICK f : f = stack[k]
      OBVIOUS
    <3>4. FrameOK(f)'
      BY <2>1, <3>2, <3>3 DEF FrameInPlace
    <3> QED BY <1>11, <3>1, <3>2, <3>3, <3>4 DEF FrameInPlace
  <2>3. ASSUME NEW k \in DOMAIN stack', k = Len(stack) + 1
        PROVE  FrameInPlace(k)'
    <3>1. k # 1 /\ k - 1 = Len(stack) /\ stack'[k - 1] = Top /\ stack'[k] = g
      BY <1>1, <1>7, <2>3
    <3>2. FrameOK(g)'
      BY <1>6, <2>1
    <3> QED BY <1>6, <3>1, <3>2 DEF FrameInPlace
  <2>4. \A k \in DOMAIN stack' : k \in 1 .. Len(stack) \/ k = Len(stack) + 1
    BY <1>1, <1>7
  <2>5. Nested(stack')
    <3>1. g.segment = Half(stack[Len(stack)].segment, NextSide(stack[Len(stack)]))
          /\ stack[Len(stack)].todo # {} /\ Len(stack) > 0
      BY <1>1, <1>6
    <3> HIDE DEF half, side
    <3> QED BY <1>1, <1>6, <3>1, NestedAppend DEF BInv, FramesOK
  <2> QED BY <2>2, <2>3, <2>4, <2>5 DEF FramesOK
<1>13. BuffersOK'
  BY <1>11 DEF BInv, BuffersOK, BufferOK, Ordered, Settled, Pending
<1>14. RecordOK'
  <2>1. CASE call.op = "rangeAdd"
    <3>1. /\ Done \subseteq Interval(CallSize) /\ Passed(stack, Done)
      BY <2>1 DEF BInv, RecordOK, CallSize
    <3>2. PICK done \in SUBSET Interval(CallSize) : done = Done
      BY <3>1
    <3>3. g.segment = Half(stack[Len(stack)].segment, NextSide(stack[Len(stack)]))
          /\ stack[Len(stack)].todo # {} /\ Len(stack) > 0
      BY <1>1, <1>6
    <3>4. Passed(Append(stack, g), done)
      <4> HIDE DEF half, side
      <4> QED BY <1>1, <1>6, <3>1, <3>2, <3>3, PassedAppend
    <3> QED BY <1>11, <3>2, <3>4 DEF BInv, RecordOK
  <2>2. CASE call.op # "rangeAdd"
    BY <2>2 DEF RecordOK
  <2> QED BY <2>1, <2>2
<1> QED BY <1>8, <1>9, <1>10, <1>12, <1>13, <1>14 DEF BInv

(***************************************************************************)
(* A caller that receives the index of the half it waited for.             *)
(***************************************************************************)
LEMMA ReceiveInOrder ==
  ASSUME NEW f \in Frame, FrameOK(f)', NEW index \in Nat, f.todo # {},
         call'.op = "initialize" =>
           ChildOK(newNodes', index, Half(f.segment, NextSide(f))),
         call'.op = "rangeAdd" =>
           ChildOK(nodes', index, Half(f.segment, NextSide(f)))
  PROVE  FrameOK(Receive(f, index))'
<1> PICK g : g = Receive(f, index)
  OBVIOUS
<1>1. /\ g.segment = f.segment /\ g.node = f.node
      /\ g.todo = f.todo \ {NextSide(f)}
      /\ NextSide(f) = "left" => g.newLeft = index /\ g.newRight = f.newRight
      /\ NextSide(f) = "right" => g.newLeft = f.newLeft /\ g.newRight = index
      /\ NextSide(f) \in f.todo /\ NextSide(f) \in {"left", "right"}
  BY ReceiveFacts DEF Sides
<1>2. ASSUME call'.op = "initialize" PROVE BuildFrameOK(g)'
  <2>1. BuildFrameOK(f)' /\ ~IsLeaf(f.segment)
    BY <1>2 DEF FrameOK, BuildFrameOK
  <2>2. /\ NextSide(f) = "left" => ChildOK(newNodes', index, LeftHalf(f.segment))
        /\ NextSide(f) = "right" => ChildOK(newNodes', index, RightHalf(f.segment))
    BY <1>2 DEF Half
  <2> QED BY <1>1, <2>1, <2>2 DEF BuildFrameOK
<1>3. ASSUME call'.op = "rangeAdd" PROVE UpdateFrameOK(g)'
  <2>1. UpdateFrameOK(f)'
    BY <1>3 DEF FrameOK
  <2>2. /\ NextSide(f) = "left" => ChildOK(nodes', index, LeftHalf(f.segment))
        /\ NextSide(f) = "right" => ChildOK(nodes', index, RightHalf(f.segment))
    BY <1>3 DEF Half
  <2> QED BY <1>1, <2>1, <2>2 DEF UpdateFrameOK
<1> QED BY <1>1, <1>2, <1>3 DEF FrameOK

(***************************************************************************)
(* What is left of the stack after the innermost frame has returned the    *)
(* index of a node of its segment.                                         *)
(***************************************************************************)
LEMMA ReturnIndexInOrder ==
  ASSUME BInv, stack # <<>>, NEW index \in Nat, stack' = Resume(stack, index),
         UNCHANGED <<call, arraySize>>,
         call.op = "initialize" => ChildOK(newNodes', index, Top.segment),
         call.op = "rangeAdd" => ChildOK(nodes', index, Top.segment),
         \A f : FrameOK(f) => FrameOK(f)'
  PROVE  /\ stack' \in Seq(Frame)
         /\ FramesOK'
         /\ stack' = <<>> => Top.segment = Root(CallSize)
         /\ \A done \in SUBSET Interval(CallSize) :
              Passed(stack, done) => Passed(stack', done \cup {Top.segment})
<1>1. /\ stack \in Seq(Frame) /\ Len(stack) \in Nat \ {0}
      /\ DOMAIN stack = 1 .. Len(stack) /\ Top = stack[Len(stack)]
      /\ CallSize \in Nat /\ FramesIn(stack, CallSize)
      /\ FrameInPlace(Len(stack)) /\ Nested(stack)
      /\ \A k \in DOMAIN stack : stack[k] \in Frame /\ FrameInPlace(k)
  BY TopFrame, TypeFacts DEF Top, BInv, FramesOK
<1>2. CallSize' = CallSize
  BY DEF CallSize
<1>3. CASE Len(stack) = 1
  <2>1. stack' = <<>>
    BY <1>1, <1>3, ResumedEmpty
  <2>2. Top.segment = Root(CallSize)
    BY <1>1, <1>3 DEF FrameInPlace
  <2> QED BY <2>1, <2>2, EmptySeq DEF FramesOK, Nested, Passed
<1>4. CASE Len(stack) # 1
  <2>1. PICK m \in Nat \ {0} : Len(stack) = m + 1
    <3>1. Len(stack) - 1 \in Nat \ {0} /\ Len(stack) = (Len(stack) - 1) + 1
      BY <1>1, <1>4
    <3> QED BY <3>1
  <2>2. /\ m \in DOMAIN stack /\ m + 1 \in DOMAIN stack /\ m < m + 1
        /\ m + 1 # 1 /\ (m + 1) - 1 = m
    BY <1>1, <2>1
  <2>3. PICK h \in Frame : h = stack[m]
    BY <1>1, <2>2
  <2>4. h.todo # {} /\ FrameOK(h) /\ Top.segment = Half(h.segment, NextSide(h))
    BY <1>1, <2>1, <2>2, <2>3 DEF Nested, FrameInPlace
  <2>5. PICK g : g = Receive(h, index)
    OBVIOUS
  <2>6. g.segment = h.segment
    BY <2>4, <2>5, ReceiveFacts
  <2>7. FrameOK(g)'
    <3>1. FrameOK(h)'
      BY <2>4
    <3>2. /\ call'.op = "initialize" =>
               ChildOK(newNodes', index, Half(h.segment, NextSide(h)))
          /\ call'.op = "rangeAdd" =>
               ChildOK(nodes', index, Half(h.segment, NextSide(h)))
      BY <2>4
    <3> QED BY <2>4, <2>5, <3>1, <3>2, ReceiveInOrder
  <2>8. /\ stack' \in Seq(Frame) /\ DOMAIN stack' = 1 .. m /\ stack' # <<>>
        /\ stack'[m] = g
        /\ \A k \in 1 .. m : k # m => stack'[k] = stack[k]
    <3>1. stack[m].todo # {}
      BY <2>3, <2>4
    <3>2. /\ Resume(stack, index) \in Seq(Frame)
          /\ DOMAIN Resume(stack, index) = 1 .. m
          /\ Resume(stack, index) # <<>>
          /\ Resume(stack, index)[m] = Receive(stack[m], index)
          /\ \A k \in 1 .. m : k # m => Resume(stack, index)[k] = stack[k]
      BY <1>1, <2>1, <3>1, ResumedStack
    <3> QED BY <2>3, <2>5, <3>2
  <2>9. ASSUME NEW k \in 1 .. m
        PROVE  FrameInPlace(k)'
    <3>1. k \in DOMAIN stack /\ FrameInPlace(k)
      BY <1>1, <2>1, <2>2
    <3>2. PICK f : f = stack'[k]
      OBVIOUS
    <3>3. FrameOK(f)' /\ f.segment = stack[k].segment
      BY <2>3, <2>6, <2>7, <2>8, <3>1, <3>2 DEF FrameInPlace
    <3>4. k # 1 => stack'[k - 1] = stack[k - 1]
      <4>1. k # 1 => k - 1 \in 1 .. m /\ k - 1 # m
        OBVIOUS
      <4> QED BY <2>8, <4>1
    <3> QED BY <1>2, <3>1, <3>2, <3>3, <3>4 DEF FrameInPlace
  <2>10. FramesOK'
    <3>1. Nested(stack')
      BY <1>1, <2>1, NestedResume
    <3> QED BY <2>8, <2>9, <3>1 DEF FramesOK
  <2>11. ASSUME NEW done \in SUBSET Interval(CallSize), Passed(stack, done)
         PROVE  Passed(stack', done \cup {Top.segment})
    <3>1. Passed(Resume(stack, index), done \cup {stack[m + 1].segment})
      BY <1>1, <2>1, <2>11, PassedResume
    <3> QED BY <1>1, <2>1, <3>1
  <2> QED BY <2>8, <2>10, <2>11
<1> QED BY <1>3, <1>4

(***************************************************************************)
(* Appending a node whose children were made for the halves of its segment.*)
(***************************************************************************)
LEMMA AppendLinked ==
  ASSUME NEW arena \in Seq(Node), Linked(arena), NEW node \in Node,
         ~IsLeaf(node.segment) =>
           /\ ChildOK(arena, node.leftChild, LeftHalf(node.segment))
           /\ ChildOK(arena, node.rightChild, RightHalf(node.segment))
  PROVE  LET longer == Append(arena, node)
         IN  /\ longer \in Seq(Node) /\ Linked(longer)
             /\ Len(longer) = Len(arena) + 1 /\ DOMAIN longer = 1 .. Len(arena) + 1
             /\ \A i \in DOMAIN arena : i \in DOMAIN longer /\ longer[i] = arena[i]
             /\ longer[Len(arena) + 1] = node
             /\ \A i, c : ChildOK(arena, i, c) => ChildOK(longer, i, c)
             /\ ChildOK(longer, Len(arena) + 1, node.segment)
<1> DEFINE longer == Append(arena, node)
<1>1. PICK n \in Nat : n = Len(arena)
  BY LenProperties
<1>2. /\ longer \in Seq(Node) /\ Len(longer) = n + 1
      /\ DOMAIN arena = 1 .. n /\ DOMAIN longer = 1 .. n + 1
      /\ \A i \in 1 .. n : longer[i] = arena[i]
      /\ longer[n + 1] = node
  BY <1>1, AppendProperties, LenProperties
<1> HIDE DEF longer
<1>3. ASSUME NEW i \in 1 .. n PROVE LinkedAt(longer, i)
  <2>1. LinkedAt(arena, i) /\ longer[i] = arena[i]
    BY <1>2 DEF Linked
  <2>2. \A j \in 1 .. i - 1 : longer[j] = arena[j]
    BY <1>2
  <2> QED BY <2>1, <2>2 DEF LinkedAt
<1>4. LinkedAt(longer, n + 1)
  <2>1. (n + 1) - 1 = n
    OBVIOUS
  <2> QED BY <1>2, <2>1 DEF LinkedAt, ChildOK
<1>5. Linked(longer)
  <2>1. \A i \in 1 .. n + 1 : i \in 1 .. n \/ i = n + 1
    OBVIOUS
  <2> QED BY <1>2, <1>3, <1>4, <2>1 DEF Linked
<1>6. \A i \in DOMAIN arena : i \in DOMAIN longer /\ longer[i] = arena[i]
  BY <1>2
<1>7. ChildOK(longer, n + 1, node.segment)
  BY <1>2 DEF ChildOK
<1> QED BY <1>1, <1>2, <1>5, <1>6, <1>7 DEF ChildOK, longer

LEMMA BuiltNodeType ==
  ASSUME BInv, Finishing("initialize")
  PROVE  /\ BuiltNode(Top) \in Node /\ BuiltNode(Top).segment = Top.segment
         /\ BuiltNode(Top).buffer = <<>>
         /\ ~IsLeaf(Top.segment) =>
              /\ ChildOK(newNodes, BuiltNode(Top).leftChild, LeftHalf(Top.segment))
              /\ ChildOK(newNodes, BuiltNode(Top).rightChild, RightHalf(Top.segment))
<1>1. PICK f \in Frame : f = Top
  BY TopFrame DEF Finishing
<1>2. /\ call.op = "initialize" /\ f.todo = {} /\ FrameOK(f)
      /\ BuiltNode(f).baseSum # Overflow /\ call.values \in Seq(Value)
      /\ CallSize = Len(call.values) /\ f.segment \in Interval(CallSize)
  BY <1>1, TopFrame, TypeFacts DEF Finishing, Computed, CallSize
<1>3. ~IsLeaf(f.segment) =>
        /\ ChildOK(newNodes, f.newLeft, LeftHalf(f.segment))
        /\ ChildOK(newNodes, f.newRight, RightHalf(f.segment))
  BY <1>2 DEF FrameOK, BuildFrameOK
<1>4. BuiltNode(f).baseSum \in Value
  <2>1. CASE IsLeaf(f.segment)
    <3>1. f.segment[1] \in 1 .. Len(call.values)
      BY <1>2, LenProperties, Halves
    <3> QED BY <1>2, <2>1, <3>1, ElementOfSeq DEF BuiltNode
  <2>2. CASE ~IsLeaf(f.segment)
    <3>1. BuiltNode(f).baseSum \in Outcome
      BY <2>2, CheckedAddOutcome DEF BuiltNode
    <3> QED BY <1>2, <3>1 DEF Outcome
  <2> QED BY <2>1, <2>2
<1>5. <<>> \in Seq(Modification) /\ 0 \in Value
  BY EmptySeq, ValueFacts
<1>6. /\ BuiltNode(f).leftChild = f.newLeft /\ BuiltNode(f).rightChild = f.newRight
      /\ BuiltNode(f).segment = f.segment /\ BuiltNode(f).buffer = <<>>
  BY DEF BuiltNode
<1>7. BuiltNode(f) \in Node
  BY <1>4, <1>5 DEF BuiltNode, Node, Frame
<1> QED BY <1>1, <1>3, <1>6, <1>7

LEMMA ReturnBuiltBInv ==
  ASSUME BInv, ReturnBuilt
  PROVE  BInv'
<1>1. PICK node \in Node : node = BuiltNode(Top)
  BY BuiltNodeType DEF ReturnBuilt
<1>2. PICK index \in Nat : index = Len(newNodes) + 1
  BY TypeFacts
<1>3. /\ node.segment = Top.segment /\ node.buffer = <<>>
      /\ ~IsLeaf(node.segment) =>
           /\ ChildOK(newNodes, node.leftChild, LeftHalf(node.segment))
           /\ ChildOK(newNodes, node.rightChild, RightHalf(node.segment))
  BY <1>1, BuiltNodeType DEF ReturnBuilt
<1>4. newNodes \in Seq(Node) /\ Linked(newNodes)
  BY TypeFacts DEF BInv, TreesLinked
<1>5. newNodes' = Append(newNodes, node)
  BY <1>1 DEF ReturnBuilt
<1>6. /\ newNodes' \in Seq(Node) /\ Linked(newNodes')
      /\ Len(newNodes') = index /\ DOMAIN newNodes' = 1 .. index
      /\ \A i \in DOMAIN newNodes : i \in DOMAIN newNodes' /\ newNodes'[i] = newNodes[i]
      /\ newNodes'[index] = node
      /\ \A i, c : ChildOK(newNodes, i, c) => ChildOK(newNodes', i, c)
      /\ ChildOK(newNodes', index, Top.segment)
  BY <1>2, <1>3, <1>4, <1>5, AppendLinked
<1>7. /\ call.op = "initialize" /\ stack # <<>> /\ stack' = Resume(stack, index)
      /\ returned' = index
      /\ UNCHANGED <<nodes, roots, arraySize, bound, nextBound, bufferedThisUpdate, call>>
  BY <1>6 DEF ReturnBuilt, Finishing, ReturnIndex, published
<1>8. CallSize' = CallSize /\ Written = {} /\ Written' = {}
  BY <1>7 DEF CallSize, Written
<1>9. \A f : FrameOK(f) => FrameOK(f)'
  <2> TAKE f
  <2>1. BuildFrameOK(f) => BuildFrameOK(f)'
    BY <1>6 DEF BuildFrameOK
  <2> QED BY <1>7, <1>8, <2>1 DEF FrameOK
<1>10. /\ stack' \in Seq(Frame) /\ FramesOK'
       /\ stack' = <<>> => Top.segment = Root(CallSize)
  BY <1>6, <1>7, <1>9, ReturnIndexInOrder
<1>11. TypeOK'
  BY <1>6, <1>7, <1>10 DEF BInv, TypeOK
<1>12. TreesLinked'
  BY <1>6, <1>7 DEF BInv, TreesLinked, Linked, LinkedAt, RootOK, ChildOK
<1>13. CallOK'
  <2>1. call.values # <<>>
    BY <1>7 DEF BInv, CallOK
  <2> QED BY <1>6, <1>7, <1>8, <1>10, <2>1 DEF CallOK
<1>14. BuffersOK'
  <2>1. \A i \in DOMAIN newNodes' : newNodes'[i].buffer = <<>>
    <3>1. \A i \in 1 .. index : i \in DOMAIN newNodes \/ i = index
      BY <1>2, TypeFacts
    <3> QED BY <1>3, <1>6, <3>1 DEF BInv, BuffersOK
  <2> QED BY <1>7, <1>8, <2>1 DEF BInv, BuffersOK, BufferOK, Ordered, Settled, Pending
<1>15. RecordOK'
  BY <1>7 DEF RecordOK
<1> QED BY <1>10, <1>11, <1>12, <1>13, <1>14, <1>15 DEF BInv

(***************************************************************************)
(* The arithmetic of a frame of update: the change it makes to the node it *)
(* works on, and the state of that node with it, are all representable.    *)
(***************************************************************************)
LEMMA UpdatedNode ==
  ASSUME BInv, Finishing("rangeAdd")
  PROVE  /\ Top \in Frame /\ FrameOK(Top)
         /\ Top.node \in 1 .. call.checkpoint /\ Top.node \in DOMAIN nodes
         /\ nodes[Top.node] \in Node /\ nodes[Top.node].segment = Top.segment
         /\ Top.segment \in Interval(arraySize)
         /\ Change(Top) \in Modification /\ Change(Top).version = Len(roots) + 1
         /\ CopiedNode(Top) \in Node /\ CopiedNode(Top).segment = Top.segment
         /\ CopiedNode(Top).buffer = <<>>
         /\ ~IsLeaf(Top.segment) =>
              /\ ChildOK(nodes, CopiedNode(Top).leftChild, LeftHalf(Top.segment))
              /\ ChildOK(nodes, CopiedNode(Top).rightChild, RightHalf(Top.segment))
<1>1. PICK f \in Frame : f = Top
  BY TopFrame DEF Finishing
<1>2. /\ call.op = "rangeAdd" /\ FrameOK(f) /\ Readable(Changed(f))
      /\ f.segment \in Interval(arraySize) /\ arraySize \in Nat
      /\ call.value \in Value /\ call.version = Len(roots) + 1
      /\ call.checkpoint \in 0 .. Len(nodes) /\ Len(nodes) \in Nat
      /\ DOMAIN nodes = 1 .. Len(nodes) /\ Len(roots) \in Nat
  BY <1>1, TopFrame, TypeFacts DEF Finishing, Computed, CallSize
<1>3. /\ f.node \in 1 .. call.checkpoint /\ nodes[f.node].segment = f.segment
      /\ ~IsLeaf(f.segment) => /\ ChildOK(nodes, f.newLeft, LeftHalf(f.segment))
                               /\ ChildOK(nodes, f.newRight, RightHalf(f.segment))
  BY <1>2 DEF FrameOK, UpdateFrameOK
<1>4. f.node \in DOMAIN nodes /\ nodes[f.node] \in Node
  BY <1>2, <1>3, TypeFacts
<1>5. /\ Change(f).version = call.version
      /\ Change(f).deltaSum \in Outcome /\ Change(f).deltaSum # Overflow
      /\ Change(f).deltaLazy \in Value
      /\ Changed(f).sum \in Outcome /\ Changed(f).sum # Overflow
      /\ Changed(f).lazy \in Outcome /\ Changed(f).lazy # Overflow
  <2>1. Change(f).version = call.version
    BY DEF Change
  <2>2. Change(f).deltaSum \in Outcome
    BY DEF Change, CheckedMultiply, Outcome, Representable
  <2>3. Change(f).deltaLazy \in Value
    BY <1>2, ValueFacts DEF Change
  <2>4. Changed(f).sum # Overflow /\ Changed(f).lazy # Overflow
    BY <1>2 DEF Readable
  <2>5. Changed(f).sum \in Outcome /\ Changed(f).lazy \in Outcome
    BY CheckedAddOutcome DEF Changed
  <2>6. Change(f).deltaSum # Overflow
    BY <2>4 DEF Changed, CheckedAdd
  <2> QED BY <2>1, <2>2, <2>3, <2>4, <2>5, <2>6
<1>6. Change(f) \in Modification
  <2>1. Change(f).deltaSum \in Value
    BY <1>5 DEF Outcome
  <2>2. Change(f).version \in Nat
    BY <1>2, <1>5
  <2>3. Change(f) = [version |-> Change(f).version, deltaSum |-> Change(f).deltaSum,
                     deltaLazy |-> Change(f).deltaLazy]
    BY DEF Change
  <2> QED BY <1>5, <2>1, <2>2, <2>3 DEF Modification
<1>7. /\ CopiedNode(f).leftChild = f.newLeft /\ CopiedNode(f).rightChild = f.newRight
      /\ CopiedNode(f).segment = f.segment /\ CopiedNode(f).buffer = <<>>
  BY DEF CopiedNode
<1>8. CopiedNode(f) \in Node
  <2>1. Changed(f).sum \in Value /\ Changed(f).lazy \in Value
    BY <1>5 DEF Outcome
  <2>2. <<>> \in Seq(Modification)
    BY EmptySeq
  <2> QED BY <2>1, <2>2 DEF CopiedNode, Node, Frame
<1> QED BY <1>1, <1>2, <1>3, <1>4, <1>5, <1>6, <1>7, <1>8

LEMMA CopyBInv ==
  ASSUME BInv, Copy
  PROVE  BInv'
<1>1. PICK node \in Node : node = CopiedNode(Top)
  BY UpdatedNode DEF Copy
<1>2. PICK index \in Nat : index = Len(nodes) + 1
  BY TypeFacts
<1>3. /\ node.segment = Top.segment /\ node.buffer = <<>>
      /\ ~IsLeaf(node.segment) =>
           /\ ChildOK(nodes, node.leftChild, LeftHalf(node.segment))
           /\ ChildOK(nodes, node.rightChild, RightHalf(node.segment))
  BY <1>1, UpdatedNode DEF Copy
<1>4. nodes \in Seq(Node) /\ Linked(nodes)
  BY TypeFacts DEF BInv, TreesLinked
<1>5. nodes' = Append(nodes, node)
  BY <1>1 DEF Copy
<1>6. /\ nodes' \in Seq(Node) /\ Linked(nodes')
      /\ Len(nodes') = index /\ DOMAIN nodes' = 1 .. index
      /\ \A i \in DOMAIN nodes : i \in DOMAIN nodes' /\ nodes'[i] = nodes[i]
      /\ nodes'[index] = node
      /\ \A i, c : ChildOK(nodes, i, c) => ChildOK(nodes', i, c)
      /\ ChildOK(nodes', index, Top.segment)
  BY <1>2, <1>3, <1>4, <1>5, AppendLinked
<1>7. /\ call.op = "rangeAdd" /\ stack # <<>> /\ stack' = Resume(stack, index)
      /\ returned' = index
      /\ UNCHANGED <<roots, arraySize, bound, nextBound, newNodes, bufferedThisUpdate, call>>
  BY <1>6 DEF Copy, Finishing, ReturnIndex, published
<1>8. /\ DOMAIN nodes = 1 .. Len(nodes) /\ Len(nodes) \in Nat
      /\ call.checkpoint \in 0 .. Len(nodes)
      /\ bufferedThisUpdate \in Seq(1 .. call.checkpoint)
  BY <1>7, TypeFacts DEF BInv, RecordOK
<1>9. /\ CallSize' = CallSize /\ CallSize = arraySize /\ Written' = Written
      /\ \A i \in Written : i \in 1 .. call.checkpoint
  <2>1. \A k \in DOMAIN bufferedThisUpdate : bufferedThisUpdate[k] \in 1 .. call.checkpoint
    BY <1>8, ElementOfSeq, LenProperties
  <2> QED BY <1>7, <2>1 DEF CallSize, Written, Range
<1>10. \A i \in 1 .. call.checkpoint : i \in DOMAIN nodes /\ nodes'[i] = nodes[i]
  <2>1. \A i \in 1 .. call.checkpoint : i \in 1 .. Len(nodes)
    BY <1>8
  <2> QED BY <1>6, <1>8, <2>1
<1>11. \A f : FrameOK(f) => FrameOK(f)'
  <2> TAKE f
  <2>1. UpdateFrameOK(f) => UpdateFrameOK(f)'
    BY <1>6, <1>7, <1>10 DEF UpdateFrameOK
  <2> QED BY <1>7, <1>9, <2>1 DEF FrameOK
<1>12. /\ stack' \in Seq(Frame) /\ FramesOK'
       /\ stack' = <<>> => Top.segment = Root(CallSize)
       /\ \A done \in SUBSET Interval(CallSize) :
            Passed(stack, done) => Passed(stack', done \cup {Top.segment})
  BY <1>6, <1>7, <1>11, ReturnIndexInOrder
<1>13. TypeOK'
  BY <1>6, <1>7, <1>12 DEF BInv, TypeOK
<1>14. TreesLinked'
  BY <1>6, <1>7 DEF BInv, TreesLinked, Linked, LinkedAt, RootOK
<1>15. CallOK'
  <2>1. call.checkpoint <= Len(nodes')
    BY <1>2, <1>6, <1>8
  <2> QED BY <1>6, <1>7, <1>9, <1>12, <2>1 DEF BInv, CallOK
<1>16. BuffersOK'
  <2>1. ASSUME NEW i \in DOMAIN nodes PROVE BufferOK(i)'
    <3>1. BufferOK(i) /\ nodes'[i] = nodes[i]
      BY <1>6 DEF BInv, BuffersOK
    <3> QED BY <1>7, <1>9, <3>1 DEF BufferOK, Ordered, Settled, Pending
  <2>2. BufferOK(index)'
    <3>1. index \notin Written'
      BY <1>2, <1>8, <1>9
    <3>2. nodes'[index].buffer = <<>>
      BY <1>3, <1>6
    <3> QED BY <3>1, <3>2 DEF BufferOK, Ordered, Settled, BufferCapacity
  <2>3. \A i \in DOMAIN nodes' : i \in DOMAIN nodes \/ i = index
    BY <1>2, <1>6, <1>8
  <2>4. \A i \in DOMAIN nodes' : BufferOK(i)'
    BY <2>1, <2>2, <2>3
  <2> QED BY <1>7, <2>4 DEF BInv, BuffersOK
<1>17. RecordOK'
  <2>1. Done' = Done
    BY <1>9, <1>10 DEF Done
  <2>2. Done \subseteq Interval(CallSize) /\ Passed(stack, Done)
    BY <1>7, <1>9 DEF BInv, RecordOK
  <2>3. Passed(stack', Done \cup {Top.segment})
    BY <1>12, <2>2
  <2>4. Passed(stack', Done)
    BY <2>3 DEF Passed
  <2> QED BY <1>7, <1>9, <2>1, <2>4 DEF BInv, RecordOK
<1> QED BY <1>12, <1>13, <1>14, <1>15, <1>16, <1>17 DEF BInv

(***************************************************************************)
(* Writing into buffers, or cutting the arena off behind all the roots,    *)
(* leaves the links of the nodes that stay as they are.                    *)
(***************************************************************************)
LEMMA LinksKept ==
  ASSUME BInv, NEW n \in 0 .. Len(nodes), DOMAIN nodes' = 1 .. n,
         \A i \in 1 .. n : /\ nodes'[i].leftChild = nodes[i].leftChild
                           /\ nodes'[i].rightChild = nodes[i].rightChild
                           /\ nodes'[i].segment = nodes[i].segment
  PROVE  /\ Linked(nodes')
         /\ \A i \in 1 .. n : \A c : ChildOK(nodes, i, c) => ChildOK(nodes', i, c)
<1>1. DOMAIN nodes = 1 .. Len(nodes) /\ Len(nodes) \in Nat
  BY TypeFacts
<1>2. ASSUME NEW i \in 1 .. n PROVE LinkedAt(nodes', i)
  <2>1. LinkedAt(nodes, i)
    BY <1>1 DEF BInv, TreesLinked, Linked
  <2>2. \A j \in 1 .. i - 1 : j \in 1 .. n
    OBVIOUS
  <2> QED BY <2>1, <2>2 DEF LinkedAt
<1> QED BY <1>2 DEF Linked, ChildOK

LEMMA AppendRange ==
  ASSUME NEW S, NEW s \in Seq(S), NEW e \in S
  PROVE  /\ Range(Append(s, e)) = Range(s) \cup {e}
         /\ e \notin Range(s) /\ (\A j, k \in DOMAIN s : s[j] = s[k] => j = k) =>
              \A j, k \in DOMAIN Append(s, e) : Append(s, e)[j] = Append(s, e)[k] => j = k
<1>1. PICK n \in Nat : n = Len(s)
  BY LenProperties
<1>2. PICK t : t = Append(s, e)
  OBVIOUS
<1>3. /\ DOMAIN s = 1 .. n /\ DOMAIN t = 1 .. n + 1
      /\ \A k \in 1 .. n : t[k] = s[k]
      /\ t[n + 1] = e
  BY <1>1, <1>2, AppendProperties, LenProperties
<1>4. \A k \in 1 .. n + 1 : k \in 1 .. n \/ k = n + 1
  OBVIOUS
<1>5. Range(t) = Range(s) \cup {e}
  BY <1>3, <1>4 DEF Range
<1>6. ASSUME e \notin Range(s), \A j, k \in DOMAIN s : s[j] = s[k] => j = k,
             NEW j \in DOMAIN t, NEW k \in DOMAIN t, t[j] = t[k]
      PROVE  j = k
  BY <1>3, <1>4, <1>6 DEF Range
<1> QED BY <1>2, <1>5, <1>6

LEMMA BufferAbsorbs ==
  ASSUME NEW node \in Node, NEW m \in Modification, m.version = Len(roots) + 1,
         Len(roots) \in Nat, Ordered(node.buffer), Settled(node.buffer),
         Len(node.buffer) < BufferCapacity
  PROVE  /\ Append(node.buffer, m) \in Seq(Modification)
         /\ Ordered(Append(node.buffer, m)) /\ Pending(Append(node.buffer, m))
<1>1. PICK b \in Seq(Modification) : b = node.buffer
  BY EntryFacts
<1>2. PICK n \in Nat : n = Len(b)
  BY LenProperties
<1>3. PICK c : c = Append(b, m)
  OBVIOUS
<1>4. /\ c \in Seq(Modification) /\ Len(c) = n + 1
      /\ DOMAIN b = 1 .. n /\ DOMAIN c = 1 .. n + 1
      /\ \A k \in 1 .. n : c[k] = b[k]
      /\ c[n + 1] = m
  BY <1>1, <1>2, <1>3, AppendProperties, LenProperties
<1>5. /\ n < 2
      /\ \A k \in 1 .. n : k > 1 => b[k - 1].version < b[k].version
      /\ \A k \in 1 .. n : b[k].version <= Len(roots) /\ b[k].version \in Nat
  BY <1>1, <1>2, <1>4, EntryFacts DEF Ordered, Settled, BufferCapacity
<1>6. c # <<>>
  BY <1>4, EmptySeq
<1>7. \A k \in 1 .. n + 1 : k > 1 => c[k - 1].version < c[k].version
  <2> TAKE k \in 1 .. n + 1
  <2> HAVE k > 1
  <2>1. k - 1 \in 1 .. n /\ c[k - 1] = b[k - 1]
    BY <1>4
  <2>2. CASE k = n + 1
    BY <1>4, <1>5, <2>1, <2>2
  <2>3. CASE k # n + 1
    BY <1>4, <1>5, <2>1, <2>3
  <2> QED BY <2>2, <2>3
<1>8. \A k \in 1 .. n + 1 :
        IF k = n + 1 THEN c[k].version = Len(roots) + 1 ELSE c[k].version <= Len(roots)
  BY <1>4, <1>5
<1>9. Ordered(c)
  <2>1. Len(c) <= BufferCapacity
    BY <1>4, <1>5 DEF BufferCapacity
  <2> QED BY <1>4, <1>7, <2>1 DEF Ordered
<1>10. Pending(c)
  BY <1>4, <1>6, <1>8 DEF Pending
<1> QED BY <1>1, <1>3, <1>4, <1>9, <1>10

(***************************************************************************)
(* No node of a segment still worked on has been written to.               *)
(***************************************************************************)
LEMMA NotWrittenYet ==
  ASSUME BInv, Finishing("rangeAdd")
  PROVE  Top.node \notin Written
<1>1. /\ stack # <<>> /\ call.op = "rangeAdd" /\ nodes[Top.node].segment = Top.segment
      /\ Top.segment \in Interval(arraySize) /\ arraySize \in Nat
      /\ Len(stack) \in DOMAIN stack
  BY UpdatedNode, TopFrame, TypeFacts DEF Finishing
<1> SUFFICES ASSUME Top.node \in Written PROVE FALSE
  OBVIOUS
<1>2. Top.segment \in Done
  BY <1>1 DEF Done
<1>3. ~Within(Top.segment, Top.segment)
  BY <1>1, <1>2 DEF BInv, RecordOK, Passed, Top
<1> QED BY <1>1, <1>3, Halves DEF Within

LEMMA AbsorbBInv ==
  ASSUME BInv, Absorb
  PROVE  BInv'
<1>1. /\ Finishing("rangeAdd") /\ call.op = "rangeAdd" /\ stack # <<>>
      /\ Absorbs(Top)
      /\ nodes' = [nodes EXCEPT ![Top.node].buffer = Append(@, Change(Top))]
      /\ bufferedThisUpdate' = Append(bufferedThisUpdate, Top.node)
      /\ stack' = Resume(stack, Top.node) /\ returned' = Top.node
      /\ UNCHANGED <<roots, arraySize, bound, nextBound, newNodes, call>>
  BY DEF Absorb, Finishing, Recorded, ReturnIndex, published
<1>2. PICK i \in DOMAIN nodes : i = Top.node
  BY <1>1, UpdatedNode
<1>3. PICK m \in Modification : m = Change(Top)
  BY <1>1, UpdatedNode
<1>4. /\ i \in 1 .. call.checkpoint /\ i \in Nat /\ nodes[i] \in Node
      /\ nodes[i].segment = Top.segment
      /\ m.version = Len(roots) + 1
      /\ call.checkpoint \in 0 .. Len(nodes) /\ Len(roots) \in Nat
      /\ nodes \in Seq(Node) /\ DOMAIN nodes = 1 .. Len(nodes) /\ Len(nodes) \in Nat
  BY <1>1, <1>2, <1>3, UpdatedNode, TypeFacts
<1>5. i \notin Written
  BY <1>1, <1>2, NotWrittenYet
<1>6. /\ Append(nodes[i].buffer, m) \in Seq(Modification)
      /\ Ordered(Append(nodes[i].buffer, m)) /\ Pending(Append(nodes[i].buffer, m))
  <2>1. Ordered(nodes[i].buffer) /\ Settled(nodes[i].buffer)
    BY <1>5 DEF BInv, BuffersOK, BufferOK
  <2>2. Len(nodes[i].buffer) < BufferCapacity
    BY <1>1, <1>2 DEF Absorbs
  <2> QED BY <1>4, <2>1, <2>2, BufferAbsorbs
<1>7. PICK node : node = [nodes[i] EXCEPT !.buffer = Append(nodes[i].buffer, m)]
  OBVIOUS
<1>8. /\ node \in Node /\ node.buffer = Append(nodes[i].buffer, m)
      /\ node.leftChild = nodes[i].leftChild /\ node.rightChild = nodes[i].rightChild
      /\ node.segment = nodes[i].segment
  BY <1>4, <1>6, <1>7 DEF Node
<1>9. nodes' = [nodes EXCEPT ![i] = node]
  BY <1>1, <1>2, <1>3, <1>7
<1>10. /\ nodes' \in Seq(Node) /\ DOMAIN nodes' = DOMAIN nodes /\ Len(nodes') = Len(nodes)
       /\ \A j \in DOMAIN nodes : nodes'[j] = IF j = i THEN node ELSE nodes[j]
  <2>1. /\ [nodes EXCEPT ![i] = node] \in Seq(Node)
        /\ Len([nodes EXCEPT ![i] = node]) = Len(nodes)
        /\ \A j \in 1 .. Len(nodes) :
             [nodes EXCEPT ![i] = node][j] = IF j = i THEN node ELSE nodes[j]
    BY <1>4, <1>8, ExceptSeq
  <2> QED BY <1>4, <1>9, <2>1, LenProperties
<1>11. \A j \in DOMAIN nodes : /\ nodes'[j].leftChild = nodes[j].leftChild
                               /\ nodes'[j].rightChild = nodes[j].rightChild
                               /\ nodes'[j].segment = nodes[j].segment
  BY <1>8, <1>10
<1>12. /\ Linked(nodes')
       /\ \A j, c : ChildOK(nodes, j, c) => ChildOK(nodes', j, c)
  <2>a. Len(nodes) \in 0 .. Len(nodes)
    BY <1>4
  <2>1. PICK n \in 0 .. Len(nodes) : n = Len(nodes)
    BY <2>a
  <2>2. DOMAIN nodes' = 1 .. n
    BY <1>4, <1>10, <2>1
  <2>3. \A j \in 1 .. n : /\ nodes'[j].leftChild = nodes[j].leftChild
                          /\ nodes'[j].rightChild = nodes[j].rightChild
                          /\ nodes'[j].segment = nodes[j].segment
    BY <1>4, <1>11, <2>1
  <2>4. /\ Linked(nodes')
        /\ \A j \in 1 .. n : \A c : ChildOK(nodes, j, c) => ChildOK(nodes', j, c)
    BY <2>2, <2>3, LinksKept
  <2> QED BY <1>4, <2>1, <2>4 DEF ChildOK
<1>13. /\ bufferedThisUpdate \in Seq(1 .. call.checkpoint)
       /\ \A j, k \in DOMAIN bufferedThisUpdate :
            bufferedThisUpdate[j] = bufferedThisUpdate[k] => j = k
       /\ i \notin Range(bufferedThisUpdate)
  BY <1>1, <1>5 DEF BInv, RecordOK, Written
<1>14. /\ bufferedThisUpdate' \in Seq(1 .. call.checkpoint)
       /\ bufferedThisUpdate' \in Seq(Nat)
       /\ \A j, k \in DOMAIN bufferedThisUpdate' :
            bufferedThisUpdate'[j] = bufferedThisUpdate'[k] => j = k
       /\ Range(bufferedThisUpdate') = Range(bufferedThisUpdate) \cup {i}
  <2>1. bufferedThisUpdate' = Append(bufferedThisUpdate, i)
    BY <1>1, <1>2
  <2>2. bufferedThisUpdate \in Seq(Nat) /\ i \in Nat
    BY <1>4, TypeFacts
  <2>3. bufferedThisUpdate' \in Seq(1 .. call.checkpoint)
    BY <1>4, <1>13, <2>1, AppendProperties
  <2>4. bufferedThisUpdate' \in Seq(Nat)
    BY <2>1, <2>2, AppendProperties
  <2>5. Range(bufferedThisUpdate') = Range(bufferedThisUpdate) \cup {i}
    BY <2>1, <2>2, AppendRange
  <2>6. \A j, k \in DOMAIN bufferedThisUpdate' :
          bufferedThisUpdate'[j] = bufferedThisUpdate'[k] => j = k
    <3>1. PICK u \in Seq(Nat) : u = bufferedThisUpdate
      BY <2>2
    <3>2. i \notin Range(u) /\ \A j, k \in DOMAIN u : u[j] = u[k] => j = k
      BY <1>13, <3>1
    <3>3. \A j, k \in DOMAIN Append(u, i) : Append(u, i)[j] = Append(u, i)[k] => j = k
      BY <2>2, <3>2, AppendRange
    <3> QED BY <2>1, <3>1, <3>3
  <2> QED BY <2>3, <2>4, <2>5, <2>6
<1>15. /\ CallSize' = CallSize /\ CallSize = arraySize
       /\ Written' = Written \cup {i}
       /\ \A j \in Written' : j \in DOMAIN nodes
  <2>1. \A k \in DOMAIN bufferedThisUpdate : bufferedThisUpdate[k] \in DOMAIN nodes
    BY <1>4, <1>13, ElementOfSeq, LenProperties
  <2>2. CallSize' = CallSize /\ CallSize = arraySize
    BY <1>1 DEF CallSize
  <2>3. Written = Range(bufferedThisUpdate) /\ Written' = Range(bufferedThisUpdate')
    BY <1>1 DEF Written
  <2>4. \A j \in Range(bufferedThisUpdate) : j \in DOMAIN nodes
    BY <2>1 DEF Range
  <2> QED BY <1>14, <2>2, <2>3, <2>4
<1>16. \A f : FrameOK(f) => FrameOK(f)'
  <2> TAKE f
  <2>1. UpdateFrameOK(f) => UpdateFrameOK(f)'
    <3>1. \A j \in 1 .. call.checkpoint : nodes'[j].segment = nodes[j].segment
      BY <1>4, <1>11
    <3> QED BY <1>1, <1>12, <3>1 DEF UpdateFrameOK
  <2> QED BY <1>1, <1>15, <2>1 DEF FrameOK
<1>17. ChildOK(nodes', i, Top.segment)
  BY <1>4, <1>10, <1>11 DEF ChildOK
<1>18. /\ stack' \in Seq(Frame) /\ FramesOK'
       /\ stack' = <<>> => Top.segment = Root(CallSize)
       /\ \A done \in SUBSET Interval(CallSize) :
            Passed(stack, done) => Passed(stack', done \cup {Top.segment})
  BY <1>1, <1>2, <1>4, <1>16, <1>17, ReturnIndexInOrder
<1>19. TypeOK'
  BY <1>1, <1>2, <1>4, <1>10, <1>14, <1>18 DEF BInv, TypeOK
<1>20. TreesLinked'
  <2>1. \A v \in DOMAIN roots : RootOK(roots[v])'
    BY <1>1, <1>12 DEF BInv, TreesLinked, RootOK
  <2> QED BY <1>1, <1>12, <2>1 DEF BInv, TreesLinked, Linked, LinkedAt, RootOK
<1>21. CallOK'
  BY <1>1, <1>2, <1>10, <1>15, <1>17, <1>18 DEF BInv, CallOK
<1>22. BuffersOK'
  <2>1. BufferOK(i)'
    <3>1. nodes'[i].buffer = Append(nodes[i].buffer, m) /\ i \in Written'
      BY <1>8, <1>10, <1>15
    <3> QED BY <1>1, <1>6, <3>1 DEF BufferOK, Ordered, Pending
  <2>2. ASSUME NEW j \in DOMAIN nodes, j # i PROVE BufferOK(j)'
    <3>1. nodes'[j] = nodes[j] /\ (j \in Written' <=> j \in Written) /\ BufferOK(j)
      BY <1>10, <1>15, <2>2 DEF BInv, BuffersOK
    <3> QED BY <1>1, <3>1 DEF BufferOK, Ordered, Settled, Pending
  <2>3. \A j \in DOMAIN nodes' : BufferOK(j)'
    BY <1>10, <2>1, <2>2
  <2> QED BY <1>1, <2>3 DEF BInv, BuffersOK
<1>23. RecordOK'
  <2>1. Done' = Done \cup {Top.segment}
    BY <1>4, <1>11, <1>15 DEF Done
  <2>2. Done \subseteq Interval(CallSize) /\ Passed(stack, Done)
    BY <1>1, <1>15 DEF BInv, RecordOK
  <2>3. Top.segment \in Interval(CallSize)
    BY <1>1, TopFrame
  <2>4. Passed(stack', Done')
    BY <1>18, <2>1, <2>2
  <2> QED BY <1>1, <1>14, <1>15, <2>1, <2>2, <2>3, <2>4 DEF RecordOK
<1> QED BY <1>18, <1>19, <1>20, <1>21, <1>22, <1>23 DEF BInv

LEMMA PublishInitialBInv ==
  ASSUME BInv, PublishInitial
  PROVE  BInv'
<1>1. /\ call.op = "initialize" /\ stack = <<>> /\ stack' = <<>>
      /\ call' = Idle /\ call'.op = "idle" /\ newNodes' = <<>>
      /\ nodes' = newNodes /\ roots' = <<returned>> /\ arraySize' = Len(call.values)
      /\ bound' = MaxMagnitude(call.values)
      /\ bufferedThisUpdate' = <<>> /\ returned' = NoNode
      /\ UNCHANGED nextBound
  BY DEF PublishInitial, Idle
<1>2. /\ call.values \in Seq(Value) /\ Len(call.values) \in Nat
      /\ newNodes \in Seq(Node) /\ returned \in Nat
      /\ \A p \in DOMAIN call.values : call.values[p] \in Outcome
  BY <1>1, TypeFacts, LenProperties, ElementOfSeq, OutcomeFacts
<1>3. bound' \in Bound
  BY <1>1, <1>2, MaxMagnitudeFacts
<1>4. /\ call' \in Call /\ roots' \in Seq(Nat) /\ returned' \in Nat
  BY <1>1, <1>2 DEF Call, NoNode
<1>5. TypeOK'
  BY <1>1, <1>2, <1>3, <1>4, EmptySeq DEF BInv, TypeOK
<1>r. PICK root \in Nat : root = returned
  BY <1>2
<1>6. RootOK(root)'
  <2>1. arraySize' # 0 => call.values # <<>>
    BY <1>1, <1>2, EmptySeq
  <2>2. call.values # <<>> => ChildOK(newNodes, root, Root(Len(call.values)))
    BY <1>1, <1>r DEF BInv, CallOK, CallSize
  <2> QED BY <1>1, <2>1, <2>2 DEF RootOK, ChildOK
<1>7. TreesLinked'
  <2>1. Linked(nodes)' /\ Linked(newNodes)'
    BY <1>1 DEF BInv, TreesLinked, Linked, LinkedAt
  <2>2. DOMAIN roots' = {1} /\ roots'[1] = root
    BY <1>1, <1>r
  <2>3. \A v \in DOMAIN roots' : RootOK(roots[v])'
    BY <1>6, <2>2 DEF RootOK
  <2> QED BY <2>1, <2>3 DEF TreesLinked
<1>8. CallOK' /\ FramesOK' /\ RecordOK'
  BY <1>1 DEF CallOK, FramesOK, Nested, RecordOK
<1>9. BuffersOK'
  <2>1. Written' = {}
    BY <1>1 DEF Written
  <2>2. \A i \in DOMAIN nodes' : nodes'[i].buffer = <<>>
    BY <1>1 DEF BInv, BuffersOK
  <2> QED BY <1>1, <2>1, <2>2 DEF BuffersOK, BufferOK, Ordered, Settled, BufferCapacity
<1> QED BY <1>5, <1>7, <1>8, <1>9 DEF BInv

LEMMA PublishVersionBInv ==
  ASSUME BInv, PublishVersion
  PROVE  BInv'
<1>1. /\ call.op = "rangeAdd" /\ stack = <<>> /\ stack' = <<>>
      /\ call' = Idle /\ call'.op = "idle" /\ roots' = Append(roots, returned)
      /\ bound' = nextBound /\ nextBound' = 0 /\ returned' = NoNode
      /\ UNCHANGED <<nodes, arraySize, newNodes, bufferedThisUpdate>>
  BY DEF PublishVersion, Idle
<1>2. returned \in Nat /\ nextBound \in Bound /\ Len(roots) \in Nat
  BY TypeFacts
<1>3. RootOK(returned) /\ newNodes = <<>>
  BY <1>1 DEF BInv, CallOK, RootOK
<1>4. /\ roots' \in Seq(Nat) /\ Len(roots') = Len(roots) + 1 /\ TreesLinked'
  BY <1>1, <1>2, <1>3, RootsExtended
<1>5. TypeOK'
  <2>1. 0 \in Bound /\ NoNode \in Nat /\ Idle \in Call
    BY MaxValAssumption DEF Bound, MaxBound, NoNode, Call
  <2> QED BY <1>1, <1>2, <1>4, <2>1, EmptySeq DEF BInv, TypeOK
<1>6. CallOK' /\ FramesOK' /\ RecordOK'
  BY <1>1, <1>3 DEF CallOK, FramesOK, Nested, RecordOK
<1>7. BuffersOK'
  <2>1. Written' = {}
    BY <1>1 DEF Written
  <2>2. ASSUME NEW i \in DOMAIN nodes PROVE BufferOK(i)'
    <3>1. /\ BufferOK(i)
          /\ \A k \in DOMAIN nodes[i].buffer : nodes[i].buffer[k].version \in Nat
      BY TypeFacts, EntryFacts DEF BInv, BuffersOK
    <3>2. Ordered(nodes'[i].buffer)
      BY <1>1, <3>1 DEF BufferOK
    <3>3. \A k \in DOMAIN nodes[i].buffer : nodes[i].buffer[k].version <= Len(roots) + 1
      <4>1. \A k \in DOMAIN nodes[i].buffer :
              \/ nodes[i].buffer[k].version <= Len(roots)
              \/ nodes[i].buffer[k].version = Len(roots) + 1
        BY <3>1 DEF BufferOK, Settled, Pending
      <4> QED BY <1>2, <3>1, <4>1
    <3> QED BY <1>1, <1>4, <2>1, <3>2, <3>3 DEF BufferOK, Settled, Ordered
  <2> QED BY <1>1, <2>2 DEF BInv, BuffersOK
<1> QED BY <1>4, <1>5, <1>6, <1>7 DEF BInv

(***************************************************************************)
(* The rollback.  A node recorded by the failed update is recorded once,   *)
(* so that popping one entry for each record takes back what the update    *)
(* wrote to it, and nothing else.                                          *)
(***************************************************************************)
LEMMA RecordedOnce ==
  ASSUME BInv, call.op = "rangeAdd", NEW i
  PROVE  Cardinality(Records(i)) = IF i \in Written THEN 1 ELSE 0
<1>1. CASE i \in Written
  <2>1. PICK k \in DOMAIN bufferedThisUpdate : bufferedThisUpdate[k] = i
    BY <1>1 DEF Written, Range
  <2>2. Records(i) = {k}
    BY <2>1 DEF BInv, RecordOK, Records
  <2> QED BY <1>1, <2>2, FS_Singleton
<1>2. CASE i \notin Written
  <2>1. Records(i) = {}
    BY <1>2 DEF Written, Range, Records
  <2> QED BY <1>2, <2>1, FS_EmptySet
<1> QED BY <1>1, <1>2

Popped(i) ==
  SubSeq(nodes[i].buffer, 1, Len(nodes[i].buffer) - Cardinality(Records(i)))

LEMMA PoppedBuffer ==
  ASSUME BInv, call.op = "rangeAdd", NEW i \in DOMAIN nodes
  PROVE  /\ Popped(i) \in Seq(Modification)
         /\ Ordered(Popped(i)) /\ Settled(Popped(i))
         /\ \A k \in PublishedEntries(i) :
              k \in DOMAIN Popped(i) /\ Popped(i)[k] = nodes[i].buffer[k]
<1>1. nodes[i] \in Node /\ BufferOK(i) /\ Len(roots) \in Nat
  BY TypeFacts DEF BInv, BuffersOK
<1>2. PICK b \in Seq(Modification) : b = nodes[i].buffer
  BY <1>1, EntryFacts
<1>3. PICK n \in Nat : n = Len(b)
  BY LenProperties
<1>4. PICK m : m = n - Cardinality(Records(i))
  OBVIOUS
<1>5. /\ DOMAIN b = 1 .. n /\ \A k \in 1 .. n : b[k] \in Modification /\ b[k].version \in Nat
      /\ n <= BufferCapacity /\ \A k \in 1 .. n : k > 1 => b[k - 1].version < b[k].version
  BY <1>1, <1>2, <1>3, EntryFacts DEF BufferOK, Ordered
<1>6. /\ m \in 0 .. n
      /\ \A k \in 1 .. n : b[k].version <= Len(roots) <=> k \in 1 .. m
  <2>1. CASE i \in Written
    <3>1. m = n - 1 /\ n > 0
      <4>1. Cardinality(Records(i)) = 1
        BY <2>1, RecordedOnce
      <4>2. n # 0
        BY <1>1, <1>2, <1>3, <2>1, EmptySeq DEF BufferOK, Pending
      <4> QED BY <1>4, <4>1, <4>2
    <3>2. \A k \in 1 .. n : IF k = n THEN b[k].version = Len(roots) + 1
                            ELSE b[k].version <= Len(roots)
      BY <1>1, <1>2, <1>3, <1>5, <2>1 DEF BufferOK, Pending
    <3> QED BY <1>1, <3>1, <3>2
  <2>2. CASE i \notin Written
    <3>1. m = n
      <4>1. Cardinality(Records(i)) = 0
        BY <2>2, RecordedOnce
      <4> QED BY <1>4, <4>1
    <3>2. \A k \in 1 .. n : b[k].version <= Len(roots)
      BY <1>1, <1>2, <1>5, <2>2 DEF BufferOK, Settled
    <3> QED BY <3>1, <3>2
  <2> QED BY <2>1, <2>2
<1>7. PICK c : c = SubSeq(b, 1, m)
  OBVIOUS
<1>8. /\ c \in Seq(Modification) /\ Len(c) = m
      /\ \A k \in 1 .. m : c[k] = b[k]
  <2>1. \A k \in 1 .. m : b[k] \in Modification
    BY <1>5, <1>6
  <2>2. m \in Nat
    BY <1>6
  <2> QED BY <1>7, <2>1, <2>2, SubSeqProperties
<1>9. DOMAIN c = 1 .. m
  BY <1>8, LenProperties
<1>10. Ordered(c)
  <2>1. m <= BufferCapacity
    BY <1>5, <1>6 DEF BufferCapacity
  <2>2. ASSUME NEW k \in 1 .. m, k > 1 PROVE c[k - 1].version < c[k].version
    <3>1. k \in 1 .. n /\ k - 1 \in 1 .. m
      BY <1>6, <2>2
    <3> QED BY <1>5, <1>8, <2>2, <3>1
  <2> QED BY <1>8, <1>9, <2>1, <2>2 DEF Ordered
<1>11. Settled(c)
  BY <1>6, <1>8, <1>9 DEF Settled
<1>12. c = Popped(i)
  BY <1>2, <1>3, <1>4, <1>7 DEF Popped
<1>13. \A k \in PublishedEntries(i) : k \in 1 .. n /\ b[k].version <= Len(roots)
  BY <1>2, <1>5 DEF PublishedEntries
<1> QED BY <1>2, <1>6, <1>8, <1>9, <1>10, <1>11, <1>12, <1>13

LEMMA RolledBackNodes ==
  ASSUME BInv, call.op = "rangeAdd", nodes' = RolledBack
  PROVE  /\ nodes' \in Seq(Node) /\ DOMAIN nodes' = 1 .. call.checkpoint
         /\ \A i \in 1 .. call.checkpoint :
              /\ i \in DOMAIN nodes
              /\ nodes'[i] = [nodes[i] EXCEPT !.buffer = Popped(i)]
              /\ nodes'[i].buffer = Popped(i)
              /\ nodes'[i].leftChild = nodes[i].leftChild
              /\ nodes'[i].rightChild = nodes[i].rightChild
              /\ nodes'[i].segment = nodes[i].segment
<1>1. PICK n \in 0 .. Len(nodes) : n = call.checkpoint
  BY TypeFacts
<1>2. DOMAIN nodes = 1 .. Len(nodes) /\ Len(nodes) \in Nat
  BY TypeFacts
<1>3. nodes' = [i \in 1 .. n |-> [nodes[i] EXCEPT !.buffer = Popped(i)]]
  BY <1>1 DEF RolledBack, Popped
<1>4. ASSUME NEW i \in 1 .. n
      PROVE  /\ i \in DOMAIN nodes
             /\ [nodes[i] EXCEPT !.buffer = Popped(i)] \in Node
             /\ nodes'[i] = [nodes[i] EXCEPT !.buffer = Popped(i)]
             /\ nodes'[i].buffer = Popped(i)
             /\ nodes'[i].leftChild = nodes[i].leftChild
             /\ nodes'[i].rightChild = nodes[i].rightChild
             /\ nodes'[i].segment = nodes[i].segment
  <2>1. i \in DOMAIN nodes
    BY <1>1, <1>2
  <2>2. nodes[i] \in Node /\ Popped(i) \in Seq(Modification)
    BY <2>1, TypeFacts, PoppedBuffer
  <2>3. nodes'[i] = [nodes[i] EXCEPT !.buffer = Popped(i)]
    BY <1>3
  <2> QED BY <2>1, <2>2, <2>3 DEF Node
<1>5. nodes' \in [1 .. n -> Node]
  BY <1>3, <1>4
<1>6. nodes' \in Seq(Node)
  BY <1>1, <1>5, IsASeq
<1>7. DOMAIN nodes' = 1 .. n
  BY <1>3
<1> QED BY <1>1, <1>4, <1>6, <1>7

LEMMA ThrowBInv ==
  ASSUME BInv, Throw
  PROVE  BInv'
<1>1. /\ call' = Idle /\ call'.op = "idle" /\ stack' = <<>> /\ newNodes' = <<>>
      /\ nextBound' = 0 /\ returned' = NoNode
      /\ nodes' = IF call.op = "rangeAdd" THEN RolledBack ELSE nodes
      /\ UNCHANGED <<roots, arraySize, bound, bufferedThisUpdate>>
  BY DEF Throw, Idle, published
<1>2. Written' = {}
  BY <1>1 DEF Written
<1>3. ASSUME call.op = "rangeAdd"
      PROVE  /\ nodes' \in Seq(Node) /\ Linked(nodes')
             /\ \A v \in DOMAIN roots : arraySize # 0 => ChildOK(nodes', roots[v], Root(arraySize))
             /\ \A i \in DOMAIN nodes' : BufferOK(i)'
  <2>1. nodes' = RolledBack
    BY <1>1, <1>3
  <2>2. PICK n \in 0 .. Len(nodes) : n = call.checkpoint
    BY <1>3, TypeFacts
  <2>3. /\ nodes' \in Seq(Node) /\ DOMAIN nodes' = 1 .. n
        /\ \A i \in 1 .. n :
             /\ i \in DOMAIN nodes /\ nodes'[i].buffer = Popped(i)
             /\ nodes'[i].leftChild = nodes[i].leftChild
             /\ nodes'[i].rightChild = nodes[i].rightChild
             /\ nodes'[i].segment = nodes[i].segment
    BY <1>3, <2>1, <2>2, RolledBackNodes
  <2>4. /\ Linked(nodes')
        /\ \A i \in 1 .. n : \A c : ChildOK(nodes, i, c) => ChildOK(nodes', i, c)
    BY <2>3, LinksKept
  <2>5. ASSUME NEW v \in DOMAIN roots, arraySize # 0
        PROVE  ChildOK(nodes', roots[v], Root(arraySize))
    <3>1. ChildOK(nodes, roots[v], Root(arraySize)) /\ roots[v] <= n
      BY <1>3, <2>2, <2>5 DEF BInv, TreesLinked, RootOK, CallOK
    <3>2. roots[v] \in 1 .. n
      BY <3>1, TypeFacts DEF ChildOK
    <3> QED BY <2>4, <3>1, <3>2
  <2>6. ASSUME NEW i \in 1 .. n PROVE BufferOK(i)'
    <3>1. Ordered(Popped(i)) /\ Settled(Popped(i)) /\ nodes'[i].buffer = Popped(i)
      BY <1>3, <2>3, PoppedBuffer
    <3>2. PICK b : b = Popped(i)
      OBVIOUS
    <3> QED BY <1>1, <1>2, <3>1, <3>2 DEF BufferOK, Ordered, Settled
  <2>7. \A i \in DOMAIN nodes' : BufferOK(i)'
    BY <2>3, <2>6
  <2> QED BY <2>3, <2>4, <2>5, <2>7
<1>4. ASSUME call.op # "rangeAdd"
      PROVE  /\ nodes' \in Seq(Node) /\ Linked(nodes')
             /\ \A v \in DOMAIN roots : arraySize # 0 => ChildOK(nodes', roots[v], Root(arraySize))
             /\ \A i \in DOMAIN nodes' : BufferOK(i)'
  <2>1. nodes' = nodes /\ Written = {}
    BY <1>1, <1>4 DEF Written
  <2>2. \A i \in DOMAIN nodes : BufferOK(i)'
    BY <1>1, <1>2, <2>1 DEF BInv, BuffersOK, BufferOK, Ordered, Settled
  <2>3. \A v \in DOMAIN roots : arraySize # 0 => ChildOK(nodes, roots[v], Root(arraySize))
    BY DEF BInv, TreesLinked, RootOK
  <2> QED BY <2>1, <2>2, <2>3 DEF BInv, TypeOK, TreesLinked
<1>5. TypeOK'
  <2>1. 0 \in Bound /\ NoNode \in Nat /\ Idle \in Call
    BY MaxValAssumption DEF Bound, MaxBound, NoNode, Call
  <2> QED BY <1>1, <1>3, <1>4, <2>1, EmptySeq DEF BInv, TypeOK
<1>6. TreesLinked'
  <2>1. Linked(nodes)'
    BY <1>3, <1>4 DEF Linked, LinkedAt
  <2>2. Linked(newNodes)'
    BY <1>1 DEF Linked
  <2>3. ASSUME NEW v \in DOMAIN roots PROVE RootOK(roots[v])'
    BY <1>1, <1>3, <1>4 DEF RootOK, ChildOK
  <2>4. \A v \in DOMAIN roots' : RootOK(roots[v])'
    BY <1>1, <2>3
  <2> QED BY <2>1, <2>2, <2>4 DEF TreesLinked
<1>7. CallOK' /\ FramesOK' /\ RecordOK'
  BY <1>1 DEF CallOK, FramesOK, Nested, RecordOK
<1>8. BuffersOK'
  BY <1>1, <1>3, <1>4 DEF BuffersOK
<1> QED BY <1>5, <1>6, <1>7, <1>8 DEF BInv

-----------------------------------------------------------------------------
LEMMA StutterBInv ==
  ASSUME BInv, UNCHANGED vars
  PROVE  BInv'
<1> USE DEF vars
<1>1. TypeOK'
  BY DEF BInv, TypeOK
<1>2. TreesLinked'
  BY DEF BInv, TreesLinked, Linked, LinkedAt, RootOK, ChildOK
<1>3. CallOK'
  BY DEF BInv, CallOK, CallSize, ChildOK
<1>4. FramesOK'
  <2>1. Nested(stack)'
    BY DEF BInv, FramesOK
  <2>2. \A k \in DOMAIN stack : FrameOK(stack[k])'
    BY DEF BInv, FramesOK, FrameInPlace, FrameOK, CallSize, BuildFrameOK,
           UpdateFrameOK, ChildOK
  <2>3. \A k \in DOMAIN stack : FrameInPlace(k)'
    BY <2>2 DEF BInv, FramesOK, FrameInPlace, CallSize
  <2> QED BY <2>1, <2>3 DEF FramesOK
<1>5. BuffersOK'
  BY DEF BInv, BuffersOK, BufferOK, Ordered, Settled, Pending, Written
<1>6. RecordOK'
  BY DEF BInv, RecordOK, Done, Written
<1> QED BY <1>1, <1>2, <1>3, <1>4, <1>5, <1>6 DEF BInv

LEMMA NextBInv ==
  ASSUME BInv, [Next]_vars
  PROVE  BInv'
<1>1. ASSUME NEW values \in Arrays, BeginInitialize(values) PROVE BInv'
  BY <1>1, BeginInitializeBInv
<1>2. CASE RangeAddZero
  BY <1>2, RangeAddZeroBInv
<1>3. ASSUME NEW left \in 1 .. arraySize, NEW right \in 1 .. arraySize,
             NEW value \in Deltas, BeginRangeAdd(left, right, value)
      PROVE  BInv'
  BY <1>3, BeginRangeAddBInv
<1>4. CASE Descend
  BY <1>4, DescendBInv
<1>5. CASE ReturnBuilt
  BY <1>5, ReturnBuiltBInv
<1>6. CASE Absorb
  BY <1>6, AbsorbBInv
<1>7. CASE Copy
  BY <1>7, CopyBInv
<1>8. CASE PublishInitial
  BY <1>8, PublishInitialBInv
<1>9. CASE PublishVersion
  BY <1>9, PublishVersionBInv
<1>10. CASE Throw
  BY <1>10, ThrowBInv
<1>11. CASE UNCHANGED vars
  BY <1>11, StutterBInv
<1> QED
  BY <1>1, <1>2, <1>3, <1>4, <1>5, <1>6, <1>7, <1>8, <1>9, <1>10, <1>11 DEF Next, Step

-----------------------------------------------------------------------------
(***************************************************************************)
(* The results.                                                            *)
(***************************************************************************)

(***************************************************************************)
(* BInv holds in every reachable state, whatever calls are made and        *)
(* wherever an overflow or a failed allocation ends one.                   *)
(***************************************************************************)
THEOREM InductiveInvariant == Spec => []BInv
<1> QED BY InitBInv, NextBInv, PTL DEF Spec

(***************************************************************************)
(* Buffers never outgrow their slots and hold the entries of increasing    *)
(* versions, also after rollbacks: popping the last entry always takes     *)
(* back the youngest.                                                      *)
(***************************************************************************)
THEOREM BuffersStayInOrder == Spec => []BuffersInOrder
<1>1. BInv => BuffersInOrder
  BY DEF BInv, BuffersOK, BufferOK, Ordered, BuffersInOrder
<1> QED BY <1>1, InductiveInvariant, PTL

-----------------------------------------------------------------------------
LEMMA PendingEntries ==
  BInv => PendingRecorded
<1> SUFFICES ASSUME BInv, NEW i \in DOMAIN nodes
             PROVE  Cardinality({k \in DOMAIN nodes[i].buffer :
                                   nodes[i].buffer[k].version > Len(roots)})
                      = IF call.op = "rangeAdd" THEN Cardinality(Records(i)) ELSE 0
  BY DEF PendingRecorded
<1>1. nodes[i] \in Node /\ BufferOK(i) /\ Len(roots) \in Nat
  BY TypeFacts DEF BInv, BuffersOK
<1>2. PICK b \in Seq(Modification) : b = nodes[i].buffer
  BY <1>1, EntryFacts
<1>3. PICK n \in Nat : n = Len(b)
  BY LenProperties
<1>4. DOMAIN b = 1 .. n /\ \A k \in 1 .. n : b[k].version \in Nat
  BY <1>1, <1>2, <1>3, EntryFacts
<1>5. PICK pending : pending = {k \in DOMAIN b : b[k].version > Len(roots)}
  OBVIOUS
<1>6. CASE i \in Written
  <2>1. n \in 1 .. n
    BY <1>1, <1>2, <1>3, <1>6, EmptySeq DEF BufferOK, Pending
  <2>2. \A k \in 1 .. n : IF k = n THEN b[k].version = Len(roots) + 1
                          ELSE b[k].version <= Len(roots)
    BY <1>1, <1>2, <1>3, <1>4, <1>6 DEF BufferOK, Pending
  <2>3. pending = {n}
    BY <1>1, <1>4, <1>5, <2>1, <2>2
  <2>4. Cardinality(pending) = 1
    BY <2>3, FS_Singleton
  <2>5. call.op = "rangeAdd"
    BY <1>6 DEF Written
  <2>6. Cardinality(Records(i)) = 1
    BY <1>6, <2>5, RecordedOnce
  <2> QED BY <1>2, <1>5, <2>4, <2>5, <2>6
<1>7. CASE i \notin Written
  <2>1. \A k \in 1 .. n : b[k].version <= Len(roots)
    BY <1>1, <1>2, <1>4, <1>7 DEF BufferOK, Settled
  <2>2. pending = {}
    BY <1>1, <1>4, <1>5, <2>1
  <2>3. Cardinality(pending) = 0
    BY <2>2, FS_EmptySet
  <2>4. call.op = "rangeAdd" => Cardinality(Records(i)) = 0
    BY <1>7, RecordedOnce
  <2> QED BY <1>2, <1>5, <2>3, <2>4
<1> QED BY <1>6, <1>7

(***************************************************************************)
(* The entries of a version that is not published are those the running    *)
(* update has recorded, one for each record.  An update that failed has    *)
(* therefore taken back all that it wrote in place, and no other entry.    *)
(***************************************************************************)
THEOREM InPlaceWritesRecorded == Spec => []PendingRecorded
<1> QED BY PendingEntries, InductiveInvariant, PTL

-----------------------------------------------------------------------------
(***************************************************************************)
(* What the running call must leave alone, in the arena and in the roots.  *)
(***************************************************************************)
KeptNodes == IF call.op = "rangeAdd" THEN call.checkpoint ELSE Len(nodes)

SlotKept(i) ==
  /\ i \in DOMAIN nodes'
  /\ [nodes'[i] EXCEPT !.buffer = <<>>] = [nodes[i] EXCEPT !.buffer = <<>>]
  /\ \A k \in PublishedEntries(i) :
       /\ k \in DOMAIN nodes'[i].buffer
       /\ nodes'[i].buffer[k] = nodes[i].buffer[k]

RootsKept == \A v \in DOMAIN roots : v \in DOMAIN roots' /\ roots'[v] = roots[v]

LEMMA KeptRange ==
  ASSUME BInv, NEW i \in 1 .. KeptNodes
  PROVE  i \in DOMAIN nodes
BY TypeFacts DEF KeptNodes

LEMMA NodesUnchanged ==
  ASSUME BInv, nodes' = nodes, RootsKept
  PROVE  PublishedNodesKept
<1>1. \A i \in 1 .. KeptNodes : SlotKept(i)
  BY KeptRange DEF SlotKept, PublishedEntries
<1> QED BY <1>1 DEF PublishedNodesKept, KeptNodes, SlotKept, RootsKept

LEMMA AbsorbKeeps ==
  ASSUME BInv, Absorb
  PROVE  PublishedNodesKept
<1>1. /\ Finishing("rangeAdd") /\ call.op = "rangeAdd" /\ roots' = roots
      /\ nodes' = [nodes EXCEPT ![Top.node].buffer = Append(@, Change(Top))]
  BY DEF Absorb, Finishing, published
<1>2. PICK j \in DOMAIN nodes : j = Top.node
  BY <1>1, UpdatedNode
<1>3. PICK m \in Modification : m = Change(Top)
  BY <1>1, UpdatedNode
<1>4. PICK b : b = Append(nodes[j].buffer, m)
  OBVIOUS
<1>5. nodes' = [nodes EXCEPT ![j] = [nodes[j] EXCEPT !.buffer = b]]
  BY <1>1, <1>2, <1>3, <1>4
<1>6. ASSUME NEW i \in 1 .. KeptNodes PROVE SlotKept(i)
  <2>1. i \in DOMAIN nodes /\ nodes[i] \in Node
    BY KeptRange, TypeFacts
  <2>2. CASE i = j
    <3>1. /\ nodes'[i] = [nodes[i] EXCEPT !.buffer = b] /\ i \in DOMAIN nodes'
          /\ nodes'[i].buffer = b
      BY <1>5, <2>1, <2>2 DEF Node
    <3>2. [nodes'[i] EXCEPT !.buffer = <<>>] = [nodes[i] EXCEPT !.buffer = <<>>]
      BY <2>1, <3>1 DEF Node
    <3>3. PICK a \in Seq(Modification) : a = nodes[i].buffer
      BY <2>1, EntryFacts
    <3>4. /\ DOMAIN a = 1 .. Len(a) /\ DOMAIN b = 1 .. Len(a) + 1 /\ Len(a) \in Nat
          /\ \A k \in 1 .. Len(a) : b[k] = a[k]
      BY <1>4, <2>2, <3>3, AppendProperties, LenProperties
    <3>5. \A k \in PublishedEntries(i) : k \in DOMAIN b /\ b[k] = nodes[i].buffer[k]
      BY <3>3, <3>4 DEF PublishedEntries
    <3> QED BY <3>1, <3>2, <3>5 DEF SlotKept
  <2>3. CASE i # j
    <3>1. i \in DOMAIN nodes' /\ nodes'[i] = nodes[i]
      BY <1>5, <2>1, <2>3
    <3> QED BY <3>1 DEF SlotKept, PublishedEntries
  <2> QED BY <2>2, <2>3
<1> QED BY <1>1, <1>6 DEF PublishedNodesKept, KeptNodes, SlotKept

LEMMA CopyKeeps ==
  ASSUME BInv, Copy
  PROVE  PublishedNodesKept
<1>1. PICK node \in Node : node = CopiedNode(Top)
  BY UpdatedNode DEF Copy
<1>2. nodes' = Append(nodes, node) /\ roots' = roots
  BY <1>1 DEF Copy, published
<1>3. nodes \in Seq(Node) /\ DOMAIN nodes = 1 .. Len(nodes) /\ Len(nodes) \in Nat
  BY TypeFacts
<1>4. /\ DOMAIN nodes' = 1 .. Len(nodes) + 1
      /\ \A i \in 1 .. Len(nodes) : nodes'[i] = nodes[i]
  BY <1>2, <1>3, AppendProperties, LenProperties
<1>5. ASSUME NEW i \in 1 .. KeptNodes PROVE SlotKept(i)
  <2>1. i \in DOMAIN nodes
    BY KeptRange
  <2>2. i \in DOMAIN nodes' /\ nodes'[i] = nodes[i]
    BY <1>3, <1>4, <2>1
  <2> QED BY <2>2 DEF SlotKept, PublishedEntries
<1> QED BY <1>2, <1>5 DEF PublishedNodesKept, KeptNodes, SlotKept

LEMMA ThrowKeeps ==
  ASSUME BInv, Throw
  PROVE  PublishedNodesKept
<1>1. roots' = roots
  BY DEF Throw, published
<1>2. CASE call.op # "rangeAdd"
  <2>1. nodes' = nodes
    BY <1>2 DEF Throw
  <2> QED BY <1>1, <2>1, NodesUnchanged DEF RootsKept
<1>3. CASE call.op = "rangeAdd"
  <2>1. nodes' = RolledBack
    BY <1>3 DEF Throw
  <2>2. ASSUME NEW i \in 1 .. call.checkpoint PROVE SlotKept(i)
    <3>1. /\ i \in DOMAIN nodes /\ i \in DOMAIN nodes'
          /\ nodes'[i] = [nodes[i] EXCEPT !.buffer = Popped(i)]
          /\ nodes'[i].buffer = Popped(i)
      BY <1>3, <2>1, RolledBackNodes
    <3>2. nodes[i] \in Node
      BY <3>1, TypeFacts
    <3>3. [nodes'[i] EXCEPT !.buffer = <<>>] = [nodes[i] EXCEPT !.buffer = <<>>]
      BY <3>1, <3>2 DEF Node
    <3>4. \A k \in PublishedEntries(i) :
            k \in DOMAIN Popped(i) /\ Popped(i)[k] = nodes[i].buffer[k]
      BY <1>3, <3>1, PoppedBuffer
    <3> QED BY <3>1, <3>3, <3>4 DEF SlotKept
  <2> QED BY <1>1, <1>3, <2>2 DEF PublishedNodesKept, SlotKept
<1> QED BY <1>2, <1>3

LEMMA RootAppended ==
  ASSUME BInv, NEW root \in Nat, roots' = Append(roots, root)
  PROVE  RootsKept
<1>1. roots \in Seq(Nat) /\ DOMAIN roots = 1 .. Len(roots) /\ Len(roots) \in Nat
  BY TypeFacts
<1>2. /\ DOMAIN roots' = 1 .. Len(roots) + 1
      /\ \A v \in 1 .. Len(roots) : roots'[v] = roots[v]
  BY <1>1, AppendProperties, LenProperties
<1> QED BY <1>1, <1>2 DEF RootsKept

LEMMA StepKeepsPublished ==
  ASSUME BInv, [Next]_vars
  PROVE  [PublishInitial \/ PublishedNodesKept]_vars
<1>1. ASSUME NEW values \in Arrays, BeginInitialize(values) PROVE PublishedNodesKept
  BY <1>1, NodesUnchanged DEF BeginInitialize, published, RootsKept
<1>2. CASE RangeAddZero
  <2>1. roots[Len(roots)] \in Nat /\ nodes' = nodes
    BY <1>2, LatestRoot, TypeFacts DEF RangeAddZero, ValidRangeAdd
  <2>2. RootsKept
    BY <1>2, <2>1, RootAppended DEF RangeAddZero
  <2> QED BY <2>1, <2>2, NodesUnchanged
<1>3. ASSUME NEW left \in 1 .. arraySize, NEW right \in 1 .. arraySize,
             NEW value \in Deltas, BeginRangeAdd(left, right, value)
      PROVE  PublishedNodesKept
  BY <1>3, NodesUnchanged DEF BeginRangeAdd, published, RootsKept
<1>4. CASE Descend
  BY <1>4, NodesUnchanged DEF Descend, published, RootsKept
<1>5. CASE ReturnBuilt
  BY <1>5, NodesUnchanged DEF ReturnBuilt, published, RootsKept
<1>6. CASE Absorb
  BY <1>6, AbsorbKeeps
<1>7. CASE Copy
  BY <1>7, CopyKeeps
<1>8. CASE PublishVersion
  <2>1. returned \in Nat /\ nodes' = nodes /\ roots' = Append(roots, returned)
    BY <1>8, TypeFacts DEF PublishVersion
  <2>2. RootsKept
    BY <2>1, RootAppended
  <2> QED BY <2>1, <2>2, NodesUnchanged
<1>9. CASE Throw
  BY <1>9, ThrowKeeps
<1> QED
  BY <1>1, <1>2, <1>3, <1>4, <1>5, <1>6, <1>7, <1>8, <1>9 DEF Next, Step

(***************************************************************************)
(* Partial persistence although nodes are written in place: no call, and   *)
(* no exception out of a call, changes the base of a node that a published *)
(* version can reach or an entry such a version reads, and none drops or   *)
(* redirects a version; only a completed initialize starts over.           *)
(***************************************************************************)
THEOREM VersionsImmutable == Spec => PublishedImmutable
<1> QED BY InductiveInvariant, StepKeepsPublished, PTL DEF Spec, PublishedImmutable

-----------------------------------------------------------------------------
(***************************************************************************)
(* What the published versions of the tree stand for.  A version is read   *)
(* through a node placed on every segment of the partition, whose entries  *)
(* up to the version make the labels of a tree of one array.  An update    *)
(* only adds younger entries and copies, so no published version changes,  *)
(* and what it publishes is the reference's update of the latest one.      *)
(***************************************************************************)
LEMMA CountedAlike ==
  ASSUME NEW n \in Nat, NEW f, NEW g, f[0] = g[0],
         \A k \in 1 .. n : f[k - 1] = g[k - 1] => f[k] = g[k]
  PROVE  \A k \in 0 .. n : f[k] = g[k]
<1> DEFINE T == {k \in Nat : k <= n => f[k] = g[k]}
<1>1. 0 \in T
  OBVIOUS
<1>2. ASSUME NEW k \in Nat, k \in T PROVE k + 1 \in T
  <2>1. CASE k + 1 <= n
    <3>1. k + 1 \in 1 .. n /\ (k + 1) - 1 = k /\ f[k] = g[k]
      BY <1>2, <2>1
    <3>2. f[k + 1] = g[k + 1]
      BY <3>1
    <3> QED BY <3>2
  <2> QED BY <2>1
<1>3. Nat \subseteq T
  <2> HIDE DEF T
  <2> QED BY <1>1, <1>2, SetInduction
<1> QED BY <1>3

(* Two nodes whose entries are read alike are read alike. *)
LEMMA SnapshotsAlike ==
  ASSUME NEW a \in Node, NEW b \in Node, NEW v, NEW w,
         a.baseSum = b.baseSum, a.baseLazy = b.baseLazy, a.buffer = b.buffer,
         \A k \in DOMAIN a.buffer : a.buffer[k].version > v <=> a.buffer[k].version > w
  PROVE  SnapshotAt(a, v) = SnapshotAt(b, w)
<1>1. PICK f : States(f, a, v) /\ SnapshotAt(a, v) = f[Len(a.buffer)]
  BY SnapshotStates
<1>2. PICK g : States(g, b, w) /\ SnapshotAt(b, w) = g[Len(b.buffer)]
  BY SnapshotStates
<1>3. PICK n \in Nat : n = Len(a.buffer) /\ DOMAIN a.buffer = 1 .. n /\ n = Len(b.buffer)
  BY EntryFacts
<1>4. f[0] = g[0]
  BY <1>1, <1>2 DEF States
<1>5. ASSUME NEW k \in 1 .. n, f[k - 1] = g[k - 1] PROVE f[k] = g[k]
  <2>1. f[k] = After(a.buffer[k], v, f[k - 1]) /\ g[k] = After(a.buffer[k], w, f[k - 1])
    BY <1>1, <1>2, <1>3, <1>5 DEF States
  <2>2. a.buffer[k].version > v <=> a.buffer[k].version > w
    BY <1>3
  <2> QED BY <2>1, <2>2 DEF After
<1>6. \A k \in 0 .. n : f[k] = g[k]
  BY <1>4, <1>5, CountedAlike
<1> QED BY <1>1, <1>2, <1>3, <1>6

(* A new entry is read last. *)
LEMMA SnapshotAppended ==
  ASSUME NEW a \in Node, NEW b \in Node, NEW m \in Modification, NEW v,
         a.baseSum = b.baseSum, a.baseLazy = b.baseLazy, b.buffer = Append(a.buffer, m)
  PROVE  SnapshotAt(b, v) = After(m, v, SnapshotAt(a, v))
<1>1. PICK f : States(f, a, v) /\ SnapshotAt(a, v) = f[Len(a.buffer)]
  BY SnapshotStates
<1>2. PICK g : States(g, b, v) /\ SnapshotAt(b, v) = g[Len(b.buffer)]
  BY SnapshotStates
<1>3. PICK n \in Nat : n = Len(a.buffer) /\ DOMAIN a.buffer = 1 .. n
  BY EntryFacts
<1>4. /\ Len(b.buffer) = n + 1 /\ b.buffer[n + 1] = m
      /\ \A k \in 1 .. n : b.buffer[k] = a.buffer[k]
  BY <1>3, EntryFacts, AppendProperties
<1>5. f[0] = g[0]
  BY <1>1, <1>2 DEF States
<1>6. ASSUME NEW k \in 1 .. n, f[k - 1] = g[k - 1] PROVE f[k] = g[k]
  <2>1. f[k] = After(a.buffer[k], v, f[k - 1])
    BY <1>1, <1>3 DEF States
  <2>2. g[k] = After(b.buffer[k], v, g[k - 1])
    BY <1>2, <1>4 DEF States
  <2> QED BY <1>4, <1>6, <2>1, <2>2
<1>7. f[n] = g[n]
  BY <1>5, <1>6, CountedAlike
<1>8. g[n + 1] = After(m, v, g[n])
  <2>1. n + 1 \in 1 .. Len(b.buffer) /\ (n + 1) - 1 = n
    BY <1>4
  <2>2. g[n + 1] = After(b.buffer[n + 1], v, g[(n + 1) - 1])
    BY <1>2, <2>1 DEF States
  <2> QED BY <1>4, <2>1, <2>2
<1> QED BY <1>1, <1>2, <1>3, <1>4, <1>7, <1>8

-----------------------------------------------------------------------------
(***************************************************************************)
(* The recursions that read a version, as functions of the visits.         *)
(***************************************************************************)
LEMMA SeenType ==
  ASSUME TypeOK, NEW at, NEW v
  PROVE  Seen(at, v) \in Snapshot /\ Seen(at, v).sum \in Int /\ Seen(at, v).lazy \in Int
<1>1. Seen(at, v) \in Snapshot
  BY NodeAtType, SnapshotType DEF Seen
<1> QED BY <1>1, OutcomeFacts DEF Snapshot

InOrder(f, W, tags, base) ==
  /\ f \in [Visit -> Seq(W)]
  /\ \A at \in Visit :
       f[at] = IF IsLeaf(at.segment) THEN base[at]
               ELSE f[LeftVisit(at, tags[at])] \o f[RightVisit(at, tags[at])]

LEMMA Concatenated ==
  ASSUME TypeOK, NEW W, NEW tags, tags \in [Visit -> Int], NEW base, base \in [Visit -> Seq(W)]
  PROVE  \E f : InOrder(f, W, tags, base)
<1> DEFINE V == Seq(W)
           join == [x \in Visit \X V \X V |-> x[2] \o x[3]]
<1>1. join \in [Visit \X V \X V -> V]
  BY ConcatProperties
<1>2. PICK f : VisitsAnswered(f, tags, V, {}, base, join)
  <2>1. VisitsAsked(tags, V, base, join)
    <3> HIDE DEF join
    <3> QED BY <1>1 DEF VisitsAsked
  <2> HIDE DEF V, join
  <2> QED BY <2>1, VisitsSolved
<1>3. ASSUME NEW at \in Visit
      PROVE  f[at] = IF IsLeaf(at.segment) THEN base[at]
                     ELSE f[LeftVisit(at, tags[at])] \o f[RightVisit(at, tags[at])]
  <2>1. PICK k \in Int : k = tags[at]
    OBVIOUS
  <2>2. ~IsLeaf(at.segment) => f[LeftVisit(at, k)] \in V /\ f[RightVisit(at, k)] \in V
    BY <1>2, VisitType DEF VisitsAnswered
  <2>3. f[at] = IF IsLeaf(at.segment) THEN base[at]
                ELSE join[<<at, f[LeftVisit(at, k)], f[RightVisit(at, k)]>>]
    <3> HIDE DEF V, join
    <3> QED BY <1>2, <2>1 DEF VisitsAnswered
  <2>4. ~IsLeaf(at.segment) =>
          join[<<at, f[LeftVisit(at, k)], f[RightVisit(at, k)]>>]
            = f[LeftVisit(at, k)] \o f[RightVisit(at, k)]
    <3> HIDE DEF V
    <3> QED BY <2>2
  <2> HIDE DEF join
  <2> QED BY <2>1, <2>3, <2>4
<1> QED BY <1>2, <1>3 DEF VisitsAnswered, InOrder

(* materialize, as a function of the visits. *)
LeavesRead(g, v) ==
  \A at \in Visit :
    g[at] = IF IsLeaf(at.segment) THEN <<Covered(Seen(at, v), at.inherited, 1)>>
            ELSE g[LeftVisit(at, Below(Seen(at, v), at.inherited))]
                 \o g[RightVisit(at, Below(Seen(at, v), at.inherited))]

LEMMA MaterializeRecursion ==
  ASSUME TypeOK, NEW root, NEW v
  PROVE  \E g : /\ LeavesRead(g, v)
                /\ Materialize(root, v) = IF arraySize = 0 THEN <<>> ELSE g[RootVisit(root)]
<1> DEFINE tag(at) == Below(Seen(at, v), at.inherited)
           leaf(at) == <<Covered(Seen(at, v), at.inherited, 1)>>
           tags == [at \in Visit |-> tag(at)]
           base == [at \in Visit |-> leaf(at)]
           Solved(f) == [at \in Visit |->
                         IF IsLeaf(at.segment) THEN leaf(at)
                         ELSE f[LeftVisit(at, tag(at))] \o f[RightVisit(at, tag(at))]]
<1>1. tags \in [Visit -> Int]
  BY BelowInt
<1>2. base \in [Visit -> Seq(Outcome)]
  <2>1. \A at : Covered(Seen(at, v), at.inherited, 1) \in Outcome
    BY CheckedAddOutcome, OutcomeFacts DEF Covered, Apply
  <2> QED BY <2>1
<1>3. PICK f : InOrder(f, Outcome, tags, base)
  <2> HIDE DEF tags, base
  <2> QED BY <1>1, <1>2, Concatenated
<1>4. f = Solved(f)
  <2>1. \A at \in Visit : f[at] = Solved(f)[at]
    <3> HIDE DEF tag, leaf
    <3> QED BY <1>3 DEF InOrder
  <2>2. f = [at \in Visit |-> f[at]]
    BY <1>3 DEF InOrder
  <2> HIDE DEF tag, leaf
  <2> QED BY <2>1, <2>2
<1>5. PICK g : /\ g = Solved(g)
               /\ Materialize(root, v) = IF arraySize = 0 THEN <<>> ELSE g[RootVisit(root)]
  BY <1>4 DEF Materialize
<1>6. LeavesRead(g, v)
  BY <1>5 DEF LeavesRead
<1> QED BY <1>5, <1>6

(* The exact elements of a version, as a function of the visits. *)
ElementsAt(g, v) ==
  \A at \in Visit :
    g[at] = IF IsLeaf(at.segment) THEN <<at.inherited + Seen(at, v).sum>>
            ELSE g[LeftVisit(at, at.inherited + Seen(at, v).lazy)]
                 \o g[RightVisit(at, at.inherited + Seen(at, v).lazy)]

LEMMA ElementsRecursion ==
  ASSUME TypeOK, NEW v
  PROVE  \E g : /\ ElementsAt(g, v)
                /\ ExactElements(v) = IF arraySize = 0 THEN <<>> ELSE g[RootVisit(roots[v])]
<1> DEFINE tag(at) == at.inherited + Seen(at, v).lazy
           leaf(at) == <<at.inherited + Seen(at, v).sum>>
           tags == [at \in Visit |-> tag(at)]
           base == [at \in Visit |-> leaf(at)]
           Solved(f) == [at \in Visit |->
                         IF IsLeaf(at.segment) THEN leaf(at)
                         ELSE f[LeftVisit(at, tag(at))] \o f[RightVisit(at, tag(at))]]
<1>0. \A at \in Visit : at.inherited + Seen(at, v).lazy \in Int
                        /\ at.inherited + Seen(at, v).sum \in Int
  BY SeenType DEF Visit
<1>1. tags \in [Visit -> Int]
  BY <1>0
<1>2. base \in [Visit -> Seq(Int)]
  <2>1. \A k \in Int : <<k>> \in Seq(Int)
    OBVIOUS
  <2> QED BY <1>0, <2>1
<1>3. PICK f : InOrder(f, Int, tags, base)
  <2> HIDE DEF tags, base
  <2> QED BY <1>1, <1>2, Concatenated
<1>4. f = Solved(f)
  <2>1. \A at \in Visit : f[at] = Solved(f)[at]
    <3> HIDE DEF tag, leaf
    <3> QED BY <1>3 DEF InOrder
  <2>2. f = [at \in Visit |-> f[at]]
    BY <1>3 DEF InOrder
  <2> HIDE DEF tag, leaf
  <2> QED BY <2>1, <2>2
<1>5. PICK g : /\ g = Solved(g)
               /\ ExactElements(v) = IF arraySize = 0 THEN <<>> ELSE g[RootVisit(roots[v])]
  BY <1>4 DEF ExactElements
<1>6. ElementsAt(g, v)
  BY <1>5 DEF ElementsAt
<1> QED BY <1>5, <1>6

(* A range sum, as a function of the visits. *)
SumsRead(g, v, left, right) ==
  \A at \in Visit :
    /\ g[at] \in Int
    /\ g[at] =
         IF Disjoint(left, right, at.segment) THEN 0
         ELSE IF Covers(left, right, at.segment)
              THEN Covered(Seen(at, v), at.inherited, Length(at.segment))
              ELSE CheckedAdd(g[LeftVisit(at, Below(Seen(at, v), at.inherited))],
                              g[RightVisit(at, Below(Seen(at, v), at.inherited))])

LEMMA SumRecursion ==
  ASSUME TypeOK, NEW v, NEW left \in 1 .. arraySize, NEW right \in left .. arraySize
  PROVE  \E g : SumsRead(g, v, left, right) /\ RangeSum(v, left, right) = g[RootVisit(roots[v])]
<1> DEFINE tag(at) == Below(Seen(at, v), at.inherited)
           whole(at) == Covered(Seen(at, v), at.inherited, Length(at.segment))
           stop == {at \in Visit : \/ Disjoint(left, right, at.segment)
                                   \/ Covers(left, right, at.segment)}
           tags == [at \in Visit |-> tag(at)]
           base == [at \in Visit |-> IF Disjoint(left, right, at.segment) THEN 0 ELSE whole(at)]
           join == [x \in Visit \X Int \X Int |-> CheckedAdd(x[2], x[3])]
           Solved(f) == [at \in Visit |->
             IF Disjoint(left, right, at.segment) THEN 0
             ELSE IF Covers(left, right, at.segment) THEN whole(at)
                  ELSE CheckedAdd(f[LeftVisit(at, tag(at))], f[RightVisit(at, tag(at))])]
<1>0. arraySize \in Nat /\ left \in Int /\ right \in Int
  BY DEF TypeOK
<1>1. \A a, b, k : Covered(a, b, k) \in Int /\ CheckedAdd(a, b) \in Int
  BY CheckedAddOutcome, OutcomeFacts DEF Covered, Apply
<1>2. VisitsAsked(tags, Int, base, join)
  <2>1. tags \in [Visit -> Int]
    BY BelowInt
  <2>2. base \in [Visit -> Int]
    BY <1>1
  <2>3. join \in [Visit \X Int \X Int -> Int]
    BY <1>1
  <2> HIDE DEF tags, base, join
  <2> QED BY <2>1, <2>2, <2>3 DEF VisitsAsked
<1>3. PICK f : VisitsAnswered(f, tags, Int, stop, base, join)
  <2> HIDE DEF tags, base, join, stop
  <2> QED BY <1>2, VisitsSolved
<1>4. ASSUME NEW at \in Visit PROVE f[at] = Solved(f)[at]
  <2>1. PICK k \in Int : k = tags[at] /\ k = tag(at)
    BY BelowInt
  <2>2. f[at] = IF IsLeaf(at.segment) \/ at \in stop THEN base[at]
                ELSE join[<<at, f[LeftVisit(at, k)], f[RightVisit(at, k)]>>]
    <3> HIDE DEF tags, base, join, stop
    <3> QED BY <1>3, <2>1 DEF VisitsAnswered
  <2>3. IsLeaf(at.segment) => Disjoint(left, right, at.segment) \/ Covers(left, right, at.segment)
    <3>1. at.segment \in Interval(arraySize)
      BY DEF Visit
    <3> QED BY <1>0, <3>1, LeafCovered
  <2>4. CASE at \in stop
    <3> HIDE DEF tag, whole
    <3> QED BY <2>2, <2>4
  <2>5. CASE at \notin stop
    <3>1. ~IsLeaf(at.segment) /\ ~Disjoint(left, right, at.segment)
          /\ ~Covers(left, right, at.segment)
      BY <2>3, <2>5
    <3>2. f[LeftVisit(at, k)] \in Int /\ f[RightVisit(at, k)] \in Int
      BY <1>3, <3>1, VisitType DEF VisitsAnswered
    <3>3. f[at] = CheckedAdd(f[LeftVisit(at, k)], f[RightVisit(at, k)])
      <4>1. f[at] = join[<<at, f[LeftVisit(at, k)], f[RightVisit(at, k)]>>]
        <5> HIDE DEF stop, base, join
        <5> QED BY <2>2, <2>5, <3>1
      <4> QED BY <3>2, <4>1
    <3> HIDE DEF tag, whole, join, base, stop, tags
    <3> QED BY <2>1, <3>1, <3>3
  <2> QED BY <2>4, <2>5
<1>5. f = Solved(f)
  <2>1. f = [at \in Visit |-> f[at]]
    BY <1>3 DEF VisitsAnswered
  <2> HIDE DEF tag, whole, join, base, stop, tags
  <2> QED BY <1>4, <2>1
<1>6. PICK g : g = Solved(g) /\ RangeSum(v, left, right) = g[RootVisit(roots[v])]
  BY <1>5 DEF RangeSum, Query
<1>7. SumsRead(g, v, left, right)
  <2>1. ASSUME NEW at \in Visit
        PROVE  /\ g[at] \in Int
               /\ g[at] = IF Disjoint(left, right, at.segment) THEN 0
                          ELSE IF Covers(left, right, at.segment) THEN whole(at)
                          ELSE CheckedAdd(g[LeftVisit(at, tag(at))], g[RightVisit(at, tag(at))])
    <3>1. g[at] = Solved(g)[at]
      <4> HIDE DEF Solved
      <4> QED BY <1>6
    <3>2. whole(at) \in Int
      BY <1>1
    <3> HIDE DEF tag, whole
    <3> QED BY <1>1, <3>1, <3>2
  <2> QED BY <2>1 DEF SumsRead
<1> QED BY <1>6, <1>7

(* ConsistentAt, as a function of the visits. *)
SumsUp(at, v) ==
  Seen(at, v).sum = Seen(LeftVisit(at, 0), v).sum + Seen(RightVisit(at, 0), v).sum
                    + Seen(at, v).lazy * Length(at.segment)

Whole(at, v) ==
  at.node \in DOMAIN nodes /\ nodes[at.node].segment = at.segment /\ Readable(Seen(at, v))

ConsistentIn(f, v) ==
  \A at \in Visit :
    f[at] <=> /\ Whole(at, v)
              /\ ~IsLeaf(at.segment) =>
                   f[LeftVisit(at, 0)] /\ f[RightVisit(at, 0)] /\ SumsUp(at, v)

LEMMA ConsistentRecursion ==
  ASSUME TypeOK, NEW v
  PROVE  \E f : /\ ConsistentIn(f, v)
                /\ ConsistentAt(v) <=> arraySize = 0 \/ f[RootVisit(roots[v])]
<1> DEFINE Sums(at) == Seen(at, v).sum
                         = Seen(LeftVisit(at, 0), v).sum + Seen(RightVisit(at, 0), v).sum
                           + Seen(at, v).lazy * Length(at.segment)
           Good(f, at) == /\ at.node \in DOMAIN nodes /\ nodes[at.node].segment = at.segment
                          /\ Readable(Seen(at, v))
                          /\ ~IsLeaf(at.segment) =>
                               /\ f[LeftVisit(at, 0)]
                               /\ f[RightVisit(at, 0)]
                               /\ Sums(at)
           B == {0, 1}
           tags == [at \in Visit |-> 0]
           base == [at \in Visit |-> IF Whole(at, v) THEN 1 ELSE 0]
           join == [x \in Visit \X B \X B |->
                      IF Whole(x[1], v) /\ x[2] = 1 /\ x[3] = 1 /\ SumsUp(x[1], v)
                      THEN 1 ELSE 0]
<1>1. PICK g : VisitsAnswered(g, tags, B, {}, base, join)
  <2>1. VisitsAsked(tags, B, base, join)
    BY DEF VisitsAsked
  <2> HIDE DEF tags, base, join, B
  <2> QED BY <2>1, VisitsSolved
<1>2. PICK f : f = [at \in Visit |-> g[at] = 1]
  OBVIOUS
<1>3. ASSUME NEW at \in Visit
      PROVE  f[at] <=> Good(f, at)
  <2>1. g[at] = IF IsLeaf(at.segment) THEN base[at]
                ELSE join[<<at, g[LeftVisit(at, 0)], g[RightVisit(at, 0)]>>]
    <3>1. tags[at] = 0
      OBVIOUS
    <3> HIDE DEF tags, base, join, B
    <3> QED BY <1>1, <3>1 DEF VisitsAnswered
  <2>2. f[at] <=> g[at] = 1
    BY <1>2
  <2>3. Sums(at) <=> SumsUp(at, v)
    BY DEF SumsUp
  <2>4. Whole(at, v) <=> /\ at.node \in DOMAIN nodes /\ nodes[at.node].segment = at.segment
                         /\ Readable(Seen(at, v))
    BY DEF Whole
  <2> HIDE DEF Sums
  <2>5. CASE IsLeaf(at.segment)
    <3>1. g[at] = 1 <=> Whole(at, v)
      BY <2>1, <2>5
    <3> QED BY <2>2, <2>4, <2>5, <3>1
  <2>6. CASE ~IsLeaf(at.segment)
    <3>0. 0 \in Int
      OBVIOUS
    <3>1. LeftVisit(at, 0) \in Visit /\ RightVisit(at, 0) \in Visit
      BY <2>6, <3>0, VisitType
    <3>2. PICK l, r : l = g[LeftVisit(at, 0)] /\ r = g[RightVisit(at, 0)]
      OBVIOUS
    <3>3. l \in B /\ r \in B /\ (f[LeftVisit(at, 0)] <=> l = 1) /\ (f[RightVisit(at, 0)] <=> r = 1)
      <4> HIDE DEF B
      <4> QED BY <1>1, <1>2, <3>1, <3>2 DEF VisitsAnswered
    <3>4. g[at] = join[<<at, l, r>>]
      <4> HIDE DEF join, base
      <4> QED BY <2>1, <2>6, <3>2
    <3>5. g[at] = 1 <=> Whole(at, v) /\ l = 1 /\ r = 1 /\ SumsUp(at, v)
      <4>1. join[<<at, l, r>>] = IF Whole(at, v) /\ l = 1 /\ r = 1 /\ SumsUp(at, v) THEN 1 ELSE 0
        BY <3>3
      <4> HIDE DEF join
      <4> QED BY <3>4, <4>1
    <3> HIDE DEF join, base
    <3> QED BY <2>2, <2>3, <2>4, <2>6, <3>3, <3>5
  <2> QED BY <2>5, <2>6
<1>4. \E h : h = [at \in Visit |-> Good(h, at)]
  <2>1. \A at \in Visit : f[at] = Good(f, at)
    <3> SUFFICES ASSUME NEW at \in Visit PROVE f[at] = Good(f, at)
      OBVIOUS
    <3>1. f[at] <=> Good(f, at)
      BY <1>3
    <3>2. f[at] = (g[at] = 1)
      BY <1>2
    <3> HIDE DEF Sums
    <3> QED BY <3>1, <3>2
  <2>2. f = [at \in Visit |-> f[at]]
    BY <1>2
  <2> HIDE DEF Good
  <2> QED BY <2>1, <2>2
<1> DEFINE chosen == CHOOSE h : h = [at \in Visit |-> Good(h, at)]
<1>5. chosen = [at \in Visit |-> Good(chosen, at)]
  <2> HIDE DEF Good
  <2> QED BY <1>4
<1>6. ConsistentAt(v) <=> arraySize = 0 \/ chosen[RootVisit(roots[v])]
  BY DEF ConsistentAt
<1>7. PICK h : /\ h = [at \in Visit |-> Good(h, at)]
               /\ ConsistentAt(v) <=> arraySize = 0 \/ h[RootVisit(roots[v])]
  <2> HIDE DEF chosen, Good
  <2> QED BY <1>5, <1>6
<1>8. ConsistentIn(h, v)
  <2>1. ASSUME NEW at \in Visit
        PROVE  h[at] <=> /\ Whole(at, v)
                         /\ ~IsLeaf(at.segment) =>
                              h[LeftVisit(at, 0)] /\ h[RightVisit(at, 0)] /\ SumsUp(at, v)
    <3>1. h[at] = Good(h, at)
      <4> HIDE DEF Good
      <4> QED BY <1>7
    <3>2. Sums(at) <=> SumsUp(at, v)
      BY DEF SumsUp
    <3>3. Whole(at, v) <=> /\ at.node \in DOMAIN nodes /\ nodes[at.node].segment = at.segment
                           /\ Readable(Seen(at, v))
      BY DEF Whole
    <3> HIDE DEF Sums
    <3> QED BY <3>1, <3>2, <3>3
  <2> QED BY <2>1 DEF ConsistentIn
<1> QED BY <1>7, <1>8

-----------------------------------------------------------------------------
(***************************************************************************)
(* A tree in the arena: p places a node on every segment of the partition, *)
(* the children of each being the nodes placed on its halves.              *)
(***************************************************************************)
Placed(p) ==
  /\ p \in [Segments(arraySize) -> DOMAIN nodes]
  /\ \A c \in Segments(arraySize) : nodes[p[c]].segment = c

JoinedAt(p, c) ==
  nodes[p[c]].leftChild = p[LeftHalf(c)] /\ nodes[p[c]].rightChild = p[RightHalf(c)]

Joined(p) == \A c \in Segments(arraySize) : ~IsLeaf(c) => JoinedAt(p, c)

Label(i, v) == SnapshotAt(nodes[i], v)

LabelsAt(p, v) == [c \in Segments(arraySize) |-> Label(p[c], v)]

TreeAt(v, root, p, w) ==
  /\ Placed(p) /\ Joined(p)
  /\ arraySize # 0 => p[Root(arraySize)] = root
  /\ TreeOf(arraySize, LabelsAt(p, v), w)

VersionOK(v, p, w) == TreeAt(v, roots[v], p, w)

VisitAt(p, c, h) == [node |-> p[c], segment |-> c, inherited |-> h]

LEMMA PlacedVisits ==
  ASSUME TypeOK, NEW v, NEW root, NEW p, NEW w, TreeAt(v, root, p, w),
         NEW c \in Segments(arraySize), NEW h \in Int
  PROVE  /\ VisitAt(p, c, h) \in Visit
         /\ VisitAt(p, c, h).node = p[c] /\ VisitAt(p, c, h).segment = c
         /\ VisitAt(p, c, h).inherited = h
         /\ Seen(VisitAt(p, c, h), v) = LabelsAt(p, v)[c]
         /\ Whole(VisitAt(p, c, h), v) /\ Readable(LabelsAt(p, v)[c])
         /\ LabelsAt(p, v)[c].sum \in Int /\ LabelsAt(p, v)[c].lazy \in Int
         /\ c \in Interval(arraySize) /\ Length(c) \in Nat
         /\ ~IsLeaf(c) => \A k \in Int :
              /\ LeftHalf(c) \in Segments(arraySize) /\ RightHalf(c) \in Segments(arraySize)
              /\ LeftVisit(VisitAt(p, c, h), k) = VisitAt(p, LeftHalf(c), k)
              /\ RightVisit(VisitAt(p, c, h), k) = VisitAt(p, RightHalf(c), k)
<1>1. arraySize \in Nat /\ arraySize > 0 /\ c \in Interval(arraySize) /\ Closed(Segments(arraySize))
  <2>1. arraySize \in Nat /\ arraySize # 0
    BY DEF TypeOK, Segments
  <2> QED BY <2>1, SegmentsClosed
<1>2. p[c] \in DOMAIN nodes /\ p[c] \in Nat /\ nodes[p[c]].segment = c /\ NodeAt(p[c]) = nodes[p[c]]
  <2>1. DOMAIN nodes \subseteq Nat
    BY LenProperties DEF TypeOK
  <2> QED BY <2>1 DEF TreeAt, Placed, NodeAt
<1>3. /\ VisitAt(p, c, h) \in Visit
      /\ VisitAt(p, c, h).node = p[c] /\ VisitAt(p, c, h).segment = c
      /\ VisitAt(p, c, h).inherited = h
  BY <1>1, <1>2 DEF VisitAt, Visit
<1>4. Seen(VisitAt(p, c, h), v) = LabelsAt(p, v)[c]
  BY <1>2, <1>3 DEF Seen, LabelsAt, Label
<1>5. /\ Readable(LabelsAt(p, v)[c])
      /\ LabelsAt(p, v)[c].sum \in Int /\ LabelsAt(p, v)[c].lazy \in Int
  BY <1>1, LabelFacts DEF TreeAt, TreeOf, Readable
<1>6. Whole(VisitAt(p, c, h), v)
  BY <1>2, <1>3, <1>4, <1>5 DEF Whole
<1>7. ASSUME ~IsLeaf(c), NEW k \in Int
      PROVE  /\ LeftHalf(c) \in Segments(arraySize) /\ RightHalf(c) \in Segments(arraySize)
             /\ LeftVisit(VisitAt(p, c, h), k) = VisitAt(p, LeftHalf(c), k)
             /\ RightVisit(VisitAt(p, c, h), k) = VisitAt(p, RightHalf(c), k)
  <2>1. JoinedAt(p, c)
    BY <1>7 DEF TreeAt, Joined
  <2> QED BY <1>1, <1>2, <1>3, <1>7, <2>1 DEF Closed, JoinedAt, LeftVisit, RightVisit, VisitAt
<1>8. Length(c) \in Nat
  BY <1>1, Halves
<1> QED BY <1>1, <1>3, <1>4, <1>5, <1>6, <1>7, <1>8

LEMMA RootVisitAt ==
  ASSUME arraySize # 0, NEW v, NEW root, NEW p, NEW w, TreeAt(v, root, p, w)
  PROVE  RootVisit(root) = VisitAt(p, Root(arraySize), 0)
BY DEF TreeAt, RootVisit, VisitAt

LEMMA ElementsAre ==
  ASSUME TypeOK, NEW v, NEW p, NEW w, VersionOK(v, p, w)
  PROVE  ExactElements(v) = w
<1> DEFINE L == LabelsAt(p, v)
<1>0. arraySize \in Nat /\ TreeAt(v, roots[v], p, w)
  BY DEF TypeOK, VersionOK
<1>1. PICK f : /\ ElementsAt(f, v)
               /\ ExactElements(v) = IF arraySize = 0 THEN <<>> ELSE f[RootVisit(roots[v])]
  BY ElementsRecursion
<1>2. CASE arraySize = 0
  <2>1. w = <<>>
    BY <1>0, <1>2, EmptySeq DEF TreeAt, TreeOf
  <2> QED BY <1>1, <1>2, <2>1
<1>3. CASE arraySize # 0
  <2>1. PICK g : g = [x \in Segments(arraySize) \X Int |-> f[VisitAt(p, x[1], x[2])]]
    OBVIOUS
  <2>2. \A c \in Segments(arraySize) : \A h \in Int : g[<<c, h>>] = f[VisitAt(p, c, h)]
    BY <2>1
  <2>3. ASSUME NEW c \in Segments(arraySize), NEW h \in Int
        PROVE  g[<<c, h>>] = IF IsLeaf(c) THEN <<h + L[c].sum>>
                             ELSE g[<<LeftHalf(c), h + L[c].lazy>>]
                                  \o g[<<RightHalf(c), h + L[c].lazy>>]
    <3>1. PICK at \in Visit : /\ at = VisitAt(p, c, h) /\ at.segment = c /\ at.inherited = h
                              /\ Seen(at, v) = L[c]
      BY <1>0, PlacedVisits
    <3>2. PICK k \in Int : k = h + L[c].lazy
      <4>1. L[c].lazy \in Int
        BY <1>0, PlacedVisits
      <4> QED BY <4>1
    <3>3. f[at] = IF IsLeaf(c) THEN <<h + L[c].sum>>
                  ELSE f[LeftVisit(at, k)] \o f[RightVisit(at, k)]
      <4> HIDE DEF L
      <4> QED BY <1>1, <3>1, <3>2 DEF ElementsAt
    <3>4. ASSUME ~IsLeaf(c)
          PROVE  f[LeftVisit(at, k)] = g[<<LeftHalf(c), k>>]
                 /\ f[RightVisit(at, k)] = g[<<RightHalf(c), k>>]
      <4>1. /\ LeftHalf(c) \in Segments(arraySize) /\ RightHalf(c) \in Segments(arraySize)
            /\ LeftVisit(at, k) = VisitAt(p, LeftHalf(c), k)
            /\ RightVisit(at, k) = VisitAt(p, RightHalf(c), k)
        BY <1>0, <3>1, <3>4, PlacedVisits
      <4> QED BY <2>2, <4>1
    <3>5. g[<<c, h>>] = f[at]
      BY <2>2, <3>1
    <3> HIDE DEF L
    <3> QED BY <3>2, <3>3, <3>4, <3>5
  <2>4. ReadsExactly(arraySize, L, g)
    <3> HIDE DEF L
    <3> QED BY <2>3 DEF ReadsExactly
  <2>5. g[<<Root(arraySize), 0>>] = w
    BY <1>0, <1>3, <2>4, TreeElements DEF TreeAt
  <2>6. f[RootVisit(roots[v])] = g[<<Root(arraySize), 0>>]
    BY <1>0, <1>3, <2>2, RootVisitAt, RootOfSegments
  <2> QED BY <1>1, <1>3, <2>5, <2>6
<1> QED BY <1>2, <1>3

LEMMA MaterializeReads ==
  ASSUME TypeOK, arraySize # 0, NEW v, NEW root, NEW p, NEW w, TreeAt(v, root, p, w)
  PROVE  /\ Materialize(root, v) \in Seq(Outcome) /\ Len(Materialize(root, v)) = arraySize
         /\ \A q \in 1 .. arraySize : Materialize(root, v)[q] \in {Overflow, w[q]}
<1> DEFINE L == LabelsAt(p, v)
<1>0. arraySize \in Nat
  BY DEF TypeOK
<1>1. PICK f : LeavesRead(f, v) /\ Materialize(root, v) = f[RootVisit(root)]
  BY MaterializeRecursion
<1>2. PICK g : g = [x \in Segments(arraySize) \X Int |-> f[VisitAt(p, x[1], x[2])]]
  OBVIOUS
<1>3. \A c \in Segments(arraySize) : \A h \in Int : g[<<c, h>>] = f[VisitAt(p, c, h)]
  BY <1>2
<1>4. ASSUME NEW c \in Segments(arraySize), NEW h \in Int
      PROVE  g[<<c, h>>] = IF IsLeaf(c) THEN <<Apply(h, L[c].sum, 1)>>
                           ELSE g[<<LeftHalf(c), CheckedAdd(h, L[c].lazy)>>]
                                \o g[<<RightHalf(c), CheckedAdd(h, L[c].lazy)>>]
  <2>1. PICK at \in Visit : /\ at = VisitAt(p, c, h) /\ at.segment = c /\ at.inherited = h
                            /\ Seen(at, v) = L[c] /\ Readable(L[c])
    BY PlacedVisits
  <2>2. PICK k \in Int : k = CheckedAdd(h, L[c].lazy)
    BY CheckedAddOutcome, OutcomeFacts
  <2>3. f[at] = IF IsLeaf(c) THEN <<Apply(h, L[c].sum, 1)>>
                ELSE f[LeftVisit(at, k)] \o f[RightVisit(at, k)]
    <3> HIDE DEF L
    <3> QED BY <1>1, <2>1, <2>2 DEF LeavesRead, Covered, Below
  <2>4. ASSUME ~IsLeaf(c)
        PROVE  f[LeftVisit(at, k)] = g[<<LeftHalf(c), k>>]
               /\ f[RightVisit(at, k)] = g[<<RightHalf(c), k>>]
    <3>1. /\ LeftHalf(c) \in Segments(arraySize) /\ RightHalf(c) \in Segments(arraySize)
          /\ LeftVisit(at, k) = VisitAt(p, LeftHalf(c), k)
          /\ RightVisit(at, k) = VisitAt(p, RightHalf(c), k)
      BY <2>1, <2>4, PlacedVisits
    <3> QED BY <1>3, <3>1
  <2>5. g[<<c, h>>] = f[at]
    BY <1>3, <2>1
  <2> HIDE DEF L
  <2> QED BY <2>2, <2>3, <2>4, <2>5
<1>5. ReadsLeaves(arraySize, L, g)
  <2> HIDE DEF L
  <2> QED BY <1>4 DEF ReadsLeaves
<1>6. PICK s : s = g[<<Root(arraySize), 0>>]
  OBVIOUS
<1>7. s \in Seq(Outcome) /\ Len(s) = arraySize /\ \A q \in 1 .. arraySize : s[q] \in {Overflow, w[q]}
  BY <1>0, <1>5, <1>6, TreeLeaves DEF TreeAt
<1>8. f[RootVisit(root)] = s
  BY <1>0, <1>3, <1>6, RootVisitAt, RootOfSegments
<1> QED BY <1>1, <1>7, <1>8

LEMMA VersionSums ==
  ASSUME TypeOK, NEW v, NEW p, NEW w, VersionOK(v, p, w),
         NEW left \in 1 .. arraySize, NEW right \in left .. arraySize
  PROVE  RangeSum(v, left, right) \in {ExactSum(w, left, right), Overflow}
<1> DEFINE L == LabelsAt(p, v)
<1>0. arraySize \in Nat /\ arraySize # 0 /\ left \in Int /\ right \in Int
      /\ TreeAt(v, roots[v], p, w)
  BY DEF TypeOK, VersionOK
<1>1. PICK f : SumsRead(f, v, left, right) /\ RangeSum(v, left, right) = f[RootVisit(roots[v])]
  BY SumRecursion
<1>2. PICK g : g = [x \in Segments(arraySize) \X Int |-> f[VisitAt(p, x[1], x[2])]]
  OBVIOUS
<1>3. \A c \in Segments(arraySize) : \A h \in Int : g[<<c, h>>] = f[VisitAt(p, c, h)]
  BY <1>2
<1>4. ASSUME NEW c \in Segments(arraySize), NEW h \in Int
      PROVE  /\ g[<<c, h>>] \in Int
             /\ g[<<c, h>>] =
                  IF Disjoint(left, right, c) THEN 0
                  ELSE IF Covers(left, right, c) THEN Apply(h, L[c].sum, Length(c))
                       ELSE CheckedAdd(g[<<LeftHalf(c), CheckedAdd(h, L[c].lazy)>>],
                                       g[<<RightHalf(c), CheckedAdd(h, L[c].lazy)>>])
  <2>1. PICK at \in Visit : /\ at = VisitAt(p, c, h) /\ at.segment = c /\ at.inherited = h
                            /\ Seen(at, v) = L[c] /\ Readable(L[c])
    BY <1>0, PlacedVisits
  <2>2. PICK k \in Int : k = CheckedAdd(h, L[c].lazy)
    BY CheckedAddOutcome, OutcomeFacts
  <2>3. /\ f[at] \in Int
        /\ f[at] = IF Disjoint(left, right, c) THEN 0
                   ELSE IF Covers(left, right, c) THEN Apply(h, L[c].sum, Length(c))
                   ELSE CheckedAdd(f[LeftVisit(at, k)], f[RightVisit(at, k)])
    <3> HIDE DEF L
    <3> QED BY <1>1, <2>1, <2>2 DEF SumsRead, Covered, Below
  <2>4. ~Disjoint(left, right, c) /\ ~Covers(left, right, c) => ~IsLeaf(c)
    BY <1>0, LeafCovered, PlacedVisits
  <2>5. ASSUME ~IsLeaf(c)
        PROVE  f[LeftVisit(at, k)] = g[<<LeftHalf(c), k>>]
               /\ f[RightVisit(at, k)] = g[<<RightHalf(c), k>>]
    <3>1. /\ LeftHalf(c) \in Segments(arraySize) /\ RightHalf(c) \in Segments(arraySize)
          /\ LeftVisit(at, k) = VisitAt(p, LeftHalf(c), k)
          /\ RightVisit(at, k) = VisitAt(p, RightHalf(c), k)
      BY <1>0, <2>1, <2>5, PlacedVisits
    <3> QED BY <1>3, <3>1
  <2>6. g[<<c, h>>] = f[at]
    BY <1>3, <2>1
  <2> HIDE DEF L
  <2> QED BY <2>2, <2>3, <2>4, <2>5, <2>6
<1>5. ReadsSums(arraySize, L, left, right, g)
  <2> HIDE DEF L
  <2> QED BY <1>4 DEF ReadsSums
<1>6. g[<<Root(arraySize), 0>>] \in {ExactSum(w, left, right), Overflow}
  BY <1>0, <1>5, TreeSum DEF TreeAt
<1>7. f[RootVisit(roots[v])] = g[<<Root(arraySize), 0>>]
  BY <1>0, <1>3, RootVisitAt, RootOfSegments
<1> QED BY <1>1, <1>6, <1>7

LEMMA VersionConsistent ==
  ASSUME TypeOK, NEW v, NEW p, NEW w, VersionOK(v, p, w)
  PROVE  ConsistentAt(v)
<1>0. arraySize \in Nat /\ TreeAt(v, roots[v], p, w) /\ 0 \in Int
  BY DEF TypeOK, VersionOK
<1>1. PICK f : /\ ConsistentIn(f, v)
               /\ ConsistentAt(v) <=> arraySize = 0 \/ f[RootVisit(roots[v])]
  BY ConsistentRecursion
<1>2. CASE arraySize # 0
  <2> DEFINE T == {c \in Segments(arraySize) : f[VisitAt(p, c, 0)]}
  <2>1. ASSUME NEW c \in Segments(arraySize),
               IsLeaf(c) \/ (LeftHalf(c) \in T /\ RightHalf(c) \in T)
        PROVE  c \in T
    <3>1. PICK at \in Visit : /\ at = VisitAt(p, c, 0) /\ at.segment = c
                              /\ Seen(at, v) = LabelsAt(p, v)[c] /\ Whole(at, v)
      BY <1>0, PlacedVisits
    <3>2. ASSUME ~IsLeaf(c)
          PROVE  f[LeftVisit(at, 0)] /\ f[RightVisit(at, 0)] /\ SumsUp(at, v)
      <4>1. /\ LeftHalf(c) \in Segments(arraySize) /\ RightHalf(c) \in Segments(arraySize)
            /\ LeftVisit(at, 0) = VisitAt(p, LeftHalf(c), 0)
            /\ RightVisit(at, 0) = VisitAt(p, RightHalf(c), 0)
        BY <1>0, <3>1, <3>2, PlacedVisits
      <4>2. f[LeftVisit(at, 0)] /\ f[RightVisit(at, 0)]
        BY <2>1, <3>2, <4>1
      <4>3. /\ Seen(LeftVisit(at, 0), v) = LabelsAt(p, v)[LeftHalf(c)]
            /\ Seen(RightVisit(at, 0), v) = LabelsAt(p, v)[RightHalf(c)]
        BY <1>0, <4>1, PlacedVisits
      <4>4. SumOK(LabelsAt(p, v)[c], LabelsAt(p, v)[LeftHalf(c)],
                  LabelsAt(p, v)[RightHalf(c)], Length(c))
        BY <1>0, <3>2 DEF TreeAt, TreeOf, Labelled
      <4>5. SumsUp(at, v)
        BY <3>1, <4>3, <4>4 DEF SumOK, SumsUp
      <4> QED BY <4>2, <4>5
    <3>3. f[at]
      BY <1>1, <3>1, <3>2 DEF ConsistentIn
    <3> QED BY <3>1, <3>3
  <2>2. Segments(arraySize) \subseteq T
    <3> HIDE DEF T
    <3> QED BY <1>0, <2>1, PartitionInduction
  <2>3. Root(arraySize) \in T /\ RootVisit(roots[v]) = VisitAt(p, Root(arraySize), 0)
    BY <1>0, <1>2, <2>2, RootOfSegments, RootVisitAt
  <2> QED BY <1>1, <2>3
<1> QED BY <1>1, <1>2

-----------------------------------------------------------------------------
(***************************************************************************)
(* The invariant: every version is the tree of an array, read at that      *)
(* version; the latest array is in the domain of the guard, and so is what *)
(* a running update makes of it.  Of that update, p places the latest      *)
(* version and q the tree being made: a node on which it has finished is   *)
(* touched, with the label of the next version, and no other differs.      *)
(***************************************************************************)
Touched ==
  Written \cup {i \in DOMAIN nodes : call.op = "rangeAdd" /\ i > call.checkpoint}

LabelRaised(old, new, c) ==
  /\ ~Disjoint(call.left, call.right, c)
  /\ new.sum \in Value /\ new.lazy \in Value
  /\ new.sum = old.sum + call.value * Overlap(c)
  /\ new.lazy = old.lazy + IF Covers(call.left, call.right, c) THEN call.value ELSE 0

NodeUpdated(p, q, c) ==
  IF q[c] \in Touched
  THEN LabelRaised(Label(p[c], Len(roots)), Label(q[c], Len(roots) + 1), c)
  ELSE q[c] = p[c]

HalvesUpdated(q, c) ==
  /\ JoinedAt(q, c)
  /\ \A side \in Sides :
       q[Half(c, side)] \in Touched <=>
         /\ q[c] \in Touched /\ ~Covers(call.left, call.right, c)
         /\ ~Disjoint(call.left, call.right, Half(c, side))

NewChild(f, side) == IF side = "left" THEN f.newLeft ELSE f.newRight

FrameLinked(q, f) ==
  /\ f.segment \in Segments(arraySize) /\ f.node = q[f.segment]
  /\ ~IsLeaf(f.segment) => \A side \in Sides :
       /\ NewChild(f, side) = q[Half(f.segment, side)]
       /\ side \in f.todo => Child(f, side) = NewChild(f, side)
       /\ q[Half(f.segment, side)] \in Touched <=>
            /\ side \notin f.todo /\ ~Covers(call.left, call.right, f.segment)
            /\ ~Disjoint(call.left, call.right, Half(f.segment, side))

OnStack == {stack[k].segment : k \in DOMAIN stack}

UpdateTree(p, q) ==
  /\ Placed(q)
  /\ \A c \in Segments(arraySize) :
       /\ NodeUpdated(p, q, c)
       /\ c \notin OnStack /\ ~IsLeaf(c) => HalvesUpdated(q, c)
  /\ \A k \in DOMAIN stack : FrameLinked(q, stack[k])
  /\ stack = <<>> => returned = q[Root(arraySize)] /\ q[Root(arraySize)] \in Touched

AskedFor(w) ==
  LET next == AddToRange(w, call.left, call.right, call.value)
  IN  /\ next \in Seq(Value) /\ Admissible(next) /\ MaxMagnitude(next) <= nextBound
      /\ Len(roots) < MaxVersions

LatestOK(p, w) ==
  /\ Admissible(w) /\ MaxMagnitude(w) <= bound
  /\ call.op = "rangeAdd" => AskedFor(w) /\ \E q : UpdateTree(p, q)

VersionsOK ==
  /\ \A v \in DOMAIN roots : \E p, w : VersionOK(v, p, w)
  /\ roots # <<>> => \E p, w : VersionOK(Len(roots), p, w) /\ LatestOK(p, w)
  /\ call.op = "rangeAdd" => roots # <<>>

(***************************************************************************)
(* The nodes initialize has built hold the sums of their segments.         *)
(***************************************************************************)
BuiltAt(i) ==
  LET node == newNodes[i]
  IN  /\ node.segment \in Interval(CallSize)
      /\ node.baseLazy = 0 /\ node.baseSum \in Value
      /\ node.baseSum = IF IsLeaf(node.segment) THEN call.values[node.segment[1]]
                        ELSE newNodes[node.leftChild].baseSum
                             + newNodes[node.rightChild].baseSum

BuildOK == call.op = "initialize" => \A i \in DOMAIN newNodes : BuiltAt(i)

VInv == BInv /\ BuildOK /\ VersionsOK

-----------------------------------------------------------------------------
(***************************************************************************)
(* Labels between updates, and steps that write to no node.                *)
(***************************************************************************)
LEMMA ArraySizeFacts ==
  BInv => /\ TypeOK /\ arraySize \in Nat /\ Len(roots) \in Nat /\ DOMAIN roots = 1 .. Len(roots)
          /\ \A v \in DOMAIN roots : v \in Nat /\ v <= Len(roots)
BY TypeFacts DEF BInv

(* A node an update has not written to is read alike at the version it makes. *)
LEMMA SettledLabel ==
  ASSUME BInv, NEW i \in DOMAIN nodes, i \notin Written
  PROVE  Label(i, Len(roots) + 1) = Label(i, Len(roots))
<1>1. nodes[i] \in Node /\ Len(roots) \in Nat
  BY TypeFacts
<1>2. Settled(nodes[i].buffer)
  BY DEF BInv, BuffersOK, BufferOK
<1>3. \A k \in DOMAIN nodes[i].buffer :
        nodes[i].buffer[k].version > Len(roots) + 1 <=> nodes[i].buffer[k].version > Len(roots)
  BY <1>1, <1>2, EntryFacts DEF Settled
<1> QED BY <1>1, <1>3, SnapshotsAlike DEF Label

LEMMA SameTree ==
  ASSUME UNCHANGED <<nodes, arraySize>>, NEW v, NEW root, NEW p, NEW w, TreeAt(v, root, p, w)
  PROVE  TreeAt(v, root, p, w)'
<1>1. Placed(p)' /\ Joined(p)' /\ LabelsAt(p, v)' = LabelsAt(p, v)
  BY DEF TreeAt, Placed, Joined, JoinedAt, LabelsAt, Label
<1>2. PICK L : L = LabelsAt(p, v)
  OBVIOUS
<1> QED BY <1>1, <1>2 DEF TreeAt

LEMMA SameVersion ==
  ASSUME UNCHANGED <<nodes, arraySize>>, NEW v, roots'[v] = roots[v],
         NEW p, NEW w, VersionOK(v, p, w)
  PROVE  VersionOK(v, p, w)'
<1>1. PICK root : root = roots[v]
  OBVIOUS
<1>2. TreeAt(v, root, p, w)'
  BY <1>1, SameTree DEF VersionOK
<1> QED BY <1>1, <1>2 DEF VersionOK

(* A tree is read alike at the version an update of it would make. *)
LEMMA NextTree ==
  ASSUME BInv, Written = {}, NEW root, NEW p, NEW w, TreeAt(Len(roots), root, p, w)
  PROVE  TreeAt(Len(roots) + 1, root, p, w)
<1>1. \A c \in Segments(arraySize) : Label(p[c], Len(roots) + 1) = Label(p[c], Len(roots))
  BY SettledLabel DEF TreeAt, Placed
<1>2. LabelsAt(p, Len(roots) + 1) = LabelsAt(p, Len(roots))
  BY <1>1 DEF LabelsAt
<1> QED BY <1>2 DEF TreeAt

LEMMA InitVInv == Init => VInv
<1> SUFFICES ASSUME Init PROVE VInv
  OBVIOUS
<1>1. BInv
  BY InitBInv
<1>2. roots = <<>> /\ DOMAIN roots = {} /\ call = Idle
  BY DEF Init
<1> QED BY <1>1, <1>2 DEF VInv, VersionsOK, BuildOK, Idle

(* A step that publishes nothing and writes to no node. *)
LEMMA NothingWritten ==
  ASSUME VInv, UNCHANGED <<nodes, roots, arraySize, bound>>,
         call'.op = "rangeAdd" => roots # <<>>,
         \A p, w : VersionOK(Len(roots), p, w) /\ LatestOK(p, w) /\ call'.op = "rangeAdd" =>
           AskedFor(w)' /\ (\E q : UpdateTree(p, q))'
  PROVE  VersionsOK'
<1>1. \A v \in DOMAIN roots : \E p, w : VersionOK(v, p, w)'
  BY SameVersion DEF VInv, VersionsOK
<1>2. ASSUME roots # <<>>
      PROVE  \E p, w : VersionOK(Len(roots), p, w)' /\ LatestOK(p, w)'
  <2>1. PICK p, w : VersionOK(Len(roots), p, w) /\ LatestOK(p, w)
    BY <1>2 DEF VInv, VersionsOK
  <2>2. VersionOK(Len(roots), p, w)'
    BY <2>1, SameVersion
  <2>3. LatestOK(p, w)'
    BY <2>1 DEF LatestOK
  <2> QED BY <2>2, <2>3
<1>3. PICK n : n = Len(roots) /\ n = Len(roots')
  OBVIOUS
<1> QED BY <1>1, <1>2, <1>3 DEF VersionsOK

-----------------------------------------------------------------------------
(***************************************************************************)
(* The elements of a segment that an update changes.                       *)
(***************************************************************************)
LEMMA OverlapIs ==
  ASSUME NEW n \in Nat, NEW c \in Interval(n), call.left \in Int, call.right \in Int
  PROVE  Overlap(c) = Upto(call.right, c) - From(call.left, c) + 1
<1>1. c[1] \in Int /\ c[2] \in Int
  BY Halves
<1>2. ASSUME NEW a \in Int, NEW b \in Int
      PROVE  /\ Min({a, b}) = IF b < a THEN b ELSE a
             /\ Max({a, b}) = IF b > a THEN b ELSE a
  BY DEF Min, Max
<1> QED BY <1>1, <1>2 DEF Overlap, Upto, From

LEMMA OverlapOfHalves ==
  ASSUME NEW n \in Nat, NEW c \in Interval(n), call.left \in Int, call.right \in Int,
         call.left <= call.right, ~Disjoint(call.left, call.right, c)
  PROVE  /\ Overlap(c) \in Int
         /\ Covers(call.left, call.right, c) => Overlap(c) = Length(c)
         /\ ~IsLeaf(c) =>
              Overlap(c) = (IF Disjoint(call.left, call.right, LeftHalf(c)) THEN 0
                            ELSE Overlap(LeftHalf(c)))
                           + (IF Disjoint(call.left, call.right, RightHalf(c)) THEN 0
                              ELSE Overlap(RightHalf(c)))
<1>1. c[1] \in Int /\ c[2] \in Int /\ c[1] <= c[2]
  BY Halves
<1>2. Overlap(c) \in Int /\ (Covers(call.left, call.right, c) => Overlap(c) = Length(c))
  BY <1>1, OverlapIs DEF Upto, From, Covers, Length
<1>3. ASSUME ~IsLeaf(c)
      PROVE  Overlap(c) = (IF Disjoint(call.left, call.right, LeftHalf(c)) THEN 0
                           ELSE Overlap(LeftHalf(c)))
                          + (IF Disjoint(call.left, call.right, RightHalf(c)) THEN 0
                             ELSE Overlap(RightHalf(c)))
  <2>1. PICK l, r, k : l = LeftHalf(c) /\ r = RightHalf(c) /\ k = Midpoint(c)
    OBVIOUS
  <2>2. /\ l \in Interval(n) /\ r \in Interval(n)
        /\ k \in Int /\ c[1] <= k /\ k < c[2]
        /\ l[1] = c[1] /\ l[2] = k /\ r[1] = k + 1 /\ r[2] = c[2]
    BY <1>3, <2>1, Halves DEF LeftHalf, RightHalf
  <2>3. /\ Overlap(c) = Upto(call.right, c) - From(call.left, c) + 1
        /\ Overlap(l) = Upto(call.right, l) - From(call.left, l) + 1
        /\ Overlap(r) = Upto(call.right, r) - From(call.left, r) + 1
    BY <2>2, OverlapIs
  <2> QED BY <1>1, <2>1, <2>2, <2>3 DEF Upto, From, Disjoint
<1> QED BY <1>2, <1>3

-----------------------------------------------------------------------------
(***************************************************************************)
(* Steps that publish a version: the tree the nodes form at that version.  *)
(***************************************************************************)
LEMMA Extended ==
  ASSUME VInv, UNCHANGED <<nodes, arraySize>>, NEW root \in Nat, roots' = Append(roots, root),
         call'.op # "rangeAdd", NEW n, n = Len(roots) + 1,
         NEW q, NEW w, TreeAt(n, root, q, w), LatestOK(q, w)'
  PROVE  VersionsOK'
<1>1. /\ Len(roots) \in Nat /\ DOMAIN roots = 1 .. Len(roots) /\ roots \in Seq(Nat)
  BY ArraySizeFacts DEF VInv, TypeOK
<1>2. /\ Len(roots') = n /\ DOMAIN roots' = 1 .. n /\ n \in Nat /\ roots'[n] = root
      /\ \A v \in 1 .. Len(roots) : roots'[v] = roots[v]
  BY <1>1, AppendProperties
<1>3. VersionOK(n, q, w)'
  <2>1. TreeAt(n, root, q, w)'
    BY SameTree
  <2> QED BY <1>2, <2>1 DEF VersionOK
<1>4. ASSUME NEW v \in 1 .. n
      PROVE  \E p, x : VersionOK(v, p, x)'
  <2>1. CASE v = n
    BY <1>3, <2>1
  <2>2. CASE v \in 1 .. Len(roots)
    <3>1. PICK p, x : VersionOK(v, p, x)
      BY <1>1, <2>2 DEF VInv, VersionsOK
    <3>2. VersionOK(v, p, x)'
      BY <1>2, <2>2, <3>1, SameVersion
    <3> QED BY <3>2
  <2> QED BY <1>1, <2>1, <2>2
<1> QED BY <1>2, <1>3, <1>4 DEF VersionsOK

LEMMA RunningUpdate ==
  ASSUME BInv, call.op = "rangeAdd"
  PROVE  /\ call.left \in Int /\ call.right \in Int /\ call.value \in Value /\ call.value \in Int
         /\ 1 <= call.left /\ call.left <= call.right /\ call.right <= arraySize
         /\ arraySize \in Nat \ {0} /\ Len(roots) \in Nat
<1>1. /\ call.left \in Nat \ {0} /\ call.right \in Nat /\ call.value \in Value
      /\ arraySize \in Nat /\ Len(roots) \in Nat
  BY TypeFacts
<1>2. call.left <= call.right /\ call.right <= arraySize
  BY DEF BInv, CallOK
<1>3. call.value \in Int
  BY <1>1, ValueFacts
<1>4. PICK l, r, n : l = call.left /\ r = call.right /\ n = arraySize
  OBVIOUS
<1>5. /\ l \in Int /\ r \in Int /\ 1 <= l /\ l <= r /\ r <= n /\ n \in Nat \ {0}
  BY <1>1, <1>2, <1>4
<1> QED BY <1>1, <1>3, <1>4, <1>5

(* A node an update has not finished with is read alike at its version. *)
LEMMA Untouched ==
  ASSUME BInv, NEW p, NEW q, UpdateTree(p, q), NEW c \in Segments(arraySize)
  PROVE  /\ q[c] \in DOMAIN nodes
         /\ q[c] \notin Touched =>
              q[c] = p[c] /\ Label(q[c], Len(roots) + 1) = Label(p[c], Len(roots))
<1>1. q[c] \in DOMAIN nodes /\ NodeUpdated(p, q, c)
  BY DEF UpdateTree, Placed
<1>2. ASSUME q[c] \notin Touched
      PROVE  q[c] = p[c] /\ Label(q[c], Len(roots) + 1) = Label(p[c], Len(roots))
  <2>1. q[c] = p[c] /\ q[c] \notin Written
    BY <1>1, <1>2 DEF NodeUpdated, Touched
  <2> QED BY <1>1, <2>1, SettledLabel
<1> QED BY <1>1, <1>2

(* The tree an update has made when it is about to publish it. *)
LEMMA FinishedTree ==
  ASSUME BInv, call.op = "rangeAdd", stack = <<>>,
         NEW p, NEW w, VersionOK(Len(roots), p, w), AskedFor(w), NEW q, UpdateTree(p, q)
  PROVE  TreeAt(Len(roots) + 1, returned, q,
                AddToRange(w, call.left, call.right, call.value))
<1> DEFINE n == arraySize
           L == LabelsAt(p, Len(roots))
           M == LabelsAt(q, Len(roots) + 1)
           D == {c \in Segments(arraySize) : q[c] \in Touched}
<1>1. /\ call.left \in Int /\ call.right \in Int /\ call.value \in Value /\ call.value \in Int
      /\ call.left <= call.right /\ n \in Nat /\ n # 0
  BY RunningUpdate
<1>2. \A c \in Segments(n) : NodeUpdated(p, q, c) /\ (~IsLeaf(c) => HalvesUpdated(q, c))
  BY DEF UpdateTree, OnStack
<1>3. Placed(q) /\ returned = q[Root(n)] /\ q[Root(n)] \in Touched
  BY DEF UpdateTree
<1>4. Labelled(n, L) /\ TreeOf(n, L, w)
  BY DEF VersionOK, TreeAt, TreeOf
<1>5. ASSUME NEW c \in Segments(n)
      PROVE  /\ c \in D => LabelRaised(L[c], M[c], c)
             /\ c \notin D => M[c] = L[c]
             /\ L[c].sum \in Int /\ L[c].lazy \in Int
             /\ L[c].sum \in Value /\ L[c].lazy \in Value
             /\ c \in Interval(n) /\ Length(c) \in Nat /\ Length(c) \in Int
             /\ IsLeaf(c) => Length(c) = 1
             /\ ~IsLeaf(c) => /\ LeftHalf(c) \in Segments(n) /\ RightHalf(c) \in Segments(n)
                              /\ L[c].sum = L[LeftHalf(c)].sum + L[RightHalf(c)].sum
                                            + L[c].lazy * Length(c)
  <2>1. L[c] = Label(p[c], Len(roots)) /\ M[c] = Label(q[c], Len(roots) + 1)
    BY DEF LabelsAt
  <2>2. c \in D => LabelRaised(L[c], M[c], c)
    <3> HIDE DEF L, M
    <3> QED BY <1>2, <2>1 DEF NodeUpdated
  <2>3. c \notin D => M[c] = L[c]
    <3>1. q[c] \notin Touched => Label(q[c], Len(roots) + 1) = Label(p[c], Len(roots))
      BY Untouched
    <3> HIDE DEF L, M
    <3> QED BY <2>1, <3>1
  <2> HIDE DEF L, M, D
  <2> QED BY <1>1, <1>4, <2>2, <2>3, LabelFacts
<1>6. ASSUME NEW c \in Segments(n), ~IsLeaf(c)
      PROVE  /\ LeftHalf(c) \in D <=> /\ c \in D /\ ~Covers(call.left, call.right, c)
                                      /\ ~Disjoint(call.left, call.right, LeftHalf(c))
             /\ RightHalf(c) \in D <=> /\ c \in D /\ ~Covers(call.left, call.right, c)
                                       /\ ~Disjoint(call.left, call.right, RightHalf(c))
  <2>1. HalvesUpdated(q, c) /\ "left" \in Sides /\ "right" \in Sides
        /\ Half(c, "left") = LeftHalf(c) /\ Half(c, "right") = RightHalf(c)
        /\ LeftHalf(c) \in Segments(n) /\ RightHalf(c) \in Segments(n)
    BY <1>2, <1>5, <1>6 DEF Sides, Half
  <2>2. /\ LeftHalf(c) \in D <=> q[Half(c, "left")] \in Touched
        /\ RightHalf(c) \in D <=> q[Half(c, "right")] \in Touched
        /\ c \in D <=> q[c] \in Touched
    BY <2>1
  <2> HIDE DEF D
  <2> QED BY <2>1, <2>2 DEF HalvesUpdated
<1>7. \A c \in D : LabelRaised(L[c], M[c], c)
  <2> HIDE DEF L, M
  <2> QED BY <1>5
<1>8. ASSUME NEW c \in Segments(n)
      PROVE  M[c].sum \in Value /\ M[c].lazy \in Value
  <2> HIDE DEF L, M, D
  <2> QED BY <1>5 DEF LabelRaised
<1>9. ASSUME NEW c \in Segments(n), ~IsLeaf(c)
      PROVE  SumOK(M[c], M[LeftHalf(c)], M[RightHalf(c)], Length(c))
  <2>1. PICK l, r : l = LeftHalf(c) /\ r = RightHalf(c)
    OBVIOUS
  <2>2. l \in Segments(n) /\ r \in Segments(n)
    BY <1>5, <1>9, <2>1
  <2>3. PICK a, b, e : a = L[l].sum /\ b = L[r].sum /\ e = L[c].lazy
    OBVIOUS
  <2>4. /\ a \in Int /\ b \in Int /\ e \in Int /\ Length(c) \in Int
        /\ L[c].sum = a + b + e * Length(c)
    <3> HIDE DEF L, M, D
    <3> QED BY <1>5, <1>9, <2>1, <2>2, <2>3
  <2>5. PICK s, t, k : s = M[l].sum /\ t = M[r].sum /\ k = call.value
    OBVIOUS
  <2>6. CASE c \notin D
    <3>1. l \notin D /\ r \notin D
      <4> HIDE DEF L, M, D
      <4> QED BY <1>6, <1>9, <2>1, <2>6
    <3>2. M[c] = L[c] /\ M[l] = L[l] /\ M[r] = L[r]
      <4> HIDE DEF L, M, D
      <4> QED BY <1>5, <2>2, <2>6, <3>1
    <3> HIDE DEF L, M, D
    <3> QED BY <2>1, <2>3, <2>4, <3>2 DEF SumOK
  <2>7. CASE c \in D /\ Covers(call.left, call.right, c)
    <3>1. l \notin D /\ r \notin D
      <4> HIDE DEF L, M, D
      <4> QED BY <1>6, <1>9, <2>1, <2>7
    <3>2. M[l] = L[l] /\ M[r] = L[r]
      <4> HIDE DEF L, M, D
      <4> QED BY <1>5, <2>2, <3>1
    <3>3. M[c].sum = L[c].sum + k * Length(c) /\ M[c].lazy = e + k
      <4>1. /\ ~Disjoint(call.left, call.right, c)
            /\ M[c].sum = L[c].sum + k * Overlap(c) /\ M[c].lazy = e + k
        <5> HIDE DEF L, M, D
        <5> QED BY <1>5, <2>3, <2>5, <2>7 DEF LabelRaised
      <4>2. Overlap(c) = Length(c)
        <5> HIDE DEF L, M, D
        <5> QED BY <1>1, <1>5, <2>7, <4>1, OverlapOfHalves
      <4> HIDE DEF L, M, D
      <4> QED BY <4>1, <4>2
    <3>4. a + b + e * Length(c) + k * Length(c) = a + b + (e + k) * Length(c)
      BY <1>1, <2>4, <2>5, TagAbsorbed
    <3> HIDE DEF L, M, D
    <3> QED BY <2>1, <2>3, <2>4, <3>2, <3>3, <3>4 DEF SumOK
  <2>8. CASE c \in D /\ ~Covers(call.left, call.right, c)
    <3> DEFINE x == IF Disjoint(call.left, call.right, l) THEN 0 ELSE Overlap(l)
               y == IF Disjoint(call.left, call.right, r) THEN 0 ELSE Overlap(r)
    <3>1. /\ l \in D <=> ~Disjoint(call.left, call.right, l)
          /\ r \in D <=> ~Disjoint(call.left, call.right, r)
      <4> HIDE DEF L, M, D
      <4> QED BY <1>6, <1>9, <2>1, <2>8
    <3>2. /\ ~Disjoint(call.left, call.right, c)
          /\ M[c].sum = L[c].sum + k * Overlap(c) /\ M[c].lazy = e
      <4> HIDE DEF L, M, D
      <4> QED BY <1>5, <2>3, <2>4, <2>5, <2>8 DEF LabelRaised
    <3>3. /\ Overlap(c) = x + y
          /\ l \in D => Overlap(l) \in Int
          /\ r \in D => Overlap(r) \in Int
      <4> HIDE DEF L, M, D
      <4> QED BY <1>1, <1>5, <1>9, <2>1, <2>2, <3>1, <3>2, OverlapOfHalves
    <3>4. s = a + k * x /\ x \in Int
      <4> HIDE DEF L, M, D
      <4>1. l \in D => s = a + k * Overlap(l)
        BY <1>5, <2>2, <2>3, <2>5 DEF LabelRaised
      <4>2. l \notin D => s = a /\ k * 0 = 0
        BY <1>1, <1>5, <2>2, <2>3, <2>5
      <4> QED BY <2>4, <3>1, <3>3, <4>1, <4>2
    <3>5. t = b + k * y /\ y \in Int
      <4> HIDE DEF L, M, D
      <4>1. r \in D => t = b + k * Overlap(r)
        BY <1>5, <2>2, <2>3, <2>5 DEF LabelRaised
      <4>2. r \notin D => t = b /\ k * 0 = 0
        BY <1>1, <1>5, <2>2, <2>3, <2>5
      <4> QED BY <2>4, <3>1, <3>3, <4>1, <4>2
    <3>6. \A i, j \in Int : k * (i + j) = k * i + k * j /\ k * i \in Int /\ k * j \in Int
      BY <1>1, <2>5
    <3>7. k * Overlap(c) = k * x + k * y /\ k * x \in Int /\ k * y \in Int
      <4> HIDE DEF L, M, D, x, y
      <4> QED BY <3>3, <3>4, <3>5, <3>6
    <3>8. e * Length(c) \in Int
      BY <2>4
    <3>9. M[c].sum = s + t + M[c].lazy * Length(c)
      <4> HIDE DEF L, M, D, x, y
      <4>1. PICK i, j, z : i = k * x /\ j = k * y /\ z = e * Length(c)
        OBVIOUS
      <4>2. M[c].sum = a + b + z + (i + j)
        BY <2>4, <3>2, <3>7, <4>1
      <4>3. s = a + i /\ t = b + j /\ M[c].lazy * Length(c) = z
        BY <3>2, <3>4, <3>5, <4>1
      <4>4. a + b + z + (i + j) = (a + i) + (b + j) + z
        BY <2>4, <3>7, <3>8, <4>1
      <4> QED BY <4>2, <4>3, <4>4
    <3> HIDE DEF L, M, D
    <3> QED BY <2>1, <2>5, <3>9 DEF SumOK
  <2> HIDE DEF L, M, D
  <2> QED BY <2>6, <2>7, <2>8
<1>10. Labelled(n, M)
  <2> HIDE DEF L, M, D
  <2> QED BY <1>8, <1>9 DEF Labelled
<1>11. Updates(n, L, M, D, call.left, call.right, call.value)
  <2>1. Root(n) \in D
    BY <1>1, <1>3, RootOfSegments
  <2>2. ASSUME NEW c \in Segments(n)
        PROVE  /\ c \in D =>
                    /\ ~Disjoint(call.left, call.right, c)
                    /\ M[c].lazy = L[c].lazy
                         + IF Covers(call.left, call.right, c) THEN call.value ELSE 0
                    /\ IsLeaf(c) => M[c].sum = L[c].sum + call.value
               /\ c \notin D => M[c].sum = L[c].sum /\ M[c].lazy = L[c].lazy
               /\ ~IsLeaf(c) => \A side \in Sides :
                    Half(c, side) \in D <=>
                      /\ c \in D /\ ~Covers(call.left, call.right, c)
                      /\ ~Disjoint(call.left, call.right, Half(c, side))
    <3> HIDE DEF L, M, D
    <3>1. c \notin D => M[c].sum = L[c].sum /\ M[c].lazy = L[c].lazy
      BY <1>5
    <3>2. ASSUME c \in D
          PROVE  /\ ~Disjoint(call.left, call.right, c)
                 /\ M[c].lazy = L[c].lazy
                      + IF Covers(call.left, call.right, c) THEN call.value ELSE 0
                 /\ M[c].sum = L[c].sum + call.value * Overlap(c)
      BY <1>5, <3>2 DEF LabelRaised
    <3>3. ASSUME c \in D, IsLeaf(c) PROVE M[c].sum = L[c].sum + call.value
      <4>1. Covers(call.left, call.right, c)
        BY <1>1, <1>5, <3>2, <3>3, LeafCovered
      <4>2. Overlap(c) = 1
        BY <1>1, <1>5, <3>2, <3>3, <4>1, OverlapOfHalves
      <4>3. call.value * 1 = call.value
        BY <1>1
      <4> QED BY <3>2, <3>3, <4>2, <4>3
    <3>4. ~IsLeaf(c) => \A side \in Sides :
            Half(c, side) \in D <=>
              /\ c \in D /\ ~Covers(call.left, call.right, c)
              /\ ~Disjoint(call.left, call.right, Half(c, side))
      BY <1>6 DEF Sides, Half
    <3> QED BY <3>1, <3>2, <3>3, <3>4
  <2> HIDE DEF L, M, D
  <2> QED BY <2>1, <2>2 DEF Updates
<1>12. PICK next : /\ next = AddToRange(w, call.left, call.right, call.value)
                   /\ next \in Seq(Value)
  BY DEF AskedFor
<1>13. TreeOf(n, M, next)
  <2> HIDE DEF n, L, M, D
  <2> QED BY <1>1, <1>4, <1>10, <1>11, <1>12, TreeUpdated
<1>14. Joined(q)
  BY <1>2 DEF Joined, HalvesUpdated
<1> QED BY <1>3, <1>12, <1>13, <1>14 DEF TreeAt

LEMMA PublishMakes ==
  ASSUME VInv, PublishVersion
  PROVE  \E p, w, q, next :
           /\ VersionOK(Len(roots), p, w) /\ AskedFor(w)
           /\ next = AddToRange(w, call.left, call.right, call.value)
           /\ returned \in Nat /\ TreeAt(Len(roots) + 1, returned, q, next)
           /\ LatestOK(q, next)'
<1>1. /\ BInv /\ call.op = "rangeAdd" /\ stack = <<>> /\ call' = Idle /\ bound' = nextBound
  BY DEF PublishVersion, VInv
<1>2. roots # <<>>
  BY <1>1 DEF VInv, VersionsOK
<1>3. PICK p, w : VersionOK(Len(roots), p, w) /\ LatestOK(p, w)
  BY <1>2 DEF VInv, VersionsOK
<1>4. PICK q : UpdateTree(p, q)
  BY <1>1, <1>3 DEF LatestOK
<1>5. AskedFor(w)
  BY <1>1, <1>3 DEF LatestOK
<1>6. PICK next : next = AddToRange(w, call.left, call.right, call.value)
  OBVIOUS
<1>7. TreeAt(Len(roots) + 1, returned, q, next)
  BY <1>1, <1>3, <1>4, <1>5, <1>6, FinishedTree
<1>8. LatestOK(q, next)'
  BY <1>1, <1>5, <1>6 DEF AskedFor, LatestOK, Idle
<1>9. returned \in Nat
  BY <1>1, TypeFacts
<1> QED BY <1>3, <1>5, <1>6, <1>7, <1>8, <1>9

LEMMA PublishVersionVInv == VInv /\ PublishVersion => VInv'
<1> SUFFICES ASSUME VInv, PublishVersion PROVE VInv'
  OBVIOUS
<1>1. BInv'
  BY PublishVersionBInv DEF VInv
<1>2. /\ UNCHANGED <<nodes, arraySize>> /\ roots' = Append(roots, returned)
      /\ call'.op # "rangeAdd" /\ call'.op # "initialize"
  BY DEF PublishVersion, Idle
<1>3. PICK q, next, n : /\ n = Len(roots) + 1 /\ returned \in Nat
                        /\ TreeAt(n, returned, q, next) /\ LatestOK(q, next)'
  BY PublishMakes
<1>4. VersionsOK'
  BY <1>2, <1>3, Extended
<1> QED BY <1>1, <1>2, <1>4 DEF VInv, BuildOK

LEMMA RangeAddZeroMakes ==
  ASSUME VInv, RangeAddZero
  PROVE  \E p, w, root :
           /\ VersionOK(Len(roots), p, w) /\ Admissible(w)
           /\ root = roots[Len(roots)] /\ root \in Nat
           /\ TreeAt(Len(roots) + 1, root, p, w) /\ LatestOK(p, w)'
<1>1. BInv /\ call = Idle /\ call' = Idle /\ bound' = bound /\ roots # <<>>
  BY DEF RangeAddZero, ValidRangeAdd, VInv
<1>2. PICK p, w : VersionOK(Len(roots), p, w) /\ LatestOK(p, w)
  BY <1>1 DEF VInv, VersionsOK
<1>3. Written = {}
  BY <1>1 DEF Written, Idle
<1>4. PICK root : root = roots[Len(roots)]
  OBVIOUS
<1>5. root \in Nat
  <2>1. Len(roots) \in DOMAIN roots
    BY <1>1, TypeFacts, EmptySeq
  <2> QED BY <1>1, <1>4, <2>1, TypeFacts
<1>6. TreeAt(Len(roots) + 1, root, p, w)
  BY <1>1, <1>2, <1>3, <1>4, NextTree DEF VersionOK
<1>7. LatestOK(p, w)' /\ Admissible(w)
  BY <1>1, <1>2 DEF LatestOK, Idle
<1> QED BY <1>2, <1>4, <1>5, <1>6, <1>7

LEMMA RangeAddZeroVInv == VInv /\ RangeAddZero => VInv'
<1> SUFFICES ASSUME VInv, RangeAddZero PROVE VInv'
  OBVIOUS
<1>1. BInv'
  BY RangeAddZeroBInv DEF VInv
<1>2. /\ UNCHANGED <<nodes, arraySize>> /\ roots' = Append(roots, roots[Len(roots)])
      /\ call'.op # "rangeAdd" /\ call'.op # "initialize"
  BY DEF RangeAddZero, Idle
<1>3. PICK p, w, root, n : /\ root = roots[Len(roots)] /\ root \in Nat /\ n = Len(roots) + 1
                           /\ TreeAt(n, root, p, w) /\ LatestOK(p, w)'
  BY RangeAddZeroMakes
<1>4. VersionsOK'
  BY <1>2, <1>3, Extended
<1> QED BY <1>1, <1>2, <1>4 DEF VInv, BuildOK

-----------------------------------------------------------------------------
(***************************************************************************)
(* Steps of a running update that write to no node.                        *)
(***************************************************************************)
LEMMA FrameStarts ==
  ASSUME NEW n \in Nat, NEW c \in Interval(n), NEW q, JoinedAt(q, c) \/ IsLeaf(c),
         NEW left \in Int, NEW right \in Int, ~Disjoint(left, right, c),
         NEW f, f = UpdateFrame(q[c], c, left, right)
  PROVE  /\ f.segment = c /\ f.node = q[c]
         /\ ~IsLeaf(c) => \A side \in Sides :
              /\ NewChild(f, side) = q[Half(c, side)]
              /\ Child(f, side) = NewChild(f, side)
              /\ side \in f.todo <=> /\ ~Covers(left, right, c)
                                     /\ ~Disjoint(left, right, Half(c, side))
<1>1. /\ f.segment = c /\ f.node = q[c]
      /\ f.newLeft = nodes[q[c]].leftChild /\ f.newRight = nodes[q[c]].rightChild
      /\ f.todo = IF Covers(left, right, c) THEN {} ELSE MeetingSides(c, left, right)
  BY DEF UpdateFrame
<1>2. ASSUME ~IsLeaf(c), NEW side \in Sides
      PROVE  /\ NewChild(f, side) = q[Half(c, side)] /\ Child(f, side) = NewChild(f, side)
             /\ side \in f.todo <=> ~Covers(left, right, c) /\ ~Disjoint(left, right, Half(c, side))
  <2>1. NewChild(f, side) = q[Half(c, side)] /\ Child(f, side) = NewChild(f, side)
    BY <1>1, <1>2 DEF NewChild, Child, Half, Sides, JoinedAt
  <2>2. side \in MeetingSides(c, left, right) <=> ~Disjoint(left, right, Half(c, side))
    BY <1>2, MeetingHalves
  <2> QED BY <1>1, <2>1, <2>2
<1> QED BY <1>1, <1>2

LEMMA BeginInitializeVInv ==
  ASSUME VInv, NEW values \in Arrays, BeginInitialize(values)
  PROVE  VInv'
<1>1. BInv'
  BY BeginInitializeBInv DEF VInv
<1>2. /\ call = Idle /\ call'.op = "initialize" /\ newNodes' = newNodes
      /\ UNCHANGED <<nodes, roots, arraySize, bound>>
  BY DEF BeginInitialize, published
<1>3. newNodes = <<>> /\ DOMAIN newNodes' = {}
  <2>1. newNodes = <<>>
    BY <1>2 DEF VInv, BInv, CallOK, Idle
  <2> QED BY <1>2, <2>1
<1>4. VersionsOK'
  BY <1>2, NothingWritten
<1> QED BY <1>1, <1>3, <1>4 DEF VInv, BuildOK

LEMMA BeginRangeAddVInv ==
  ASSUME VInv, NEW left \in 1 .. arraySize, NEW right \in 1 .. arraySize,
         NEW value \in Deltas, BeginRangeAdd(left, right, value)
  PROVE  VInv'
<1> DEFINE latest == roots[Len(roots)]
           leaves == Materialize(latest, Len(roots))
           f == UpdateFrame(latest, Root(arraySize), left, right)
<1>1. BInv /\ BInv'
  BY BeginRangeAddBInv DEF VInv
<1>2. /\ call = Idle /\ ValidRangeAdd(left, right) /\ roots # <<>> /\ Len(roots) < MaxVersions
      /\ ValidateRangeAdd(bound, leaves, left, right, value)
      /\ call'.op = "rangeAdd" /\ call'.left = left /\ call'.right = right /\ call'.value = value
      /\ call'.checkpoint = Len(nodes)
      /\ nextBound' = NextBound(bound, leaves, left, right, value)
      /\ stack' = <<f>> /\ bufferedThisUpdate' = <<>>
      /\ UNCHANGED <<nodes, roots, arraySize, bound>>
  BY DEF BeginRangeAdd, ValidRangeAdd, published
<1>3. /\ TypeOK /\ arraySize \in Nat /\ arraySize # 0 /\ bound \in Bound /\ value \in Value
      /\ left \in Int /\ right \in Int /\ 1 <= left /\ left <= right /\ right <= arraySize
      /\ DOMAIN nodes = 1 .. Len(nodes) /\ Len(nodes) \in Nat
  BY <1>1, <1>2, LatestRoot, TypeFacts, DeltasAssumption DEF BInv
<1>4. /\ Root(arraySize) \in Segments(arraySize) /\ Root(arraySize)[1] = 1
      /\ Root(arraySize)[2] = arraySize /\ Root(arraySize) \in Interval(arraySize)
  BY <1>3, RootOfSegments, SegmentsClosed
<1>5. Touched' = {}
  <2>1. Written' = {}
    BY <1>2 DEF Written, Range
  <2>2. \A i \in DOMAIN nodes' : ~(i > call'.checkpoint)
    BY <1>2, <1>3
  <2> QED BY <2>1, <2>2 DEF Touched
<1>6. ASSUME NEW p, NEW w, VersionOK(Len(roots), p, w), LatestOK(p, w)
      PROVE  AskedFor(w)' /\ (\E q : UpdateTree(p, q))'
  <2>1. TreeAt(Len(roots), latest, p, w) /\ Placed(p) /\ Joined(p) /\ p[Root(arraySize)] = latest
    BY <1>3, <1>6 DEF VersionOK, TreeAt
  <2>2. /\ leaves \in Seq(Outcome) /\ Len(leaves) = arraySize
        /\ \A q \in 1 .. arraySize : leaves[q] \in {Overflow, w[q]}
    <3> HIDE DEF latest
    <3> QED BY <1>3, <2>1, MaterializeReads
  <2>3. w \in Seq(Value) /\ Len(w) = arraySize /\ w # <<>>
    BY <1>3, <2>1, EmptySeq DEF TreeAt, TreeOf
  <2>4. Admissible(w) /\ MaxMagnitude(w) <= bound
    BY <1>6 DEF LatestOK
  <2>5. PICK s : s = leaves
    OBVIOUS
  <2>6. /\ AddToRange(w, left, right, value) \in Seq(Value)
        /\ Admissible(AddToRange(w, left, right, value))
        /\ MaxMagnitude(AddToRange(w, left, right, value))
             <= NextBound(bound, s, left, right, value)
    <3> HIDE DEF leaves
    <3>1. /\ s \in Seq(Outcome) /\ Len(s) = Len(w)
          /\ \A q \in 1 .. Len(w) : s[q] \in {Overflow, w[q]}
          /\ ValidateRangeAdd(bound, s, left, right, value)
      BY <1>2, <2>2, <2>3, <2>5
    <3> QED BY <1>3, <2>3, <2>4, <3>1, GuardSoundForLeaves
  <2>7. AskedFor(w)'
    <3>1. nextBound' = NextBound(bound, s, left, right, value) /\ Len(roots') = Len(roots)
      BY <1>2, <2>5
    <3> HIDE DEF leaves, f, latest
    <3> QED BY <1>2, <2>6, <3>1 DEF AskedFor
  <2>a. PICK g : g = f
    OBVIOUS
  <2>8. FrameLinked(p, g)'
    <3>1. ~Disjoint(left, right, Root(arraySize))
      BY <1>3, <1>4 DEF Disjoint
    <3>3. JoinedAt(p, Root(arraySize)) \/ IsLeaf(Root(arraySize))
      BY <1>4, <2>1 DEF Joined
    <3>4. /\ g.segment = Root(arraySize) /\ g.node = p[Root(arraySize)]
          /\ ~IsLeaf(Root(arraySize)) => \A side \in Sides :
               /\ NewChild(g, side) = p[Half(Root(arraySize), side)]
               /\ Child(g, side) = NewChild(g, side)
               /\ side \in g.todo <=> /\ ~Covers(left, right, Root(arraySize))
                                      /\ ~Disjoint(left, right, Half(Root(arraySize), side))
      BY <1>3, <1>4, <2>1, <2>a, <3>1, <3>3, FrameStarts
    <3>5. \A side : Child(g, side)' = Child(g, side)
      BY <1>2 DEF Child
    <3> HIDE DEF f, leaves
    <3> QED BY <1>2, <1>4, <1>5, <3>4, <3>5 DEF FrameLinked
  <2>9. UpdateTree(p, p)'
    <3> HIDE DEF f, leaves
    <3>1. Placed(p)'
      BY <1>2, <2>1 DEF Placed
    <3>2. \A c : NodeUpdated(p, p, c)'
      BY <1>5 DEF NodeUpdated
    <3>3. \A c \in Segments(arraySize) : ~IsLeaf(c) => HalvesUpdated(p, c)'
      BY <1>2, <1>5, <2>1 DEF HalvesUpdated, Joined, JoinedAt
    <3>4. stack' # <<>> /\ DOMAIN stack' = {1} /\ stack'[1] = f
      BY <1>2
    <3>5. (\A k \in DOMAIN stack : FrameLinked(p, stack[k]))'
      <4>1. FrameLinked(p, g)' /\ \A k \in DOMAIN stack' : stack'[k] = g
        BY <2>a, <2>8, <3>4
      <4> QED BY <4>1
    <3> QED BY <1>2, <3>1, <3>2, <3>3, <3>4, <3>5 DEF UpdateTree
  <2> QED BY <2>7, <2>9
<1>7. VersionsOK'
  <2> HIDE DEF f, leaves, latest
  <2> QED BY <1>2, <1>6, NothingWritten
<1>8. BuildOK'
  BY <1>2 DEF BuildOK
<1> QED BY <1>1, <1>7, <1>8 DEF VInv

LEMMA ReturnBuiltVInv == VInv /\ ReturnBuilt => VInv'
<1> SUFFICES ASSUME VInv, ReturnBuilt PROVE VInv'
  OBVIOUS
<1>1. BInv /\ BInv'
  BY ReturnBuiltBInv DEF VInv
<1>2. /\ Finishing("initialize") /\ call.op = "initialize" /\ call' = call
      /\ newNodes' = Append(newNodes, BuiltNode(Top)) /\ Computed(Top) /\ stack # <<>>
      /\ UNCHANGED <<nodes, roots, arraySize, bound>>
  BY DEF ReturnBuilt, Finishing, published
<1>3. PICK node, c, n : node = BuiltNode(Top) /\ c = Top.segment /\ n = Len(newNodes)
  OBVIOUS
<1>4. /\ node \in Node /\ node.segment = c /\ node.baseLazy = 0
      /\ newNodes \in Seq(Node) /\ n \in Nat /\ DOMAIN newNodes = 1 .. n
      /\ CallSize' = CallSize /\ CallSize \in Nat /\ CallSize = Len(call.values)
      /\ call.values \in Seq(Value) /\ c \in Interval(CallSize)
      /\ \A i \in DOMAIN newNodes : newNodes[i] \in Node
  <2>1. node \in Node /\ node.segment = c
    BY <1>1, <1>2, <1>3, BuiltNodeType
  <2>2. node.baseLazy = 0
    BY <1>3 DEF BuiltNode
  <2>3. CallSize' = CallSize /\ CallSize = Len(call.values)
    BY <1>2 DEF CallSize
  <2>4. c \in Interval(CallSize)
    BY <1>1, <1>2, <1>3, TopFrame
  <2> QED BY <1>1, <1>2, <1>3, <2>1, <2>2, <2>3, <2>4, TypeFacts
<1>5. /\ DOMAIN newNodes' = 1 .. n + 1 /\ newNodes'[n + 1] = node
      /\ \A i \in 1 .. n : newNodes'[i] = newNodes[i]
  BY <1>2, <1>3, <1>4, AppendProperties
<1>6. ASSUME NEW i \in 1 .. n PROVE BuiltAt(i)'
  <2>1. BuiltAt(i) /\ LinkedAt(newNodes, i)
    BY <1>1, <1>2, <1>4 DEF VInv, BuildOK, BInv, TreesLinked, Linked
  <2>2. ~IsLeaf(newNodes[i].segment) =>
          newNodes[i].leftChild \in 1 .. n /\ newNodes[i].rightChild \in 1 .. n
    BY <1>4, <2>1 DEF LinkedAt
  <2> QED BY <1>2, <1>4, <1>5, <2>1, <2>2 DEF BuiltAt
<1>7. BuiltAt(n + 1)'
  <2>1. node.baseSum # Overflow /\ node.baseSum \in Value
    BY <1>2, <1>3, <1>4 DEF Computed, Node
  <2>2. IsLeaf(c) => node.baseSum = call.values[c[1]]
    BY <1>3 DEF BuiltNode
  <2>3. ASSUME ~IsLeaf(c)
        PROVE  node.baseSum = newNodes'[node.leftChild].baseSum
                              + newNodes'[node.rightChild].baseSum
    <3>1. node.leftChild \in 1 .. n /\ node.rightChild \in 1 .. n
      BY <1>1, <1>2, <1>3, <1>4, <2>3, BuiltNodeType DEF ChildOK
    <3>2. node.leftChild = Top.newLeft /\ node.rightChild = Top.newRight
      BY <1>3 DEF BuiltNode
    <3>3. PICK a, b : a = newNodes[Top.newLeft].baseSum /\ b = newNodes[Top.newRight].baseSum
      OBVIOUS
    <3>4. a \in Int /\ b \in Int
      <4>1. newNodes[Top.newLeft] \in Node /\ newNodes[Top.newRight] \in Node
        BY <1>4, <3>1, <3>2
      <4>2. a \in Value /\ b \in Value
        BY <3>3, <4>1 DEF Node
      <4> QED BY <4>2, ValueFacts
    <3>5. node.baseSum = CheckedAdd(a, b)
      BY <1>3, <2>3, <3>3 DEF BuiltNode
    <3>6. node.baseSum = a + b
      BY <2>1, <3>4, <3>5, CheckedAddExact
    <3> QED BY <1>5, <3>1, <3>2, <3>3, <3>6
  <2>4. n + 1 \in DOMAIN newNodes'
    BY <1>4, <1>5
  <2> QED BY <1>2, <1>4, <1>5, <2>1, <2>2, <2>3 DEF BuiltAt
<1>8. BuildOK'
  <2>1. \A i \in 1 .. n + 1 : i \in 1 .. n \/ i = n + 1
    BY <1>4
  <2>2. \A i \in DOMAIN newNodes' : BuiltAt(i)'
    BY <1>5, <1>6, <1>7, <2>1
  <2> QED BY <2>2 DEF BuildOK
<1>9. VersionsOK'
  BY <1>2, NothingWritten
<1> QED BY <1>1, <1>8, <1>9 DEF VInv

LEMMA StackSegments ==
  ASSUME BInv, call.op = "rangeAdd", stack # <<>>
  PROVE  /\ \A k, m \in DOMAIN stack : k < m =>
              /\ Inside(stack[m].segment, stack[k].segment)
              /\ stack[m].segment # stack[k].segment
         /\ Len(stack) = 1 => Top.segment = Root(arraySize)
         /\ \A m \in Nat \ {0} : Len(stack) = m + 1 =>
              /\ m \in DOMAIN stack /\ ~IsLeaf(stack[m].segment)
              /\ stack[m] \in Frame /\ stack[m].todo # {}
              /\ NextSide(stack[m]) \in Sides /\ NextSide(stack[m]) \in stack[m].todo
              /\ Top.segment = Half(stack[m].segment, NextSide(stack[m]))
              /\ ~Covers(call.left, call.right, stack[m].segment)
              /\ ~Disjoint(call.left, call.right, Top.segment)
         /\ ~IsLeaf(Top.segment) => \A side \in Sides : Half(Top.segment, side) \notin OnStack
<1>1. /\ stack \in Seq(Frame) /\ Len(stack) \in Nat \ {0}
      /\ DOMAIN stack = 1 .. Len(stack) /\ Len(stack) \in DOMAIN stack
      /\ Top = stack[Len(stack)] /\ FrameOK(Top) /\ UpdateFrameOK(Top)
      /\ arraySize \in Nat /\ CallSize = arraySize /\ FramesIn(stack, arraySize)
      /\ \A k \in DOMAIN stack : stack[k] \in Frame
  BY TopFrame, TypeFacts DEF CallSize, FrameOK, Top
<1>2. /\ Nested(stack)
      /\ \A k \in DOMAIN stack : FrameInPlace(k) /\ UpdateFrameOK(stack[k])
  BY DEF BInv, FramesOK, FrameInPlace, FrameOK
<1>3. \A k \in DOMAIN stack :
        /\ stack[k].segment \in Interval(arraySize)
        /\ stack[k].todo # {} => /\ ~IsLeaf(stack[k].segment)
                                 /\ NextSide(stack[k]) \in Sides
                                 /\ NextSide(stack[k]) \in stack[k].todo
  BY <1>1 DEF FramesIn, NextSide, Frame, Sides
<1>4. ASSUME NEW k \in DOMAIN stack, NEW m \in DOMAIN stack, k < m
      PROVE  /\ Inside(stack[m].segment, stack[k].segment)
             /\ stack[m].segment # stack[k].segment
             /\ stack[k].todo # {}
  <2>1. /\ stack[k].todo # {}
        /\ Within(stack[m].segment, Half(stack[k].segment, NextSide(stack[k])))
    BY <1>2, <1>4 DEF Nested
  <2>2. Inside(stack[m].segment, stack[k].segment)
    BY <1>3, <2>1 DEF Inside, Half
  <2>3. stack[m].segment # stack[k].segment
    BY <1>1, <1>3, <2>2, InsideFacts
  <2> QED BY <2>1, <2>2, <2>3
<1>5. Len(stack) = 1 => Top.segment = Root(arraySize)
  BY <1>1, <1>2 DEF FrameInPlace
<1>6. ASSUME NEW m \in Nat \ {0}, Len(stack) = m + 1
      PROVE  /\ m \in DOMAIN stack /\ ~IsLeaf(stack[m].segment)
             /\ stack[m] \in Frame /\ stack[m].todo # {}
             /\ NextSide(stack[m]) \in Sides /\ NextSide(stack[m]) \in stack[m].todo
             /\ Top.segment = Half(stack[m].segment, NextSide(stack[m]))
             /\ ~Covers(call.left, call.right, stack[m].segment)
             /\ ~Disjoint(call.left, call.right, Top.segment)
  <2>1. m \in DOMAIN stack /\ m < Len(stack) /\ Len(stack) # 1 /\ Len(stack) - 1 = m
    BY <1>1, <1>6
  <2>2. stack[m].todo # {}
    BY <1>1, <1>4, <2>1
  <2>3. Top.segment = Half(stack[m].segment, NextSide(stack[m]))
    <3>1. FrameInPlace(Len(stack))
      BY <1>1, <1>2
    <3> QED BY <1>1, <2>1, <3>1 DEF FrameInPlace
  <2>4. ~Covers(call.left, call.right, stack[m].segment)
    BY <1>2, <2>1, <2>2 DEF UpdateFrameOK
  <2>5. ~Disjoint(call.left, call.right, Top.segment)
    BY <1>1 DEF UpdateFrameOK
  <2> QED BY <1>1, <1>3, <2>1, <2>2, <2>3, <2>4, <2>5
<1>7. ASSUME ~IsLeaf(Top.segment), NEW side \in Sides
      PROVE  Half(Top.segment, side) \notin OnStack
  <2>1. PICK c, h : c = Top.segment /\ h = Half(c, side)
    OBVIOUS
  <2>2. c \in Interval(arraySize) /\ ~IsLeaf(c) /\ h \in Interval(arraySize)
    BY <1>1, <1>3, <1>7, <2>1, HalfFacts
  <2>3. Within(h, c) /\ Inside(h, c)
    BY <1>1, <2>1, <2>2, InsideFacts DEF Half, Sides
  <2>4. ASSUME NEW k \in DOMAIN stack PROVE stack[k].segment # h
    <3>1. CASE k = Len(stack)
      BY <1>1, <2>1, <2>2, <2>3, <3>1, InsideFacts
    <3>2. CASE k < Len(stack)
      <4>1. Inside(c, stack[k].segment)
        BY <1>1, <1>4, <2>1, <3>2
      <4>2. Inside(h, stack[k].segment)
        BY <1>1, <1>3, <2>2, <2>3, <4>1, InsideFacts
      <4> QED BY <1>1, <1>3, <2>2, <4>2, InsideFacts
    <3> QED BY <1>1, <3>1, <3>2
  <2> QED BY <2>1, <2>4 DEF OnStack
<1> QED BY <1>4, <1>5, <1>6, <1>7

LEMMA DescendVInv == VInv /\ Descend => VInv'
<1> SUFFICES ASSUME VInv, Descend PROVE VInv'
  OBVIOUS
<1>1. BInv /\ BInv'
  BY DescendBInv DEF VInv
<1>2. /\ stack # <<>> /\ Top.todo # {}
      /\ UNCHANGED <<nodes, roots, arraySize, bound, nextBound, newNodes,
                     bufferedThisUpdate, call>>
  BY DEF Descend, published
<1>3. BuildOK'
  <2>1. CallSize' = CallSize
    BY <1>2 DEF CallSize
  <2> QED BY <1>2, <2>1 DEF VInv, BuildOK, BuiltAt
<1>4. ASSUME NEW p, NEW w, VersionOK(Len(roots), p, w), LatestOK(p, w), call.op = "rangeAdd"
      PROVE  AskedFor(w)' /\ (\E q : UpdateTree(p, q))'
  <2>1. /\ call.left \in Int /\ call.right \in Int /\ arraySize \in Nat \ {0} /\ arraySize \in Nat
    BY <1>1, <1>4, RunningUpdate
  <2>2. PICK q : UpdateTree(p, q)
    BY <1>4 DEF LatestOK
  <2>3. PICK side, c, h : /\ side = NextSide(Top) /\ c = Top.segment /\ h = Half(c, side)
    OBVIOUS
  <2>4. /\ stack \in Seq(Frame) /\ Len(stack) \in Nat \ {0} /\ DOMAIN stack = 1 .. Len(stack)
        /\ Len(stack) \in DOMAIN stack /\ Top = stack[Len(stack)]
        /\ FramesIn(stack, arraySize) /\ Top \in Frame /\ UpdateFrameOK(Top)
    BY <1>1, <1>2, <1>4, TopFrame, TypeFacts DEF Top, CallSize, FrameOK
  <2>5. FrameLinked(q, Top) /\ ~IsLeaf(c) /\ c \in Segments(arraySize) /\ c \in Interval(arraySize)
    BY <1>2, <2>2, <2>3, <2>4 DEF UpdateTree, FramesIn, FrameLinked
  <2>6. /\ side \in Top.todo /\ side \in Sides /\ ~Disjoint(call.left, call.right, h)
    <3>1. side \in Top.todo /\ side \in Sides
      BY <1>2, <2>3, <2>4 DEF NextSide, Frame, Sides
    <3>2. /\ "left" \in Top.todo => call.left <= Midpoint(c)
          /\ "right" \in Top.todo => call.right > Midpoint(c)
          /\ ~Disjoint(call.left, call.right, c)
      BY <2>3, <2>4 DEF UpdateFrameOK
    <3>3. side \in MeetingSides(c, call.left, call.right)
      BY <3>1, <3>2 DEF MeetingSides, Sides
    <3> QED BY <2>1, <2>3, <2>5, <3>1, <3>2, <3>3, MeetingHalves
  <2>7. Child(Top, side) = q[h] /\ q[h] \notin Touched
    BY <2>3, <2>5, <2>6 DEF FrameLinked
  <2>8. h \in Segments(arraySize) /\ h \notin OnStack
    <3>1. h \in Segments(arraySize)
      BY <2>1, <2>3, <2>5, <2>6, OneParent
    <3> QED BY <1>1, <1>2, <1>4, <2>3, <2>5, <2>6, <3>1, StackSegments
  <2>9. h \in Interval(arraySize)
    BY <2>1, <2>3, <2>5, <2>6, HalfFacts
  <2>10. ~IsLeaf(h) => HalvesUpdated(q, h)
    BY <2>2, <2>8 DEF UpdateTree
  <2>11. PICK g : g = UpdateFrame(q[h], h, call.left, call.right)
    OBVIOUS
  <2>12. FrameLinked(q, g) /\ g.segment = h
    <3>1. JoinedAt(q, h) \/ IsLeaf(h)
      BY <2>10 DEF HalvesUpdated
    <3>2. /\ g.segment = h /\ g.node = q[h]
          /\ ~IsLeaf(h) => \A s \in Sides :
               /\ NewChild(g, s) = q[Half(h, s)]
               /\ Child(g, s) = NewChild(g, s)
               /\ s \in g.todo <=> /\ ~Covers(call.left, call.right, h)
                                   /\ ~Disjoint(call.left, call.right, Half(h, s))
      BY <2>1, <2>6, <2>9, <2>11, <3>1, FrameStarts
    <3>3. ~IsLeaf(h) => \A s \in Sides : q[Half(h, s)] \notin Touched
      BY <2>7, <2>10 DEF HalvesUpdated
    <3> QED BY <2>8, <3>2, <3>3 DEF FrameLinked
  <2>13. stack' = Append(stack, g)
    BY <1>4, <2>3, <2>7, <2>11 DEF Descend
  <2>14. /\ DOMAIN stack' = 1 .. Len(stack) + 1 /\ stack' # <<>>
         /\ stack'[Len(stack) + 1] = g
         /\ \A k \in DOMAIN stack : stack'[k] = stack[k]
    <3>1. g \in Frame
      <4>1. stack' \in Seq(Frame)
        BY <1>1 DEF BInv, TypeOK
      <4>2. Len(stack') = Len(stack) + 1 /\ stack'[Len(stack) + 1] = g
        BY <2>4, <2>13
      <4>3. Len(stack) + 1 \in 1 .. Len(stack')
        BY <2>4, <4>2
      <4> QED BY <4>1, <4>2, <4>3, ElementOfSeq
    <3> QED BY <2>4, <2>13, <3>1, AppendProperties
  <2>15. OnStack \subseteq OnStack'
    BY <2>4, <2>14 DEF OnStack
  <2>16. /\ Touched' = Touched /\ Len(roots') = Len(roots)
         /\ \A i, v : Label(i, v)' = Label(i, v)
    BY <1>2 DEF Touched, Written, Label
  <2>17. /\ \A x : NodeUpdated(p, q, x) => NodeUpdated(p, q, x)'
         /\ \A x : HalvesUpdated(q, x) => HalvesUpdated(q, x)'
         /\ \A f : FrameLinked(q, f) => FrameLinked(q, f)'
    <3>1. \A x : NodeUpdated(p, q, x) => NodeUpdated(p, q, x)'
      <4>1. \A a, b, x : LabelRaised(a, b, x)' <=> LabelRaised(a, b, x)
        BY <1>2 DEF LabelRaised, Overlap
      <4> SUFFICES ASSUME NEW x, NodeUpdated(p, q, x) PROVE NodeUpdated(p, q, x)'
        OBVIOUS
      <4>2. PICK a, b : a = Label(p[x], Len(roots)) /\ b = Label(q[x], Len(roots) + 1)
        OBVIOUS
      <4>3. Label(p[x], Len(roots))' = a /\ Label(q[x], Len(roots) + 1)' = b
        BY <1>2, <4>2 DEF Label
      <4>4. q[x] \in Touched => LabelRaised(a, b, x)'
        BY <4>1, <4>2 DEF NodeUpdated
      <4> QED BY <2>16, <4>3, <4>4 DEF NodeUpdated
    <3>2. \A x : HalvesUpdated(q, x) => HalvesUpdated(q, x)'
      BY <1>2, <2>16 DEF HalvesUpdated, JoinedAt
    <3>3. \A f : FrameLinked(q, f) => FrameLinked(q, f)'
      BY <1>2, <2>16 DEF FrameLinked, Child
    <3> QED BY <3>1, <3>2, <3>3
  <2>18. (\A k \in DOMAIN stack : FrameLinked(q, stack[k]))'
    <3>1. ASSUME NEW k \in 1 .. Len(stack) + 1, NEW f, f = stack'[k] PROVE FrameLinked(q, f)'
      <4>1. CASE k = Len(stack) + 1
        BY <2>12, <2>14, <2>17, <3>1, <4>1
      <4>2. CASE k \in 1 .. Len(stack)
        <5>1. f = stack[k] /\ FrameLinked(q, f)
          BY <2>2, <2>4, <2>14, <3>1, <4>2 DEF UpdateTree
        <5> QED BY <2>17, <5>1
      <4> QED BY <2>4, <4>1, <4>2
    <3> QED BY <2>14, <3>1
  <2>19. UpdateTree(p, q)'
    <3>1. Placed(q)'
      BY <1>2, <2>2 DEF UpdateTree, Placed
    <3>2. \A x \in Segments(arraySize) :
            /\ NodeUpdated(p, q, x)'
            /\ x \notin OnStack' /\ ~IsLeaf(x) => HalvesUpdated(q, x)'
      BY <2>2, <2>15, <2>17 DEF UpdateTree
    <3> QED BY <1>2, <2>14, <2>18, <3>1, <3>2 DEF UpdateTree
  <2>20. AskedFor(w)'
    BY <1>2, <1>4 DEF LatestOK, AskedFor
  <2> QED BY <2>19, <2>20
<1>5. VersionsOK'
  BY <1>2, <1>4, NothingWritten DEF VInv, VersionsOK
<1> QED BY <1>1, <1>3, <1>5 DEF VInv

-----------------------------------------------------------------------------
(***************************************************************************)
(* A finished frame, whether its node absorbs the change or is copied: one *)
(* more index is touched, the node there is read as changed at the version *)
(* being made, and no node is read differently at a published version.     *)
(***************************************************************************)
Modified(index, u) ==
  /\ BInv /\ Finishing("rangeAdd") /\ u = Len(roots) + 1
  /\ index \in Nat /\ index \in DOMAIN nodes' /\ DOMAIN nodes \subseteq DOMAIN nodes'
  /\ index \in DOMAIN nodes => index = Top.node
  /\ nodes'[index].segment = Top.segment
  /\ ~IsLeaf(Top.segment) => /\ nodes'[index].leftChild = Top.newLeft
                             /\ nodes'[index].rightChild = Top.newRight
  /\ \A i \in DOMAIN nodes : /\ nodes'[i].segment = nodes[i].segment
                             /\ nodes'[i].leftChild = nodes[i].leftChild
                             /\ nodes'[i].rightChild = nodes[i].rightChild
  /\ Label(index, u)' = Changed(Top)
  /\ \A i \in DOMAIN nodes : \A v \in Nat :
       i # index \/ v <= Len(roots) => Label(i, v)' = Label(i, v)
  /\ index \notin Touched /\ Touched' = Touched \cup {index}
  /\ stack' = Resume(stack, index) /\ returned' = index
  /\ UNCHANGED <<roots, arraySize, bound, nextBound, call>>

LEMMA AbsorbModifies ==
  ASSUME BInv, Absorb, NEW u, u = Len(roots) + 1
  PROVE  Modified(Top.node, u)
<1>1. /\ Finishing("rangeAdd") /\ call.op = "rangeAdd" /\ stack # <<>>
      /\ Absorbs(Top)
      /\ nodes' = [nodes EXCEPT ![Top.node].buffer = Append(@, Change(Top))]
      /\ bufferedThisUpdate' = Append(bufferedThisUpdate, Top.node)
      /\ stack' = Resume(stack, Top.node) /\ returned' = Top.node
      /\ UNCHANGED <<roots, arraySize, bound, nextBound, newNodes, call>>
  BY DEF Absorb, Finishing, Recorded, ReturnIndex, published
<1>2. PICK i \in DOMAIN nodes : i = Top.node
  BY <1>1, UpdatedNode
<1>3. PICK m \in Modification : m = Change(Top)
  BY <1>1, UpdatedNode
<1>4. /\ i \in 1 .. call.checkpoint /\ i \in Nat /\ nodes[i] \in Node
      /\ nodes[i].segment = Top.segment
      /\ m.version = u /\ u \in Nat
      /\ call.checkpoint \in 0 .. Len(nodes) /\ Len(roots) \in Nat
      /\ nodes \in Seq(Node) /\ DOMAIN nodes = 1 .. Len(nodes) /\ Len(nodes) \in Nat
      /\ call.version = u
  BY <1>1, <1>2, <1>3, UpdatedNode, TypeFacts
<1>5. i \notin Written
  BY <1>1, <1>2, NotWrittenYet
<1>6. PICK node : node = [nodes[i] EXCEPT !.buffer = Append(nodes[i].buffer, m)]
  OBVIOUS
<1>7. /\ node \in Node /\ node.buffer = Append(nodes[i].buffer, m)
      /\ node.leftChild = nodes[i].leftChild /\ node.rightChild = nodes[i].rightChild
      /\ node.segment = nodes[i].segment
      /\ node.baseSum = nodes[i].baseSum /\ node.baseLazy = nodes[i].baseLazy
  <2>1. Append(nodes[i].buffer, m) \in Seq(Modification)
    BY <1>3, <1>4, EntryFacts, AppendProperties
  <2> QED BY <1>4, <1>6, <2>1 DEF Node
<1>8. /\ DOMAIN nodes' = DOMAIN nodes
      /\ \A j \in DOMAIN nodes : nodes'[j] = IF j = i THEN node ELSE nodes[j]
  <2>1. nodes' = [nodes EXCEPT ![i] = node]
    BY <1>1, <1>2, <1>3, <1>6
  <2>2. /\ [nodes EXCEPT ![i] = node] \in Seq(Node)
        /\ Len([nodes EXCEPT ![i] = node]) = Len(nodes)
        /\ \A j \in 1 .. Len(nodes) :
             [nodes EXCEPT ![i] = node][j] = IF j = i THEN node ELSE nodes[j]
    BY <1>4, <1>7, ExceptSeq
  <2> QED BY <1>4, <2>1, <2>2, LenProperties
<1>9. \A v \in Nat : \A j \in DOMAIN nodes :
        Label(j, v)' = IF j = i THEN After(m, v, Label(i, v)) ELSE Label(j, v)
  <2>1. \A v \in Nat : SnapshotAt(node, v) = After(m, v, SnapshotAt(nodes[i], v))
    BY <1>3, <1>4, <1>7, SnapshotAppended
  <2> QED BY <1>8, <2>1 DEF Label
<1>10. Label(i, u)' = Changed(Top)
  <2>1. Label(i, u)' = After(m, u, Label(i, u))
    BY <1>4, <1>9
  <2>2. After(m, u, Label(i, u)) = [sum  |-> CheckedAdd(Label(i, u).sum, m.deltaSum),
                                    lazy |-> CheckedAdd(Label(i, u).lazy, m.deltaLazy)]
    BY <1>4 DEF After
  <2>3. Label(i, u) = SnapshotAt(nodes[Top.node], call.version)
    BY <1>2, <1>4 DEF Label
  <2> QED BY <1>3, <2>1, <2>2, <2>3 DEF Changed
<1>11. ASSUME NEW j \in DOMAIN nodes, NEW v \in Nat, j # i \/ v <= Len(roots)
       PROVE  Label(j, v)' = Label(j, v)
  <2>1. CASE j # i
    BY <1>9, <2>1
  <2>2. CASE j = i /\ v <= Len(roots)
    <3>1. m.version > v
      BY <1>4, <2>2
    <3> QED BY <1>9, <2>2, <3>1 DEF After
  <2> QED BY <1>11, <2>1, <2>2
<1>12. i \notin Touched /\ Touched' = Touched \cup {i}
  <2>1. Range(bufferedThisUpdate') = Range(bufferedThisUpdate) \cup {i}
    <3>1. bufferedThisUpdate \in Seq(Nat)
      BY TypeFacts
    <3> QED BY <1>1, <1>2, <1>4, <3>1, AppendRange
  <2>2. Written' = Written \cup {i}
    BY <1>1, <2>1 DEF Written
  <2> QED BY <1>1, <1>4, <1>5, <1>8, <2>2 DEF Touched
<1>13. ~IsLeaf(Top.segment) => /\ nodes'[i].leftChild = Top.newLeft
                               /\ nodes'[i].rightChild = Top.newRight
  BY <1>1, <1>2, <1>7, <1>8 DEF Absorbs
<1>14. /\ nodes'[i].segment = Top.segment
       /\ \A j \in DOMAIN nodes : /\ nodes'[j].segment = nodes[j].segment
                                  /\ nodes'[j].leftChild = nodes[j].leftChild
                                  /\ nodes'[j].rightChild = nodes[j].rightChild
  BY <1>4, <1>7, <1>8
<1>15. Modified(i, u)
  BY <1>1, <1>2, <1>4, <1>8, <1>10, <1>11, <1>12, <1>13, <1>14 DEF Modified
<1> QED BY <1>2, <1>15

LEMMA CopyModifies ==
  ASSUME BInv, Copy, NEW u, u = Len(roots) + 1
  PROVE  \E index : Modified(index, u)
<1>1. PICK node \in Node : node = CopiedNode(Top)
  BY UpdatedNode DEF Copy
<1>2. PICK index \in Nat : index = Len(nodes) + 1
  BY TypeFacts
<1>3. node.segment = Top.segment /\ node.buffer = <<>>
  BY <1>1, UpdatedNode DEF Copy
<1>4. /\ nodes \in Seq(Node) /\ DOMAIN nodes = 1 .. Len(nodes) /\ Len(nodes) \in Nat
      /\ Len(roots) \in Nat /\ u \in Nat
  BY TypeFacts
<1>5. nodes' = Append(nodes, node)
  BY <1>1 DEF Copy
<1>6. /\ Len(nodes') = index /\ DOMAIN nodes' = 1 .. index
      /\ \A i \in DOMAIN nodes : i \in DOMAIN nodes' /\ nodes'[i] = nodes[i]
      /\ nodes'[index] = node
  BY <1>1, <1>2, <1>4, <1>5, AppendProperties
<1>7. /\ call.op = "rangeAdd" /\ stack' = Resume(stack, index) /\ returned' = index
      /\ Finishing("rangeAdd")
      /\ UNCHANGED <<roots, arraySize, bound, nextBound, newNodes, bufferedThisUpdate, call>>
  BY <1>6 DEF Copy, Finishing, ReturnIndex, published
<1>8. /\ call.checkpoint \in 0 .. Len(nodes)
      /\ bufferedThisUpdate \in Seq(1 .. call.checkpoint)
  BY <1>7, TypeFacts DEF BInv, RecordOK
<1>9. \A i \in DOMAIN nodes : \A v : Label(i, v)' = Label(i, v)
  BY <1>6 DEF Label
<1>10. Label(index, u)' = Changed(Top)
  <2>1. SnapshotAt(node, u) = [sum |-> node.baseSum, lazy |-> node.baseLazy]
    BY <1>3, SnapshotType
  <2>2. node.baseSum = Changed(Top).sum /\ node.baseLazy = Changed(Top).lazy
    BY <1>1 DEF CopiedNode
  <2>3. Changed(Top) = [sum |-> Changed(Top).sum, lazy |-> Changed(Top).lazy]
    BY DEF Changed
  <2>4. Label(index, u)' = SnapshotAt(node, u)
    BY <1>6 DEF Label
  <2> QED BY <2>1, <2>2, <2>3, <2>4
<1>11. index \notin Touched /\ Touched' = Touched \cup {index}
  <2>1. Written' = Written
    BY <1>7 DEF Written
  <2>2. \A k \in DOMAIN bufferedThisUpdate : bufferedThisUpdate[k] \in 1 .. call.checkpoint
    BY <1>8, ElementOfSeq, LenProperties
  <2>3. index \notin Written
    BY <1>2, <1>4, <1>7, <1>8, <2>2 DEF Written, Range
  <2>4. index \notin DOMAIN nodes /\ index > call.checkpoint
    BY <1>2, <1>4, <1>8
  <2>5. DOMAIN nodes' = DOMAIN nodes \cup {index}
    BY <1>2, <1>4, <1>6
  <2> QED BY <1>7, <2>1, <2>3, <2>4, <2>5 DEF Touched
<1>12. nodes'[index].leftChild = Top.newLeft /\ nodes'[index].rightChild = Top.newRight
  BY <1>1, <1>6 DEF CopiedNode
<1>13. index \notin DOMAIN nodes /\ index \in DOMAIN nodes'
  BY <1>2, <1>4, <1>6
<1>14. Modified(index, u)
  BY <1>3, <1>6, <1>7, <1>9, <1>10, <1>11, <1>12, <1>13 DEF Modified
<1> QED BY <1>14

(* A placement read at a published version reads the same after the frame. *)
LEMMA VersionKept ==
  ASSUME NEW index, NEW u, Modified(index, u),
         NEW v \in Nat, v <= Len(roots), NEW p, NEW w, VersionOK(v, p, w)
  PROVE  VersionOK(v, p, w)'
<1>1. PICK root : root = roots[v]
  OBVIOUS
<1>2. /\ UNCHANGED <<roots, arraySize>> /\ DOMAIN nodes \subseteq DOMAIN nodes'
      /\ \A i \in DOMAIN nodes : /\ nodes'[i].segment = nodes[i].segment
                                 /\ nodes'[i].leftChild = nodes[i].leftChild
                                 /\ nodes'[i].rightChild = nodes[i].rightChild
                                 /\ Label(i, v)' = Label(i, v)
  BY DEF Modified
<1>3. TreeAt(v, root, p, w) /\ Placed(p) /\ \A c \in Segments(arraySize) : p[c] \in DOMAIN nodes
  BY <1>1 DEF VersionOK, TreeAt, Placed
<1>4. Placed(p)' /\ Joined(p)'
  BY <1>2, <1>3 DEF TreeAt, Placed, Joined, JoinedAt
<1>5. PICK L : L = LabelsAt(p, v)
  OBVIOUS
<1>6. LabelsAt(p, v)' = L
  BY <1>2, <1>3, <1>5 DEF LabelsAt
<1>7. TreeAt(v, root, p, w)'
  BY <1>2, <1>3, <1>4, <1>5, <1>6 DEF TreeAt
<1> QED BY <1>1, <1>2, <1>7 DEF VersionOK

(* The label the finished frame gives to the node of its segment. *)
LEMMA NewLabel ==
  ASSUME NEW index, NEW u, Modified(index, u),
         NEW p, NEW q, UpdateTree(p, q), NEW t, t = Top.segment
  PROVE  /\ t \in Segments(arraySize) /\ q[t] = Top.node /\ q[t] \notin Touched
         /\ LabelRaised(Label(p[t], Len(roots)), Changed(Top), t)
         /\ ~IsLeaf(t) => \A side \in Sides :
              /\ NewChild(Top, side) = q[Half(t, side)]
              /\ q[Half(t, side)] \in Touched <=>
                   /\ ~Covers(call.left, call.right, t)
                   /\ ~Disjoint(call.left, call.right, Half(t, side))
<1>1. /\ BInv /\ Finishing("rangeAdd") /\ call.op = "rangeAdd" /\ stack # <<>> /\ Top.todo = {}
      /\ Computed(Top) /\ u = Len(roots) + 1
      /\ index \notin Touched
      /\ index \in DOMAIN nodes => index = Top.node
  BY DEF Modified, Finishing
<1>2. /\ Top = stack[Len(stack)] /\ Len(stack) \in DOMAIN stack
      /\ Top.node \in 1 .. call.checkpoint /\ Top.node \in DOMAIN nodes
      /\ nodes[Top.node] \in Node /\ t \in Interval(arraySize)
      /\ UpdateFrameOK(Top) /\ call.version = u /\ Len(roots) \in Nat
      /\ call.checkpoint \in 0 .. Len(nodes) /\ Len(nodes) \in Nat
  BY <1>1, UpdatedNode, TopFrame, TypeFacts DEF FrameOK, Top
<1>3. /\ call.left \in Int /\ call.right \in Int /\ call.value \in Value /\ call.value \in Int
      /\ call.left <= call.right /\ arraySize \in Nat
  BY <1>1, RunningUpdate
<1>4. FrameLinked(q, Top) /\ t \in Segments(arraySize) /\ q[t] = Top.node
  BY <1>2 DEF UpdateTree, FrameLinked
<1>5. q[t] \notin Touched
  <2>1. Top.node \notin Written
    BY <1>1, NotWrittenYet
  <2> QED BY <1>2, <1>4, <2>1 DEF Touched
<1>6. ~Disjoint(call.left, call.right, t)
  BY <1>2 DEF UpdateFrameOK
<1>7. PICK old : old = Label(p[t], Len(roots))
  OBVIOUS
<1>8. SnapshotAt(nodes[Top.node], call.version) = old
  BY <1>1, <1>2, <1>4, <1>5, <1>7, Untouched DEF Label
<1>9. old.sum \in Int /\ old.lazy \in Int
  BY <1>2, <1>8, SnapshotType, OutcomeFacts DEF Snapshot
<1>10. PICK s, x : s = Change(Top).deltaSum /\ x = Change(Top).deltaLazy
  OBVIOUS
<1>11. /\ s \in Value /\ s \in Int /\ x \in Int /\ s # Overflow
  BY <1>1, <1>10, UpdatedNode, ValueFacts DEF Modification
<1>12. /\ Changed(Top).sum = CheckedAdd(old.sum, s)
       /\ Changed(Top).lazy = CheckedAdd(old.lazy, x)
       /\ Changed(Top).sum # Overflow /\ Changed(Top).lazy # Overflow
  BY <1>1, <1>8, <1>10 DEF Changed, Computed, Readable
<1>13. /\ Changed(Top).sum = old.sum + s /\ Changed(Top).lazy = old.lazy + x
       /\ Changed(Top).sum \in Value /\ Changed(Top).lazy \in Value
  <2>1. CheckedAdd(old.sum, s) = old.sum + s /\ CheckedAdd(old.lazy, x) = old.lazy + x
    BY <1>9, <1>11, <1>12, CheckedAddExact
  <2>2. Changed(Top).sum \in Value /\ Changed(Top).lazy \in Value
    BY <1>12, CheckedAddOutcome, OutcomeValue
  <2> QED BY <1>12, <2>1, <2>2
<1>14. s = call.value * Overlap(t)
  <2>1. PICK k, l : k = Overlap(t) /\ l = CheckedLength(k)
    OBVIOUS
  <2>2. s = CheckedMultiply(call.value, l)
    BY <1>2, <1>10, <2>1 DEF Change
  <2>3. l # Overflow /\ s = call.value * l
    BY <1>11, <2>2 DEF CheckedMultiply
  <2>4. l = k
    BY <2>1, <2>3 DEF CheckedLength
  <2> QED BY <2>1, <2>3, <2>4
<1>15. x = IF Covers(call.left, call.right, t) THEN call.value ELSE 0
  BY <1>10 DEF Change
<1>16. LabelRaised(old, Changed(Top), t)
  BY <1>6, <1>13, <1>14, <1>15 DEF LabelRaised
<1>17. ASSUME ~IsLeaf(t), NEW side \in Sides
       PROVE  /\ NewChild(Top, side) = q[Half(t, side)]
              /\ q[Half(t, side)] \in Touched <=>
                   /\ ~Covers(call.left, call.right, t)
                   /\ ~Disjoint(call.left, call.right, Half(t, side))
  BY <1>1, <1>4, <1>17 DEF FrameLinked
<1> QED BY <1>4, <1>5, <1>7, <1>16, <1>17

-----------------------------------------------------------------------------
(***************************************************************************)
(* The tree of the running update, with the finished frame's node put in   *)
(* the place of its segment.                                               *)
(***************************************************************************)
Moved(q, t, index) == [q EXCEPT ![t] = index]

LEMMA OneBefore ==
  ASSUME NEW n \in Nat \ {0}, n # 1
  PROVE  \E m \in Nat \ {0} : n = m + 1
<1>1. n - 1 \in Nat \ {0} /\ n = (n - 1) + 1
  OBVIOUS
<1> QED BY <1>1

LEMMA ModifiedPlaces ==
  ASSUME NEW index, NEW u, Modified(index, u),
         NEW q, Placed(q), NEW t \in Segments(arraySize), t = Top.segment, q[t] = Top.node,
         NEW next, next = Moved(q, t, index)
  PROVE  /\ Placed(next)'
         /\ next[t] = index /\ next[t] \in Touched'
         /\ \A c \in Segments(arraySize) : c # t =>
              /\ next[c] = q[c] /\ Label(next[c], u)' = Label(q[c], u)
              /\ q[c] \in DOMAIN nodes
              /\ next[c] \in Touched' <=> q[c] \in Touched
<1>1. /\ Touched' = Touched \cup {index} /\ arraySize' = arraySize
      /\ index \in DOMAIN nodes' /\ DOMAIN nodes \subseteq DOMAIN nodes'
      /\ index \in DOMAIN nodes => index = q[t]
      /\ nodes'[index].segment = t
      /\ \A i \in DOMAIN nodes : nodes'[i].segment = nodes[i].segment
      /\ BInv /\ u = Len(roots) + 1
  BY DEF Modified
<1>2. u \in Nat /\ \A i \in DOMAIN nodes : i # index => Label(i, u)' = Label(i, u)
  <2>1. u \in Nat
    BY <1>1, ArraySizeFacts
  <2> QED BY <2>1 DEF Modified
<1>3. /\ q \in [Segments(arraySize) -> DOMAIN nodes]
      /\ \A c \in Segments(arraySize) : nodes[q[c]].segment = c
  BY DEF Placed
<1>4. /\ next \in [Segments(arraySize) -> DOMAIN nodes'] /\ next[t] = index
      /\ \A c \in Segments(arraySize) : c # t => next[c] = q[c]
  BY <1>1, <1>3 DEF Moved
<1>5. \A c \in Segments(arraySize) : c # t => q[c] # index
  BY <1>1, <1>3
<1>6. \A c \in Segments(arraySize) : nodes'[next[c]].segment = c
  <2> SUFFICES ASSUME NEW c \in Segments(arraySize) PROVE nodes'[next[c]].segment = c
    OBVIOUS
  <2>1. CASE c = t
    BY <1>1, <1>4, <2>1
  <2>2. CASE c # t
    BY <1>1, <1>3, <1>4, <2>2
  <2> QED BY <2>1, <2>2
<1>7. Placed(next)'
  BY <1>1, <1>4, <1>6 DEF Placed
<1>8. ASSUME NEW c \in Segments(arraySize), c # t
      PROVE  /\ next[c] = q[c] /\ Label(next[c], u)' = Label(q[c], u)
             /\ q[c] \in DOMAIN nodes
             /\ next[c] \in Touched' <=> q[c] \in Touched
  <2>1. next[c] = q[c] /\ q[c] # index /\ q[c] \in DOMAIN nodes
    BY <1>3, <1>4, <1>5, <1>8
  <2>2. Label(q[c], u)' = Label(q[c], u)
    BY <1>2, <2>1
  <2> QED BY <1>1, <2>1, <2>2
<1> QED BY <1>1, <1>4, <1>7, <1>8

(* The frames of the callers, the innermost of which receives the node. *)
LEMMA ModifiedFrames ==
  ASSUME NEW index, NEW u, Modified(index, u), NEW m \in Nat \ {0}, Len(stack) = m + 1
  PROVE  /\ DOMAIN stack' = 1 .. m /\ stack' # <<>> /\ m \in DOMAIN stack /\ DOMAIN stack = 1 .. m + 1
         /\ stack'[m] = Receive(stack[m], index)
         /\ \A k \in 1 .. m : k # m => stack'[k] = stack[k]
         /\ \A k \in 1 .. m : k \in DOMAIN stack /\ stack'[k].segment = stack[k].segment
         /\ stack[m] \in Frame /\ stack[m].todo # {}
<1>1. /\ BInv /\ call.op = "rangeAdd" /\ stack # <<>>
      /\ stack' = Resume(stack, index) /\ index \in Nat
  BY DEF Modified, Finishing
<1>2. /\ stack \in Seq(Frame) /\ DOMAIN stack = 1 .. m + 1
      /\ \A k \in DOMAIN stack : stack[k] \in Frame
  BY <1>1, TypeFacts
<1>3. m \in DOMAIN stack /\ stack[m].todo # {} /\ stack[m] \in Frame
  BY <1>1, <1>2, StackSegments
<1>4. /\ DOMAIN stack' = 1 .. m /\ stack' # <<>>
      /\ stack'[m] = Receive(stack[m], index)
      /\ \A k \in 1 .. m : k # m => stack'[k] = stack[k]
  <2>1. /\ DOMAIN Resume(stack, index) = 1 .. m /\ Resume(stack, index) # <<>>
        /\ Resume(stack, index)[m] = Receive(stack[m], index)
        /\ \A k \in 1 .. m : k # m => Resume(stack, index)[k] = stack[k]
    BY <1>1, <1>2, <1>3, ResumedStack
  <2> QED BY <1>1, <2>1
<1>5. \A k \in 1 .. m : k \in DOMAIN stack /\ stack'[k].segment = stack[k].segment
  <2>1. stack'[m].segment = stack[m].segment
    BY <1>1, <1>3, <1>4, ReceiveFacts
  <2> QED BY <1>2, <1>4, <2>1
<1> QED BY <1>2, <1>3, <1>4, <1>5

(* A caller's frame stays linked: only the child it waits for has changed. *)
LEMMA ModifiedFrameLinked ==
  ASSUME NEW index, NEW u, Modified(index, u),
         NEW p, NEW q, UpdateTree(p, q), NEW t \in Segments(arraySize), t = Top.segment,
         q[t] = Top.node, NEW next, next = Moved(q, t, index),
         NEW m \in Nat \ {0}, Len(stack) = m + 1, NEW k \in 1 .. m, NEW g, g = stack'[k]
  PROVE  FrameLinked(next, g)'
<1>1. /\ BInv /\ call.op = "rangeAdd" /\ stack # <<>> /\ arraySize \in Nat
      /\ arraySize' = arraySize /\ call' = call /\ index \in Nat
      /\ \A i \in DOMAIN nodes : /\ nodes'[i].leftChild = nodes[i].leftChild
                                 /\ nodes'[i].rightChild = nodes[i].rightChild
  BY ArraySizeFacts DEF Modified, Finishing
<1>2. PICK f, c : f = stack[k] /\ c = f.segment
  OBVIOUS
<1>3. /\ k \in DOMAIN stack /\ DOMAIN stack = 1 .. m + 1 /\ m \in DOMAIN stack
      /\ stack[m] \in Frame /\ stack[m].todo # {}
      /\ g = IF k = m THEN Receive(stack[m], index) ELSE f
  BY <1>2, ModifiedFrames
<1>4. FrameLinked(q, f) /\ c \in Segments(arraySize) /\ f.node = q[c]
  BY <1>2, <1>3 DEF UpdateTree, FrameLinked
<1>5. /\ c # t /\ (k < m => c # stack[m].segment)
      /\ ~IsLeaf(stack[m].segment) /\ NextSide(stack[m]) \in Sides
      /\ t = Half(stack[m].segment, NextSide(stack[m]))
      /\ ~Covers(call.left, call.right, stack[m].segment)
      /\ ~Disjoint(call.left, call.right, t)
  <2>1. Top.segment = stack[m + 1].segment
    BY DEF Top
  <2>2. c # t /\ (k < m => c # stack[m].segment)
    BY <1>1, <1>2, <1>3, <2>1, StackSegments
  <2> QED BY <1>1, <2>2, StackSegments
<1>6. stack[m].segment \in Segments(arraySize)
  BY <1>3 DEF UpdateTree, FrameLinked
<1>7. /\ next[t] = index /\ next[t] \in Touched'
      /\ \A d \in Segments(arraySize) : d # t =>
           /\ next[d] = q[d] /\ q[d] \in DOMAIN nodes
           /\ next[d] \in Touched' <=> q[d] \in Touched
  <2>1. Placed(q)
    BY DEF UpdateTree
  <2> QED BY <2>1, ModifiedPlaces
<1>8. g.segment = c /\ g.node = next[c] /\ g.node = f.node
  <2>1. CASE k = m
    BY <1>1, <1>2, <1>3, <1>4, <1>5, <1>7, <2>1, ReceiveFacts
  <2>2. CASE k # m
    BY <1>2, <1>3, <1>4, <1>5, <1>7, <2>2
  <2> QED BY <2>1, <2>2
<1>9. \A side : Child(g, side)' = Child(f, side)
  BY <1>1, <1>4, <1>5, <1>7, <1>8 DEF Child
<1>10. ASSUME ~IsLeaf(c), NEW side \in Sides, NEW h, h = Half(c, side)
       PROVE  /\ NewChild(g, side) = next[h]
              /\ side \in g.todo => Child(g, side)' = NewChild(g, side)
              /\ next[h] \in Touched' <=>
                   /\ side \notin g.todo /\ ~Covers(call.left, call.right, c)
                   /\ ~Disjoint(call.left, call.right, h)
  <2>1. /\ NewChild(f, side) = q[h]
        /\ side \in f.todo => Child(f, side) = NewChild(f, side)
        /\ q[h] \in Touched <=>
             /\ side \notin f.todo /\ ~Covers(call.left, call.right, c)
             /\ ~Disjoint(call.left, call.right, h)
    BY <1>2, <1>4, <1>10 DEF FrameLinked
  <2>2. h \in Segments(arraySize) /\ (h = t => c = stack[m].segment /\ side = NextSide(stack[m]))
    BY <1>1, <1>4, <1>5, <1>6, <1>10, OneParent
  <2>3. CASE k # m
    <3>1. h # t
      BY <1>5, <2>2, <2>3
    <3> QED BY <1>3, <1>7, <1>9, <2>1, <2>2, <2>3, <3>1
  <2>4. CASE k = m /\ side = NextSide(stack[m])
    <3>1. h = t /\ f = stack[m] /\ c = stack[m].segment
      BY <1>2, <1>5, <1>10, <2>4
    <3>2. NewChild(g, side) = index /\ side \notin g.todo
      <4>1. Receive(stack[m], index).todo = stack[m].todo \ {NextSide(stack[m])}
        BY <1>1, <1>3, ReceiveFacts
      <4>2. NewChild(g, side) = index
        BY <1>1, <1>3, <2>4, ReceiveFacts DEF NewChild, Sides
      <4> QED BY <1>3, <2>4, <4>1, <4>2
    <3> QED BY <1>5, <1>7, <3>1, <3>2
  <2>5. CASE k = m /\ side # NextSide(stack[m])
    <3>1. h # t /\ f = stack[m]
      BY <1>2, <2>2, <2>5
    <3>2. NewChild(g, side) = NewChild(f, side) /\ (side \in g.todo <=> side \in f.todo)
      <4>1. Receive(stack[m], index).todo = stack[m].todo \ {NextSide(stack[m])}
        BY <1>1, <1>3, ReceiveFacts
      <4>2. NewChild(g, side) = NewChild(f, side)
        BY <1>1, <1>3, <1>5, <2>5, <3>1, ReceiveFacts DEF NewChild, Sides
      <4> QED BY <1>3, <2>5, <3>1, <4>1, <4>2
    <3> QED BY <1>7, <1>9, <2>1, <2>2, <3>1, <3>2
  <2> QED BY <2>3, <2>4, <2>5
<1>11. \A side \in Sides : ~IsLeaf(c) =>
         /\ NewChild(g, side) = next[Half(c, side)]
         /\ side \in g.todo => Child(g, side)' = NewChild(g, side)
         /\ next[Half(c, side)] \in Touched' <=>
              /\ side \notin g.todo /\ ~Covers(call.left, call.right, c)
              /\ ~Disjoint(call.left, call.right, Half(c, side))
  BY <1>10
<1> QED BY <1>1, <1>4, <1>8, <1>11 DEF FrameLinked

LEMMA ModifiedTree ==
  ASSUME NEW index, NEW u, Modified(index, u),
         NEW p, NEW w, VersionOK(Len(roots), p, w), NEW q, UpdateTree(p, q)
  PROVE  \E next : UpdateTree(p, next)'
<1>1. /\ BInv /\ call.op = "rangeAdd" /\ stack # <<>> /\ arraySize \in Nat
      /\ u = Len(roots) + 1 /\ Len(roots) \in Nat
      /\ arraySize' = arraySize /\ roots' = roots /\ call' = call
      /\ stack' = Resume(stack, index) /\ returned' = index
      /\ Label(index, u)' = Changed(Top)
  BY ArraySizeFacts DEF Modified, Finishing
<1>2. /\ Len(stack) \in Nat \ {0} /\ DOMAIN stack = 1 .. Len(stack) /\ stack \in Seq(Frame)
      /\ Top = stack[Len(stack)]
  BY <1>1, TopFrame, TypeFacts DEF Top
<1>3. PICK t, state : t = Top.segment /\ state = Changed(Top)
  OBVIOUS
<1>4. PICK old : old = Label(p[t], Len(roots))
  OBVIOUS
<1>5. /\ t \in Segments(arraySize) /\ q[t] = Top.node /\ q[t] \notin Touched
      /\ LabelRaised(old, state, t)
      /\ ~IsLeaf(t) => \A side \in Sides :
           /\ NewChild(Top, side) = q[Half(t, side)]
           /\ q[Half(t, side)] \in Touched <=>
                /\ ~Covers(call.left, call.right, t)
                /\ ~Disjoint(call.left, call.right, Half(t, side))
  BY <1>3, <1>4, NewLabel
<1>6. PICK next : next = Moved(q, t, index)
  OBVIOUS
<1>7. Placed(q) /\ Placed(p)
  BY DEF UpdateTree, VersionOK, TreeAt
<1>8. /\ Placed(next)'
      /\ next[t] = index /\ next[t] \in Touched'
      /\ \A c \in Segments(arraySize) : c # t =>
           /\ next[c] = q[c] /\ Label(next[c], u)' = Label(q[c], u)
           /\ q[c] \in DOMAIN nodes
           /\ next[c] \in Touched' <=> q[c] \in Touched
  BY <1>3, <1>5, <1>6, <1>7, ModifiedPlaces
<1>9. \A c \in Segments(arraySize) : Label(p[c], Len(roots))' = Label(p[c], Len(roots))
  <2>1. PICK v \in Nat : v = Len(roots)
    BY <1>1
  <2>2. \A i \in DOMAIN nodes : Label(i, v)' = Label(i, v)
    BY <2>1 DEF Modified
  <2>3. \A c \in Segments(arraySize) : p[c] \in DOMAIN nodes
    BY <1>7 DEF Placed
  <2>4. \A c \in Segments(arraySize) : Label(p[c], v)' = Label(p[c], v)
    BY <2>2, <2>3
  <2> QED BY <1>1, <2>1, <2>4
<1>10. ASSUME NEW c \in Segments(arraySize)
       PROVE  NodeUpdated(p, next, c)'
  <2>1. PICK a, b : a = Label(p[c], Len(roots)) /\ b = Label(next[c], u)'
    OBVIOUS
  <2>2. Label(p[c], Len(roots))' = a /\ Label(next[c], Len(roots) + 1)' = b
    BY <1>1, <1>9, <2>1
  <2>3. \A x, y : LabelRaised(x, y, c)' <=> LabelRaised(x, y, c)
    BY <1>1 DEF LabelRaised, Overlap
  <2>4. CASE c = t
    <3>1. a = old /\ b = state
      <4>1. PICK x : x = next[c]
        OBVIOUS
      <4>2. x = index
        BY <1>8, <2>4, <4>1
      <4>3. Label(x, u)' = state
        BY <1>1, <1>3, <4>2
      <4> QED BY <1>4, <2>1, <2>4, <4>1, <4>3
    <3>2. LabelRaised(a, b, c)'
      BY <1>5, <2>3, <2>4, <3>1
    <3> QED BY <1>8, <2>2, <2>4, <3>2 DEF NodeUpdated
  <2>5. CASE c # t
    <3>1. NodeUpdated(p, q, c)
      BY DEF UpdateTree
    <3>2. /\ next[c] = q[c] /\ b = Label(q[c], u)
          /\ next[c] \in Touched' <=> q[c] \in Touched
      BY <1>8, <2>1, <2>5
    <3>3. IF next[c] \in Touched' THEN LabelRaised(a, b, c)' ELSE next[c] = p[c]
      BY <1>1, <2>1, <2>3, <3>1, <3>2 DEF NodeUpdated
    <3> QED BY <2>2, <3>3 DEF NodeUpdated
  <2> QED BY <2>4, <2>5
<1>11. OnStack \subseteq OnStack' \cup {t}
  <2>1. CASE Len(stack) = 1
    BY <1>2, <1>3, <2>1 DEF OnStack
  <2>2. CASE Len(stack) # 1
    <3>1. PICK m \in Nat \ {0} : Len(stack) = m + 1
      BY <1>2, <2>2, OneBefore
    <3>2. /\ DOMAIN stack' = 1 .. m
          /\ \A k \in 1 .. m : stack'[k].segment = stack[k].segment
      BY <3>1, ModifiedFrames
    <3>3. \A k \in DOMAIN stack : k = m + 1 \/ k \in 1 .. m
      BY <1>2, <3>1
    <3>4. Top = stack[m + 1]
      BY <1>2, <3>1
    <3>5. ASSUME NEW k \in DOMAIN stack PROVE stack[k].segment \in OnStack' \cup {t}
      <4>1. CASE k = m + 1
        BY <1>3, <3>4, <4>1
      <4>2. CASE k \in 1 .. m
        BY <3>2, <4>2 DEF OnStack
      <4> QED BY <3>3, <4>1, <4>2
    <3> QED BY <3>5 DEF OnStack
  <2> QED BY <2>1, <2>2
<1>12. ASSUME NEW c \in Segments(arraySize), c \notin OnStack', ~IsLeaf(c)
       PROVE  HalvesUpdated(next, c)'
  <2>1. \A side \in Sides : Half(c, side) \in Segments(arraySize) /\ Half(c, side) # c
    BY <1>1, <1>12, OneParent
  <2>2. \A side \in Sides : Half(c, side) # t
    <3> SUFFICES ASSUME NEW side \in Sides, Half(c, side) = t PROVE FALSE
      OBVIOUS
    <3>1. Len(stack) # 1
      <4>1. Half(c, side) # Root(arraySize)
        BY <1>1, <1>12, OneParent
      <4> QED BY <1>1, <1>3, <4>1, StackSegments
    <3>2. PICK m \in Nat \ {0} : Len(stack) = m + 1
      BY <1>2, <3>1, OneBefore
    <3>3. /\ m \in DOMAIN stack /\ ~IsLeaf(stack[m].segment) /\ NextSide(stack[m]) \in Sides
          /\ t = Half(stack[m].segment, NextSide(stack[m]))
      BY <1>1, <1>3, <3>2, StackSegments
    <3>4. stack[m].segment \in Segments(arraySize)
      BY <3>3 DEF UpdateTree, FrameLinked
    <3>5. c = stack[m].segment
      BY <1>1, <1>12, <3>3, <3>4, OneParent
    <3>6. stack[m].segment \in OnStack'
      <4>1. m \in DOMAIN stack' /\ stack'[m].segment = stack[m].segment
        BY <3>2, ModifiedFrames
      <4> QED BY <4>1 DEF OnStack
    <3> QED BY <1>12, <3>5, <3>6
  <2>3. LeftHalf(c) = Half(c, "left") /\ RightHalf(c) = Half(c, "right")
        /\ "left" \in Sides /\ "right" \in Sides
    BY DEF Half, Sides
  <2>4. \A side \in Sides :
          /\ next[Half(c, side)] = q[Half(c, side)]
          /\ next[Half(c, side)] \in Touched' <=> q[Half(c, side)] \in Touched
    BY <1>8, <2>1, <2>2
  <2>5. next[LeftHalf(c)] = q[LeftHalf(c)] /\ next[RightHalf(c)] = q[RightHalf(c)]
    BY <2>3, <2>4
  <2>6. CASE c = t
    <3>1. next[c] = index /\ next[c] \in Touched'
      BY <1>8, <2>6
    <3>2. nodes'[index].leftChild = Top.newLeft /\ nodes'[index].rightChild = Top.newRight
      BY <1>3, <1>12, <2>6 DEF Modified
    <3>3. Top.newLeft = q[LeftHalf(c)] /\ Top.newRight = q[RightHalf(c)]
      BY <1>5, <1>12, <2>3, <2>6 DEF NewChild, Sides
    <3>4. JoinedAt(next, c)'
      BY <2>5, <3>1, <3>2, <3>3 DEF JoinedAt
    <3> QED BY <1>1, <1>5, <1>12, <2>4, <2>6, <3>1, <3>4 DEF HalvesUpdated
  <2>7. CASE c # t
    <3>1. HalvesUpdated(q, c)
      BY <1>11, <1>12, <2>7 DEF UpdateTree
    <3>2. next[c] = q[c] /\ q[c] \in DOMAIN nodes
          /\ (next[c] \in Touched' <=> q[c] \in Touched)
      BY <1>8, <2>7
    <3>3. JoinedAt(next, c)'
      <4>1. nodes'[q[c]].leftChild = nodes[q[c]].leftChild
            /\ nodes'[q[c]].rightChild = nodes[q[c]].rightChild
        BY <3>2 DEF Modified
      <4> QED BY <2>5, <3>1, <3>2, <4>1 DEF JoinedAt, HalvesUpdated
    <3> QED BY <1>1, <2>4, <3>1, <3>2, <3>3 DEF HalvesUpdated
  <2> QED BY <2>6, <2>7
<1>13. (\A k \in DOMAIN stack : FrameLinked(next, stack[k]))'
  <2>1. CASE Len(stack) = 1
    <3>1. stack' = <<>>
      BY <1>1, <1>2, <2>1, ResumedEmpty
    <3>2. DOMAIN stack' = {}
      BY <3>1
    <3> QED BY <3>2
  <2>2. CASE Len(stack) # 1
    <3>1. PICK m \in Nat \ {0} : Len(stack) = m + 1
      BY <1>2, <2>2, OneBefore
    <3>2. DOMAIN stack' = 1 .. m
      BY <3>1, ModifiedFrames
    <3>3. ASSUME NEW k \in 1 .. m, NEW g, g = stack'[k] PROVE FrameLinked(next, g)'
      BY <1>3, <1>5, <1>6, <3>1, <3>3, ModifiedFrameLinked
    <3> QED BY <3>2, <3>3
  <2> QED BY <2>1, <2>2
<1>14. stack' = <<>> => returned' = next[Root(arraySize)] /\ next[Root(arraySize)] \in Touched'
  <2>1. CASE Len(stack) = 1
    BY <1>1, <1>2, <1>3, <1>8, <2>1, StackSegments
  <2>2. CASE Len(stack) # 1
    <3>1. PICK m \in Nat \ {0} : Len(stack) = m + 1
      BY <1>2, <2>2, OneBefore
    <3> QED BY <3>1, ModifiedFrames
  <2> QED BY <2>1, <2>2
<1>15. UpdateTree(p, next)'
  BY <1>1, <1>8, <1>10, <1>12, <1>13, <1>14 DEF UpdateTree
<1> QED BY <1>15

LEMMA ModifiedVInv ==
  ASSUME VInv, BInv', NEW index, NEW u, Modified(index, u)
  PROVE  VInv'
<1>1. /\ BInv /\ u = Len(roots) + 1 /\ call.op = "rangeAdd"
      /\ UNCHANGED <<roots, arraySize, bound, nextBound, call>>
  BY DEF Modified, Finishing
<1>2. Len(roots) \in Nat /\ DOMAIN roots = 1 .. Len(roots) /\ roots # <<>>
  BY <1>1, ArraySizeFacts DEF VInv, VersionsOK
<1>3. ASSUME NEW v \in 1 .. Len(roots) PROVE \E p, w : VersionOK(v, p, w)'
  <2>1. PICK p, w : VersionOK(v, p, w)
    BY <1>2 DEF VInv, VersionsOK
  <2>2. v \in Nat /\ v <= Len(roots)
    BY <1>2
  <2> QED BY <2>1, <2>2, VersionKept
<1>4. PICK p, w : VersionOK(Len(roots), p, w) /\ LatestOK(p, w)
  BY <1>2 DEF VInv, VersionsOK
<1>5. PICK q : UpdateTree(p, q)
  BY <1>1, <1>4 DEF LatestOK
<1>6. PICK next : UpdateTree(p, next)'
  BY <1>4, <1>5, ModifiedTree
<1>7. AskedFor(w)'
  BY <1>1, <1>4 DEF LatestOK, AskedFor
<1>8. LatestOK(p, w)'
  BY <1>1, <1>4, <1>6, <1>7 DEF LatestOK
<1>9. PICK v : v = Len(roots) /\ v' = v
  BY <1>1
<1>10. VersionOK(v, p, w)'
  BY <1>2, <1>4, <1>9, VersionKept
<1>11. (\E x, y : VersionOK(Len(roots), x, y) /\ LatestOK(x, y))'
  BY <1>1, <1>8, <1>9, <1>10
<1>12. BuildOK'
  BY <1>1 DEF BuildOK
<1>13. VersionsOK'
  BY <1>1, <1>2, <1>3, <1>11 DEF VersionsOK
<1> QED BY <1>12, <1>13 DEF VInv

LEMMA UpdateVInv == VInv /\ (Absorb \/ Copy) => VInv'
<1>1. ASSUME VInv, Absorb PROVE VInv'
  <2>1. BInv /\ BInv'
    BY <1>1, AbsorbBInv DEF VInv
  <2> QED BY <1>1, <2>1, AbsorbModifies, ModifiedVInv
<1>2. ASSUME VInv, Copy PROVE VInv'
  <2>1. BInv /\ BInv'
    BY <1>2, CopyBInv DEF VInv
  <2> QED BY <1>2, <2>1, CopyModifies, ModifiedVInv
<1> QED BY <1>1, <1>2

-----------------------------------------------------------------------------
(***************************************************************************)
(* A failed call: the entries an update has taken back were read at no     *)
(* published version, and its copies belonged to none.                     *)
(***************************************************************************)
LEMMA PoppedLabel ==
  ASSUME BInv, call.op = "rangeAdd", nodes' = RolledBack, NEW i \in 1 .. call.checkpoint,
         NEW v \in Nat, v <= Len(roots)
  PROVE  Label(i, v)' = Label(i, v)
<1>1. /\ nodes' \in Seq(Node) /\ DOMAIN nodes' = 1 .. call.checkpoint
      /\ i \in DOMAIN nodes /\ nodes'[i] = [nodes[i] EXCEPT !.buffer = Popped(i)]
      /\ nodes'[i].buffer = Popped(i)
  BY RolledBackNodes
<1>2. PICK old, new : old = nodes[i] /\ new = nodes'[i]
  OBVIOUS
<1>3. old \in Node /\ new \in Node /\ Len(roots) \in Nat /\ BufferOK(i)
  BY <1>1, <1>2, TypeFacts, ElementOfSeq DEF BInv, BuffersOK
<1>4. /\ new.baseSum = old.baseSum /\ new.baseLazy = old.baseLazy
      /\ new.buffer = Popped(i)
  BY <1>1, <1>2, <1>3 DEF Node
<1>5. PICK b \in Seq(Modification) : b = old.buffer
  BY <1>3, EntryFacts
<1>6. PICK n \in Nat : n = Len(b)
  BY LenProperties
<1>7. DOMAIN b = 1 .. n /\ \A k \in 1 .. n : b[k] \in Modification
  BY <1>5, <1>6, LenProperties, ElementOfSeq
<1>8. CASE i \notin Written
  <2>1. Cardinality(Records(i)) = 0
    BY <1>8, RecordedOnce
  <2>2. Popped(i) = SubSeq(b, 1, n)
    BY <1>2, <1>5, <1>6, <2>1 DEF Popped
  <2>3. SubSeq(b, 1, n) \in Seq(Modification) /\ Len(SubSeq(b, 1, n)) = n
        /\ \A k \in 1 .. n : SubSeq(b, 1, n)[k] = b[k]
    BY <1>6, <1>7, SubSeqProperties
  <2>4. SubSeq(b, 1, n) = b
    BY <1>5, <1>6, <2>3, SeqEqual
  <2> QED BY <1>2, <1>3, <1>4, <1>5, <2>2, <2>4, SnapshotsAlike DEF Label
<1>9. CASE i \in Written
  <2>1. Cardinality(Records(i)) = 1
    BY <1>9, RecordedOnce
  <2>2. Pending(b)
    BY <1>2, <1>3, <1>5, <1>9 DEF BufferOK
  <2>3. n # 0
    BY <1>5, <1>6, <2>2, EmptySeq DEF Pending
  <2>4. PICK m \in Nat : n = m + 1
    <3>1. n - 1 \in Nat /\ n = (n - 1) + 1
      BY <2>3
    <3> QED BY <3>1
  <2>5. PICK e \in Modification : e = b[n]
    BY <1>7, <2>3
  <2>6. e.version > v
    BY <1>3, <1>6, <1>7, <2>2, <2>3, <2>5 DEF Pending
  <2>7. PICK c : c = SubSeq(b, 1, m)
    OBVIOUS
  <2>8. Popped(i) = c
    BY <1>2, <1>5, <1>6, <2>1, <2>4, <2>7 DEF Popped
  <2>9. c \in Seq(Modification) /\ Len(c) = m /\ \A k \in 1 .. m : c[k] = b[k]
    <3>1. \A k \in 1 .. m : b[k] \in Modification
      BY <1>7, <2>4
    <3> QED BY <2>4, <2>7, <3>1, SubSeqProperties
  <2>10. b = Append(c, e)
    <3>1. /\ Append(c, e) \in Seq(Modification) /\ Len(Append(c, e)) = n
          /\ \A k \in 1 .. m : Append(c, e)[k] = b[k]
          /\ Append(c, e)[n] = b[n]
      BY <2>4, <2>5, <2>9, AppendProperties
    <3>2. \A k \in 1 .. n : Append(c, e)[k] = b[k]
      BY <2>4, <3>1
    <3> QED BY <1>5, <1>6, <3>1, <3>2, SeqEqual
  <2>11. SnapshotAt(old, v) = After(e, v, SnapshotAt(new, v))
    <3>1. old.buffer = Append(new.buffer, e)
      BY <1>4, <1>5, <2>8, <2>10
    <3> QED BY <1>3, <1>4, <2>5, <3>1, SnapshotAppended
  <2>12. SnapshotAt(old, v) = SnapshotAt(new, v)
    BY <2>6, <2>11 DEF After
  <2> QED BY <1>2, <2>12 DEF Label
<1> QED BY <1>8, <1>9

(* The nodes of a tree are no younger than its root. *)
LEMMA PlacedBelowRoot ==
  ASSUME BInv, arraySize # 0, NEW v, NEW root \in Nat, NEW p, NEW w, TreeAt(v, root, p, w)
  PROVE  \A c \in Segments(arraySize) : p[c] \in 1 .. root
<1>1. arraySize \in Nat /\ arraySize > 0 /\ DOMAIN nodes = 1 .. Len(nodes) /\ Len(nodes) \in Nat
  BY TypeFacts
<1>2. /\ Segments(arraySize) \in SUBSET Interval(arraySize)
      /\ Closed(Segments(arraySize)) /\ Root(arraySize) \in Segments(arraySize)
  BY <1>1, SegmentsClosed
<1>3. /\ \A c \in Segments(arraySize) : p[c] \in DOMAIN nodes /\ nodes[p[c]].segment = c
      /\ p[Root(arraySize)] = root /\ Joined(p)
  BY DEF TreeAt, Placed
<1> DEFINE F == {c \in Segments(arraySize) : p[c] \in 1 .. root}
<1>4. ASSUME NEW c \in F, ~IsLeaf(c) PROVE LeftHalf(c) \in F /\ RightHalf(c) \in F
  <2>1. c \in Segments(arraySize) /\ p[c] \in DOMAIN nodes /\ p[c] \in 1 .. root
    BY <1>3
  <2>2. LinkedAt(nodes, p[c])
    BY <2>1 DEF BInv, TreesLinked, Linked
  <2>3. nodes[p[c]].leftChild \in 1 .. p[c] - 1 /\ nodes[p[c]].rightChild \in 1 .. p[c] - 1
    BY <1>3, <1>4, <2>1, <2>2 DEF LinkedAt
  <2>4. p[LeftHalf(c)] \in 1 .. p[c] - 1 /\ p[RightHalf(c)] \in 1 .. p[c] - 1
    BY <1>3, <1>4, <2>1, <2>3 DEF Joined, JoinedAt
  <2>5. p[LeftHalf(c)] \in 1 .. root /\ p[RightHalf(c)] \in 1 .. root
    BY <2>1, <2>4
  <2>6. LeftHalf(c) \in Segments(arraySize) /\ RightHalf(c) \in Segments(arraySize)
    BY <1>2, <1>4, <2>1 DEF Closed
  <2> QED BY <2>5, <2>6
<1>5. Root(arraySize) \in F
  BY <1>1, <1>2, <1>3
<1>6. F \in SUBSET Interval(arraySize) /\ Closed(F)
  BY <1>2, <1>4 DEF Closed
<1>7. Segments(arraySize) \subseteq F
  <2> HIDE DEF F
  <2> QED BY <1>1, <1>5, <1>6, SegmentsWithin
<1> QED BY <1>7

LEMMA RolledBackVersion ==
  ASSUME BInv, call.op = "rangeAdd", nodes' = RolledBack, UNCHANGED <<roots, arraySize>>,
         NEW v \in DOMAIN roots, NEW p, NEW w, VersionOK(v, p, w)
  PROVE  VersionOK(v, p, w)'
<1>1. /\ v \in Nat /\ v <= Len(roots) /\ roots[v] \in Nat
      /\ arraySize \in Nat \ {0}
  BY RunningUpdate, TypeFacts, ArraySizeFacts
<1>2. PICK root \in Nat : root = roots[v]
  BY <1>1
<1>3. TreeAt(v, root, p, w)
  BY <1>2 DEF VersionOK
<1>4. root <= call.checkpoint /\ call.checkpoint \in Nat
  BY <1>2, TypeFacts DEF BInv, CallOK
<1>5. /\ DOMAIN nodes' = 1 .. call.checkpoint
      /\ \A i \in 1 .. call.checkpoint : /\ nodes'[i].leftChild = nodes[i].leftChild
                                         /\ nodes'[i].rightChild = nodes[i].rightChild
                                         /\ nodes'[i].segment = nodes[i].segment
                                         /\ Label(i, v)' = Label(i, v)
  BY <1>1, RolledBackNodes, PoppedLabel
<1>6. \A c \in Segments(arraySize) : p[c] \in 1 .. call.checkpoint
  <2>1. \A c \in Segments(arraySize) : p[c] \in 1 .. root
    BY <1>1, <1>3, PlacedBelowRoot
  <2> QED BY <1>4, <2>1
<1>7. Placed(p)' /\ Joined(p)'
  <2>1. p \in [Segments(arraySize) -> DOMAIN nodes'] /\ Joined(p)
        /\ \A c \in Segments(arraySize) : nodes[p[c]].segment = c
    BY <1>3, <1>5, <1>6 DEF TreeAt, Placed
  <2> QED BY <1>5, <1>6, <2>1 DEF Placed, Joined, JoinedAt
<1>8. PICK L : L = LabelsAt(p, v)
  OBVIOUS
<1>9. LabelsAt(p, v)' = L
  BY <1>5, <1>6, <1>8 DEF LabelsAt
<1>10. TreeAt(v, root, p, w)'
  BY <1>3, <1>7, <1>8, <1>9 DEF TreeAt
<1> QED BY <1>2, <1>10 DEF VersionOK

LEMMA ThrowVInv == VInv /\ Throw => VInv'
<1> SUFFICES ASSUME VInv, Throw PROVE VInv'
  OBVIOUS
<1>1. BInv /\ BInv'
  BY ThrowBInv DEF VInv
<1>2. /\ call'.op = "idle" /\ UNCHANGED <<roots, arraySize, bound>>
      /\ nodes' = IF call.op = "rangeAdd" THEN RolledBack ELSE nodes
  BY DEF Throw, Idle, published
<1>3. BuildOK'
  BY <1>2 DEF BuildOK
<1>4. CASE call.op # "rangeAdd"
  <2>1. VersionsOK'
    BY <1>2, <1>4, NothingWritten
  <2> QED BY <1>1, <1>3, <2>1 DEF VInv
<1>5. CASE call.op = "rangeAdd"
  <2>1. ASSUME NEW v \in DOMAIN roots, NEW p, NEW w, VersionOK(v, p, w)
        PROVE  VersionOK(v, p, w)'
    BY <1>1, <1>2, <1>5, <2>1, RolledBackVersion
  <2>2. \A v \in DOMAIN roots : \E p, w : VersionOK(v, p, w)'
    BY <2>1 DEF VInv, VersionsOK
  <2>3. Len(roots) \in DOMAIN roots /\ roots # <<>>
    <3>1. roots # <<>> /\ roots \in Seq(Nat)
      BY <1>1, <1>5, TypeFacts DEF VInv, VersionsOK
    <3> QED BY <3>1, EmptySeq, LenProperties
  <2>4. PICK p, w : VersionOK(Len(roots), p, w) /\ LatestOK(p, w)
    BY <2>3 DEF VInv, VersionsOK
  <2>5. PICK v : v = Len(roots) /\ v' = v
    BY <1>2
  <2>6. VersionOK(v, p, w)'
    BY <2>1, <2>3, <2>4, <2>5
  <2>7. LatestOK(p, w)'
    BY <1>2, <2>4 DEF LatestOK
  <2>8. (\E x, y : VersionOK(Len(roots), x, y) /\ LatestOK(x, y))'
    BY <1>2, <2>5, <2>6, <2>7
  <2>9. VersionsOK'
    BY <1>2, <2>2, <2>8 DEF VersionsOK
  <2> QED BY <1>1, <1>3, <2>9 DEF VInv
<1> QED BY <1>4, <1>5

LEMMA StutterVInv == VInv /\ UNCHANGED vars => VInv'
<1> SUFFICES ASSUME VInv, UNCHANGED vars PROVE VInv'
  OBVIOUS
<1>1. BInv'
  BY StutterBInv DEF VInv
<1>2. /\ UNCHANGED <<nodes, roots, arraySize, bound, nextBound, newNodes,
                     bufferedThisUpdate, call, stack, returned>>
  BY DEF vars
<1>3. BuildOK'
  BY <1>2 DEF VInv, BuildOK, BuiltAt, CallSize
<1>4. ASSUME NEW p, NEW w, LatestOK(p, w), call.op = "rangeAdd"
      PROVE  AskedFor(w)' /\ (\E q : UpdateTree(p, q))'
  <2>1. AskedFor(w)'
    BY <1>2, <1>4 DEF LatestOK, AskedFor
  <2>2. PICK q : UpdateTree(p, q)
    BY <1>4 DEF LatestOK
  <2>3. /\ Touched' = Touched /\ Len(roots') = Len(roots) /\ OnStack' = OnStack
        /\ \A i, v : Label(i, v)' = Label(i, v)
    BY <1>2 DEF Touched, Written, Label, OnStack
  <2>4. \A x : NodeUpdated(p, q, x) => NodeUpdated(p, q, x)'
    <3>1. \A a, b, x : LabelRaised(a, b, x)' <=> LabelRaised(a, b, x)
      BY <1>2 DEF LabelRaised, Overlap
    <3> SUFFICES ASSUME NEW x, NodeUpdated(p, q, x) PROVE NodeUpdated(p, q, x)'
      OBVIOUS
    <3>2. PICK a, b : a = Label(p[x], Len(roots)) /\ b = Label(q[x], Len(roots) + 1)
      OBVIOUS
    <3>3. Label(p[x], Len(roots))' = a /\ Label(q[x], Len(roots) + 1)' = b
      BY <1>2, <3>2 DEF Label
    <3>4. q[x] \in Touched => LabelRaised(a, b, x)'
      BY <3>1, <3>2 DEF NodeUpdated
    <3> QED BY <2>3, <3>3, <3>4 DEF NodeUpdated
  <2>5. \A x : HalvesUpdated(q, x) => HalvesUpdated(q, x)'
    BY <1>2, <2>3 DEF HalvesUpdated, JoinedAt
  <2>6. \A f : FrameLinked(q, f) => FrameLinked(q, f)'
    BY <1>2, <2>3 DEF FrameLinked, Child
  <2>7. UpdateTree(p, q)'
    <3>1. Placed(q)'
      BY <1>2, <2>2 DEF UpdateTree, Placed
    <3>2. (\A k \in DOMAIN stack : FrameLinked(q, stack[k]))'
      <4>1. ASSUME NEW k \in DOMAIN stack, NEW f, f = stack[k] PROVE FrameLinked(q, f)'
        BY <2>2, <2>6, <4>1 DEF UpdateTree
      <4> QED BY <1>2, <4>1
    <3> QED BY <1>2, <2>2, <2>3, <2>4, <2>5, <3>1, <3>2 DEF UpdateTree
  <2> QED BY <2>1, <2>7
<1>5. VersionsOK'
  BY <1>2, <1>4, NothingWritten DEF VInv, VersionsOK
<1> QED BY <1>1, <1>3, <1>5 DEF VInv

-----------------------------------------------------------------------------
(***************************************************************************)
(* initialize publishes a whole tree.  Its arena is linked, so that below  *)
(* the node it returns there is one for every segment; they are put        *)
(* together from the leaves up.                                            *)
(***************************************************************************)
Under(n, c) == {d \in Segments(n) : Within(d, c)}

LEMMA UnderFacts ==
  ASSUME NEW n \in Nat, NEW c \in Segments(n)
  PROVE  /\ c \in Under(n, c) /\ c \in Interval(n)
         /\ \A d \in Under(n, c) : ~IsLeaf(d) => LeftHalf(d) \in Under(n, c)
                                                 /\ RightHalf(d) \in Under(n, c)
         /\ IsLeaf(c) => \A d \in Under(n, c) : d = c
<1>1. n > 0 /\ Segments(n) \subseteq Interval(n) /\ Closed(Segments(n))
  <2>1. n # 0
    BY DEF Segments
  <2> QED BY <2>1, SegmentsClosed
<1>2. \A d \in Interval(n) : Within(d, d)
  BY DEF Within, Interval
<1>3. ASSUME NEW d \in Under(n, c), ~IsLeaf(d), NEW h \in {LeftHalf(d), RightHalf(d)}
      PROVE  h \in Under(n, c)
  <2>1. d \in Segments(n) /\ d \in Interval(n) /\ c \in Interval(n) /\ Within(d, c)
    BY <1>1 DEF Under
  <2>2. h \in Segments(n) /\ h \in Interval(n)
    BY <1>1, <1>3, <2>1 DEF Closed
  <2>3. Within(h, d)
    BY <1>3, <2>1, InsideFacts
  <2>4. Within(h, c)
    BY <2>1, <2>2, <2>3, WithinTransitive
  <2> QED BY <2>2, <2>4 DEF Under
<1>4. ASSUME IsLeaf(c), NEW d \in Under(n, c) PROVE d = c
  <2>1. d \in Segments(n) /\ d \in Interval(n) /\ c \in Interval(n) /\ Within(d, c)
    BY <1>1 DEF Under
  <2>2. Laminar(d, c) /\ Within(d, d)
    BY <1>2, <2>1, SegmentsLaminar
  <2>3. ~Apart(d, c)
    BY <2>1, <2>2, InsideFacts
  <2>4. ~Inside(d, c)
    BY <1>4 DEF Inside
  <2>5. Inside(c, d) => c = d
    BY <2>1, InsideFacts
  <2> QED BY <2>2, <2>3, <2>4, <2>5 DEF Laminar
<1>5. c \in Under(n, c)
  BY <1>1, <1>2 DEF Under
<1>6. \A d \in Under(n, c) : ~IsLeaf(d) => LeftHalf(d) \in Under(n, c)
                                           /\ RightHalf(d) \in Under(n, c)
  BY <1>3
<1> QED BY <1>1, <1>4, <1>5, <1>6

LEMMA UnderHalves ==
  ASSUME NEW n \in Nat, NEW c \in Segments(n), ~IsLeaf(c),
         NEW l, l = LeftHalf(c), NEW r, r = RightHalf(c)
  PROVE  /\ l \in Segments(n) /\ r \in Segments(n)
         /\ \A d \in Under(n, c) : d = c \/ d \in Under(n, l) \/ d \in Under(n, r)
         /\ \A d \in Under(n, l) : d \in Under(n, c) /\ d # c /\ d \notin Under(n, r)
         /\ \A d \in Under(n, r) : d \in Under(n, c) /\ d # c /\ d \notin Under(n, l)
<1>1. /\ Segments(n) \subseteq Interval(n) /\ Closed(Segments(n))
      /\ l \in Segments(n) /\ r \in Segments(n)
  <2>1. n > 0
    BY DEF Segments
  <2>2. Segments(n) \subseteq Interval(n) /\ Closed(Segments(n))
    BY <2>1, SegmentsClosed
  <2> QED BY <2>2 DEF Closed
<1>2. c \in Interval(n) /\ l \in Interval(n) /\ r \in Interval(n)
  BY <1>1
<1>3. \A d \in Interval(n) : Within(d, d)
  BY DEF Within, Interval
<1>4. ASSUME NEW d \in Under(n, c)
      PROVE  d = c \/ d \in Under(n, l) \/ d \in Under(n, r)
  <2>1. d \in Segments(n) /\ d \in Interval(n) /\ Within(d, c)
    BY <1>1 DEF Under
  <2>2. Laminar(d, c) /\ Within(d, d)
    BY <1>3, <2>1, SegmentsLaminar
  <2>3. ~Apart(d, c)
    BY <1>2, <2>1, <2>2, InsideFacts
  <2>4. Inside(c, d) => c = d
    BY <1>2, <2>1, InsideFacts
  <2>5. Inside(d, c) => Within(d, l) \/ Within(d, r)
    BY DEF Inside
  <2> QED BY <2>1, <2>2, <2>3, <2>4, <2>5 DEF Laminar, Under
<1>5. ASSUME NEW d \in Segments(n), Within(d, l) \/ Within(d, r)
      PROVE  Within(d, c) /\ d # c /\ ~(Within(d, l) /\ Within(d, r))
  <2>1. d \in Interval(n) /\ Within(d, d)
    BY <1>1, <1>3
  <2>2. Inside(d, c)
    BY <1>5 DEF Inside
  <2>3. Within(d, c) /\ d # c
    BY <1>2, <2>1, <2>2, InsideFacts
  <2>4. Within(d, l) => Apart(d, r)
    BY <1>2, <2>1, InsideFacts
  <2>5. Within(d, r) => ~Apart(d, r)
    BY <1>2, <2>1, InsideFacts
  <2> QED BY <2>3, <2>4, <2>5
<1> QED BY <1>1, <1>4, <1>5 DEF Under

PlacedBelow(arena, n, c, f) ==
  /\ f \in [Under(n, c) -> DOMAIN arena]
  /\ \A d \in Under(n, c) :
       /\ arena[f[d]].segment = d
       /\ ~IsLeaf(d) => /\ arena[f[d]].leftChild = f[LeftHalf(d)]
                        /\ arena[f[d]].rightChild = f[RightHalf(d)]

LEMMA PlacedTogether ==
  ASSUME NEW arena, NEW n \in Nat, NEW c \in Segments(n), ~IsLeaf(c),
         NEW l, l = LeftHalf(c), NEW r, r = RightHalf(c),
         NEW i \in DOMAIN arena, arena[i].segment = c,
         NEW g, PlacedBelow(arena, n, l, g), arena[i].leftChild = g[l],
         NEW h, PlacedBelow(arena, n, r, h), arena[i].rightChild = h[r]
  PROVE  \E f : PlacedBelow(arena, n, c, f) /\ f[c] = i
<1>1. /\ l \in Segments(n) /\ r \in Segments(n)
      /\ \A d \in Under(n, c) : d = c \/ d \in Under(n, l) \/ d \in Under(n, r)
      /\ \A d \in Under(n, l) : d \in Under(n, c) /\ d # c /\ d \notin Under(n, r)
      /\ \A d \in Under(n, r) : d \in Under(n, c) /\ d # c /\ d \notin Under(n, l)
  BY UnderHalves
<1>2. c \in Under(n, c) /\ l \in Under(n, l) /\ r \in Under(n, r)
  BY <1>1, UnderFacts
<1>3. PICK f : f = [d \in Under(n, c) |-> IF d = c THEN i
                                          ELSE IF d \in Under(n, l) THEN g[d] ELSE h[d]]
  OBVIOUS
<1>4. /\ f[c] = i
      /\ \A d \in Under(n, l) : f[d] = g[d]
      /\ \A d \in Under(n, r) : f[d] = h[d]
  BY <1>1, <1>2, <1>3
<1>5. f \in [Under(n, c) -> DOMAIN arena]
  <2>1. \A d \in Under(n, l) : g[d] \in DOMAIN arena
    BY DEF PlacedBelow
  <2>2. \A d \in Under(n, r) : h[d] \in DOMAIN arena
    BY DEF PlacedBelow
  <2> QED BY <1>1, <1>3, <2>1, <2>2
<1>6. ASSUME NEW d \in Under(n, c)
      PROVE  /\ arena[f[d]].segment = d
             /\ ~IsLeaf(d) => /\ arena[f[d]].leftChild = f[LeftHalf(d)]
                              /\ arena[f[d]].rightChild = f[RightHalf(d)]
  <2>1. CASE d = c
    BY <1>2, <1>4, <2>1
  <2>2. CASE d \in Under(n, l)
    <3>1. ~IsLeaf(d) => LeftHalf(d) \in Under(n, l) /\ RightHalf(d) \in Under(n, l)
      BY <1>1, <2>2, UnderFacts
    <3> QED BY <1>4, <2>2, <3>1 DEF PlacedBelow
  <2>3. CASE d \in Under(n, r)
    <3>1. ~IsLeaf(d) => LeftHalf(d) \in Under(n, r) /\ RightHalf(d) \in Under(n, r)
      BY <1>1, <2>3, UnderFacts
    <3> QED BY <1>4, <2>3, <3>1 DEF PlacedBelow
  <2> QED BY <1>1, <2>1, <2>2, <2>3
<1> QED BY <1>4, <1>5, <1>6 DEF PlacedBelow

LEMMA LinkedTrees ==
  ASSUME NEW arena, Linked(arena), NEW n \in Nat, NEW size \in Nat, DOMAIN arena = 1 .. size
  PROVE  \A c \in Segments(n) : \A i \in DOMAIN arena :
           arena[i].segment = c => \E f : PlacedBelow(arena, n, c, f) /\ f[c] = i
<1> DEFINE T == {c \in Segments(n) : \A i \in DOMAIN arena :
                   arena[i].segment = c => \E f : PlacedBelow(arena, n, c, f) /\ f[c] = i}
<1>1. ASSUME NEW c \in Segments(n), IsLeaf(c) \/ (LeftHalf(c) \in T /\ RightHalf(c) \in T)
      PROVE  c \in T
  <2> SUFFICES ASSUME NEW i \in DOMAIN arena, arena[i].segment = c
               PROVE  \E f : PlacedBelow(arena, n, c, f) /\ f[c] = i
    OBVIOUS
  <2>1. CASE IsLeaf(c)
    <3>1. c \in Under(n, c) /\ \A d \in Under(n, c) : d = c
      BY <2>1, UnderFacts
    <3>2. PICK f : f = [d \in Under(n, c) |-> i]
      OBVIOUS
    <3>3. PlacedBelow(arena, n, c, f)
      BY <2>1, <3>1, <3>2 DEF PlacedBelow
    <3> QED BY <3>1, <3>2, <3>3
  <2>2. CASE ~IsLeaf(c)
    <3>1. PICK l, r, j, k : /\ l = LeftHalf(c) /\ r = RightHalf(c)
                            /\ j = arena[i].leftChild /\ k = arena[i].rightChild
      OBVIOUS
    <3>2. /\ j \in DOMAIN arena /\ k \in DOMAIN arena
          /\ arena[j].segment = l /\ arena[k].segment = r
      <4>1. LinkedAt(arena, i) /\ i \in Nat /\ i <= size
        BY DEF Linked
      <4>2. j \in 1 .. i - 1 /\ k \in 1 .. i - 1 /\ arena[j].segment = l /\ arena[k].segment = r
        BY <2>2, <3>1, <4>1 DEF LinkedAt
      <4> QED BY <4>1, <4>2
    <3>3. l \in T /\ r \in T
      BY <1>1, <2>2, <3>1
    <3>4. PICK g : PlacedBelow(arena, n, l, g) /\ g[l] = j
      BY <3>2, <3>3
    <3>5. PICK h : PlacedBelow(arena, n, r, h) /\ h[r] = k
      BY <3>2, <3>3
    <3> HIDE DEF T
    <3> QED BY <2>2, <3>1, <3>4, <3>5, PlacedTogether
  <2> QED BY <2>1, <2>2
<1>2. Segments(n) \subseteq T
  <2> HIDE DEF T
  <2> QED BY <1>1, PartitionInduction
<1> QED BY <1>2

LEMMA BuiltPlaces ==
  ASSUME VInv, PublishInitial, NEW values, values = call.values, NEW n, n = Len(values)
  PROVE  \E p :
           /\ p \in [Segments(n) -> DOMAIN newNodes]
           /\ \A c \in Segments(n) :
                /\ newNodes[p[c]].segment = c
                /\ ~IsLeaf(c) => /\ newNodes[p[c]].leftChild = p[LeftHalf(c)]
                                 /\ newNodes[p[c]].rightChild = p[RightHalf(c)]
           /\ n # 0 => p[Root(n)] = returned
<1>1. /\ BInv /\ call.op = "initialize" /\ stack = <<>> /\ CallSize = n
      /\ values \in Seq(Value) /\ n \in Nat /\ Len(newNodes) \in Nat
      /\ DOMAIN newNodes = 1 .. Len(newNodes) /\ Linked(newNodes)
  <2>1. BInv /\ call.op = "initialize" /\ stack = <<>>
    BY DEF VInv, PublishInitial
  <2>2. values \in Seq(Value) /\ Len(newNodes) \in Nat /\ DOMAIN newNodes = 1 .. Len(newNodes)
    BY <2>1, TypeFacts
  <2>3. n \in Nat
    BY <2>2, LenProperties
  <2> QED BY <2>1, <2>2, <2>3 DEF CallSize, BInv, TreesLinked
<1>2. CASE n = 0
  <2>1. Segments(n) = {}
    BY <1>2 DEF Segments
  <2>2. [c \in {} |-> 0] \in [Segments(n) -> DOMAIN newNodes]
    BY <2>1
  <2> QED BY <1>2, <2>1, <2>2
<1>3. CASE n # 0
  <2>1. ChildOK(newNodes, returned, Root(n))
    <3>1. values # <<>>
      BY <1>3
    <3> QED BY <1>1, <3>1 DEF BInv, CallOK
  <2>2. Root(n) \in Segments(n)
    BY <1>1, <1>3, RootOfSegments
  <2>3. PICK p : PlacedBelow(newNodes, n, Root(n), p) /\ p[Root(n)] = returned
    BY <1>1, <2>1, <2>2, LinkedTrees DEF ChildOK
  <2>4. Under(n, Root(n)) = Segments(n)
    <3>1. Segments(n) \subseteq Interval(n)
      BY <1>1, <1>3, SegmentsClosed
    <3>2. \A c \in Interval(n) : Within(c, Root(n))
      BY DEF Within, Interval, Root
    <3> QED BY <3>1, <3>2 DEF Under
  <2> QED BY <2>3, <2>4 DEF PlacedBelow
<1> QED BY <1>2, <1>3

LEMMA InitialTree ==
  ASSUME VInv, PublishInitial, NEW values, values = call.values, NEW root, root = returned
  PROVE  /\ \E p : TreeAt(1, root, p, values)'
         /\ values \in Seq(Value) /\ Admissible(values)
<1>1. /\ BInv /\ call.op = "initialize" /\ nodes' = newNodes /\ arraySize' = Len(values)
      /\ values \in Seq(Value) /\ Len(values) \in Nat /\ CallSize = Len(values)
      /\ \A i \in DOMAIN newNodes :
           newNodes[i] \in Node /\ newNodes[i].buffer = <<>> /\ BuiltAt(i)
  <2>1. BInv /\ call.op = "initialize" /\ nodes' = newNodes /\ arraySize' = Len(values)
    BY DEF VInv, PublishInitial
  <2>2. values \in Seq(Value)
    BY <2>1, TypeFacts
  <2>3. \A i \in DOMAIN newNodes : newNodes[i].buffer = <<>> /\ BuiltAt(i)
    BY <2>1 DEF BInv, BuffersOK, VInv, BuildOK
  <2> QED BY <2>1, <2>2, <2>3, LenProperties, TypeFacts DEF CallSize
<1>2. PICK n \in Nat : n = Len(values)
  BY <1>1
<1>3. PICK p :
        /\ p \in [Segments(n) -> DOMAIN newNodes]
        /\ \A c \in Segments(n) :
             /\ newNodes[p[c]].segment = c
             /\ ~IsLeaf(c) => /\ newNodes[p[c]].leftChild = p[LeftHalf(c)]
                              /\ newNodes[p[c]].rightChild = p[RightHalf(c)]
        /\ n # 0 => p[Root(n)] = returned
  BY <1>2, BuiltPlaces
<1>4. PICK base : base = [c \in Segments(n) |-> newNodes[p[c]].baseSum]
  OBVIOUS
<1>5. ASSUME NEW c \in Segments(n)
      PROVE  /\ p[c] \in DOMAIN newNodes /\ newNodes[p[c]] \in Node
             /\ newNodes[p[c]].baseSum = base[c] /\ newNodes[p[c]].baseLazy = 0
             /\ base[c] \in Value /\ base[c] \in Int
             /\ c \in Interval(n) /\ Length(c) \in Nat
             /\ IsLeaf(c) => base[c] = values[c[1]]
             /\ ~IsLeaf(c) => /\ LeftHalf(c) \in Segments(n) /\ RightHalf(c) \in Segments(n)
                              /\ base[c] = base[LeftHalf(c)] + base[RightHalf(c)]
  <2>1. p[c] \in DOMAIN newNodes
    BY <1>3
  <2>2. BuiltAt(p[c]) /\ newNodes[p[c]] \in Node
    BY <1>1, <2>1
  <2>3. base[c] = newNodes[p[c]].baseSum
    BY <1>4
  <2>4. /\ newNodes[p[c]].baseLazy = 0 /\ base[c] \in Value
        /\ IsLeaf(c) => base[c] = values[c[1]]
        /\ ~IsLeaf(c) => base[c] = newNodes[p[LeftHalf(c)]].baseSum
                                   + newNodes[p[RightHalf(c)]].baseSum
    BY <1>1, <1>3, <2>2, <2>3 DEF BuiltAt
  <2>5. /\ c \in Interval(n)
        /\ ~IsLeaf(c) => LeftHalf(c) \in Segments(n) /\ RightHalf(c) \in Segments(n)
    <3>1. n > 0
      BY DEF Segments
    <3> QED BY <3>1, SegmentsClosed DEF Closed
  <2>6. Length(c) \in Nat
    BY <2>5, Halves
  <2> QED BY <1>4, <2>1, <2>2, <2>3, <2>4, <2>5, <2>6, ValueFacts
<1>6. Admissible(values)
  <2> DEFINE T == {c \in Segments(n) : CanonicalSum(values)[c] = base[c]}
  <2>1. \A q \in 1 .. Len(values) : values[q] \in Int
    BY <1>1, ElementOfSeq, LenProperties, ValueFacts
  <2>2. \A c \in Interval(n) :
          CanonicalSum(values)[c] =
            IF IsLeaf(c) THEN values[c[1]]
            ELSE CheckedAdd(CanonicalSum(values)[LeftHalf(c)],
                            CanonicalSum(values)[RightHalf(c)])
    BY <1>2, <2>1, CanonicalSumStep
  <2>3. ASSUME NEW c \in Segments(n), IsLeaf(c) \/ (LeftHalf(c) \in T /\ RightHalf(c) \in T)
        PROVE  c \in T
    <3>1. CASE IsLeaf(c)
      BY <1>5, <2>2, <3>1
    <3>2. CASE ~IsLeaf(c)
      <4>1. CanonicalSum(values)[c] = CheckedAdd(base[LeftHalf(c)], base[RightHalf(c)])
        BY <1>5, <2>2, <2>3, <3>2
      <4>2. PICK x, y, z \in Int : x = base[LeftHalf(c)] /\ y = base[RightHalf(c)] /\ z = base[c]
        BY <1>5, <3>2
      <4>3. z = x + y /\ z \in Value /\ x # Overflow /\ y # Overflow
        BY <1>5, <3>2, <4>2, ValueFacts
      <4>4. CheckedAdd(x, y) = z
        BY <4>3 DEF CheckedAdd, Representable
      <4> QED BY <4>1, <4>2, <4>4
    <3> QED BY <3>1, <3>2
  <2>4. Segments(n) \subseteq T
    <3> HIDE DEF T
    <3> QED BY <2>3, PartitionInduction
  <2>5. ASSUME values # <<>> PROVE CanonicalSum(values)[Root(n)] # Overflow
    <3>1. n # 0
      BY <1>1, <1>2, <2>5, EmptySeq
    <3>2. Root(n) \in Segments(n)
      BY <3>1, RootOfSegments
    <3> QED BY <1>5, <2>4, <3>2, ValueFacts
  <2> QED BY <1>2, <2>5 DEF Admissible
<1>7. PICK L : L = [c \in Segments(n) |-> [sum |-> base[c], lazy |-> 0]]
  OBVIOUS
<1>8. Labelled(n, L)
  <2>1. ASSUME NEW c \in Segments(n), ~IsLeaf(c)
        PROVE  SumOK(L[c], L[LeftHalf(c)], L[RightHalf(c)], Length(c))
    <3>1. PICK x, y, z \in Int : x = base[LeftHalf(c)] /\ y = base[RightHalf(c)] /\ z = base[c]
      BY <1>5, <2>1
    <3>2. /\ L[c].sum = z /\ L[c].lazy = 0
          /\ L[LeftHalf(c)].sum = x /\ L[RightHalf(c)].sum = y
      BY <1>5, <1>7, <2>1, <3>1
    <3>3. z = x + y
      BY <1>5, <2>1, <3>1
    <3>4. PICK len \in Nat : len = Length(c)
      BY <1>5
    <3> QED BY <3>2, <3>3, <3>4 DEF SumOK
  <2> QED BY <1>5, <1>7, <2>1, ValueFacts DEF Labelled
<1>9. TreeOf(n, L, values)
  <2>1. \A c \in Segments(n) : IF IsLeaf(c) THEN L[c].sum = values[c[1]] ELSE L[c].lazy = 0
    BY <1>5, <1>7
  <2> QED BY <1>1, <1>2, <1>8, <2>1, UntaggedTreeOf
<1>10. LabelsAt(p, 1)' = L
  <2>1. ASSUME NEW c \in Segments(n)
        PROVE  SnapshotAt(newNodes[p[c]], 1) = [sum |-> base[c], lazy |-> 0]
    BY <1>1, <1>5, SnapshotType
  <2>2. LabelsAt(p, 1)' = [c \in Segments(n) |-> SnapshotAt(newNodes[p[c]], 1)]
    BY <1>1, <1>2 DEF LabelsAt, Label
  <2> QED BY <1>7, <2>1, <2>2
<1>11. Placed(p)' /\ Joined(p)'
  BY <1>1, <1>2, <1>3 DEF Placed, Joined, JoinedAt
<1>12. TreeOf(arraySize, LabelsAt(p, 1), values)'
  BY <1>1, <1>2, <1>9, <1>10
<1>13. TreeAt(1, root, p, values)'
  <2>1. n # 0 => p[Root(n)] = root
    BY <1>3
  <2> QED BY <1>1, <1>2, <1>11, <1>12, <2>1 DEF TreeAt
<1> QED BY <1>1, <1>6, <1>13

LEMMA PublishInitialVInv ==
  ASSUME VInv, PublishInitial, NEW values, values = call.values
  PROVE  /\ VInv' /\ values \in Seq(Value) /\ Admissible(values)
         /\ (\E p : VersionOK(1, p, values))' /\ Len(roots') = 1 /\ DOMAIN roots' = {1}
<1>1. /\ roots' = <<returned>> /\ bound' = MaxMagnitude(values)
      /\ call' = Idle /\ call'.op = "idle"
  BY DEF PublishInitial, Idle
<1>2. BInv' /\ BuildOK'
  <2>1. BInv'
    BY PublishInitialBInv DEF VInv
  <2> QED BY <1>1, <2>1 DEF BuildOK
<1>3. PICK root : root = returned
  OBVIOUS
<1>4. values \in Seq(Value) /\ Admissible(values) /\ \E p : TreeAt(1, root, p, values)'
  BY <1>3, InitialTree
<1>5. PICK p : TreeAt(1, root, p, values)'
  BY <1>4
<1>6. Len(roots') = 1 /\ DOMAIN roots' = {1} /\ roots'[1] = root
  BY <1>1, <1>3
<1>7. VersionOK(1, p, values)'
  BY <1>5, <1>6 DEF VersionOK
<1>8. LatestOK(p, values)'
  <2>1. MaxMagnitude(values) <= MaxMagnitude(values)
    <3>1. \A i \in DOMAIN values : values[i] \in Outcome
      BY <1>4, LenProperties, ElementOfSeq, OutcomeFacts
    <3>2. MaxMagnitude(values) \in Bound
      BY <3>1, MaxMagnitudeFacts
    <3> QED BY <3>2 DEF Bound
  <2> QED BY <1>1, <1>4, <2>1 DEF LatestOK
<1>9. VersionsOK'
  BY <1>1, <1>6, <1>7, <1>8 DEF VersionsOK
<1> QED BY <1>2, <1>4, <1>6, <1>7, <1>9 DEF VInv

-----------------------------------------------------------------------------
(***************************************************************************)
(* The results about the published versions.                               *)
(***************************************************************************)
LEMMA NextVInv == VInv /\ [Next]_vars => VInv'
<1> SUFFICES ASSUME VInv, [Next]_vars PROVE VInv'
  OBVIOUS
<1>1. ASSUME NEW values \in Arrays, BeginInitialize(values) PROVE VInv'
  BY <1>1, BeginInitializeVInv
<1>2. CASE RangeAddZero
  BY <1>2, RangeAddZeroVInv
<1>3. ASSUME NEW left \in 1 .. arraySize, NEW right \in 1 .. arraySize, NEW value \in Deltas,
             BeginRangeAdd(left, right, value)
      PROVE  VInv'
  BY <1>3, BeginRangeAddVInv
<1>4. CASE PublishInitial
  BY <1>4, PublishInitialVInv
<1>5. ASSUME Step, ~PublishInitial PROVE VInv'
  BY <1>5, DescendVInv, ReturnBuiltVInv, UpdateVInv, PublishVersionVInv, ThrowVInv DEF Step
<1>6. CASE UNCHANGED vars
  BY <1>6, StutterVInv
<1> QED BY <1>1, <1>2, <1>3, <1>4, <1>5, <1>6 DEF Next, Step

(***************************************************************************)
(* Every version stands for an array, whatever calls and failures came     *)
(* before: its nodes, read at its stamp, are a tree of the array, and no   *)
(* entry made since, pending or published, shows in it.                    *)
(***************************************************************************)
THEOREM VersionsInvariant == Spec => []VInv
<1>1. Init => VInv
  BY InitVInv
<1>2. VInv /\ [Next]_vars => VInv'
  BY NextVInv
<1> QED BY <1>1, <1>2, PTL DEF Spec

(***************************************************************************)
(* Every published version is a whole tree when its nodes are read at that *)
(* version, whatever younger entries they hold and also while an update    *)
(* writes to them.                                                         *)
(***************************************************************************)
THEOREM SnapshotsStayConsistent == Spec => []SnapshotsConsistent
<1>1. ASSUME VInv PROVE SnapshotsConsistent
  <2>1. TypeOK
    BY <1>1, ArraySizeFacts DEF VInv
  <2>2. ASSUME NEW v \in DOMAIN roots PROVE ConsistentAt(v)
    <3>1. PICK p, w : VersionOK(v, p, w)
      BY <1>1 DEF VInv, VersionsOK
    <3> QED BY <2>1, <3>1, VersionConsistent
  <2> QED BY <2>2 DEF SnapshotsConsistent
<1> QED BY <1>1, VersionsInvariant, PTL

(***************************************************************************)
(* What materialize and rangeSum read of any published version is exact or *)
(* reports an overflow.                                                    *)
(***************************************************************************)
THEOREM VersionQueriesExact == Spec => []QueriesExact
<1>1. ASSUME VInv PROVE QueriesExact
  <2>1. TypeOK /\ arraySize \in Nat
    BY <1>1, ArraySizeFacts DEF VInv
  <2>2. ASSUME NEW v \in DOMAIN roots, NEW right \in 1 .. arraySize
        PROVE  /\ Materialize(roots[v], v)[right] \in {Versions[v][right], Overflow}
               /\ \A left \in 1 .. right :
                    RangeSum(v, left, right) \in {ExactSum(Versions[v], left, right), Overflow}
    <3>1. PICK p, w : VersionOK(v, p, w)
      BY <1>1 DEF VInv, VersionsOK
    <3>2. Versions[v] = w
      BY <2>1, <3>1, ElementsAre DEF Versions
    <3>3. Materialize(roots[v], v)[right] \in {w[right], Overflow}
      <4>1. arraySize # 0
        BY <2>1
      <4>2. PICK root : root = roots[v]
        OBVIOUS
      <4>3. TreeAt(v, root, p, w)
        BY <3>1, <4>2 DEF VersionOK
      <4>4. Materialize(root, v)[right] \in {Overflow, w[right]}
        BY <2>1, <4>1, <4>3, MaterializeReads
      <4> QED BY <4>2, <4>4
    <3>4. ASSUME NEW left \in 1 .. right
          PROVE  RangeSum(v, left, right) \in {ExactSum(w, left, right), Overflow}
      <4>1. left \in 1 .. arraySize /\ right \in left .. arraySize
        BY <2>1
      <4> QED BY <2>1, <3>1, <4>1, VersionSums
    <3> QED BY <3>2, <3>3, <3>4
  <2> QED BY <2>2 DEF QueriesExact
<1> QED BY <1>1, VersionsInvariant, PTL

-----------------------------------------------------------------------------
(***************************************************************************)
(* The refinement.                                                         *)
(***************************************************************************)
LEMMA ReferenceOperators ==
  ASSUME NEW values, NEW left, NEW right, NEW value
  PROVE  /\ Reference!Admissible(values) <=> Admissible(values)
         /\ Reference!AddToRange(values, left, right, value)
              = AddToRange(values, left, right, value)
<1>1. Reference!Admissible(values) <=> Admissible(values)
  BY DEF Reference!Admissible, Reference!CanonicalSum, Reference!Interval,
         Reference!IsLeaf, Reference!CheckedAdd, Reference!Root, Reference!Overflow,
         Reference!Value, Reference!Representable, Reference!LeftHalf,
         Reference!RightHalf, Reference!Midpoint, Reference!MinVal,
         Admissible, CanonicalSum, Interval, IsLeaf, CheckedAdd, Root, Overflow,
         Value, Representable, LeftHalf, RightHalf, Midpoint, MinVal
<1>2. \A x, y : Reference!CheckedAdd(x, y) = CheckedAdd(x, y)
  BY DEF Reference!CheckedAdd, Reference!Overflow, Reference!Value,
         Reference!Representable, Reference!MinVal,
         CheckedAdd, Overflow, Value, Representable, MinVal
<1>3. Reference!AddToRange(values, left, right, value)
        = AddToRange(values, left, right, value)
  BY <1>2 DEF Reference!AddToRange, AddToRange
<1> QED BY <1>1, <1>3

(* What a version stands for is what its elements are. *)
StandForArrays ==
  /\ \A v \in DOMAIN roots : \E p, w : VersionOK(v, p, w)
  /\ \A v \in DOMAIN roots : \A p, w : VersionOK(v, p, w) =>
       Versions[v] = w /\ w \in Seq(Value) /\ Len(w) = arraySize
  /\ Versions \in Seq(Seq(Value)) /\ Len(Versions) = Len(roots)
  /\ Len(roots) \in Nat /\ DOMAIN roots = 1 .. Len(roots)
  /\ DOMAIN Versions = 1 .. Len(roots)

LEMMA VersionsStand == VInv => StandForArrays
<1> SUFFICES ASSUME VInv PROVE StandForArrays
  OBVIOUS
<1>1. TypeOK /\ Len(roots) \in Nat /\ DOMAIN roots = 1 .. Len(roots)
  BY ArraySizeFacts DEF VInv
<1>2. \A v \in DOMAIN roots : \E p, w : VersionOK(v, p, w)
  BY DEF VInv, VersionsOK
<1>3. ASSUME NEW v \in DOMAIN roots, NEW p, NEW w, VersionOK(v, p, w)
      PROVE  Versions[v] = w /\ w \in Seq(Value) /\ Len(w) = arraySize
  <2>1. Versions[v] = w
    BY <1>1, <1>3, ElementsAre DEF Versions
  <2> QED BY <1>3, <2>1 DEF VersionOK, TreeAt, TreeOf
<1>4. \A v \in 1 .. Len(roots) : Versions[v] \in Seq(Value)
  BY <1>1, <1>2, <1>3
<1>5. PICK n \in Nat : n = Len(roots)
  BY <1>1
<1>6. Versions = [v \in 1 .. n |-> Versions[v]] /\ DOMAIN Versions = 1 .. n
  BY <1>1, <1>5 DEF Versions
<1>7. Versions \in Seq(Seq(Value)) /\ Len(Versions) = n
  <2>1. PICK f : f = Versions
    OBVIOUS
  <2>2. f = [v \in 1 .. n |-> f[v]] /\ \A v \in 1 .. n : f[v] \in Seq(Value)
    BY <1>4, <1>5, <1>6, <2>1
  <2>3. f \in Seq(Seq(Value))
    BY <2>2, IsASeq
  <2>4. DOMAIN f = 1 .. n
    BY <2>2
  <2>5. Len(f) = n
    BY <2>3, <2>4, LenProperties
  <2> QED BY <2>1, <2>3, <2>5
<1> QED BY <1>1, <1>2, <1>3, <1>5, <1>6, <1>7 DEF StandForArrays

(* No step but a completed initialize touches a published version. *)
LEMMA VersionsPersist ==
  ASSUME VInv, [Next]_vars, ~PublishInitial,
         NEW v \in DOMAIN roots, NEW p, NEW w, VersionOK(v, p, w)
  PROVE  VersionOK(v, p, w)'
<1>1. /\ BInv /\ roots \in Seq(Nat) /\ DOMAIN roots = 1 .. Len(roots) /\ Len(roots) \in Nat
      /\ v \in Nat /\ v <= Len(roots)
  BY ArraySizeFacts DEF VInv, TypeOK
<1>2. CASE UNCHANGED <<nodes, roots, arraySize>>
  BY <1>2, SameVersion
<1>3. ASSUME UNCHANGED <<nodes, arraySize>>, NEW root \in Nat, roots' = Append(roots, root)
      PROVE  VersionOK(v, p, w)'
  <2>1. roots'[v] = roots[v]
    BY <1>1, <1>3, AppendProperties
  <2> QED BY <1>3, <2>1, SameVersion
<1>4. CASE RangeAddZero
  <2>1. UNCHANGED <<nodes, arraySize>> /\ roots' = Append(roots, roots[Len(roots)])
    BY <1>4 DEF RangeAddZero
  <2>2. PICK root : root = roots[Len(roots)] /\ root \in Nat
    BY <1>4, RangeAddZeroMakes
  <2> QED BY <1>3, <2>1, <2>2
<1>5. CASE PublishVersion
  <2>1. UNCHANGED <<nodes, arraySize>> /\ roots' = Append(roots, returned)
    BY <1>5 DEF PublishVersion
  <2>2. returned \in Nat
    BY <1>5, PublishMakes
  <2> QED BY <1>3, <2>1, <2>2
<1>6. CASE Absorb \/ Copy
  <2>1. PICK u : u = Len(roots) + 1
    OBVIOUS
  <2>2. PICK index : Modified(index, u)
    BY <1>1, <1>6, <2>1, AbsorbModifies, CopyModifies
  <2> QED BY <1>1, <2>2, VersionKept
<1>7. CASE Throw
  <2>1. UNCHANGED <<roots, arraySize>>
    BY <1>7 DEF Throw, published
  <2>2. CASE call.op = "rangeAdd"
    <3>1. nodes' = RolledBack
      BY <1>7, <2>2 DEF Throw
    <3> QED BY <1>1, <2>1, <2>2, <3>1, RolledBackVersion
  <2>3. CASE call.op # "rangeAdd"
    <3>1. nodes' = nodes
      BY <1>7, <2>3 DEF Throw
    <3> QED BY <1>2, <2>1, <3>1
  <2> QED BY <2>2, <2>3
<1>8. Descend \/ ReturnBuilt => UNCHANGED <<nodes, roots, arraySize>>
  BY DEF Descend, ReturnBuilt, published
<1>9. /\ \A values : BeginInitialize(values) => UNCHANGED <<nodes, roots, arraySize>>
      /\ \A left, right, value : BeginRangeAdd(left, right, value)
                                   => UNCHANGED <<nodes, roots, arraySize>>
  BY DEF BeginInitialize, BeginRangeAdd, published
<1>10. UNCHANGED vars => UNCHANGED <<nodes, roots, arraySize>>
  BY DEF vars
<1> QED BY <1>2, <1>4, <1>5, <1>6, <1>7, <1>8, <1>9, <1>10 DEF Next, Step

(* A step that publishes nothing leaves every version as it was. *)
LEMMA NothingPublished ==
  ASSUME VInv, VInv', [Next]_vars, ~PublishInitial, roots' = roots
  PROVE  Versions' = Versions
<1>1. StandForArrays /\ StandForArrays'
  BY VersionsStand, PTL
<1>2. ASSUME NEW v \in DOMAIN roots PROVE Versions'[v] = Versions[v]
  <2>1. PICK p, w : VersionOK(v, p, w)
    BY <1>1 DEF StandForArrays
  <2>2. VersionOK(v, p, w)'
    BY <2>1, VersionsPersist
  <2>3. Versions'[v] = w
    BY <1>1, <2>2 DEF StandForArrays
  <2> QED BY <1>1, <2>1, <2>3 DEF StandForArrays
<1>3. Versions \in Seq(Seq(Value)) /\ Versions' \in Seq(Seq(Value))
      /\ Len(Versions') = Len(Versions) /\ DOMAIN roots = 1 .. Len(Versions)
  BY <1>1 DEF StandForArrays
<1> QED BY <1>2, <1>3, SeqEqual

LEMMA VersionsExtended ==
  ASSUME VInv, VInv', [Next]_vars, ~PublishInitial,
         NEW root \in Nat, roots' = Append(roots, root),
         NEW n, n = Len(roots) + 1, NEW p, NEW w, VersionOK(n, p, w)'
  PROVE  Versions' = Append(Versions, w) /\ w \in Seq(Value)
<1>1. StandForArrays /\ StandForArrays'
  BY VersionsStand, PTL
<1>2. /\ Len(roots) \in Nat /\ DOMAIN roots = 1 .. Len(roots)
      /\ Len(roots') = n /\ DOMAIN roots' = 1 .. n /\ n \in DOMAIN roots'
  <2>1. roots \in Seq(Nat) /\ Len(roots) \in Nat /\ DOMAIN roots = 1 .. Len(roots)
    BY ArraySizeFacts DEF VInv, TypeOK
  <2> QED BY <2>1, AppendProperties
<1>3. Versions'[n] = w /\ w \in Seq(Value)
  BY <1>1, <1>2 DEF StandForArrays
<1>4. ASSUME NEW v \in DOMAIN roots PROVE Versions'[v] = Versions[v]
  <2>1. PICK q, x : VersionOK(v, q, x)
    BY <1>1 DEF StandForArrays
  <2>2. VersionOK(v, q, x)'
    BY <2>1, VersionsPersist
  <2>3. Versions'[v] = x
    BY <1>1, <1>2, <2>2 DEF StandForArrays
  <2> QED BY <1>1, <2>1, <2>3 DEF StandForArrays
<1>5. /\ Versions \in Seq(Seq(Value)) /\ Len(Versions) = Len(roots)
      /\ Versions' \in Seq(Seq(Value)) /\ Len(Versions') = n
  BY <1>1, <1>2 DEF StandForArrays
<1>6. /\ Append(Versions, w) \in Seq(Seq(Value)) /\ Len(Append(Versions, w)) = n
      /\ \A v \in 1 .. Len(roots) : Append(Versions, w)[v] = Versions[v]
      /\ Append(Versions, w)[n] = w
  BY <1>3, <1>5, AppendProperties
<1>7. \A v \in 1 .. n : Versions'[v] = Append(Versions, w)[v]
  BY <1>2, <1>3, <1>4, <1>6
<1> QED BY <1>3, <1>5, <1>6, <1>7, SeqEqual

(* A completed initialize publishes the array it was called with. *)
LEMMA PublishInitialRefines ==
  ASSUME VInv, VInv', PublishInitial
  PROVE  call.values \in Arrays /\ Reference!Initialize(call.values)
<1>1. PICK values : values = call.values
  OBVIOUS
<1>2. values \in Arrays
  <2>1. call \in Call /\ call.op = "initialize"
    BY ArraySizeFacts DEF VInv, TypeOK, PublishInitial
  <2> QED BY <1>1, <2>1 DEF Call, Idle
<1>3. StandForArrays'
  BY VersionsStand, PTL
<1>4. /\ values \in Seq(Value) /\ Admissible(values)
      /\ Len(roots') = 1 /\ DOMAIN roots' = {1} /\ (\E p : VersionOK(1, p, values))'
  BY <1>1, PublishInitialVInv
<1>5. PICK p : VersionOK(1, p, values)'
  BY <1>4
<1>6. Versions'[1] = values /\ Versions' \in Seq(Seq(Value)) /\ Len(Versions') = 1
  BY <1>3, <1>4, <1>5 DEF StandForArrays
<1>7. <<values>> \in Seq(Seq(Value)) /\ Len(<<values>>) = 1 /\ <<values>>[1] = values
  BY <1>4
<1>8. \A i \in 1 .. Len(Versions') : Versions'[i] = <<values>>[i]
  BY <1>6, <1>7
<1>9. Versions' = <<values>>
  BY <1>6, <1>7, <1>8, SeqEqual
<1>10. Reference!Admissible(values)
  BY <1>4, ReferenceOperators
<1> QED BY <1>1, <1>2, <1>9, <1>10 DEF Reference!Initialize

(* What a call that extends the latest version asks of the reference. *)
LEMMA ExtensionRefines ==
  ASSUME VInv, VInv', [Next]_vars, ~PublishInitial,
         NEW root \in Nat, roots' = Append(roots, root), roots # <<>>, Len(roots) < MaxVersions,
         NEW p, NEW w, VersionOK(Len(roots), p, w),
         NEW n, n = Len(roots) + 1, NEW q, NEW next, VersionOK(n, q, next)',
         NEW left, NEW right, NEW value, left \in 1 .. arraySize, right \in left .. arraySize,
         next = AddToRange(w, left, right, value), Admissible(next)
  PROVE  /\ Versions # <<>> /\ Len(Versions) = Len(roots)
         /\ right \in 1 .. Len(Versions[Len(Versions)]) /\ left \in 1 .. right
         /\ Reference!RangeAdd(Len(roots), left, right, value)
<1>1. Versions' = Append(Versions, next)
  BY VersionsExtended
<1>2. StandForArrays /\ Len(roots) \in DOMAIN roots /\ arraySize \in Nat
  <2>1. roots \in Seq(Nat) /\ Len(roots) \in Nat /\ DOMAIN roots = 1 .. Len(roots)
        /\ arraySize \in Nat
    BY ArraySizeFacts DEF VInv, TypeOK
  <2> QED BY <2>1, VersionsStand, EmptySeq
<1>3. /\ Versions[Len(roots)] = w /\ Len(w) = arraySize
      /\ Len(Versions) = Len(roots) /\ DOMAIN Versions = DOMAIN roots /\ Len(roots) \in Nat
  BY <1>2 DEF StandForArrays
<1>4. Versions # <<>>
  BY <1>2, <1>3
<1>5. right \in 1 .. Len(Versions[Len(roots)]) /\ left \in 1 .. right
      /\ left <= right /\ right <= Len(Versions[Len(roots)])
  BY <1>2, <1>3
<1>6. Reference!ValidRange(Len(roots), left, right)
  BY <1>2, <1>3, <1>5 DEF Reference!ValidRange
<1>7. Reference!AddToRange(Versions[Len(roots)], left, right, value) = next
      /\ Reference!Admissible(next)
  BY <1>3, ReferenceOperators
<1>8. Reference!RangeAdd(Len(roots), left, right, value)
  BY <1>1, <1>3, <1>6, <1>7 DEF Reference!RangeAdd
<1> QED BY <1>3, <1>4, <1>5, <1>8

(* The appended root makes the tree at the new stamp the new version. *)
LEMMA AppendedVersion ==
  ASSUME BInv, UNCHANGED <<nodes, arraySize>>, NEW root \in Nat, roots' = Append(roots, root),
         NEW n, n = Len(roots) + 1, NEW p, NEW w, TreeAt(n, root, p, w)
  PROVE  VersionOK(n, p, w)'
<1>1. TreeAt(n, root, p, w)'
  BY SameTree
<1>2. roots'[n] = root
  <2>1. roots \in Seq(Nat)
    BY TypeFacts
  <2> QED BY <2>1, AppendProperties
<1> QED BY <1>1, <1>2 DEF VersionOK

(* An update publishes as the reference's update of the latest version. *)
LEMMA PublishVersionRefines ==
  ASSUME VInv, VInv', PublishVersion
  PROVE  /\ call.value \in Deltas /\ Versions # <<>> /\ Len(Versions) = Len(roots)
         /\ call.right \in 1 .. Len(Versions[Len(Versions)]) /\ call.left \in 1 .. call.right
         /\ Reference!RangeAdd(Len(roots), call.left, call.right, call.value)
<1>1. /\ BInv /\ arraySize \in Nat /\ call.op = "rangeAdd"
      /\ UNCHANGED <<nodes, arraySize>> /\ roots' = Append(roots, returned)
      /\ roots # <<>>
  BY ArraySizeFacts DEF VInv, VersionsOK, PublishVersion
<1>2. /\ call.left \in 1 .. arraySize /\ call.right \in call.left .. arraySize
      /\ call.value \in Deltas
  <2>1. call \in Call
    BY <1>1 DEF BInv, TypeOK
  <2>2. call.value \in Deltas
    BY <1>1, <2>1 DEF Call, Idle
  <2>3. /\ call.left \in Int /\ call.right \in Int
        /\ 1 <= call.left /\ call.left <= call.right /\ call.right <= arraySize
    BY <1>1, RunningUpdate
  <2> QED BY <1>1, <2>2, <2>3
<1>3. PICK p, w, q, next :
        /\ VersionOK(Len(roots), p, w) /\ AskedFor(w)
        /\ next = AddToRange(w, call.left, call.right, call.value)
        /\ returned \in Nat /\ TreeAt(Len(roots) + 1, returned, q, next)
  BY PublishMakes
<1>4. PICK n, root : n = Len(roots) + 1 /\ root = returned
  OBVIOUS
<1>5. VersionOK(n, q, next)'
  BY <1>1, <1>3, <1>4, AppendedVersion
<1>6. Admissible(next) /\ Len(roots) < MaxVersions
  BY <1>3 DEF AskedFor
<1>7. [Next]_vars /\ ~PublishInitial
  <2>1. Next
    BY DEF Next, Step
  <2> QED BY <1>1, <2>1 DEF PublishInitial
<1>8. PICK left, right, value :
        left = call.left /\ right = call.right /\ value = call.value
  OBVIOUS
<1>9. /\ Versions # <<>> /\ Len(Versions) = Len(roots)
      /\ right \in 1 .. Len(Versions[Len(Versions)]) /\ left \in 1 .. right
      /\ Reference!RangeAdd(Len(roots), left, right, value)
  BY <1>1, <1>2, <1>3, <1>4, <1>5, <1>6, <1>7, <1>8, ExtensionRefines
<1> QED BY <1>2, <1>8, <1>9

(* The zero-delta path publishes as the reference's update by zero. *)
LEMMA RangeAddZeroRefines ==
  ASSUME VInv, VInv', RangeAddZero
  PROVE  Reference!LatestNext
<1>1. /\ BInv /\ UNCHANGED <<nodes, arraySize>> /\ roots' = Append(roots, roots[Len(roots)])
      /\ 0 \in Deltas /\ roots # <<>> /\ Len(roots) < MaxVersions
      /\ 1 \in 1 .. arraySize /\ call = Idle
  BY DEF VInv, RangeAddZero, ValidRangeAdd
<1>2. PICK p, w, root :
        /\ VersionOK(Len(roots), p, w) /\ Admissible(w)
        /\ root = roots[Len(roots)] /\ root \in Nat
        /\ TreeAt(Len(roots) + 1, root, p, w)
  BY RangeAddZeroMakes
<1>3. PICK n, left, right, zero : n = Len(roots) + 1 /\ left = 1 /\ right = 1 /\ zero = 0
  OBVIOUS
<1>4. VersionOK(n, p, w)'
  BY <1>1, <1>2, <1>3, AppendedVersion
<1>5. w = AddToRange(w, left, right, 0)
  <2>1. w \in Seq(Value) /\ Len(w) \in Nat /\ DOMAIN w = 1 .. Len(w)
    BY <1>2, LenProperties DEF VersionOK, TreeAt, TreeOf
  <2>2. w \in [1 .. Len(w) -> Value]
    BY <2>1, LenProperties
  <2>3. \A x \in Value : CheckedAdd(x, 0) = x
    BY ValueFacts DEF CheckedAdd, Representable
  <2>4. AddToRange(w, left, right, 0) = [k \in 1 .. Len(w) |-> w[k]]
    BY <2>1, <2>2, <2>3 DEF AddToRange
  <2> QED BY <2>2, <2>4
<1>6. [Next]_vars /\ ~PublishInitial
  BY <1>1 DEF Next, PublishInitial, Idle
<1>7. left \in 1 .. arraySize /\ right \in left .. arraySize
  <2>1. arraySize \in Nat
    BY <1>1, ArraySizeFacts
  <2> QED BY <1>1, <1>3, <2>1
<1>8. /\ Versions # <<>> /\ Len(Versions) = Len(roots)
      /\ right \in 1 .. Len(Versions[Len(Versions)]) /\ left \in 1 .. right
      /\ Reference!RangeAdd(Len(roots), left, right, zero)
  BY <1>1, <1>2, <1>3, <1>4, <1>5, <1>6, <1>7, ExtensionRefines
<1> QED BY <1>1, <1>3, <1>8 DEF Reference!LatestNext

LEMMA StepRefines ==
  ASSUME VInv, VInv', [Next]_vars
  PROVE  Versions' # Versions => Reference!LatestNext
<1>1. CASE PublishInitial
  BY <1>1, PublishInitialRefines DEF Reference!LatestNext
<1>2. CASE RangeAddZero
  BY <1>2, RangeAddZeroRefines
<1>3. CASE PublishVersion
  BY <1>3, PublishVersionRefines DEF Reference!LatestNext
<1>4. ASSUME ~PublishInitial,
             \/ \E values : BeginInitialize(values)
             \/ \E left, right, value : BeginRangeAdd(left, right, value)
             \/ Descend \/ ReturnBuilt \/ Absorb \/ Copy \/ Throw
             \/ UNCHANGED vars
      PROVE  Versions' = Versions
  <2>1. roots' = roots
    BY <1>4 DEF BeginInitialize, BeginRangeAdd, Descend, ReturnBuilt, Absorb, Copy, Throw,
                published, vars
  <2> QED BY <1>4, <2>1, NothingPublished
<1> QED BY <1>1, <1>2, <1>3, <1>4 DEF Next, Step

(***************************************************************************)
(* The structure implements the reference: although its updates write into *)
(* the nodes of published versions and take back what they wrote when they *)
(* fail, the versions appear one by one as brute_force_array.cpp makes     *)
(* them, from the latest one and as the call asked, and no version changes *)
(* at any other step.                                                      *)
(***************************************************************************)
THEOREM ImplementsReference == Spec => ImplementsBruteForceArray
<1>1. Init => Reference!Init
  <2>1. Init => Versions = [v \in {} |-> ExactElements(v)]
    BY DEF Init, Versions
  <2>2. [v \in {} |-> ExactElements(v)] = <<>>
    OBVIOUS
  <2> QED BY <2>1, <2>2 DEF Reference!Init
<1>2. ASSUME VInv, VInv', [Next]_vars
      PROVE  [Versions' # Versions => Reference!LatestNext]_Versions
  BY <1>2, StepRefines
<1>3. ASSUME VInv, VInv', [Next]_vars
      PROVE  [PublishesAsAsked]_vars
  BY <1>3, PublishInitialRefines, PublishVersionRefines DEF PublishesAsAsked
<1> QED BY <1>1, <1>2, <1>3, VersionsInvariant, PTL
        DEF Spec, ImplementsBruteForceArray, Reference!LatestSpec

=============================================================================
