------------------- MODULE PersistentLazySegmentTree_proofs -------------------
(***************************************************************************)
(* Proofs about PersistentLazySegmentTree for every width, every array,    *)
(* every sequence of calls and every place an exception can strike.        *)
(***************************************************************************)
EXTENDS PersistentLazySegmentTree, SegmentTrees_proofs

-----------------------------------------------------------------------------
(***************************************************************************)
(* The inductive invariant.                                                *)
(***************************************************************************)
IInv == TypeOK /\ TreesWellFormed /\ ControlConsistent

LEMMA InitIInv == Init => IInv
<1> SUFFICES ASSUME Init PROVE IInv
  OBVIOUS
<1>1. TypeOK
  BY EmptySeq DEF Init, TypeOK, Call
<1>2. TreesWellFormed
  BY DEF Init, TreesWellFormed, WellFormed
<1>3. ControlConsistent
  BY DEF Init, ControlConsistent, CallOK, FramesOK, Idle
<1> QED BY <1>1, <1>2, <1>3 DEF IInv

(***************************************************************************)
(* Appending a node whose children are older and that is itself in order   *)
(* keeps an arena well formed, and so does cutting its tail off.           *)
(***************************************************************************)
LEMMA AppendWellFormed ==
  ASSUME NEW arena \in Seq(Node), WellFormed(arena), NEW node \in Node,
         NodeOK(Append(arena, node), Len(arena) + 1)
  PROVE  /\ Append(arena, node) \in Seq(Node)
         /\ WellFormed(Append(arena, node))
         /\ Len(Append(arena, node)) = Len(arena) + 1
         /\ \A i \in DOMAIN arena : Append(arena, node)[i] = arena[i]
         /\ Append(arena, node)[Len(arena) + 1] = node
<1> DEFINE longer == Append(arena, node)
<1>1. /\ longer \in Seq(Node)
      /\ Len(longer) = Len(arena) + 1
      /\ \A i \in 1 .. Len(arena) : longer[i] = arena[i]
      /\ longer[Len(arena) + 1] = node
  BY AppendProperties
<1>2. Len(arena) \in Nat /\ DOMAIN arena = 1 .. Len(arena)
      /\ DOMAIN longer = 1 .. Len(arena) + 1
  BY <1>1, LenProperties
<1>3. ASSUME NEW i \in 1 .. Len(arena) PROVE NodeOK(longer, i)
  <2>1. NodeOK(arena, i) /\ longer[i] = arena[i]
    BY <1>1, <1>2 DEF WellFormed
  <2>2. \A j \in 1 .. i - 1 : longer[j] = arena[j]
    BY <1>1, <1>2
  <2> QED BY <2>1, <2>2 DEF NodeOK
<1>4. WellFormed(longer)
  BY <1>2, <1>3 DEF WellFormed
<1> QED BY <1>1, <1>2, <1>4

LEMMA CutWellFormed ==
  ASSUME NEW arena \in Seq(Node), WellFormed(arena), NEW n \in 0 .. Len(arena)
  PROVE  /\ SubSeq(arena, 1, n) \in Seq(Node)
         /\ WellFormed(SubSeq(arena, 1, n))
         /\ Len(SubSeq(arena, 1, n)) = n
         /\ \A i \in 1 .. n : SubSeq(arena, 1, n)[i] = arena[i]
<1> DEFINE shorter == SubSeq(arena, 1, n)
<1>1. Len(arena) \in Nat /\ DOMAIN arena = 1 .. Len(arena)
      /\ \A i \in 1 .. n : arena[i] \in Node
  BY LenProperties, ElementOfSeq
<1>2. /\ shorter \in Seq(Node)
      /\ Len(shorter) = n
      /\ \A i \in 1 .. n : shorter[i] = arena[i]
  BY <1>1, SubSeqProperties
<1>3. DOMAIN shorter = 1 .. n
  BY <1>2, LenProperties
<1>4. ASSUME NEW i \in 1 .. n PROVE NodeOK(shorter, i)
  <2>1. NodeOK(arena, i) /\ shorter[i] = arena[i]
    BY <1>1, <1>2 DEF WellFormed
  <2>2. \A j \in 1 .. i - 1 : shorter[j] = arena[j]
    BY <1>1, <1>2
  <2> QED BY <2>1, <2>2 DEF NodeOK
<1> QED BY <1>2, <1>3, <1>4 DEF WellFormed

-----------------------------------------------------------------------------
(***************************************************************************)
(* One lemma for each action: it preserves the inductive invariant.        *)
(***************************************************************************)
LEMMA BeginInitializeIInv ==
  ASSUME IInv, NEW values \in Arrays, BeginInitialize(values)
  PROVE  IInv'
<1> USE DEF BeginInitialize
<1>1. values \in Seq(Value) /\ Len(values) \in Nat
  BY ArraysAssumption, LenProperties
<1>2. /\ call'.op = "initialize" /\ call'.values = values
      /\ call' \in Call
  BY DEF Call
<1>3. ASSUME values # <<>>
      PROVE  /\ Root(Len(values)) \in Interval(Len(values))
             /\ BuildFrame(Root(Len(values))) \in Frame
             /\ stack' = <<BuildFrame(Root(Len(values)))>>
  <2>1. Root(Len(values)) \in Interval(Len(values))
    BY <1>1, <1>3, EmptySeq, RootIsSegment
  <2>2. Root(Len(values)) \in Nat \X Nat
    BY <1>1, <2>1, Halves
  <2> QED BY <1>3, <2>1, <2>2 DEF BuildFrame, Frame, Sides, NoNode
<1>4. TypeOK'
  BY <1>2, <1>3, EmptySeq DEF IInv, TypeOK
<1>5. TreesWellFormed'
  BY DEF IInv, TreesWellFormed, WellFormed, NodeOK, RootOK
<1>6. newNodes = <<>>
  BY DEF IInv, ControlConsistent, CallOK, Idle
<1>7. CallOK'
  BY <1>2, <1>3, <1>6 DEF CallOK, ChildOK, CallSize, Arena
<1>8. FramesOK'
  <2>1. CallSize' = Len(values)
    BY <1>2 DEF CallSize
  <2>2. CASE values = <<>>
    BY <2>2 DEF FramesOK, FrameInPlace
  <2>3. CASE values # <<>>
    <3> DEFINE f == BuildFrame(Root(Len(values)))
    <3>1. DOMAIN stack' = {1} /\ stack'[1] = f
      BY <1>3, <2>3
    <3>2. f.segment = Root(Len(values)) /\ BuildFrameOK(f)'
      BY <1>2 DEF BuildFrame, BuildFrameOK, Sides
    <3>3. FrameOK(f)'
      BY <1>2, <1>3, <2>1, <2>3, <3>2 DEF FrameOK
    <3> QED BY <2>1, <3>1, <3>2, <3>3 DEF FramesOK, FrameInPlace
  <2> QED BY <2>2, <2>3
<1> QED BY <1>4, <1>5, <1>7, <1>8 DEF IInv, ControlConsistent

(***************************************************************************)
(* What an update may assume of the latest root.                           *)
(***************************************************************************)
LEMMA LatestRoot ==
  ASSUME IInv, NEW left, NEW right, ValidRangeAdd(left, right)
  PROVE  /\ arraySize \in Nat /\ arraySize > 0
         /\ left \in 1 .. arraySize /\ right \in left .. arraySize
         /\ Len(roots) \in DOMAIN roots
         /\ roots[Len(roots)] \in DOMAIN nodes
         /\ nodes[roots[Len(roots)]].segment = Root(arraySize)
<1>1. /\ arraySize \in Nat /\ arraySize > 0
      /\ left \in 1 .. arraySize /\ right \in left .. arraySize
  BY DEF IInv, TypeOK, ValidRangeAdd
<1>2. Len(roots) \in DOMAIN roots
  BY EmptySeq, LenProperties DEF IInv, TypeOK, ValidRangeAdd
<1> QED BY <1>1, <1>2 DEF IInv, TreesWellFormed, RootOK

LEMMA RangeAddZeroIInv ==
  ASSUME IInv, NEW left, NEW right, RangeAddZero(left, right)
  PROVE  IInv'
<1> USE DEF RangeAddZero
<1>1. /\ Len(roots) \in DOMAIN roots
      /\ roots \in Seq(Nat) /\ roots[Len(roots)] \in Nat
  BY LatestRoot, ElementOfSeq, LenProperties DEF IInv, TypeOK
<1>2. /\ roots' \in Seq(Nat)
      /\ Len(roots') = Len(roots) + 1
      /\ \A v \in 1 .. Len(roots) : roots'[v] = roots[v]
      /\ roots'[Len(roots) + 1] = roots[Len(roots)]
  BY <1>1, AppendProperties
<1>3. DOMAIN roots = 1 .. Len(roots) /\ DOMAIN roots' = 1 .. Len(roots) + 1
      /\ Len(roots) \in Nat
  BY <1>1, <1>2, LenProperties
<1>4. TypeOK'
  BY <1>2 DEF IInv, TypeOK
<1>5. \A v \in DOMAIN roots' : \E w \in DOMAIN roots : roots'[v] = roots[w]
  BY <1>1, <1>2, <1>3
<1>6. TreesWellFormed'
  BY <1>5 DEF IInv, TreesWellFormed, WellFormed, NodeOK, RootOK
<1>7. ControlConsistent'
  BY DEF IInv, ControlConsistent, CallOK, FramesOK, Idle
<1> QED BY <1>4, <1>6, <1>7 DEF IInv

(***************************************************************************)
(* A frame of update opened on a published node of the segment that meets  *)
(* the range is in order.                                                  *)
(***************************************************************************)
LEMMA UpdateFrameInOrder ==
  ASSUME IInv, NEW c \in Interval(arraySize), NEW i \in DOMAIN nodes,
         nodes[i].segment = c,
         NEW left \in Nat, NEW right \in Nat, ~Disjoint(left, right, c)
  PROVE  LET f == UpdateFrame(i, c, left, right)
         IN  /\ f \in Frame /\ f.segment = c /\ f.node = i
             /\ Covers(left, right, c) => f.todo = {}
             /\ "left" \in f.todo => left <= Midpoint(c)
             /\ "right" \in f.todo => right > Midpoint(c)
             /\ ~IsLeaf(c) =>
                  /\ f.newLeft \in DOMAIN nodes
                  /\ nodes[f.newLeft].segment = LeftHalf(c)
                  /\ f.newRight \in DOMAIN nodes
                  /\ nodes[f.newRight].segment = RightHalf(c)
<1> DEFINE f == UpdateFrame(i, c, left, right)
<1>1. arraySize \in Nat /\ nodes \in Seq(Node)
  BY DEF IInv, TypeOK
<1>2. /\ nodes[i] \in Node /\ NodeOK(nodes, i)
      /\ DOMAIN nodes = 1 .. Len(nodes) /\ Len(nodes) \in Nat /\ i \in Nat
  BY <1>1, ElementOfSeq, LenProperties DEF IInv, TreesWellFormed, WellFormed
<1>3. c \in Nat \X Nat
  BY <1>1, Halves
<1>4. f \in Frame /\ f.segment = c /\ f.node = i
      /\ f.newLeft = nodes[i].leftChild /\ f.newRight = nodes[i].rightChild
  BY <1>2, <1>3 DEF UpdateFrame, MeetingSides, Frame, Node, Sides
<1>5. /\ Covers(left, right, c) => f.todo = {}
      /\ "left" \in f.todo => left <= Midpoint(c)
      /\ "right" \in f.todo => right > Midpoint(c)
  BY DEF UpdateFrame, MeetingSides, Sides
<1>6. ASSUME ~IsLeaf(c)
      PROVE  /\ nodes[i].leftChild \in DOMAIN nodes
             /\ nodes[nodes[i].leftChild].segment = LeftHalf(c)
             /\ nodes[i].rightChild \in DOMAIN nodes
             /\ nodes[nodes[i].rightChild].segment = RightHalf(c)
  BY <1>2, <1>6 DEF NodeOK
<1> QED BY <1>4, <1>5, <1>6

LEMMA BeginRangeAddIInv ==
  ASSUME IInv, NEW left, NEW right, NEW value \in Deltas,
         BeginRangeAdd(left, right, value)
  PROVE  IInv'
<1> DEFINE latest == roots[Len(roots)]
<1>0. PICK f : f = UpdateFrame(latest, Root(arraySize), left, right)
  OBVIOUS
<1>1. /\ arraySize \in Nat /\ arraySize > 0
      /\ left \in 1 .. arraySize /\ right \in left .. arraySize
      /\ latest \in DOMAIN nodes
      /\ nodes[latest].segment = Root(arraySize)
  BY LatestRoot DEF BeginRangeAdd
<1>2. Root(arraySize) \in Interval(arraySize)
      /\ ~Disjoint(left, right, Root(arraySize))
  BY <1>1, RootIsSegment DEF Disjoint, Root
<1>3. /\ nodes \in Seq(Node) /\ Len(nodes) \in Nat
      /\ DOMAIN nodes = 1 .. Len(nodes)
  BY LenProperties DEF IInv, TypeOK
<1>4. /\ call'.op = "rangeAdd" /\ call'.left = left /\ call'.right = right
      /\ call'.checkpoint = Len(nodes)
      /\ call' \in Call
  BY <1>1, <1>3 DEF BeginRangeAdd, Call
<1>5. /\ f \in Frame /\ f.segment = Root(arraySize) /\ f.node = latest
      /\ Covers(left, right, Root(arraySize)) => f.todo = {}
      /\ "left" \in f.todo => left <= Midpoint(Root(arraySize))
      /\ "right" \in f.todo => right > Midpoint(Root(arraySize))
      /\ ~IsLeaf(Root(arraySize)) =>
           /\ f.newLeft \in DOMAIN nodes
           /\ nodes[f.newLeft].segment = LeftHalf(Root(arraySize))
           /\ f.newRight \in DOMAIN nodes
           /\ nodes[f.newRight].segment = RightHalf(Root(arraySize))
  BY <1>0, <1>1, <1>2, UpdateFrameInOrder
<1>6. stack' = <<f>>
  BY <1>0 DEF BeginRangeAdd
<1>7. TypeOK'
  BY <1>4, <1>5, <1>6 DEF BeginRangeAdd, IInv, TypeOK
<1>8. TreesWellFormed'
  BY DEF BeginRangeAdd, IInv, TreesWellFormed, WellFormed, NodeOK, RootOK
<1>9. CallOK'
  <2>1. newNodes' = <<>>
    BY DEF BeginRangeAdd, IInv, ControlConsistent, CallOK, Idle
  <2>2. \A v \in DOMAIN roots : roots[v] <= Len(nodes)
    BY <1>1, <1>3 DEF IInv, TreesWellFormed, RootOK
  <2> QED BY <1>1, <1>3, <1>4, <1>6, <2>1, <2>2 DEF BeginRangeAdd, CallOK
<1>10. FramesOK'
  <2>1. CallSize' = arraySize /\ Arena' = nodes /\ nodes' = nodes
    BY <1>4 DEF BeginRangeAdd, CallSize, Arena
  <2>2. UpdateFrameOK(f)'
    BY <1>1, <1>2, <1>3, <1>4, <1>5, <2>1 DEF UpdateFrameOK, ChildOK
  <2>3. FrameOK(f)'
    BY <1>2, <1>4, <1>5, <2>1, <2>2 DEF FrameOK
  <2>4. DOMAIN stack' = {1} /\ stack'[1] = f
    BY <1>6
  <2> QED BY <1>5, <2>1, <2>3, <2>4 DEF FramesOK, FrameInPlace
<1> QED BY <1>7, <1>8, <1>9, <1>10 DEF IInv, ControlConsistent

(***************************************************************************)
(* The innermost frame of a running call.                                  *)
(***************************************************************************)
LEMMA TopFrame ==
  ASSUME IInv, stack # <<>>
  PROVE  /\ stack \in Seq(Frame) /\ Len(stack) \in Nat \ {0}
         /\ DOMAIN stack = 1 .. Len(stack)
         /\ Top \in Frame /\ FrameOK(Top)
         /\ call.op \in {"initialize", "rangeAdd"}
         /\ call.op = "initialize" => call.values \in Seq(Value)
         /\ call.op = "rangeAdd" => /\ call.left \in Nat /\ call.right \in Nat
                                    /\ call.value \in Value
                                    /\ call.checkpoint \in 0 .. Len(nodes)
         /\ CallSize \in Nat
         /\ nodes \in Seq(Node) /\ newNodes \in Seq(Node)
         /\ DOMAIN nodes = 1 .. Len(nodes) /\ Len(nodes) \in Nat
         /\ DOMAIN newNodes = 1 .. Len(newNodes) /\ Len(newNodes) \in Nat
         /\ Top.segment \in Interval(CallSize)
         /\ Top.todo # {} => ~IsLeaf(Top.segment)
<1>1. /\ stack \in Seq(Frame) /\ Len(stack) \in Nat \ {0}
      /\ DOMAIN stack = 1 .. Len(stack)
  BY EmptySeq, LenProperties DEF IInv, TypeOK
<1>2. Top \in Frame /\ FrameOK(Top)
  BY <1>1, ElementOfSeq DEF Top, IInv, ControlConsistent, FramesOK, FrameInPlace
<1>3. /\ call.op \in {"initialize", "rangeAdd"}
      /\ call.op = "initialize" => call.values \in Arrays
      /\ call.op = "rangeAdd" => /\ call.left \in Nat /\ call.right \in Nat
                                 /\ call.value \in Deltas
                                 /\ call.checkpoint \in Nat
  BY DEF IInv, TypeOK, ControlConsistent, CallOK, Call, Idle
<1>4. /\ nodes \in Seq(Node) /\ newNodes \in Seq(Node)
      /\ DOMAIN nodes = 1 .. Len(nodes) /\ Len(nodes) \in Nat
      /\ DOMAIN newNodes = 1 .. Len(newNodes) /\ Len(newNodes) \in Nat
      /\ arraySize \in Nat
  BY LenProperties DEF IInv, TypeOK
<1>5. call.op = "rangeAdd" => call.checkpoint \in 0 .. Len(nodes)
  BY <1>3, <1>4 DEF IInv, ControlConsistent, CallOK
<1>6. call.op = "initialize" => call.values \in Seq(Value)
  BY <1>3, ArraysAssumption
<1>7. CallSize \in Nat
  BY <1>4, <1>6, LenProperties DEF CallSize
<1>8. Top.segment \in Interval(CallSize)
  BY <1>2 DEF FrameOK
<1>9. Top.todo # {} => ~IsLeaf(Top.segment)
  <2>1. CASE call.op = "initialize"
    BY <1>2, <2>1 DEF FrameOK, BuildFrameOK
  <2>2. CASE call.op = "rangeAdd"
    BY <1>2, <1>3, <1>7, <1>8, <2>2, Halves
       DEF FrameOK, UpdateFrameOK, IsLeaf, Disjoint, Covers
  <2> QED BY <1>3, <2>1, <2>2
<1> QED BY <1>1, <1>2, <1>3, <1>4, <1>5, <1>6, <1>7, <1>8, <1>9, DeltasAssumption

LEMMA DescendIInv ==
  ASSUME IInv, Descend
  PROVE  IInv'
<1> DEFINE side == NextSide(Top)
           half == Half(Top.segment, side)
<1>0. PICK g : g = IF call.op = "initialize" THEN BuildFrame(half)
                   ELSE UpdateFrame(Child(Top, side), half, call.left, call.right)
  OBVIOUS
<1>. /\ stack # <<>> /\ Top.todo # {}
     /\ stack' = Append(stack, g)
     /\ UNCHANGED <<nodes, roots, arraySize, bound, newNodes, call>>
  BY <1>0 DEF Descend
<1>1. /\ stack \in Seq(Frame) /\ Len(stack) \in Nat \ {0}
      /\ DOMAIN stack = 1 .. Len(stack)
      /\ Top \in Frame /\ FrameOK(Top)
      /\ call.op \in {"initialize", "rangeAdd"}
      /\ call.op = "rangeAdd" => /\ call.left \in Nat /\ call.right \in Nat
                                 /\ call.checkpoint \in 0 .. Len(nodes)
      /\ CallSize \in Nat
      /\ DOMAIN nodes = 1 .. Len(nodes) /\ Len(nodes) \in Nat
      /\ Top.segment \in Interval(CallSize)
      /\ ~IsLeaf(Top.segment)
  BY TopFrame
<1>2. /\ side \in Top.todo
      /\ side \in Sides
      /\ side = "left" \/ side = "right"
  BY <1>1 DEF Frame, NextSide, Sides
<1>3. half \in Interval(CallSize) /\ half \in Nat \X Nat
  BY <1>1, <1>2, Halves DEF Half
<1>4. ASSUME call.op = "initialize"
      PROVE  g \in Frame /\ g.segment = half /\ BuildFrameOK(g)
  BY <1>0, <1>3, <1>4 DEF BuildFrame, Frame, Sides, NoNode, BuildFrameOK
<1>5. ASSUME call.op = "rangeAdd"
      PROVE  g \in Frame /\ g.segment = half /\ UpdateFrameOK(g)
  <2>1. CallSize = arraySize /\ Arena = nodes /\ UpdateFrameOK(Top)
        /\ g = UpdateFrame(Child(Top, side), half, call.left, call.right)
    BY <1>0, <1>1, <1>5 DEF CallSize, Arena, FrameOK
  <2>2. NodeOK(nodes, Top.node) /\ Top.node \in 1 .. call.checkpoint
        /\ nodes[Top.node].segment = Top.segment
        /\ call.checkpoint <= Len(nodes)
    BY <1>1, <1>5, <2>1
       DEF UpdateFrameOK, IInv, TreesWellFormed, WellFormed
  <2>3. /\ Child(Top, side) \in 1 .. call.checkpoint
        /\ Child(Top, side) \in DOMAIN nodes
        /\ nodes[Child(Top, side)].segment = half
    BY <1>1, <1>2, <1>5, <2>2 DEF NodeOK, Child, Half
  <2>4. ~Disjoint(call.left, call.right, half)
    <3>1. /\ Top.segment[1] \in Int /\ Top.segment[2] \in Int
          /\ Midpoint(Top.segment) \in Int
          /\ Top.segment[1] <= Midpoint(Top.segment)
          /\ Midpoint(Top.segment) < Top.segment[2]
      BY <1>1, Halves
    <3>2. /\ call.left \in Int /\ call.right \in Int
          /\ ~(Top.segment[2] < call.left) /\ ~(Top.segment[1] > call.right)
          /\ "left" \in Top.todo => call.left <= Midpoint(Top.segment)
          /\ "right" \in Top.todo => call.right > Midpoint(Top.segment)
      BY <1>1, <1>5, <2>1 DEF UpdateFrameOK, Disjoint
    <3>3. CASE side = "left"
      <4>1. half[1] = Top.segment[1] /\ half[2] = Midpoint(Top.segment)
        BY <3>3 DEF Half, LeftHalf
      <4> QED BY <1>2, <3>1, <3>2, <3>3, <4>1 DEF Disjoint
    <3>4. CASE side = "right"
      <4>1. half[1] = Midpoint(Top.segment) + 1 /\ half[2] = Top.segment[2]
        BY <3>4 DEF Half, RightHalf
      <4> QED BY <1>2, <3>1, <3>2, <3>4, <4>1 DEF Disjoint
    <3> QED BY <1>2, <3>3, <3>4
  <2>5. /\ g \in Frame /\ g.segment = half /\ g.node = Child(Top, side)
        /\ Covers(call.left, call.right, half) => g.todo = {}
        /\ "left" \in g.todo => call.left <= Midpoint(half)
        /\ "right" \in g.todo => call.right > Midpoint(half)
        /\ ~IsLeaf(half) => /\ g.newLeft \in DOMAIN nodes
                            /\ nodes[g.newLeft].segment = LeftHalf(half)
                            /\ g.newRight \in DOMAIN nodes
                            /\ nodes[g.newRight].segment = RightHalf(half)
    <3>1. PICK i \in DOMAIN nodes : i = Child(Top, side)
      BY <2>3
    <3>2. g = UpdateFrame(i, half, call.left, call.right) /\ nodes[i].segment = half
      BY <2>1, <2>3, <3>1
    <3>3. /\ half \in Interval(arraySize) /\ call.left \in Nat /\ call.right \in Nat
      BY <1>1, <1>3, <1>5, <2>1
    <3> HIDE DEF half, side
    <3> QED BY <2>4, <3>1, <3>2, <3>3, UpdateFrameInOrder
  <2> QED BY <2>1, <2>3, <2>4, <2>5 DEF UpdateFrameOK, ChildOK
<1>6. g \in Frame /\ g.segment = half /\ FrameOK(g)
  BY <1>1, <1>3, <1>4, <1>5 DEF FrameOK
<1>7. /\ stack' = Append(stack, g)
      /\ stack' \in Seq(Frame)
      /\ stack' # <<>>
      /\ Len(stack') = Len(stack) + 1
      /\ \A k \in 1 .. Len(stack) : stack'[k] = stack[k]
      /\ stack'[Len(stack) + 1] = g
  BY <1>1, <1>6, AppendProperties
<1>8. DOMAIN stack' = 1 .. Len(stack) + 1
  BY <1>7, LenProperties
<1>9. TypeOK'
  BY <1>7 DEF IInv, TypeOK
<1>10. TreesWellFormed'
  BY DEF IInv, TreesWellFormed, WellFormed, NodeOK, RootOK
<1>11. CallOK'
  BY <1>1, <1>7 DEF IInv, ControlConsistent, CallOK, ChildOK, CallSize, Arena
<1>12. FramesOK'
  <2>1. CallSize' = CallSize /\ Arena' = Arena
    BY DEF CallSize, Arena
  <2>2. \A f : FrameOK(f)' <=> FrameOK(f)
    BY <2>1 DEF FrameOK, BuildFrameOK, UpdateFrameOK, ChildOK
  <2>3. ASSUME NEW k \in 1 .. Len(stack)
        PROVE  FrameInPlace(k)'
    <3>1. stack'[k] = stack[k] /\ (k # 1 => stack'[k - 1] = stack[k - 1])
      BY <1>1, <1>7
    <3>2. FrameInPlace(k)
      BY <1>1 DEF IInv, ControlConsistent, FramesOK
    <3>3. PICK f : f = stack[k]
      OBVIOUS
    <3>4. FrameOK(f)'
      BY <2>2, <3>2, <3>3 DEF FrameInPlace
    <3> QED BY <2>1, <3>1, <3>2, <3>3, <3>4 DEF FrameInPlace
  <2>4. FrameOK(g)'
    BY <1>6, <2>2
  <2>5. stack'[Len(stack)] = Top /\ stack'[Len(stack) + 1] = g
    <3>1. Len(stack) \in 1 .. Len(stack)
      BY <1>1
    <3>2. stack'[Len(stack)] = stack[Len(stack)]
      BY <1>7, <3>1
    <3> QED BY <1>7, <3>2 DEF Top
  <2>6. Len(stack) + 1 # 1 /\ (Len(stack) + 1) - 1 = Len(stack)
    BY <1>1
  <2>7. ASSUME NEW k \in DOMAIN stack', k = Len(stack) + 1
        PROVE  FrameInPlace(k)'
    BY <1>6, <2>4, <2>5, <2>6, <2>7 DEF FrameInPlace
  <2>8. \A k \in DOMAIN stack' : k \in 1 .. Len(stack) \/ k = Len(stack) + 1
    BY <1>1, <1>8
  <2> QED BY <2>3, <2>7, <2>8 DEF FramesOK
<1> QED BY <1>9, <1>10, <1>11, <1>12 DEF IInv, ControlConsistent

(***************************************************************************)
(* The node a frame appends: its arithmetic did not overflow, so it is     *)
(* exact, and the local sum equation of its two children carries over.     *)
(***************************************************************************)
LEMMA FinishedNodeInOrder ==
  ASSUME IInv, stack # <<>>, Top.todo = {}, Computed(FinishedNode(Top))
  PROVE  /\ Arena \in Seq(Node) /\ WellFormed(Arena)
         /\ FinishedNode(Top) \in Node
         /\ FinishedNode(Top).segment = Top.segment
         /\ NodeOK(Append(Arena, FinishedNode(Top)), Len(Arena) + 1)
<1> DEFINE f == Top
           c == Top.segment
           node == FinishedNode(Top)
           longer == Append(Arena, FinishedNode(Top))
<1>1. /\ f \in Frame /\ FrameOK(f)
      /\ call.op \in {"initialize", "rangeAdd"}
      /\ call.op = "initialize" => call.values \in Seq(Value)
      /\ call.op = "rangeAdd" => /\ call.left \in Nat /\ call.right \in Nat
                                 /\ call.value \in Value
                                 /\ call.checkpoint \in 0 .. Len(nodes)
      /\ CallSize \in Nat
      /\ c \in Interval(CallSize)
      /\ nodes \in Seq(Node) /\ newNodes \in Seq(Node)
  BY TopFrame
<1>2. /\ c[1] \in 1 .. CallSize /\ c[2] \in 1 .. CallSize /\ c[1] <= c[2]
      /\ c \in Nat \X Nat /\ Length(c) \in Nat
  BY <1>1, Halves
<1>3. /\ Arena \in Seq(Node) /\ WellFormed(Arena)
      /\ DOMAIN Arena = 1 .. Len(Arena) /\ Len(Arena) \in Nat
      /\ \A i \in 1 .. Len(Arena) : Arena[i] \in Node
  BY <1>1, ElementOfSeq, LenProperties DEF Arena, IInv, TreesWellFormed
<1>4. node.sum # Overflow /\ node.lazy # Overflow
  BY DEF Computed
<1>5. \A i \in 1 .. Len(Arena) : Arena[i].sum \in Value /\ Arena[i].lazy \in Value
  BY <1>3 DEF Node
<1>6. ASSUME node \in Node
      PROVE  /\ \A i \in 1 .. Len(Arena) : longer[i] = Arena[i]
             /\ longer[Len(Arena) + 1] = node
  BY <1>3, <1>6, AppendProperties
<1>7. CASE call.op = "initialize"
  <2>1. /\ node = BuiltNode(f) /\ BuildFrameOK(f) /\ Arena = newNodes
        /\ node.leftChild = f.newLeft /\ node.rightChild = f.newRight
        /\ node.lazy = 0 /\ node.segment = c
    BY <1>1, <1>7 DEF FinishedNode, BuiltNode, FrameOK, Arena
  <2>2. CASE IsLeaf(c)
    <3>1. node.sum \in Value
      BY <1>1, <1>2, <1>7, <2>1, <2>2, ElementOfSeq DEF BuiltNode, CallSize
    <3>2. node \in Node
      BY <1>1, <1>2, <2>1, <3>1, ValueFacts DEF Node, BuiltNode, Frame
    <3> QED BY <1>3, <1>6, <2>1, <2>2, <3>2 DEF NodeOK, BuildFrameOK
  <2>3. CASE ~IsLeaf(c)
    <3>1. /\ f.newLeft \in 1 .. Len(Arena)
          /\ Arena[f.newLeft].segment = LeftHalf(c)
          /\ f.newRight \in 1 .. Len(Arena)
          /\ Arena[f.newRight].segment = RightHalf(c)
      BY <1>3, <2>1, <2>3 DEF BuildFrameOK, ChildOK
    <3>2. node.sum = CheckedAdd(Arena[f.newLeft].sum, Arena[f.newRight].sum)
      BY <2>1, <2>3 DEF BuiltNode
    <3> DEFINE l == Arena[f.newLeft].sum
               r == Arena[f.newRight].sum
    <3>a. l \in Int /\ r \in Int
      BY <1>5, <3>1, ValueFacts
    <3>b. CheckedAdd(l, r) # Overflow
      BY <1>4, <3>2
    <3>c. CheckedAdd(l, r) = l + r /\ l + r \in Value
      BY <3>a, <3>b, CheckedAddExact
    <3>3. node.sum = l + r /\ node.sum \in Value
      BY <3>2, <3>c
    <3>4. node \in Node
      BY <1>1, <1>2, <2>1, <3>3, ValueFacts DEF Node, BuiltNode, Frame
    <3>5. l + r = l + r + 0 * Length(c)
      BY <1>2, <3>a
    <3>6. node.sum = Arena[f.newLeft].sum + Arena[f.newRight].sum
                     + node.lazy * Length(c)
      BY <2>1, <3>3, <3>5
    <3> QED BY <1>3, <1>6, <2>1, <2>3, <3>1, <3>4, <3>6 DEF NodeOK
  <2> QED BY <2>2, <2>3
<1>8. CASE call.op = "rangeAdd" /\ Covers(call.left, call.right, c)
  <2> DEFINE current == nodes[f.node]
  <2>1. /\ UpdateFrameOK(f) /\ Arena = nodes
        /\ node = CoveredNode(f)
        /\ node.leftChild = current.leftChild
        /\ node.rightChild = current.rightChild
        /\ node.sum = Apply(call.value, current.sum, Length(c))
        /\ node.lazy = CheckedAdd(current.lazy, call.value)
        /\ node.segment = c
    BY <1>1, <1>8 DEF FinishedNode, CoveredNode, FrameOK, Arena
  <2>2. /\ f.node \in 1 .. Len(nodes) /\ current \in Node
        /\ NodeOK(nodes, f.node) /\ current.segment = c
    BY <1>1, <1>3, <1>8, <2>1 DEF UpdateFrameOK, WellFormed
  <2>3. current.sum \in Value /\ current.lazy \in Value /\ call.value \in Value
    BY <1>1, <1>8, <2>2 DEF Node
  <2>4. /\ node.sum = current.sum + call.value * Length(c)
        /\ node.sum \in Value
    BY <1>2, <1>4, <2>1, <2>3, ApplyExact, ValueFacts
  <2>5. node.lazy = current.lazy + call.value /\ node.lazy \in Value
    <3>1. CheckedAdd(current.lazy, call.value) # Overflow
          /\ current.lazy \in Int /\ call.value \in Int
      BY <1>4, <2>1, <2>3, ValueFacts
    <3> QED BY <2>1, <3>1, CheckedAddExact
  <2>6. node \in Node
    BY <1>2, <2>1, <2>2, <2>4, <2>5 DEF Node, CoveredNode
  <2>7. CASE IsLeaf(c)
    BY <1>3, <1>6, <2>1, <2>2, <2>6, <2>7 DEF NodeOK
  <2>8. CASE ~IsLeaf(c)
    <3>1. /\ node.leftChild \in 1 .. Len(nodes) /\ node.rightChild \in 1 .. Len(nodes)
          /\ nodes[node.leftChild].segment = LeftHalf(c)
          /\ nodes[node.rightChild].segment = RightHalf(c)
          /\ current.sum = nodes[node.leftChild].sum + nodes[node.rightChild].sum
                           + current.lazy * Length(c)
      BY <1>3, <2>1, <2>2, <2>8 DEF NodeOK
    <3>2. /\ nodes[node.leftChild].sum \in Int /\ nodes[node.rightChild].sum \in Int
          /\ current.lazy \in Int /\ call.value \in Int
      BY <1>5, <2>1, <2>3, <3>1, ValueFacts
    <3>3. nodes[node.leftChild].sum + nodes[node.rightChild].sum
          + current.lazy * Length(c) + call.value * Length(c)
            = nodes[node.leftChild].sum + nodes[node.rightChild].sum
              + (current.lazy + call.value) * Length(c)
      <4>1. PICK k \in Int : k = current.lazy
        BY <3>2
      <4>2. PICK d \in Int : d = call.value
        BY <3>2
      <4>3. PICK e \in Int : e = Length(c)
        BY <1>2
      <4>4. PICK l \in Int : l = nodes[node.leftChild].sum
        BY <3>2
      <4>5. PICK r \in Int : r = nodes[node.rightChild].sum
        BY <3>2
      <4>6. PICK s \in Int : s = (k + d) * e
        OBVIOUS
      <4>7. s = k * e + d * e
        BY <4>6
      <4>8. l + r + k * e + d * e = l + r + s
        BY <4>7
      <4> QED BY <4>1, <4>2, <4>3, <4>4, <4>5, <4>6, <4>8
    <3>4. node.sum = nodes[node.leftChild].sum + nodes[node.rightChild].sum
                     + node.lazy * Length(c)
      <4>1. node.sum = nodes[node.leftChild].sum + nodes[node.rightChild].sum
                       + current.lazy * Length(c) + call.value * Length(c)
        BY <2>4, <3>1
      <4>2. node.lazy = current.lazy + call.value
        BY <2>5
      <4> QED BY <3>3, <4>1, <4>2
    <3> QED BY <1>3, <1>6, <2>1, <2>6, <2>8, <3>1, <3>4 DEF NodeOK
  <2> QED BY <1>3, <2>1, <2>6, <2>7, <2>8
<1>9. CASE call.op = "rangeAdd" /\ ~Covers(call.left, call.right, c)
  <2> DEFINE current == nodes[f.node]
  <2>1. /\ UpdateFrameOK(f) /\ Arena = nodes
        /\ node = ParentNode(f)
        /\ node.leftChild = f.newLeft /\ node.rightChild = f.newRight
        /\ node.sum = Apply(current.lazy,
                            CheckedAdd(nodes[f.newLeft].sum, nodes[f.newRight].sum),
                            Length(c))
        /\ node.lazy = current.lazy
        /\ node.segment = c
    BY <1>1, <1>9 DEF FinishedNode, ParentNode, FrameOK, Arena
  <2>2. ~IsLeaf(c)
    BY <1>1, <1>2, <1>9, <2>1 DEF UpdateFrameOK, IsLeaf, Disjoint, Covers
  <2>3. /\ f.newLeft \in 1 .. Len(nodes) /\ f.newRight \in 1 .. Len(nodes)
        /\ nodes[f.newLeft].segment = LeftHalf(c)
        /\ nodes[f.newRight].segment = RightHalf(c)
        /\ f.node \in 1 .. Len(nodes)
    BY <1>1, <1>3, <1>9, <2>1, <2>2 DEF UpdateFrameOK, ChildOK
  <2>4. /\ current.lazy \in Value /\ nodes[f.newLeft].sum \in Value
        /\ nodes[f.newRight].sum \in Value
    BY <1>5, <2>1, <2>3
  <2> DEFINE children == CheckedAdd(nodes[f.newLeft].sum, nodes[f.newRight].sum)
  <2>5. children \in Int
    BY <2>4, CheckedAddInt, ValueFacts
  <2>6. /\ node.sum = children + current.lazy * Length(c)
        /\ node.sum \in Value
        /\ children # Overflow
    <3>1. Apply(current.lazy, children, Length(c)) # Overflow
          /\ current.lazy \in Int
      BY <1>4, <2>1, <2>4, ValueFacts
    <3> QED BY <1>2, <2>1, <2>5, <3>1, ApplyExact
  <2>7. children = nodes[f.newLeft].sum + nodes[f.newRight].sum
    BY <2>4, <2>6, CheckedAddExact, ValueFacts
  <2>8. node \in Node
    BY <1>1, <1>2, <2>1, <2>4, <2>6 DEF Node, ParentNode, Frame
  <2> QED BY <1>3, <1>6, <2>1, <2>2, <2>3, <2>6, <2>7, <2>8 DEF NodeOK
<1> QED BY <1>1, <1>7, <1>8, <1>9

(***************************************************************************)
(* A frame stays in order while its arena grows.                           *)
(***************************************************************************)
LEMMA FrameSurvivesAppend ==
  ASSUME IInv, stack # <<>>, UNCHANGED <<arraySize, call>>,
         \/ call.op = "initialize" /\ UNCHANGED nodes
            /\ \E node : newNodes' = Append(newNodes, node) /\ node \in Node
         \/ call.op = "rangeAdd" /\ UNCHANGED newNodes
            /\ \E node : nodes' = Append(nodes, node) /\ node \in Node,
         NEW f, FrameOK(f)
  PROVE  FrameOK(f)'
<1>1. /\ nodes \in Seq(Node) /\ newNodes \in Seq(Node)
      /\ DOMAIN nodes = 1 .. Len(nodes) /\ Len(nodes) \in Nat
      /\ DOMAIN newNodes = 1 .. Len(newNodes) /\ Len(newNodes) \in Nat
      /\ call.op = "rangeAdd" => call.checkpoint \in 0 .. Len(nodes)
  BY TopFrame
<1>2. CallSize' = CallSize
  BY DEF CallSize
<1>3. CASE call.op = "initialize"
  <2>1. PICK node \in Node : newNodes' = Append(newNodes, node)
    BY <1>3
  <2>2. /\ newNodes' \in Seq(Node) /\ Len(newNodes') = Len(newNodes) + 1
        /\ \A i \in 1 .. Len(newNodes) : newNodes'[i] = newNodes[i]
    <3>1. newNodes \in Seq(Node) /\ node \in Node
      BY <1>1
    <3>2. /\ Append(newNodes, node) \in Seq(Node)
          /\ Len(Append(newNodes, node)) = Len(newNodes) + 1
          /\ \A i \in 1 .. Len(newNodes) : Append(newNodes, node)[i] = newNodes[i]
      BY <3>1, AppendProperties
    <3> QED BY <2>1, <3>2
  <2>3. DOMAIN newNodes' = 1 .. Len(newNodes) + 1
    BY <2>2, LenProperties
  <2>4. Arena = newNodes /\ Arena' = newNodes'
    BY <1>3 DEF Arena
  <2>5. \A i, c : ChildOK(i, c) => ChildOK(i, c)'
    BY <1>1, <2>2, <2>3, <2>4 DEF ChildOK
  <2> QED BY <1>2, <1>3, <2>5 DEF FrameOK, BuildFrameOK
<1>4. CASE call.op = "rangeAdd"
  <2>1. PICK node \in Node : nodes' = Append(nodes, node)
    BY <1>4
  <2>2. /\ nodes' \in Seq(Node) /\ Len(nodes') = Len(nodes) + 1
        /\ \A i \in 1 .. Len(nodes) : nodes'[i] = nodes[i]
    <3>1. nodes \in Seq(Node) /\ node \in Node
      BY <1>1
    <3>2. /\ Append(nodes, node) \in Seq(Node)
          /\ Len(Append(nodes, node)) = Len(nodes) + 1
          /\ \A i \in 1 .. Len(nodes) : Append(nodes, node)[i] = nodes[i]
      BY <3>1, AppendProperties
    <3> QED BY <2>1, <3>2
  <2>3. DOMAIN nodes' = 1 .. Len(nodes) + 1
    BY <2>2, LenProperties
  <2>4. Arena = nodes /\ Arena' = nodes'
    BY <1>4 DEF Arena
  <2>5. \A k, c : ChildOK(k, c) => ChildOK(k, c)'
    BY <1>1, <2>2, <2>3, <2>4 DEF ChildOK
  <2>6. \A k \in 1 .. call.checkpoint : nodes'[k] = nodes[k]
    BY <1>1, <1>4, <2>2
  <2>7. UpdateFrameOK(f) => UpdateFrameOK(f)'
    BY <2>5, <2>6 DEF UpdateFrameOK
  <2> QED BY <1>2, <1>4, <2>7 DEF FrameOK
<1> QED BY <1>3, <1>4

(***************************************************************************)
(* A caller that receives the index of the half it waited for.             *)
(***************************************************************************)
LEMMA ReceiveInOrder ==
  ASSUME NEW f \in Frame, FrameOK(f)', NEW index \in Nat, f.todo # {},
         ChildOK(index, Half(f.segment, NextSide(f)))'
  PROVE  /\ Receive(f, index) \in Frame
         /\ Receive(f, index).segment = f.segment
         /\ FrameOK(Receive(f, index))'
<1> DEFINE g == Receive(f, index)
<1>1. /\ g.segment = f.segment /\ g.node = f.node
      /\ g.todo = f.todo \ {NextSide(f)}
      /\ g.newLeft = IF NextSide(f) = "left" THEN index ELSE f.newLeft
      /\ g.newRight = IF NextSide(f) = "right" THEN index ELSE f.newRight
      /\ g \in Frame
  BY DEF Receive, Frame
<1>2. NextSide(f) \in f.todo
  BY DEF NextSide, Frame, Sides
<1>3. /\ NextSide(f) = "left" => ChildOK(index, LeftHalf(f.segment))'
      /\ NextSide(f) = "right" => ChildOK(index, RightHalf(f.segment))'
      /\ NextSide(f) \in {"left", "right"}
  BY DEF NextSide, Half
<1>4. BuildFrameOK(f)' => BuildFrameOK(g)'
  BY <1>1, <1>2, <1>3 DEF BuildFrameOK
<1>5. UpdateFrameOK(f)' => UpdateFrameOK(g)'
  BY <1>1, <1>2, <1>3 DEF UpdateFrameOK
<1> QED BY <1>1, <1>4, <1>5 DEF FrameOK

LEMMA ReturnIInv ==
  ASSUME IInv, Return
  PROVE  IInv'
<1>0. PICK node : node = FinishedNode(Top)
  OBVIOUS
<1>1. /\ stack # <<>> /\ Top.todo = {} /\ Computed(FinishedNode(Top))
      /\ UNCHANGED <<roots, arraySize, call>>
      /\ call.op = "initialize" =>
           /\ newNodes' = Append(newNodes, node) /\ UNCHANGED nodes
           /\ stack' = Resume(stack, Len(newNodes'))
      /\ call.op # "initialize" =>
           /\ nodes' = Append(nodes, node) /\ UNCHANGED newNodes
           /\ stack' = Resume(stack, Len(nodes'))
  BY <1>0 DEF Return
<1>2. /\ stack \in Seq(Frame) /\ Len(stack) \in Nat \ {0}
      /\ DOMAIN stack = 1 .. Len(stack)
      /\ Top \in Frame /\ FrameOK(Top)
      /\ call.op \in {"initialize", "rangeAdd"}
      /\ call.op = "rangeAdd" => call.checkpoint \in 0 .. Len(nodes)
      /\ CallSize \in Nat
      /\ nodes \in Seq(Node) /\ newNodes \in Seq(Node)
      /\ Len(nodes) \in Nat
  BY <1>1, TopFrame
<1>3. /\ Arena \in Seq(Node) /\ WellFormed(Arena)
      /\ node \in Node /\ node.segment = Top.segment
      /\ NodeOK(Append(Arena, node), Len(Arena) + 1)
  BY <1>0, <1>1, FinishedNodeInOrder
<1>4. /\ Append(Arena, node) \in Seq(Node)
      /\ WellFormed(Append(Arena, node))
      /\ Len(Append(Arena, node)) = Len(Arena) + 1
      /\ \A i \in DOMAIN Arena : Append(Arena, node)[i] = Arena[i]
      /\ Append(Arena, node)[Len(Arena) + 1] = node
  BY <1>3, AppendWellFormed
<1>5. /\ Arena' = Append(Arena, node)
      /\ stack' = Resume(stack, Len(Arena'))
      /\ CallSize' = CallSize
  BY <1>1 DEF Arena, CallSize
<1>6. PICK index \in Nat : index = Len(Arena') /\ index = Len(Arena) + 1
  BY <1>3, <1>4, <1>5, LenProperties
<1>7. PICK c : c = Top.segment
  OBVIOUS
<1>8. ChildOK(index, c)'
  <2>1. index \in DOMAIN Arena' /\ Arena'[index] = node
    BY <1>3, <1>4, <1>5, <1>6, LenProperties
  <2> QED BY <1>3, <1>7, <2>1 DEF ChildOK
<1>9. ASSUME NEW f, FrameOK(f)
      PROVE  FrameOK(f)'
  BY <1>1, <1>2, <1>3, <1>9, FrameSurvivesAppend
<1>10. /\ nodes' \in Seq(Node) /\ newNodes' \in Seq(Node)
       /\ WellFormed(nodes)' /\ WellFormed(newNodes)'
       /\ Len(nodes) <= Len(nodes')
       /\ \A i \in DOMAIN nodes : i \in DOMAIN nodes' /\ nodes'[i] = nodes[i]
  <2>1. CASE call.op = "initialize"
    <3>1. nodes' = nodes /\ newNodes' = Append(newNodes, node) /\ Arena = newNodes
      BY <1>1, <2>1 DEF Arena
    <3>2. WellFormed(nodes)'
      BY <3>1 DEF IInv, TreesWellFormed, WellFormed, NodeOK
    <3>3. WellFormed(newNodes)'
      BY <1>4, <3>1 DEF WellFormed, NodeOK
    <3> QED BY <1>2, <1>4, <3>1, <3>2, <3>3
  <2>2. CASE call.op = "rangeAdd"
    <3>1. newNodes' = newNodes /\ nodes' = Append(nodes, node) /\ Arena = nodes
      BY <1>1, <2>2 DEF Arena
    <3>2. WellFormed(newNodes)'
      BY <3>1 DEF IInv, TreesWellFormed, WellFormed, NodeOK
    <3>3. WellFormed(nodes)'
      BY <1>4, <3>1 DEF WellFormed, NodeOK
    <3>4. DOMAIN nodes = 1 .. Len(nodes) /\ DOMAIN nodes' = 1 .. Len(nodes')
      BY <1>2, <1>4, <3>1, LenProperties
    <3> QED BY <1>2, <1>4, <3>1, <3>2, <3>3, <3>4
  <2> QED BY <1>2, <2>1, <2>2
<1>11. TreesWellFormed'
  BY <1>1, <1>10 DEF IInv, TreesWellFormed, RootOK
<1>12. /\ call' = call /\ call.op # "idle"
       /\ call.op # "initialize" => newNodes' = <<>>
       /\ call.op = "initialize" => call.values # <<>>
       /\ call.op = "rangeAdd" =>
            /\ call.left <= call.right /\ call.right <= arraySize'
            /\ call.checkpoint <= Len(nodes')
            /\ \A v \in DOMAIN roots' : roots'[v] <= call.checkpoint
  BY <1>1, <1>2, <1>10 DEF IInv, ControlConsistent, CallOK
<1>13. CASE Len(stack) = 1
  <2>1. stack' = <<>>
    BY <1>1, <1>2, <1>5, <1>13, SubSeqEmpty DEF Resume
  <2>2. TypeOK'
    BY <1>1, <1>10, <2>1, EmptySeq DEF IInv, TypeOK
  <2>3. FramesOK'
    BY <2>1 DEF FramesOK
  <2>4. c = Root(CallSize')
    BY <1>2, <1>5, <1>7, <1>13
       DEF Top, IInv, ControlConsistent, FramesOK, FrameInPlace
  <2>5. CallOK'
    BY <1>2, <1>5, <1>6, <1>8, <1>12, <2>1, <2>4 DEF CallOK, ChildOK, Arena
  <2> QED BY <1>11, <2>2, <2>3, <2>5 DEF IInv, ControlConsistent
<1>14. CASE Len(stack) # 1
  <2>a. PICK m : m = Len(stack) - 1
    OBVIOUS
  <2>b. PICK callers : callers = SubSeq(stack, 1, m)
    OBVIOUS
  <2>1. m \in Nat /\ m # 0 /\ m \in 1 .. m /\ m \in 1 .. Len(stack) /\ m + 1 = Len(stack)
    BY <1>2, <1>14, <2>a
  <2>2. /\ callers \in Seq(Frame) /\ Len(callers) = m
        /\ \A k \in 1 .. m : callers[k] = stack[k]
    <3>1. \A k \in 1 .. m : stack[k] \in Frame
      BY <1>2, <2>1, ElementOfSeq
    <3> QED BY <2>b, <2>1, <3>1, SubSeqProperties
  <2>3. callers # <<>>
    BY <2>1, <2>2, EmptySeq
  <2>4. PICK h : h = stack[m]
    OBVIOUS
  <2>5. /\ h \in Frame /\ FrameOK(h) /\ h.todo # {}
        /\ c = Half(h.segment, NextSide(h))
    <3>1. FrameInPlace(m) /\ FrameInPlace(Len(stack))
      BY <1>2, <2>1 DEF IInv, ControlConsistent, FramesOK
    <3>2. stack[m] \in Frame /\ Len(stack) - 1 = m
      BY <1>2, <2>a, <2>1, ElementOfSeq
    <3> QED BY <1>2, <1>7, <1>14, <2>4, <3>1, <3>2 DEF FrameInPlace, Top
  <2>6. PICK g : g = Receive(h, index)
    OBVIOUS
  <2>7. g \in Frame /\ g.segment = h.segment /\ FrameOK(g)'
    <3>1. FrameOK(h)'
      BY <1>9, <2>5
    <3>2. ChildOK(index, Half(h.segment, NextSide(h)))'
      BY <1>8, <2>5
    <3> QED BY <2>5, <2>6, <3>1, <3>2, ReceiveInOrder
  <2>8. stack' = [callers EXCEPT ![m] = g]
    BY <1>5, <1>6, <2>a, <2>b, <2>1, <2>2, <2>3, <2>4, <2>6 DEF Resume
  <2>9. /\ stack' \in Seq(Frame) /\ Len(stack') = m /\ DOMAIN stack' = 1 .. m
        /\ stack'[m] = g
        /\ \A k \in 1 .. m : k # m => stack'[k] = stack[k]
    <3>1. m \in 1 .. Len(callers)
      BY <2>1, <2>2
    <3>2. /\ [callers EXCEPT ![m] = g] \in Seq(Frame)
          /\ Len([callers EXCEPT ![m] = g]) = Len(callers)
          /\ \A k \in 1 .. Len(callers) :
               [callers EXCEPT ![m] = g][k] = IF k = m THEN g ELSE callers[k]
      BY <2>2, <2>7, <3>1, ExceptSeq
    <3> QED BY <2>1, <2>2, <2>8, <3>2, LenProperties
  <2>10. TypeOK'
    BY <1>1, <1>10, <2>9 DEF IInv, TypeOK
  <2>11. ASSUME NEW k \in 1 .. m
         PROVE  FrameInPlace(k)'
    <3>1. k \in 1 .. Len(stack) /\ FrameInPlace(k)
      BY <1>2, <2>1 DEF IInv, ControlConsistent, FramesOK
    <3>2. PICK f : f = stack'[k]
      OBVIOUS
    <3>3. FrameOK(f)' /\ f.segment = stack[k].segment
      BY <1>9, <2>4, <2>7, <2>9, <3>1, <3>2 DEF FrameInPlace
    <3>4. k # 1 => stack'[k - 1] = stack[k - 1]
      <4>1. k # 1 => k - 1 \in 1 .. m /\ k - 1 # m
        BY <2>1
      <4> QED BY <2>9, <4>1
    <3> QED BY <1>5, <3>1, <3>2, <3>3, <3>4 DEF FrameInPlace
  <2>12. FramesOK'
    BY <2>9, <2>11 DEF FramesOK
  <2>13. stack' # <<>>
    BY <2>1, <2>9, EmptySeq
  <2>14. CallOK'
    BY <1>12, <2>13 DEF CallOK
  <2> QED BY <1>11, <2>10, <2>12, <2>14 DEF IInv, ControlConsistent
<1> QED BY <1>13, <1>14

LEMMA PublishInitialIInv ==
  ASSUME IInv, PublishInitial
  PROVE  IInv'
<1>1. /\ call.op = "initialize" /\ call.values \in Seq(Value)
      /\ newNodes \in Seq(Node) /\ Len(newNodes) \in Nat
      /\ Len(call.values) \in Nat
  BY ArraysAssumption, LenProperties
     DEF IInv, TypeOK, Call, Idle, PublishInitial
<1>2. /\ call' = Idle /\ stack' = <<>> /\ newNodes' = <<>>
      /\ nodes' = newNodes /\ roots' = <<Len(newNodes)>>
      /\ arraySize' = Len(call.values)
  BY DEF PublishInitial
<1>3. TypeOK'
  BY <1>1, <1>2, EmptySeq DEF TypeOK, Call
<1>a. PICK root : root = Len(newNodes)
  OBVIOUS
<1>4. RootOK(root)'
  <2>1. CASE call.values = <<>>
    BY <1>a, <1>1, <1>2, <2>1 DEF IInv, ControlConsistent, CallOK, RootOK, NoNode
  <2>2. CASE call.values # <<>>
    <3>1. ChildOK(root, Root(Len(call.values)))
      BY <1>a, <1>1, <2>2
         DEF PublishInitial, IInv, ControlConsistent, CallOK, CallSize
    <3>2. Len(call.values) # 0
      BY <1>1, <2>2, EmptySeq
    <3> QED BY <1>1, <1>2, <3>1, <3>2 DEF RootOK, ChildOK, Arena
  <2> QED BY <2>1, <2>2
<1>5. TreesWellFormed'
  <2>1. WellFormed(nodes)' /\ WellFormed(newNodes)'
    BY <1>2 DEF IInv, TreesWellFormed, WellFormed, NodeOK
  <2>2. DOMAIN roots' = {1} /\ roots'[1] = root
    BY <1>a, <1>2
  <2>3. \A v \in DOMAIN roots' : RootOK(roots[v])'
    BY <1>4, <2>2 DEF RootOK
  <2> QED BY <2>1, <2>3 DEF TreesWellFormed
<1>6. ControlConsistent'
  BY <1>2 DEF ControlConsistent, CallOK, FramesOK, Idle
<1> QED BY <1>3, <1>5, <1>6 DEF IInv

LEMMA PublishVersionIInv ==
  ASSUME IInv, PublishVersion
  PROVE  IInv'
<1>1. /\ call.op = "rangeAdd" /\ stack = <<>>
      /\ call' = Idle /\ stack' = <<>>
      /\ UNCHANGED <<nodes, newNodes, arraySize>>
      /\ roots' = Append(roots, Len(nodes))
  BY DEF PublishVersion
<1>2. /\ nodes \in Seq(Node) /\ Len(nodes) \in Nat /\ roots \in Seq(Nat)
      /\ arraySize \in Nat /\ call.left \in Nat \ {0} /\ call.right \in Nat
  BY <1>1, LenProperties DEF IInv, TypeOK, Call, Idle
<1>3. arraySize # 0 /\ ChildOK(Len(nodes), Root(arraySize)) /\ newNodes = <<>>
  BY <1>1, <1>2 DEF IInv, ControlConsistent, CallOK, CallSize
<1>4. /\ roots' \in Seq(Nat) /\ Len(roots') = Len(roots) + 1
      /\ \A v \in 1 .. Len(roots) : roots'[v] = roots[v]
      /\ roots'[Len(roots) + 1] = Len(nodes)
      /\ DOMAIN roots = 1 .. Len(roots) /\ Len(roots) \in Nat
      /\ DOMAIN roots' = 1 .. Len(roots')
  BY <1>1, <1>2, AppendProperties, LenProperties
<1>5. TypeOK'
  BY <1>1, <1>4 DEF IInv, TypeOK, Call
<1>6. TreesWellFormed'
  <2>1. WellFormed(nodes)' /\ WellFormed(newNodes)'
    BY <1>1 DEF IInv, TreesWellFormed, WellFormed, NodeOK
  <2>2. RootOK(Len(nodes)) /\ \A v \in DOMAIN roots : RootOK(roots[v])
    BY <1>1, <1>3 DEF IInv, TreesWellFormed, RootOK, ChildOK, Arena
  <2>3. ASSUME NEW v \in DOMAIN roots' PROVE RootOK(roots'[v])
    BY <1>4, <2>2
  <2> QED BY <1>1, <2>1, <2>3 DEF TreesWellFormed, RootOK
<1>7. ControlConsistent'
  BY <1>1, <1>3 DEF ControlConsistent, CallOK, FramesOK, Idle
<1> QED BY <1>5, <1>6, <1>7 DEF IInv

LEMMA ThrowIInv ==
  ASSUME IInv, Throw
  PROVE  IInv'
<1>1. /\ call' = Idle /\ stack' = <<>> /\ newNodes' = <<>>
      /\ UNCHANGED <<roots, arraySize>>
      /\ nodes' = IF call.op = "rangeAdd" THEN SubSeq(nodes, 1, call.checkpoint)
                  ELSE nodes
  BY DEF Throw
<1>2. nodes \in Seq(Node) /\ WellFormed(nodes)
      /\ Len(nodes) \in Nat /\ DOMAIN nodes = 1 .. Len(nodes)
  BY LenProperties DEF IInv, TypeOK, TreesWellFormed
<1>3. /\ nodes' \in Seq(Node) /\ WellFormed(nodes)'
      /\ \A v \in DOMAIN roots : RootOK(roots[v])'
  <2>1. CASE call.op = "rangeAdd"
    <3>1. /\ call.checkpoint \in 0 .. Len(nodes)
          /\ \A v \in DOMAIN roots : roots[v] <= call.checkpoint
      BY <1>2, <2>1 DEF IInv, TypeOK, Call, Idle, ControlConsistent, CallOK
    <3>2. /\ nodes' \in Seq(Node)
          /\ Len(nodes') = call.checkpoint
          /\ \A i \in 1 .. call.checkpoint : nodes'[i] = nodes[i]
          /\ WellFormed(SubSeq(nodes, 1, call.checkpoint))
      BY <1>1, <1>2, <2>1, <3>1, CutWellFormed
    <3>3. WellFormed(nodes)'
      BY <1>1, <2>1, <3>2 DEF WellFormed, NodeOK
    <3>4. DOMAIN nodes' = 1 .. call.checkpoint
      BY <3>2, LenProperties
    <3>5. ASSUME NEW v \in DOMAIN roots PROVE RootOK(roots[v])'
      <4>1. RootOK(roots[v]) /\ roots[v] <= call.checkpoint
        BY <3>1 DEF IInv, TreesWellFormed
      <4>2. roots[v] \in DOMAIN nodes => /\ roots[v] \in DOMAIN nodes'
                                         /\ nodes'[roots[v]] = nodes[roots[v]]
        BY <1>2, <3>1, <3>2, <3>4, <4>1
      <4> QED BY <1>1, <4>1, <4>2 DEF RootOK
    <3> QED BY <3>2, <3>3, <3>5
  <2>2. CASE call.op # "rangeAdd"
    BY <1>1, <1>2, <2>2 DEF IInv, TreesWellFormed, WellFormed, NodeOK, RootOK
  <2> QED BY <2>1, <2>2
<1>4. TypeOK'
  BY <1>1, <1>3, EmptySeq DEF IInv, TypeOK, Call
<1>5. TreesWellFormed'
  BY <1>1, <1>3 DEF TreesWellFormed, WellFormed, RootOK
<1>6. ControlConsistent'
  BY <1>1 DEF ControlConsistent, CallOK, FramesOK, Idle
<1> QED BY <1>4, <1>5, <1>6 DEF IInv

LEMMA StutterIInv ==
  ASSUME IInv, UNCHANGED vars
  PROVE  IInv'
<1>1. UNCHANGED <<nodes, roots, arraySize, newNodes, call, stack>>
  BY DEF vars
<1>2. TypeOK'
  BY <1>1 DEF IInv, TypeOK
<1>3. TreesWellFormed'
  BY <1>1 DEF IInv, TreesWellFormed, WellFormed, NodeOK, RootOK
<1>4. CallOK'
  BY <1>1 DEF IInv, ControlConsistent, CallOK, ChildOK, CallSize, Arena
<1>5. FramesOK'
  BY <1>1 DEF IInv, ControlConsistent, FramesOK, FrameInPlace, FrameOK,
              BuildFrameOK, UpdateFrameOK, ChildOK, CallSize, Arena
<1> QED BY <1>2, <1>3, <1>4, <1>5 DEF IInv, ControlConsistent

LEMMA NextIInv == IInv /\ [Next]_vars => IInv'
<1> SUFFICES ASSUME IInv, [Next]_vars PROVE IInv'
  OBVIOUS
<1>1. ASSUME NEW values \in Arrays, BeginInitialize(values) PROVE IInv'
  BY <1>1, BeginInitializeIInv
<1>2. ASSUME NEW left, NEW right, RangeAddZero(left, right) PROVE IInv'
  BY <1>2, RangeAddZeroIInv
<1>3. ASSUME NEW left, NEW right, NEW value \in Deltas,
             BeginRangeAdd(left, right, value)
      PROVE  IInv'
  BY <1>3, BeginRangeAddIInv
<1>4. CASE Descend
  BY <1>4, DescendIInv
<1>5. CASE Return
  BY <1>5, ReturnIInv
<1>6. CASE PublishInitial
  BY <1>6, PublishInitialIInv
<1>7. CASE PublishVersion
  BY <1>7, PublishVersionIInv
<1>8. CASE Throw
  BY <1>8, ThrowIInv
<1>9. CASE UNCHANGED vars
  BY <1>9, StutterIInv
<1> QED BY <1>1, <1>2, <1>3, <1>4, <1>5, <1>6, <1>7, <1>8, <1>9 DEF Next, Step

-----------------------------------------------------------------------------
(***************************************************************************)
(* The results.                                                            *)
(***************************************************************************)

(* IInv holds in every reachable state, whatever calls are made. *)
THEOREM InductiveInvariant == Spec => []IInv
<1> QED BY InitIInv, NextIInv, PTL DEF Spec

(***************************************************************************)
(* Type correctness: in particular every sum and tag stored in a node is a *)
(* representable value, so no overflow ever reaches the arena.             *)
(***************************************************************************)
THEOREM TypeCorrect == Spec => []TypeOK
<1>1. IInv => TypeOK
  BY DEF IInv
<1> QED BY <1>1, InductiveInvariant, PTL

(***************************************************************************)
(* update and build never link a node of the wrong segment, never create a *)
(* cycle, never forget a tag in a sum, and rollback never cuts off a node  *)
(* that a published version still uses.                                    *)
(***************************************************************************)
THEOREM TreesStayWellFormed == Spec => []TreesWellFormed
<1>1. IInv => TreesWellFormed
  BY DEF IInv
<1> QED BY <1>1, InductiveInvariant, PTL

(***************************************************************************)
(* The recursion of build and update is always at a place the code can     *)
(* resume from, with only published nodes still to be read.                *)
(***************************************************************************)
THEOREM RecursionConsistent == Spec => []ControlConsistent
<1>1. IInv => ControlConsistent
  BY DEF IInv
<1> QED BY <1>1, InductiveInvariant, PTL

-----------------------------------------------------------------------------
(***************************************************************************)
(* Published versions never change.                                        *)
(***************************************************************************)
LEMMA ArenaKept ==
  ASSUME IInv,
         \A i \in 1 .. Published : nodes'[i] = nodes[i],
         Published \in Nat, Published' \in Nat, Published' >= Published,
         \/ UNCHANGED roots
         \/ \E root \in Nat : roots' = Append(roots, root)
  PROVE  PublishedNodesKept
<1>1. roots \in Seq(Nat) /\ DOMAIN roots = 1 .. Len(roots) /\ Len(roots) \in Nat
  BY LenProperties DEF IInv, TypeOK
<1>2. ASSUME NEW root \in Nat, roots' = Append(roots, root)
      PROVE  \A v \in DOMAIN roots : v \in DOMAIN roots' /\ roots'[v] = roots[v]
  <2>1. /\ Append(roots, root) \in Seq(Nat)
        /\ Len(Append(roots, root)) = Len(roots) + 1
        /\ \A v \in 1 .. Len(roots) : Append(roots, root)[v] = roots[v]
    BY <1>1, AppendProperties
  <2>2. DOMAIN roots' = 1 .. Len(roots) + 1
    BY <1>2, <2>1, LenProperties
  <2>3. \A v \in 1 .. Len(roots) : roots'[v] = roots[v]
    BY <1>2, <2>1
  <2>4. 1 .. Len(roots) \subseteq 1 .. Len(roots) + 1
    BY <1>1
  <2> QED BY <1>1, <2>2, <2>3, <2>4
<1> QED BY <1>2 DEF PublishedNodesKept

LEMMA StepKeepsPublished ==
  IInv /\ [Next]_vars => [PublishInitial \/ PublishedNodesKept]_vars
<1> SUFFICES ASSUME IInv, Next, ~PublishInitial PROVE PublishedNodesKept
  BY DEF vars
<1>1. /\ nodes \in Seq(Node) /\ Len(nodes) \in Nat
      /\ DOMAIN nodes = 1 .. Len(nodes)
      /\ roots \in Seq(Nat) /\ DOMAIN roots = 1 .. Len(roots) /\ Len(roots) \in Nat
  BY LenProperties DEF IInv, TypeOK
<1>2. call.op = "rangeAdd" => call.checkpoint \in 0 .. Len(nodes)
  BY <1>1 DEF IInv, TypeOK, Call, Idle, ControlConsistent, CallOK
<1>3. Published \in Nat /\ Published <= Len(nodes)
  BY <1>1, <1>2 DEF Published
<1>4. ASSUME NEW values \in Arrays, BeginInitialize(values)
      PROVE  PublishedNodesKept
  <2>1. /\ UNCHANGED <<nodes, roots>>
        /\ Published = Len(nodes) /\ Published' = Len(nodes)
    BY <1>4 DEF BeginInitialize, Published, Idle
  <2> QED BY <1>1, <2>1, ArenaKept
<1>5. ASSUME NEW left, NEW right, RangeAddZero(left, right)
      PROVE  PublishedNodesKept
  <2>1. UNCHANGED <<nodes, call>> /\ roots' = Append(roots, roots[Len(roots)])
    BY <1>5 DEF RangeAddZero
  <2>2. roots[Len(roots)] \in Nat
    BY <1>1, <1>5, LatestRoot, ElementOfSeq DEF RangeAddZero
  <2> QED BY <1>3, <2>1, <2>2, ArenaKept DEF Published
<1>6. ASSUME NEW left, NEW right, NEW value, BeginRangeAdd(left, right, value)
      PROVE  PublishedNodesKept
  <2>1. /\ UNCHANGED <<nodes, roots>>
        /\ Published = Len(nodes) /\ Published' = Len(nodes)
    BY <1>6 DEF BeginRangeAdd, Published, Idle
  <2> QED BY <1>1, <2>1, ArenaKept
<1>7. CASE Descend
  <2>1. UNCHANGED <<nodes, roots, call>>
    BY <1>7 DEF Descend
  <2> QED BY <1>3, <2>1, ArenaKept DEF Published
<1>8. CASE Return
  <2>1. UNCHANGED <<roots, call>> /\ call.op \in {"initialize", "rangeAdd"}
    BY <1>8, TopFrame DEF Return
  <2>2. CASE call.op = "initialize"
    <3>1. UNCHANGED nodes
      BY <1>8, <2>2 DEF Return
    <3> QED BY <1>3, <2>1, <3>1, ArenaKept DEF Published
  <2>3. CASE call.op = "rangeAdd"
    <3>1. PICK node : node = FinishedNode(Top)
      OBVIOUS
    <3>2. nodes' = Append(nodes, node) /\ node \in Node
      BY <1>8, <2>3, <3>1, FinishedNodeInOrder DEF Return
    <3>3. \A i \in 1 .. Len(nodes) : nodes'[i] = nodes[i]
      BY <1>1, <3>2, AppendProperties
    <3>4. \A i \in 1 .. Published : nodes'[i] = nodes[i]
      BY <1>1, <1>3, <3>3
    <3>5. Published' = Published
      BY <2>1, <2>3 DEF Published
    <3> QED BY <1>3, <2>1, <3>4, <3>5, ArenaKept
  <2> QED BY <2>1, <2>2, <2>3
<1>9. CASE PublishVersion
  <2>1. /\ UNCHANGED nodes /\ roots' = Append(roots, Len(nodes))
        /\ Published' = Len(nodes)
    BY <1>9 DEF PublishVersion, Published, Idle
  <2> QED BY <1>1, <1>3, <2>1, ArenaKept
<1>10. CASE Throw
  <2>1. /\ UNCHANGED roots /\ Published' = Len(nodes')
        /\ nodes' = IF call.op = "rangeAdd" THEN SubSeq(nodes, 1, call.checkpoint)
                    ELSE nodes
    BY <1>10 DEF Throw, Published, Idle
  <2>2. CASE call.op = "rangeAdd"
    <3>1. /\ Len(nodes') = call.checkpoint
          /\ \A i \in 1 .. call.checkpoint : nodes'[i] = nodes[i]
      BY <1>1, <1>2, <2>1, <2>2, CutWellFormed DEF IInv, TreesWellFormed
    <3>2. Published = call.checkpoint
      BY <2>2 DEF Published
    <3> QED BY <1>3, <2>1, <3>1, <3>2, ArenaKept
  <2>3. CASE call.op # "rangeAdd"
    <3>1. Published' = Published /\ UNCHANGED nodes
      BY <2>1, <2>3 DEF Published
    <3> QED BY <1>3, <2>1, <3>1, ArenaKept
  <2> QED BY <2>2, <2>3
<1> QED BY <1>4, <1>5, <1>6, <1>7, <1>8, <1>9, <1>10 DEF Next, Step

(***************************************************************************)
(* Partial persistence: no call, and no exception out of a call, changes,  *)
(* moves or drops a node of a published version or redirects a version;    *)
(* only a completed initialize starts over.                                *)
(***************************************************************************)
THEOREM VersionsImmutable == Spec => PublishedImmutable
<1> QED BY InductiveInvariant, StepKeepsPublished, PTL DEF Spec, PublishedImmutable

-----------------------------------------------------------------------------
(***************************************************************************)
(* No node is lost.  A published node is a root, or a child of a published *)
(* node; a node the running call has made is a child of a node already, or *)
(* held by a frame that will link it, or it is the root to be published.   *)
(***************************************************************************)
Children(node) == {node.leftChild, node.rightChild}

PublishedOwned ==
  \A i \in 1 .. Published :
    \/ \E v \in DOMAIN roots : roots[v] = i
    \/ \E j \in 1 .. Published : i \in Children(nodes[j])

Held(i) ==
  IF stack = <<>> THEN i = Len(Arena)
  ELSE \E k \in DOMAIN stack : i \in {stack[k].newLeft, stack[k].newRight}

Linked(i) == \E j \in DOMAIN Arena : i \in Children(Arena[j])

MadeByCall ==
  IF call.op = "initialize" THEN 1 .. Len(newNodes)
  ELSE Published + 1 .. Len(nodes)

MadeHeld == \A i \in MadeByCall : Linked(i) \/ Held(i)

(***************************************************************************)
(* What a frame has not received yet is nothing, or a published child; so  *)
(* receiving an index loses no node of the running call.                   *)
(***************************************************************************)
Untouched(f, side) ==
  side \in f.todo \/ (call.op = "rangeAdd" /\ Covers(call.left, call.right, f.segment))

FrameLosesNone(f) ==
  /\ Untouched(f, "left") =>
       f.newLeft = IF call.op = "rangeAdd" THEN nodes[f.node].leftChild ELSE NoNode
  /\ Untouched(f, "right") =>
       f.newRight = IF call.op = "rangeAdd" THEN nodes[f.node].rightChild ELSE NoNode

NoneLost ==
  /\ PublishedOwned
  /\ MadeHeld
  /\ \A k \in DOMAIN stack : FrameLosesNone(stack[k])

(* A published version keeps its root when another one is published. *)
LEMMA RootsKept ==
  ASSUME roots \in Seq(Nat), NEW root \in Nat, roots' = Append(roots, root)
  PROVE  /\ \A v \in DOMAIN roots : v \in DOMAIN roots' /\ roots'[v] = roots[v]
         /\ Len(roots) + 1 \in DOMAIN roots' /\ roots'[Len(roots) + 1] = root
<1>1. /\ Append(roots, root) \in Seq(Nat)
      /\ Len(Append(roots, root)) = Len(roots) + 1
      /\ \A v \in 1 .. Len(roots) : Append(roots, root)[v] = roots[v]
      /\ Append(roots, root)[Len(roots) + 1] = root
  BY AppendProperties
<1>2. /\ DOMAIN roots = 1 .. Len(roots) /\ Len(roots) \in Nat
      /\ DOMAIN roots' = 1 .. Len(roots) + 1
  BY <1>1, LenProperties
<1> QED BY <1>1, <1>2

LEMMA InitNoneLost == Init => NoneLost
  BY DEF Init, NoneLost, PublishedOwned, MadeHeld, MadeByCall, Published, Idle

(* Between calls nothing is held, so every node is owned. *)
LEMMA NoneLostNoOrphans ==
  ASSUME IInv, NoneLost
  PROVE  NoOrphans
<1> SUFFICES ASSUME call = Idle, NEW i \in DOMAIN nodes
             PROVE  \/ \E v \in DOMAIN roots : roots[v] = i
                    \/ \E j \in DOMAIN nodes : i \in Children(nodes[j])
  BY DEF NoOrphans, Children
<1>1. Published = Len(nodes) /\ DOMAIN nodes = 1 .. Len(nodes)
  BY LenProperties DEF Published, Idle, IInv, TypeOK
<1> QED BY <1>1 DEF NoneLost, PublishedOwned

LEMMA BeginNoneLost ==
  ASSUME IInv, NoneLost,
         \/ \E values \in Arrays : BeginInitialize(values)
         \/ \E left, right : RangeAddZero(left, right)
         \/ \E left, right, value : BeginRangeAdd(left, right, value)
  PROVE  NoneLost'
<1>1. /\ Published = Len(nodes) /\ Len(nodes) \in Nat
      /\ call.op = "idle" /\ newNodes = <<>> /\ stack = <<>>
      /\ roots \in Seq(Nat) /\ Len(roots) \in Nat /\ DOMAIN roots = 1 .. Len(roots)
  BY LenProperties
     DEF BeginInitialize, RangeAddZero, BeginRangeAdd, Published, Idle,
         IInv, TypeOK, ControlConsistent, CallOK
<1>2. ASSUME NEW values \in Arrays, BeginInitialize(values) PROVE NoneLost'
  <2>1. /\ UNCHANGED <<nodes, roots, newNodes>> /\ call'.op = "initialize"
        /\ Published' = Len(nodes)
    BY <1>2 DEF BeginInitialize, Published
  <2>2. PublishedOwned' /\ MadeHeld'
    BY <1>1, <2>1 DEF NoneLost, PublishedOwned, MadeHeld, MadeByCall
  <2>3. ASSUME NEW k \in DOMAIN stack' PROVE FrameLosesNone(stack[k])'
    <3>1. stack'[k] = BuildFrame(Root(Len(values)))
      BY <1>2 DEF BeginInitialize
    <3> QED BY <2>1, <3>1 DEF FrameLosesNone, BuildFrame
  <2> QED BY <2>2, <2>3 DEF NoneLost
<1>3. ASSUME NEW left, NEW right, RangeAddZero(left, right) PROVE NoneLost'
  <2>1. /\ UNCHANGED <<nodes, newNodes, call, stack>>
        /\ roots' = Append(roots, roots[Len(roots)])
        /\ roots[Len(roots)] \in Nat
    BY <1>1, <1>3, LatestRoot, ElementOfSeq DEF RangeAddZero
  <2>2. \A v \in DOMAIN roots : v \in DOMAIN roots' /\ roots'[v] = roots[v]
    BY <1>1, <2>1, RootsKept
  <2>3. PublishedOwned'
    BY <1>1, <2>1, <2>2 DEF NoneLost, PublishedOwned, Published
  <2>4. MadeHeld'
    BY <1>1, <2>1 DEF MadeHeld, MadeByCall, Published
  <2> QED BY <1>1, <2>1, <2>3, <2>4 DEF NoneLost
<1>4. ASSUME NEW left, NEW right, NEW value, BeginRangeAdd(left, right, value)
      PROVE  NoneLost'
  <2>1. /\ UNCHANGED <<nodes, roots, newNodes>> /\ call'.op = "rangeAdd"
        /\ call'.left = left /\ call'.right = right
        /\ Published' = Len(nodes)
        /\ stack' = <<UpdateFrame(roots[Len(roots)], Root(arraySize), left, right)>>
    BY <1>4 DEF BeginRangeAdd, Published
  <2>2. PublishedOwned' /\ MadeHeld'
    BY <1>1, <2>1 DEF NoneLost, PublishedOwned, MadeHeld, MadeByCall
  <2>3. ASSUME NEW k \in DOMAIN stack' PROVE FrameLosesNone(stack[k])'
    BY <2>1 DEF FrameLosesNone, UpdateFrame
  <2> QED BY <2>2, <2>3 DEF NoneLost
<1> QED BY <1>2, <1>3, <1>4

(***************************************************************************)
(* A child a frame has not received yet is no node of the running call.    *)
(***************************************************************************)
LEMMA OldChildNotMade ==
  ASSUME IInv, NEW f \in Frame, FrameOK(f), FrameLosesNone(f),
         call.op \in {"initialize", "rangeAdd"},
         call.op = "rangeAdd" => call.checkpoint \in 0 .. Len(nodes)
  PROVE  /\ Untouched(f, "left") => f.newLeft \notin MadeByCall
         /\ Untouched(f, "right") => f.newRight \notin MadeByCall
<1>1. CASE call.op = "initialize"
  BY <1>1 DEF FrameLosesNone, MadeByCall, NoNode
<1>2. CASE call.op = "rangeAdd"
  <2>1. /\ nodes \in Seq(Node) /\ DOMAIN nodes = 1 .. Len(nodes) /\ Len(nodes) \in Nat
    BY LenProperties DEF IInv, TypeOK
  <2>2. f.node \in 1 .. call.checkpoint /\ f.node \in DOMAIN nodes
    BY <1>2, <2>1 DEF FrameOK, UpdateFrameOK
  <2>3. NodeOK(nodes, f.node)
    BY <2>2 DEF IInv, TreesWellFormed, WellFormed
  <2>4. MadeByCall = call.checkpoint + 1 .. Len(nodes)
    BY <1>2 DEF MadeByCall, Published
  <2>5. nodes[f.node].leftChild \notin MadeByCall /\ nodes[f.node].rightChild \notin MadeByCall
    BY <1>2, <2>2, <2>3, <2>4 DEF NodeOK, NoNode
  <2> QED BY <1>2, <2>5 DEF FrameLosesNone
<1> QED BY <1>1, <1>2

(***************************************************************************)
(* What a frame still owes is not touched by the arena growing, nor by     *)
(* receiving the index it waited for.                                      *)
(***************************************************************************)
LEMMA FrameStillLosesNone ==
  ASSUME NEW f, FrameOK(f), FrameLosesNone(f), NEW g,
         UNCHANGED call,
         call.op = "rangeAdd" => \A i \in 1 .. call.checkpoint : nodes'[i] = nodes[i],
         g.node = f.node, g.segment = f.segment,
         Untouched(g, "left") => Untouched(f, "left") /\ g.newLeft = f.newLeft,
         Untouched(g, "right") => Untouched(f, "right") /\ g.newRight = f.newRight
  PROVE  FrameLosesNone(g)'
<1>1. \A side : Untouched(g, side)' = Untouched(g, side)
  BY DEF Untouched
<1>2. call.op = "rangeAdd" => nodes'[f.node] = nodes[f.node]
  BY DEF FrameOK, UpdateFrameOK
<1> QED BY <1>1, <1>2 DEF FrameLosesNone

LEMMA DescendNoneLost ==
  ASSUME IInv, NoneLost, Descend
  PROVE  NoneLost'
<1> DEFINE side == NextSide(Top)
           half == Half(Top.segment, side)
<1>0. PICK g : g = IF call.op = "initialize" THEN BuildFrame(half)
                   ELSE UpdateFrame(Child(Top, side), half, call.left, call.right)
  OBVIOUS
<1>1. /\ stack # <<>> /\ stack \in Seq(Frame)
      /\ Len(stack) \in Nat \ {0} /\ DOMAIN stack = 1 .. Len(stack)
      /\ stack' = Append(stack, g)
      /\ UNCHANGED <<nodes, roots, newNodes, call>>
      /\ call.op \in {"initialize", "rangeAdd"}
  BY <1>0, TopFrame DEF Descend
<1>2. /\ DOMAIN stack' = 1 .. Len(stack) + 1
      /\ \A k \in 1 .. Len(stack) : stack'[k] = stack[k]
      /\ stack'[Len(stack) + 1] = g
  BY <1>1
<1>3. PublishedOwned'
  BY <1>1 DEF NoneLost, PublishedOwned, Published
<1>4. ASSUME NEW i, Held(i) PROVE Held(i)'
  BY <1>1, <1>2, <1>4 DEF Held
<1>5. ASSUME NEW i, Linked(i) PROVE Linked(i)'
  BY <1>1, <1>5 DEF Linked, Arena
<1>6. MadeHeld'
  BY <1>1, <1>4, <1>5 DEF NoneLost, MadeHeld, MadeByCall, Published
<1>7. FrameLosesNone(g)'
  BY <1>0, <1>1 DEF FrameLosesNone, Untouched, BuildFrame, UpdateFrame
<1>8. ASSUME NEW k \in 1 .. Len(stack) PROVE FrameLosesNone(stack[k])'
  <2>1. FrameLosesNone(stack[k]) /\ stack'[k] = stack[k]
    BY <1>1, <1>2 DEF NoneLost
  <2> QED BY <1>1, <2>1 DEF FrameLosesNone, Untouched
<1>9. \A k \in DOMAIN stack' : k \in 1 .. Len(stack) \/ k = Len(stack) + 1
  BY <1>1, <1>2
<1>10. ASSUME NEW k \in DOMAIN stack' PROVE FrameLosesNone(stack[k])'
  <2>1. CASE k = Len(stack) + 1
    <3>1. stack'[k] = g
      BY <1>2, <2>1
    <3> QED BY <1>7, <3>1
  <2> QED BY <1>8, <1>9, <2>1
<1> QED BY <1>3, <1>6, <1>10 DEF NoneLost

(***************************************************************************)
(* The node a frame appends links what the frame held, so only the new     *)
(* node itself is left to be held: by the caller, in the place of a child  *)
(* it had not received yet, or as the root.                                *)
(***************************************************************************)
LEMMA ReturnNoneLost ==
  ASSUME IInv, NoneLost, Return
  PROVE  NoneLost'
<1>0. PICK node : node = FinishedNode(Top)
  OBVIOUS
<1>1. /\ stack # <<>> /\ Top.todo = {} /\ Computed(FinishedNode(Top))
      /\ UNCHANGED <<roots, arraySize, call>>
      /\ call.op \in {"initialize", "rangeAdd"}
      /\ call.op = "initialize" => UNCHANGED nodes
      /\ call.op = "rangeAdd" => UNCHANGED newNodes
      /\ Arena' = Append(Arena, node)
      /\ stack' = Resume(stack, Len(Arena'))
  BY <1>0, TopFrame DEF Return, Arena
<1>2. /\ stack \in Seq(Frame) /\ Len(stack) \in Nat \ {0}
      /\ DOMAIN stack = 1 .. Len(stack)
      /\ Top \in Frame /\ FrameOK(Top)
      /\ call.op = "rangeAdd" => call.checkpoint \in 0 .. Len(nodes)
      /\ Top.segment \in Interval(CallSize) /\ CallSize \in Nat
      /\ nodes \in Seq(Node) /\ Len(nodes) \in Nat
  BY <1>1, TopFrame
<1>3. Arena \in Seq(Node) /\ WellFormed(Arena) /\ node \in Node
  BY <1>0, <1>1, FinishedNodeInOrder
<1>4. PICK n \in Nat : n = Len(Arena)
  BY <1>3, LenProperties
<1>5. /\ DOMAIN Arena = 1 .. n /\ DOMAIN Arena' = 1 .. n + 1 /\ Len(Arena') = n + 1
      /\ \A i \in 1 .. n : Arena'[i] = Arena[i]
      /\ Arena'[n + 1] = node
  BY <1>1, <1>3, <1>4, AppendProperties, LenProperties
<1>6. Top.newLeft \in Children(node) /\ Top.newRight \in Children(node)
  <2>1. FrameLosesNone(Top)
    BY <1>2 DEF NoneLost, Top
  <2>2. CASE call.op = "rangeAdd" /\ Covers(call.left, call.right, Top.segment)
    BY <1>0, <2>1, <2>2
       DEF FinishedNode, CoveredNode, FrameLosesNone, Untouched, Children
  <2>3. CASE ~(call.op = "rangeAdd" /\ Covers(call.left, call.right, Top.segment))
    BY <1>0, <1>1, <2>3 DEF FinishedNode, BuiltNode, ParentNode, Children
  <2> QED BY <2>2, <2>3
<1>7. /\ Published' = Published
      /\ \A j \in 1 .. Published : nodes'[j] = nodes[j]
      /\ call.op = "rangeAdd" => \A j \in 1 .. call.checkpoint : nodes'[j] = nodes[j]
  <2>1. CASE call.op = "initialize"
    BY <1>1, <2>1 DEF Published
  <2>2. CASE call.op = "rangeAdd"
    BY <1>1, <1>2, <1>4, <1>5, <2>2 DEF Published, Arena
  <2> QED BY <1>1, <2>1, <2>2
<1>8. PublishedOwned'
  BY <1>1, <1>7 DEF NoneLost, PublishedOwned
<1>9. /\ MadeByCall \subseteq 1 .. n
      /\ \A i \in MadeByCall' : i \in MadeByCall \/ i = n + 1
      /\ n + 1 \in Nat /\ n + 1 \notin 1 .. n
  BY <1>1, <1>2, <1>4, <1>5 DEF MadeByCall, Published, Arena
<1>10. \A i : Linked(i) => Linked(i)'
  BY <1>5 DEF Linked
<1>11. \A i \in Children(node) : Linked(i)'
  BY <1>4, <1>5 DEF Linked
<1>12. CASE Len(stack) = 1
  <2>1. stack' = <<>>
    BY <1>1, <1>2, <1>12, SubSeqEmpty DEF Resume
  <2>2. Held(n + 1)'
    BY <1>5, <2>1 DEF Held
  <2>3. \A i : Held(i) => i \in {Top.newLeft, Top.newRight}
    BY <1>1, <1>2, <1>12 DEF Held, Top
  <2>4. MadeHeld'
    BY <1>6, <1>9, <1>10, <1>11, <2>2, <2>3 DEF NoneLost, MadeHeld
  <2> QED BY <1>8, <2>1, <2>4 DEF NoneLost
<1>13. CASE Len(stack) # 1
  <2>1. PICK m : m = Len(stack) - 1
    OBVIOUS
  <2>2. m \in Nat /\ m # 0 /\ m \in 1 .. Len(stack) /\ m + 1 = Len(stack)
    BY <1>2, <1>13, <2>1
  <2>3. PICK h : h = stack[m]
    OBVIOUS
  <2>4. PICK g : g = Receive(h, n + 1)
    OBVIOUS
  <2>5. h \in Frame /\ h.todo # {} /\ FrameOK(h) /\ FrameLosesNone(h)
        /\ h.segment \in Interval(CallSize)
    <3>1. FrameInPlace(m) /\ FrameInPlace(Len(stack)) /\ FrameLosesNone(stack[m])
      BY <1>2, <2>2 DEF IInv, ControlConsistent, FramesOK, NoneLost
    <3>2. stack[m] \in Frame /\ Len(stack) - 1 = m
      BY <1>2, <2>1, <2>2, ElementOfSeq
    <3> QED BY <1>13, <2>3, <3>1, <3>2 DEF FrameInPlace, FrameOK
  <2>6. /\ DOMAIN stack' = 1 .. m /\ stack'[m] = g /\ stack' # <<>>
        /\ \A k \in 1 .. m : k # m => stack'[k] = stack[k]
    <3>1. /\ stack \in Seq(Frame) /\ n + 1 \in Nat /\ m \in Nat \ {0}
          /\ Len(stack) = m + 1 /\ stack[m].todo # {}
      <4>1. stack[m].todo # {}
        BY <2>3, <2>5
      <4>2. stack \in Seq(Frame)
        BY <1>2
      <4>3. n + 1 \in Nat
        OBVIOUS
      <4>4. m \in Nat \ {0} /\ Len(stack) = m + 1
        BY <2>2
      <4> QED BY <4>1, <4>2, <4>3, <4>4
    <3>2. PICK s : s = Resume(stack, n + 1)
      OBVIOUS
    <3>3. /\ DOMAIN s = 1 .. m /\ s # <<>> /\ s[m] = Receive(stack[m], n + 1)
          /\ \A k \in 1 .. m : k # m => s[k] = stack[k]
      <4>1. PICK i \in Nat : i = n + 1
        BY <3>1
      <4>2. m \in Nat \ {0} /\ Len(stack) = m + 1 /\ stack[m].todo # {}
            /\ stack \in Seq(Frame)
        BY <3>1
      <4>3. /\ DOMAIN Resume(stack, i) = 1 .. m /\ Resume(stack, i) # <<>>
            /\ Resume(stack, i)[m] = Receive(stack[m], i)
            /\ \A k \in 1 .. m : k # m => Resume(stack, i)[k] = stack[k]
        BY <4>2, ResumedStack
      <4>4. s = Resume(stack, i) /\ Receive(stack[m], i) = Receive(stack[m], n + 1)
        BY <3>2, <4>1
      <4> QED BY <4>3, <4>4
    <3>4. stack' = s
      BY <1>1, <1>5, <3>2
    <3>5. Receive(stack[m], n + 1) = g
      BY <2>3, <2>4
    <3>6. s[m] = g
      BY <3>3, <3>5
    <3> QED BY <3>3, <3>4, <3>6
  <2>7. /\ n + 1 \in {g.newLeft, g.newRight}
        /\ g.todo = h.todo \ {NextSide(h)} /\ g.segment = h.segment
        /\ g.node = h.node
        /\ NextSide(h) = "left" => g.newRight = h.newRight
        /\ NextSide(h) = "right" => g.newLeft = h.newLeft
        /\ NextSide(h) \in h.todo /\ NextSide(h) \in {"left", "right"}
    BY <2>4, <2>5 DEF Receive, Frame, NextSide, Sides
  <2>8. \A i \in MadeByCall :
          i \in {h.newLeft, h.newRight} => i \in {g.newLeft, g.newRight}
    <3>1. /\ Untouched(h, "left") => h.newLeft \notin MadeByCall
          /\ Untouched(h, "right") => h.newRight \notin MadeByCall
      BY <1>1, <1>2, <2>5, OldChildNotMade
    <3> QED BY <2>7, <3>1 DEF Untouched
  <2>9. \A i \in MadeByCall : Held(i) => Held(i)' \/ i \in {Top.newLeft, Top.newRight}
    <3>1. \A k \in DOMAIN stack : k \in 1 .. m \/ k = Len(stack)
      BY <1>2, <2>2
    <3> QED BY <1>1, <1>2, <2>2, <2>3, <2>6, <2>8, <3>1 DEF Held, Top
  <2>10. Held(n + 1)'
    BY <2>2, <2>6, <2>7 DEF Held
  <2>11. MadeHeld'
    BY <1>6, <1>9, <1>10, <1>11, <2>9, <2>10 DEF NoneLost, MadeHeld
  <2>12. ~(call.op = "rangeAdd" /\ Covers(call.left, call.right, h.segment))
    BY <2>5 DEF FrameOK, UpdateFrameOK
  <2>13. FrameLosesNone(g)'
    <3>1. /\ Untouched(g, "left") => Untouched(h, "left") /\ g.newLeft = h.newLeft
          /\ Untouched(g, "right") => Untouched(h, "right") /\ g.newRight = h.newRight
      BY <2>5, <2>7, <2>12 DEF Untouched
    <3> QED BY <1>1, <1>7, <2>5, <2>7, <3>1, FrameStillLosesNone
  <2>14. ASSUME NEW k \in 1 .. m, k # m PROVE FrameLosesNone(stack[k])'
    <3>1. k \in DOMAIN stack /\ FrameLosesNone(stack[k]) /\ FrameOK(stack[k])
      BY <1>2, <2>2
         DEF NoneLost, IInv, ControlConsistent, FramesOK, FrameInPlace
    <3>2. stack'[k] = stack[k]
      BY <2>6, <2>14
    <3>3. PICK f : f = stack[k]
      OBVIOUS
    <3>4. FrameLosesNone(f)'
      BY <1>1, <1>7, <3>1, <3>3, FrameStillLosesNone
    <3> QED BY <3>2, <3>3, <3>4
  <2>15. ASSUME NEW k \in DOMAIN stack' PROVE FrameLosesNone(stack[k])'
    <3>1. CASE k = m
      BY <2>6, <2>13, <3>1
    <3> QED BY <2>6, <2>14, <3>1
  <2> QED BY <1>8, <2>11, <2>15 DEF NoneLost
<1> QED BY <1>12, <1>13

LEMMA PublishNoneLost ==
  ASSUME IInv, NoneLost, PublishInitial \/ PublishVersion
  PROVE  NoneLost'
<1>1. /\ nodes \in Seq(Node) /\ Len(nodes) \in Nat /\ DOMAIN nodes = 1 .. Len(nodes)
      /\ newNodes \in Seq(Node) /\ Len(newNodes) \in Nat
      /\ DOMAIN newNodes = 1 .. Len(newNodes)
      /\ roots \in Seq(Nat)
      /\ stack = <<>> /\ stack' = <<>> /\ call' = Idle
  BY LenProperties DEF IInv, TypeOK, PublishInitial, PublishVersion
<1>2. \A i \in MadeByCall : i = Len(Arena) \/ Linked(i)
  BY <1>1 DEF NoneLost, MadeHeld, Held
<1>3. Published' = Len(nodes') /\ Len(nodes') \in Nat
      /\ DOMAIN nodes' = 1 .. Len(nodes')
  BY <1>1 DEF Published, Idle, PublishInitial, PublishVersion
<1>4. CASE PublishInitial
  <2>1. /\ nodes' = newNodes /\ roots' = <<Len(newNodes)>>
        /\ MadeByCall = 1 .. Len(newNodes) /\ Arena = newNodes
    BY <1>4 DEF PublishInitial, MadeByCall, Arena
  <2>2. PublishedOwned'
    <3>1. 1 \in DOMAIN roots' /\ roots'[1] = Len(newNodes)
      BY <2>1
    <3>2. Published' = Len(newNodes)
      BY <1>3, <2>1
    <3> QED BY <1>1, <1>2, <2>1, <3>1, <3>2 DEF PublishedOwned, Linked
  <2> QED BY <1>1, <1>3, <2>2 DEF NoneLost, MadeHeld, MadeByCall, Idle
<1>5. CASE PublishVersion
  <2>1. /\ nodes' = nodes /\ roots' = Append(roots, Len(nodes))
        /\ Published = call.checkpoint /\ Arena = nodes
        /\ MadeByCall = call.checkpoint + 1 .. Len(nodes)
        /\ call.checkpoint \in 0 .. Len(nodes)
    BY <1>1, <1>5
       DEF PublishVersion, MadeByCall, Arena, Published, IInv, TypeOK, Call, Idle,
           ControlConsistent, CallOK
  <2>2. /\ \A v \in DOMAIN roots : v \in DOMAIN roots' /\ roots'[v] = roots[v]
        /\ Len(roots) + 1 \in DOMAIN roots' /\ roots'[Len(roots) + 1] = Len(nodes)
    BY <1>1, <2>1, RootsKept
  <2>3. ASSUME NEW i \in 1 .. Len(nodes), i \in MadeByCall
        PROVE  \/ \E v \in DOMAIN roots' : roots'[v] = i
               \/ \E j \in 1 .. Len(nodes) : i \in Children(nodes[j])
    BY <1>1, <1>2, <2>1, <2>2, <2>3 DEF Linked
  <2>4. ASSUME NEW i \in 1 .. Len(nodes), i \notin MadeByCall
        PROVE  \/ \E v \in DOMAIN roots' : roots'[v] = i
               \/ \E j \in 1 .. Len(nodes) : i \in Children(nodes[j])
    <3>1. i \in 1 .. Published /\ 1 .. Published \subseteq 1 .. Len(nodes)
      BY <1>1, <2>1, <2>4
    <3> QED BY <2>2, <3>1 DEF NoneLost, PublishedOwned
  <2>5. PublishedOwned'
    BY <1>3, <2>1, <2>3, <2>4 DEF PublishedOwned
  <2> QED BY <1>1, <1>3, <2>5 DEF NoneLost, MadeHeld, MadeByCall, Idle
<1> QED BY <1>4, <1>5

(***************************************************************************)
(* The rollback to the checkpoint leaves exactly the published nodes.      *)
(***************************************************************************)
LEMMA ThrowNoneLost ==
  ASSUME IInv, NoneLost, Throw
  PROVE  NoneLost'
<1>1. /\ nodes \in Seq(Node) /\ Len(nodes) \in Nat
      /\ roots' = roots /\ stack' = <<>> /\ call' = Idle
      /\ nodes' = IF call.op = "rangeAdd" THEN SubSeq(nodes, 1, call.checkpoint)
                  ELSE nodes
  BY LenProperties DEF IInv, TypeOK, Throw
<1>2. Published' = Len(nodes') /\ Len(nodes') = Published /\ Published \in Nat
      /\ \A i \in 1 .. Published : nodes'[i] = nodes[i]
  <2>1. CASE call.op = "rangeAdd"
    <3>1. call.checkpoint \in 0 .. Len(nodes)
      BY <1>1, <2>1 DEF IInv, TypeOK, Call, Idle, ControlConsistent, CallOK
    <3> QED BY <1>1, <2>1, <3>1, CutWellFormed
            DEF Published, Idle, IInv, TreesWellFormed
  <2>2. CASE call.op # "rangeAdd"
    BY <1>1, <2>2 DEF Published, Idle
  <2> QED BY <2>1, <2>2
<1>3. PICK n \in Nat : n = Published
  BY <1>2
<1>4. Published' = n /\ Len(nodes') = n /\ \A i \in 1 .. n : nodes'[i] = nodes[i]
  BY <1>2, <1>3
<1>5. PublishedOwned'
  BY <1>1, <1>3, <1>4 DEF NoneLost, PublishedOwned
<1>6. MadeByCall' = {} /\ DOMAIN stack' = {}
  <2>1. call'.op # "initialize" /\ stack' = <<>>
    BY <1>1 DEF Idle
  <2>2. MadeByCall' = n + 1 .. n
    BY <1>4, <2>1 DEF MadeByCall
  <2> QED BY <2>1, <2>2
<1> QED BY <1>5, <1>6 DEF NoneLost, MadeHeld

LEMMA NextNoneLost == IInv /\ NoneLost /\ [Next]_vars => NoneLost'
<1> SUFFICES ASSUME IInv, NoneLost, [Next]_vars PROVE NoneLost'
  OBVIOUS
<1>1. CASE UNCHANGED vars
  <2>1. UNCHANGED <<nodes, roots, newNodes, call, stack>>
    BY <1>1 DEF vars
  <2> QED BY <2>1
          DEF NoneLost, PublishedOwned, Published, MadeHeld, MadeByCall, Linked,
              Held, Arena, FrameLosesNone, Untouched
<1>2. CASE Next
  BY <1>2, BeginNoneLost, DescendNoneLost, ReturnNoneLost, PublishNoneLost,
     ThrowNoneLost DEF Next, Step
<1> QED BY <1>1, <1>2

(***************************************************************************)
(* A call that failed half-way has given all its nodes back: no reachable  *)
(* state between calls has a node that belongs to no version.              *)
(***************************************************************************)
THEOREM NoNodeLost == Spec => []NoOrphans
<1>1. Spec => [](IInv /\ NoneLost)
  BY InitIInv, NextIInv, InitNoneLost, NextNoneLost, PTL DEF Spec
<1>2. IInv /\ NoneLost => NoOrphans
  BY NoneLostNoOrphans
<1> QED BY <1>1, <1>2, PTL

-----------------------------------------------------------------------------
(***************************************************************************)
(* What the versions stand for: queries and materialized versions are      *)
(* exact, the guard is sound, and the versions are those of the reference. *)
(***************************************************************************)

(***************************************************************************)
(* The array a subtree stands for, on unbounded integers: an element is    *)
(* the sum in its leaf plus the tags on the path to it.                    *)
(***************************************************************************)
Element(f, arena, i) ==
  [p \in Nat |->
     IF IsLeaf(arena[i].segment) THEN arena[i].sum
     ELSE arena[i].lazy + IF p <= Midpoint(arena[i].segment)
                          THEN f[arena[i].leftChild][p]
                          ELSE f[arena[i].rightChild][p]]

Elements(arena) ==
  LET elements[i \in DOMAIN arena] == Element(elements, arena, i)
  IN  elements

Solves(f, arena, k) == \A i \in 1 .. k : f[i] = Element(f, arena, i)

(* What is read from a node in order. *)
LEMMA NodeFacts ==
  ASSUME NEW arena \in Seq(Node), WellFormed(arena), NEW i \in 1 .. Len(arena)
  PROVE  /\ arena[i].sum \in Value /\ arena[i].lazy \in Value
         /\ arena[i].sum \in Int /\ arena[i].lazy \in Int
         /\ arena[i].leftChild \in Nat /\ arena[i].rightChild \in Nat
         /\ arena[i].segment \in Nat \X Nat
         /\ Midpoint(arena[i].segment) \in Int /\ Length(arena[i].segment) \in Int
         /\ ~IsLeaf(arena[i].segment) =>
              /\ arena[i].leftChild \in 1 .. i - 1
              /\ arena[i].rightChild \in 1 .. i - 1
              /\ arena[i].leftChild \in 1 .. Len(arena)
              /\ arena[i].rightChild \in 1 .. Len(arena)
              /\ arena[arena[i].leftChild].segment = LeftHalf(arena[i].segment)
              /\ arena[arena[i].rightChild].segment = RightHalf(arena[i].segment)
              /\ arena[i].sum = arena[arena[i].leftChild].sum
                                + arena[arena[i].rightChild].sum
                                + arena[i].lazy * Length(arena[i].segment)
<1>1. arena[i] \in Node /\ NodeOK(arena, i)
      /\ DOMAIN arena = 1 .. Len(arena) /\ Len(arena) \in Nat
  BY ElementOfSeq, LenProperties DEF WellFormed
<1>2. /\ arena[i].sum \in Value /\ arena[i].lazy \in Value
      /\ arena[i].sum \in Int /\ arena[i].lazy \in Int
      /\ arena[i].leftChild \in Nat /\ arena[i].rightChild \in Nat
      /\ arena[i].segment \in Nat \X Nat
  BY <1>1, ValueFacts DEF Node
<1>3. Midpoint(arena[i].segment) \in Int /\ Length(arena[i].segment) \in Int
  BY <1>2 DEF Midpoint, Length
<1>4. ASSUME ~IsLeaf(arena[i].segment)
      PROVE  /\ arena[i].leftChild \in 1 .. i - 1
             /\ arena[i].rightChild \in 1 .. i - 1
             /\ arena[arena[i].leftChild].segment = LeftHalf(arena[i].segment)
             /\ arena[arena[i].rightChild].segment = RightHalf(arena[i].segment)
             /\ arena[i].sum = arena[arena[i].leftChild].sum
                               + arena[arena[i].rightChild].sum
                               + arena[i].lazy * Length(arena[i].segment)
  BY <1>1, <1>4 DEF NodeOK
<1> QED BY <1>1, <1>2, <1>3, <1>4

(* Two arenas that agree up to some node give it the same elements. *)
LEMMA SolutionsAgree ==
  ASSUME NEW a \in Seq(Node), WellFormed(a), NEW b, NEW f, NEW g,
         NEW k \in 0 .. Len(a), \A i \in 1 .. k : a[i] = b[i],
         Solves(f, a, k), Solves(g, b, k)
  PROVE  \A i \in 1 .. k : f[i] = g[i]
<1> DEFINE Wrong == {i \in 1 .. k : f[i] # g[i]}
<1> SUFFICES ASSUME Wrong # {} PROVE FALSE
  OBVIOUS
<1>1. Len(a) \in Nat /\ Wrong \in SUBSET Nat
  BY LenProperties
<1>2. PICK i \in Wrong : \A j \in Wrong : i <= j
  BY <1>1, LeastNatural
<1>3. i \in 1 .. k /\ i \in 1 .. Len(a) /\ i \in Nat
  BY <1>1
<1>4. \A j \in 1 .. i - 1 : f[j] = g[j]
  BY <1>2, <1>3
<1>5. ~IsLeaf(a[i].segment) => /\ f[a[i].leftChild] = g[a[i].leftChild]
                               /\ f[a[i].rightChild] = g[a[i].rightChild]
  BY <1>3, <1>4, NodeFacts
<1>6. Element(f, a, i) = Element(g, b, i)
  BY <1>3, <1>5 DEF Element
<1> QED BY <1>3, <1>6 DEF Solves

(* The recursion that defines Elements has a solution. *)
LEMMA ElementsSolved ==
  ASSUME NEW arena \in Seq(Node), WellFormed(arena)
  PROVE  /\ Solves(Elements(arena), arena, Len(arena))
         /\ \A i \in 1 .. Len(arena) : Elements(arena)[i] \in [Nat -> Int]
<1> DEFINE n == Len(arena)
           Solvable(k) == \E f \in [1 .. k -> [Nat -> Int]] : Solves(f, arena, k)
           T == {k \in Nat : k <= n => Solvable(k)}
<1>1. n \in Nat /\ DOMAIN arena = 1 .. n
  BY LenProperties
<1>2. 0 \in T
  <2>1. PICK f : f = [i \in 1 .. 0 |-> [p \in Nat |-> 0]]
    OBVIOUS
  <2>2. f \in [1 .. 0 -> [Nat -> Int]]
    BY <2>1
  <2>3. Solves(f, arena, 0)
    BY DEF Solves
  <2> QED BY <2>2, <2>3
<1>3. ASSUME NEW k \in Nat, k \in T PROVE k + 1 \in T
  <2> HIDE DEF Solvable
  <2> SUFFICES ASSUME k + 1 <= n PROVE Solvable(k + 1)
    OBVIOUS
  <2> USE DEF Solvable
  <2>0. k <= n
    BY <1>1
  <2>1. PICK f \in [1 .. k -> [Nat -> Int]] : Solves(f, arena, k)
    BY <1>3, <2>0
  <2>2. PICK g : g = [i \in 1 .. k + 1 |-> IF i <= k THEN f[i] ELSE Element(f, arena, i)]
    OBVIOUS
  <2>3. Element(f, arena, k + 1) \in [Nat -> Int]
    <3>1. k + 1 \in 1 .. n
      BY <1>1
    <3>2. ~IsLeaf(arena[k + 1].segment) => /\ f[arena[k + 1].leftChild] \in [Nat -> Int]
                                           /\ f[arena[k + 1].rightChild] \in [Nat -> Int]
      <4>1. ~IsLeaf(arena[k + 1].segment) => /\ arena[k + 1].leftChild \in 1 .. (k + 1) - 1
                                             /\ arena[k + 1].rightChild \in 1 .. (k + 1) - 1
        BY <3>1, NodeFacts
      <4>2. (k + 1) - 1 = k
        OBVIOUS
      <4> QED BY <4>1, <4>2
    <3>3. /\ arena[k + 1].sum \in Int /\ arena[k + 1].lazy \in Int
          /\ Midpoint(arena[k + 1].segment) \in Int
      BY <3>1, NodeFacts
    <3>4. ASSUME NEW p \in Nat
          PROVE  (IF IsLeaf(arena[k + 1].segment) THEN arena[k + 1].sum
                  ELSE arena[k + 1].lazy + IF p <= Midpoint(arena[k + 1].segment)
                                           THEN f[arena[k + 1].leftChild][p]
                                           ELSE f[arena[k + 1].rightChild][p]) \in Int
      <4>1. ~IsLeaf(arena[k + 1].segment) => /\ f[arena[k + 1].leftChild][p] \in Int
                                             /\ f[arena[k + 1].rightChild][p] \in Int
        BY <3>2
      <4>2. PICK x : x = IF p <= Midpoint(arena[k + 1].segment)
                         THEN f[arena[k + 1].leftChild][p] ELSE f[arena[k + 1].rightChild][p]
        OBVIOUS
      <4>3. ~IsLeaf(arena[k + 1].segment) => arena[k + 1].lazy + x \in Int
        <5>1. ~IsLeaf(arena[k + 1].segment) => x \in Int
          BY <4>1, <4>2
        <5> QED BY <3>3, <5>1
      <4> QED BY <3>3, <4>2, <4>3
    <3> QED BY <3>4, Zenon DEF Element
  <2>4. g \in [1 .. k + 1 -> [Nat -> Int]]
    <3> HIDE DEF Element
    <3> QED BY <2>2, <2>3
  <2>5. ASSUME NEW i \in 1 .. k + 1 PROVE g[i] = Element(g, arena, i)
    <3>1. i \in 1 .. n
      BY <1>1
    <3>2. \A j \in 1 .. k : g[j] = f[j]
      BY <2>2
    <3>3. ~IsLeaf(arena[i].segment) => /\ f[arena[i].leftChild] = g[arena[i].leftChild]
                                       /\ f[arena[i].rightChild] = g[arena[i].rightChild]
      <4>1. ~IsLeaf(arena[i].segment) => /\ arena[i].leftChild \in 1 .. i - 1
                                         /\ arena[i].rightChild \in 1 .. i - 1
        BY <3>1, NodeFacts
      <4>2. \A j \in 1 .. i - 1 : j \in 1 .. k
        OBVIOUS
      <4> QED BY <3>2, <4>1, <4>2
    <3>4. Element(g, arena, i) = Element(f, arena, i)
      BY <3>3 DEF Element
    <3>5. g[i] = Element(f, arena, i)
      BY <2>1, <2>2 DEF Solves
    <3> QED BY <3>4, <3>5
  <2> QED BY <2>4, <2>5 DEF Solves
<1>4. Nat \subseteq T
  <2> HIDE DEF T
  <2> QED BY <1>2, <1>3, SetInduction
<1>5. PICK f \in [1 .. n -> [Nat -> Int]] : Solves(f, arena, n)
  BY <1>1, <1>4
<1>6. f = [i \in DOMAIN arena |-> Element(f, arena, i)]
  BY <1>1, <1>5 DEF Solves
<1>7. Elements(arena) = [i \in DOMAIN arena |-> Element(Elements(arena), arena, i)]
  <2>1. \E g : g = [i \in DOMAIN arena |-> Element(g, arena, i)]
    BY <1>6
  <2> QED BY <2>1 DEF Elements
<1>8. Solves(Elements(arena), arena, n)
  BY <1>1, <1>7 DEF Solves
<1>9. \A i \in 1 .. n : Elements(arena)[i] = f[i]
  BY <1>1, <1>5, <1>8, SolutionsAgree
<1> QED BY <1>5, <1>8, <1>9

(* The elements of a subtree, read from the top. *)
LEMMA ElementFacts ==
  ASSUME NEW arena \in Seq(Node), WellFormed(arena), NEW i \in 1 .. Len(arena),
         NEW p \in Nat
  PROVE  /\ Elements(arena)[i][p] \in Int
         /\ IsLeaf(arena[i].segment) => Elements(arena)[i][p] = arena[i].sum
         /\ ~IsLeaf(arena[i].segment) =>
              /\ p <= Midpoint(arena[i].segment) =>
                   Elements(arena)[i][p]
                     = arena[i].lazy + Elements(arena)[arena[i].leftChild][p]
              /\ p > Midpoint(arena[i].segment) =>
                   Elements(arena)[i][p]
                     = arena[i].lazy + Elements(arena)[arena[i].rightChild][p]
<1>1. Elements(arena)[i] \in [Nat -> Int]
  BY ElementsSolved
<1>2. Elements(arena)[i] = Element(Elements(arena), arena, i)
  BY ElementsSolved DEF Solves
<1>3. PICK f : f = Elements(arena)
  OBVIOUS
<1>4. f[i] = Element(f, arena, i)
  BY <1>2, <1>3
<1>5. Midpoint(arena[i].segment) \in Int
  BY NodeFacts
<1> QED BY <1>1, <1>3, <1>4, <1>5 DEF Element

(* They depend on no later node. *)
LEMMA ElementsKept ==
  ASSUME NEW a \in Seq(Node), WellFormed(a), NEW b \in Seq(Node), WellFormed(b),
         NEW k \in 0 .. Len(a), k <= Len(b), \A i \in 1 .. k : a[i] = b[i]
  PROVE  \A i \in 1 .. k : Elements(a)[i] = Elements(b)[i]
<1>1. Len(a) \in Nat /\ Len(b) \in Nat
  BY LenProperties
<1>2. Solves(Elements(a), a, Len(a)) /\ Solves(Elements(b), b, Len(b))
  BY ElementsSolved
<1>3. Solves(Elements(a), a, k) /\ Solves(Elements(b), b, k)
  BY <1>1, <1>2 DEF Solves
<1> QED BY <1>3, SolutionsAgree

-----------------------------------------------------------------------------
(***************************************************************************)
(* Reading a tree.  w is carried by node i for the segment c below tags    *)
(* that add up to h when the subtree stands for it.                        *)
(***************************************************************************)
Carries(w, i, c, h) ==
  /\ i \in 1 .. Len(nodes)
  /\ nodes[i].segment = c
  /\ \A p \in c[1] .. c[2] : w[p] = h + Elements(nodes)[i][p]

LEMMA CarriesHalves ==
  ASSUME IInv, NEW c \in Interval(arraySize), ~IsLeaf(c),
         NEW w, NEW i, NEW h \in Int, Carries(w, i, c, h)
  PROVE  /\ h + nodes[i].lazy \in Int
         /\ Carries(w, nodes[i].leftChild, LeftHalf(c), h + nodes[i].lazy)
         /\ Carries(w, nodes[i].rightChild, RightHalf(c), h + nodes[i].lazy)
<1>1. nodes \in Seq(Node) /\ WellFormed(nodes) /\ arraySize \in Nat /\ Len(nodes) \in Nat
  BY LenProperties DEF IInv, TypeOK, TreesWellFormed
<1>2. i \in 1 .. Len(nodes) /\ nodes[i].segment = c
  BY DEF Carries
<1> DEFINE l == nodes[i].leftChild
           r == nodes[i].rightChild
           m == Midpoint(c)
<1>3. /\ nodes[i].lazy \in Int
      /\ l \in 1 .. Len(nodes) /\ nodes[l].segment = LeftHalf(c)
      /\ r \in 1 .. Len(nodes) /\ nodes[r].segment = RightHalf(c)
  BY <1>1, <1>2, NodeFacts
<1>4. c[1] \in Nat /\ c[2] \in Nat /\ m \in Int /\ c[1] <= m /\ m < c[2]
  BY <1>1, Halves
<1>5. ASSUME NEW p \in c[1] .. c[2]
      PROVE  /\ p <= m => w[p] = (h + nodes[i].lazy) + Elements(nodes)[l][p]
             /\ p > m => w[p] = (h + nodes[i].lazy) + Elements(nodes)[r][p]
  <2>1. p \in Nat
    BY <1>4
  <2>2. /\ p <= m => Elements(nodes)[i][p] = nodes[i].lazy + Elements(nodes)[l][p]
        /\ p > m => Elements(nodes)[i][p] = nodes[i].lazy + Elements(nodes)[r][p]
        /\ Elements(nodes)[l][p] \in Int /\ Elements(nodes)[r][p] \in Int
    BY <1>1, <1>2, <1>3, <2>1, ElementFacts
  <2>3. w[p] = h + Elements(nodes)[i][p]
    BY DEF Carries
  <2>4. PICK a, x, y \in Int : /\ a = nodes[i].lazy /\ x = Elements(nodes)[l][p]
                              /\ y = Elements(nodes)[r][p]
    BY <1>3, <2>2
  <2>5. ASSUME p <= m
        PROVE  w[p] = (h + nodes[i].lazy) + Elements(nodes)[l][p]
    <3>1. w[p] = h + (a + x)
      BY <2>2, <2>3, <2>4, <2>5
    <3> QED BY <2>4, <3>1
  <2>6. ASSUME p > m
        PROVE  w[p] = (h + nodes[i].lazy) + Elements(nodes)[r][p]
    <3>1. w[p] = h + (a + y)
      BY <2>2, <2>3, <2>4, <2>6
    <3> QED BY <2>4, <3>1
  <2> QED BY <2>5, <2>6
<1>6. /\ \A p \in LeftHalf(c)[1] .. LeftHalf(c)[2] : p \in c[1] .. c[2] /\ p <= m
      /\ \A p \in RightHalf(c)[1] .. RightHalf(c)[2] : p \in c[1] .. c[2] /\ p > m
  BY <1>4 DEF LeftHalf, RightHalf
<1> QED BY <1>3, <1>5, <1>6 DEF Carries

(* The sum in a node is the sum of the elements below it. *)
LEMMA SegmentSums ==
  ASSUME IInv, NEW w, NEW S, RunningSums(S, w, arraySize)
  PROVE  \A c \in Interval(arraySize) : \A i, h \in Int :
           Carries(w, i, c, h) => S[c[2]] - S[c[1] - 1] = nodes[i].sum + h * Length(c)
<1> DEFINE T == {c \in Interval(arraySize) : \A i, h \in Int :
                   Carries(w, i, c, h) =>
                     S[c[2]] - S[c[1] - 1] = nodes[i].sum + h * Length(c)}
<1>1. nodes \in Seq(Node) /\ WellFormed(nodes) /\ arraySize \in Nat /\ Len(nodes) \in Nat
  BY LenProperties DEF IInv, TypeOK, TreesWellFormed
<1>2. \A p \in 0 .. arraySize : S[p] \in Int
  BY DEF RunningSums
<1>3. ASSUME NEW c \in Interval(arraySize),
             IsLeaf(c) \/ (LeftHalf(c) \in T /\ RightHalf(c) \in T)
      PROVE  c \in T
  <2> SUFFICES ASSUME NEW i \in Int, NEW h \in Int, Carries(w, i, c, h)
               PROVE  S[c[2]] - S[c[1] - 1] = nodes[i].sum + h * Length(c)
    OBVIOUS
  <2>1. /\ c[1] \in 1 .. arraySize /\ c[2] \in 1 .. arraySize
        /\ c[1] \in 0 .. arraySize /\ c[2] \in 0 .. arraySize /\ c[1] - 1 \in 0 .. arraySize
    BY <1>1, Halves
  <2>2. i \in 1 .. Len(nodes) /\ nodes[i].segment = c
    BY DEF Carries
  <2>3. CASE IsLeaf(c)
    <3>1. c[1] = c[2] /\ Length(c) = 1
      BY <2>1, <2>3 DEF IsLeaf, Length
    <3>2. S[c[1]] = S[c[1] - 1] + w[c[1]] /\ w[c[1]] \in Int
      BY <2>1 DEF RunningSums
    <3>3. w[c[1]] = h + Elements(nodes)[i][c[1]]
      BY <2>1, <3>1 DEF Carries
    <3>4. Elements(nodes)[i][c[1]] = nodes[i].sum /\ nodes[i].sum \in Int
      BY <1>1, <2>1, <2>2, <2>3, ElementFacts, NodeFacts
    <3>5. S[c[1]] \in Int /\ S[c[1] - 1] \in Int /\ h * 1 = h
      BY <1>2, <2>1
    <3> QED BY <3>1, <3>2, <3>3, <3>4, <3>5
  <2>4. CASE ~IsLeaf(c)
    <3> DEFINE l == nodes[i].leftChild
               r == nodes[i].rightChild
               k == h + nodes[i].lazy
               m == Midpoint(c)
    <3>1. /\ nodes[i].lazy \in Int /\ nodes[i].sum \in Int
          /\ l \in 1 .. Len(nodes) /\ r \in 1 .. Len(nodes)
          /\ nodes[i].sum = nodes[l].sum + nodes[r].sum + nodes[i].lazy * Length(c)
      BY <1>1, <2>2, <2>4, NodeFacts
    <3>2. /\ nodes[l].sum \in Int /\ nodes[r].sum \in Int /\ l \in Int /\ r \in Int
          /\ m \in 0 .. arraySize
      <4>1. nodes[l].sum \in Int /\ nodes[r].sum \in Int
        BY <1>1, <3>1, NodeFacts
      <4>2. m \in Int /\ c[1] <= m /\ m < c[2]
        BY <1>1, <2>4, Halves
      <4>3. m \in 0 .. arraySize
        BY <1>1, <2>1, <4>2
      <4>4. l \in Int /\ r \in Int
        BY <1>1, <3>1
      <4> QED BY <4>1, <4>3, <4>4
    <3>3. /\ S[m] - S[c[1] - 1] = nodes[l].sum + k * Length(LeftHalf(c))
          /\ S[c[2]] - S[m] = nodes[r].sum + k * Length(RightHalf(c))
      <4>1. /\ Carries(w, l, LeftHalf(c), k) /\ Carries(w, r, RightHalf(c), k)
            /\ k \in Int
        BY <2>4, CarriesHalves
      <4>2. /\ LeftHalf(c)[1] = c[1] /\ LeftHalf(c)[2] = m
            /\ RightHalf(c)[1] - 1 = m /\ RightHalf(c)[2] = c[2]
        BY <3>2 DEF LeftHalf, RightHalf
      <4> HIDE DEF k, l, r, m
      <4> QED BY <1>3, <2>4, <3>2, <4>1, <4>2
    <3>4. /\ Length(c) = Length(LeftHalf(c)) + Length(RightHalf(c))
          /\ Length(LeftHalf(c)) \in Int /\ Length(RightHalf(c)) \in Int
      BY <1>1, <2>4, HalvesLength
    <3>5. k * Length(LeftHalf(c)) + k * Length(RightHalf(c))
            = nodes[i].lazy * Length(c) + h * Length(c)
      <4>1. \A a, b, x, y \in Int : (a + b) * x + (a + b) * y = b * (x + y) + a * (x + y)
        OBVIOUS
      <4> QED BY <3>1, <3>4, <4>1
    <3>6. S[m] \in Int /\ S[c[1] - 1] \in Int /\ S[c[2]] \in Int
      BY <1>2, <2>1, <3>2
    <3>7. /\ k * Length(LeftHalf(c)) \in Int /\ k * Length(RightHalf(c)) \in Int
          /\ nodes[i].lazy * Length(c) \in Int /\ h * Length(c) \in Int
      <4>1. PICK a, b, d, e \in Int : /\ a = k /\ b = nodes[i].lazy
                                      /\ d = Length(LeftHalf(c)) /\ e = Length(RightHalf(c))
        BY <3>1, <3>4
      <4>2. a * d \in Int /\ a * e \in Int /\ b * (d + e) \in Int /\ h * (d + e) \in Int
        OBVIOUS
      <4> QED BY <3>4, <4>1, <4>2
    <3>9. PICK x, y, z, t \in Int :
             /\ x = k * Length(LeftHalf(c)) /\ y = k * Length(RightHalf(c))
             /\ z = nodes[i].lazy * Length(c) /\ t = h * Length(c)
      BY <3>7
    <3> HIDE DEF k, l, r, m
    <3>10. /\ S[m] - S[c[1] - 1] = nodes[l].sum + x
           /\ S[c[2]] - S[m] = nodes[r].sum + y
           /\ x + y = z + t
           /\ nodes[i].sum = nodes[l].sum + nodes[r].sum + z
      BY <3>1, <3>3, <3>5, <3>9
    <3>11. PICK s0, s1, s2, a, b \in Int :
              /\ s0 = S[c[1] - 1] /\ s1 = S[m] /\ s2 = S[c[2]]
              /\ a = nodes[l].sum /\ b = nodes[r].sum
      BY <3>2, <3>6
    <3>12. s2 - s0 = (a + b + z) + t
      <4>1. s1 - s0 = a + x /\ s2 - s1 = b + y /\ x + y = z + t
        BY <3>10, <3>11
      <4> QED BY <4>1
    <3> QED BY <3>9, <3>10, <3>11, <3>12
  <2> QED BY <2>3, <2>4
<1>4. Interval(arraySize) \subseteq T
  <2> HIDE DEF T
  <2> QED BY <1>1, <1>3, SegmentInduction
<1> QED BY <1>4

-----------------------------------------------------------------------------
(***************************************************************************)
(* The recursions of materialize and query.                                *)
(***************************************************************************)
LEMMA NodeAtFacts ==
  ASSUME IInv, NEW i \in Nat
  PROVE  /\ NodeAt(i).sum \in Value /\ NodeAt(i).lazy \in Value
         /\ NodeAt(i).sum \in Int /\ NodeAt(i).lazy \in Int
         /\ NodeAt(i).leftChild \in Nat /\ NodeAt(i).rightChild \in Nat
         /\ i \in 1 .. Len(nodes) => NodeAt(i) = nodes[i]
<1>1. nodes \in Seq(Node) /\ DOMAIN nodes = 1 .. Len(nodes)
  BY LenProperties DEF IInv, TypeOK
<1>2. [leftChild |-> 0, rightChild |-> 0, sum |-> 0, lazy |-> 0, segment |-> <<0, 0>>]
        \in Node
  BY ValueFacts DEF Node
<1>3. NodeAt(i) \in Node
  <2>1. (CHOOSE node \in Node : TRUE) \in Node
    BY <1>2
  <2> QED BY <1>1, <2>1, ElementOfSeq DEF NodeAt
<1>4. \A node \in Node : /\ node.sum \in Value /\ node.lazy \in Value
                         /\ node.leftChild \in Nat /\ node.rightChild \in Nat
  BY DEF Node
<1> QED BY <1>1, <1>3, <1>4, ValueFacts DEF NodeAt

(* The recursion goes from one visit to two others. *)
LEMMA VisitFacts ==
  ASSUME IInv
  PROVE  /\ \A root \in Nat : arraySize # 0 => RootVisit(root) \in Visit
         /\ \A at \in Visit :
              /\ at.node \in Nat /\ at.segment \in Interval(arraySize)
              /\ at.inherited \in Int
              /\ ~IsLeaf(at.segment) => LeftVisit(at) \in Visit /\ RightVisit(at) \in Visit
<1>1. arraySize \in Nat
  BY DEF IInv, TypeOK
<1>2. ASSUME NEW root \in Nat, arraySize # 0
      PROVE  RootVisit(root) \in Visit
  <2>1. Root(arraySize) \in Interval(arraySize)
    BY <1>1, <1>2, RootIsSegment
  <2> QED BY <2>1 DEF RootVisit, Visit
<1>3. ASSUME NEW at \in Visit
      PROVE  /\ at.node \in Nat /\ at.segment \in Interval(arraySize)
             /\ at.inherited \in Int
  BY DEF Visit
<1>4. ASSUME NEW at \in Visit, ~IsLeaf(at.segment)
      PROVE  LeftVisit(at) \in Visit /\ RightVisit(at) \in Visit
  <2>1. /\ LeftHalf(at.segment) \in Interval(arraySize)
        /\ RightHalf(at.segment) \in Interval(arraySize)
    BY <1>1, <1>3, <1>4, Halves
  <2>2. NodeAt(at.node).leftChild \in Nat /\ NodeAt(at.node).rightChild \in Nat
    BY <1>3, NodeAtFacts
  <2>3. CheckedAdd(at.inherited, NodeAt(at.node).lazy) \in Int
    BY <1>3, NodeAtFacts, CheckedAddInt
  <2> QED BY <2>1, <2>2, <2>3 DEF LeftVisit, RightVisit, Visit
<1> QED BY <1>2, <1>3, <1>4

(* A recursion over visits has a solution. *)
VisitsAsked(V, base, join) == base \in [Visit -> V] /\ join \in [V \X V -> V]

VisitsAnswered(f, V, stop, base, join) ==
  /\ f \in [Visit -> V]
  /\ \A at \in Visit :
       f[at] = IF IsLeaf(at.segment) \/ at \in stop THEN base[at]
               ELSE join[<<f[LeftVisit(at)], f[RightVisit(at)]>>]

LEMMA VisitsSolved ==
  IInv => \A V, stop, base, join :
    VisitsAsked(V, base, join) => \E f : VisitsAnswered(f, V, stop, base, join)
<1> SUFFICES ASSUME IInv, NEW V, NEW stop, NEW base, NEW join,
                    VisitsAsked(V, base, join)
             PROVE  \E f : VisitsAnswered(f, V, stop, base, join)
  OBVIOUS
<1> DEFINE toLeft == [at \in Visit |-> LeftVisit(at)]
           toRight == [at \in Visit |-> RightVisit(at)]
<1>1. arraySize \in Nat
  BY DEF IInv, TypeOK
<1>2. \A at \in Visit :
        /\ toLeft[at] = LeftVisit(at) /\ LeftVisit(at).segment = LeftHalf(at.segment)
        /\ toRight[at] = RightVisit(at) /\ RightVisit(at).segment = RightHalf(at.segment)
  BY DEF LeftVisit, RightVisit
<1> HIDE DEF toLeft, toRight
<1>3. VisitRecursion(arraySize, Visit, V, stop, base, toLeft, toRight, join)
  BY <1>1, <1>2, VisitFacts DEF VisitRecursion, Visits, VisitsAsked
<1>4. PICK f : VisitSolution(f, Visit, V, stop, base, toLeft, toRight, join)
  BY <1>3, VisitRecursionSolved
<1>5. \A at \in Visit :
        f[at] = IF IsLeaf(at.segment) \/ at \in stop THEN base[at]
                ELSE join[<<f[LeftVisit(at)], f[RightVisit(at)]>>]
  BY <1>2, <1>4 DEF VisitSolution
<1> QED BY <1>4, <1>5 DEF VisitSolution, VisitsAnswered

(***************************************************************************)
(* The steps of materialize and query.                                     *)
(***************************************************************************)
Leaves(f) ==
  [at \in Visit |->
     IF IsLeaf(at.segment) THEN <<Apply(at.inherited, NodeAt(at.node).sum, 1)>>
     ELSE f[LeftVisit(at)] \o f[RightVisit(at)]]

LEMMA MaterializeRecursion ==
  ASSUME IInv
  PROVE  \E f : /\ f = Leaves(f)
                /\ \A root : Materialize(root) =
                     IF arraySize = 0 THEN <<>> ELSE f[RootVisit(root)]
<1> DEFINE V == Seq(Int)
           base == [at \in Visit |-> <<Apply(at.inherited, NodeAt(at.node).sum, 1)>>]
           join == [x \in V \X V |-> x[1] \o x[2]]
<1>1. \A x, y : Apply(x, y, 1) \in Int
  BY ValueFacts DEF CheckedAdd, Representable, Apply
<1>2. base \in [Visit -> V]
  BY <1>1
<1>3. join \in [V \X V -> V]
  BY ConcatProperties
<1>5. PICK f : VisitsAnswered(f, V, {}, base, join)
  <2>1. VisitsAsked(V, base, join)
    BY <1>2, <1>3 DEF VisitsAsked
  <2> HIDE DEF V, base, join
  <2> QED BY <2>1, VisitsSolved
<1>6. \A at \in Visit : f[at] = Leaves(f)[at]
  <2> TAKE at \in Visit
  <2>1. ~IsLeaf(at.segment) => /\ f[LeftVisit(at)] \in V /\ f[RightVisit(at)] \in V
    BY <1>5, VisitFacts DEF VisitsAnswered
  <2> QED BY <1>5, <2>1 DEF Leaves, VisitsAnswered
<1>7. f = Leaves(f)
  <2>1. f \in [Visit -> V]
    BY <1>5 DEF VisitsAnswered
  <2> QED BY <1>6, <2>1 DEF Leaves
<1>8. \E g : g = Leaves(g)
  BY <1>7
<1> QED BY <1>8 DEF Materialize, Leaves

Sums(f, left, right) ==
  [at \in Visit |->
     IF Disjoint(left, right, at.segment) THEN 0
     ELSE IF Covers(left, right, at.segment)
          THEN Apply(at.inherited, NodeAt(at.node).sum, Length(at.segment))
          ELSE CheckedAdd(f[LeftVisit(at)], f[RightVisit(at)])]

LEMMA QueryRecursion ==
  ASSUME IInv, NEW left \in Int, NEW right \in Int
  PROVE  \E f \in [Visit -> Int] :
            /\ f = Sums(f, left, right)
            /\ \A root : Query(root, left, right) = f[RootVisit(root)]
<1> DEFINE V == Int
           stop == {at \in Visit : \/ Disjoint(left, right, at.segment)
                                   \/ Covers(left, right, at.segment)}
           base == [at \in Visit |->
                      IF Disjoint(left, right, at.segment) THEN 0
                      ELSE Apply(at.inherited, NodeAt(at.node).sum, Length(at.segment))]
           join == [x \in V \X V |-> CheckedAdd(x[1], x[2])]
<1>1. /\ \A x, y : CheckedAdd(x, y) \in Int
      /\ \A x, y, z : Apply(x, y, z) \in Int
  BY ValueFacts DEF CheckedAdd, Representable, Apply
<1>2. base \in [Visit -> V] /\ join \in [V \X V -> V]
  BY <1>1
<1>4. PICK f : VisitsAnswered(f, V, stop, base, join)
  <2>1. VisitsAsked(V, base, join)
    BY <1>2 DEF VisitsAsked
  <2> HIDE DEF V, stop, base, join
  <2> QED BY <2>1, VisitsSolved
<1>5. ASSUME NEW at \in Visit
      PROVE  f[at] = Sums(f, left, right)[at]
  <2>1. at.segment \in Interval(arraySize) /\ arraySize \in Nat
    BY VisitFacts DEF IInv, TypeOK
  <2>2. IsLeaf(at.segment) => at \in stop
    BY <2>1, Halves DEF IsLeaf, Disjoint, Covers
  <2>3. CASE at \in stop
    BY <1>4, <2>3 DEF Sums, VisitsAnswered
  <2>4. CASE at \notin stop
    <3>1. f[LeftVisit(at)] \in Int /\ f[RightVisit(at)] \in Int
      BY <1>4, <2>2, <2>4, VisitFacts DEF VisitsAnswered
    <3>2. f[at] = join[<<f[LeftVisit(at)], f[RightVisit(at)]>>]
      <4> HIDE DEF stop, base, join
      <4> QED BY <1>4, <2>2, <2>4 DEF VisitsAnswered
    <3>3. f[at] = CheckedAdd(f[LeftVisit(at)], f[RightVisit(at)])
      BY <3>1, <3>2
    <3> QED BY <2>4, <3>3 DEF Sums
  <2> QED BY <2>3, <2>4
<1>6. f = Sums(f, left, right)
  <2>1. f \in [Visit -> V]
    BY <1>4 DEF VisitsAnswered
  <2> QED BY <1>5, <2>1 DEF Sums
<1>7. \E g : g = Sums(g, left, right)
  BY <1>6
<1>8. PICK g : /\ g = Sums(g, left, right)
               /\ \A root : Query(root, left, right) = g[RootVisit(root)]
  BY <1>7 DEF Query, Sums
<1>9. g \in [Visit -> Int]
  BY <1>1, <1>8 DEF Sums
<1> QED BY <1>8, <1>9

-----------------------------------------------------------------------------
(***************************************************************************)
(* materialize.  The tags above an element are added before its sum is, so *)
(* their totals have to be values too.  They are when the sums of the      *)
(* children of every node can be added, as update has checked.             *)
(***************************************************************************)
ChildSumsFit(arena) ==
  \A i \in DOMAIN arena :
    ~IsLeaf(arena[i].segment) =>
      arena[arena[i].leftChild].sum + arena[arena[i].rightChild].sum \in Value

(* An admissible array that a subtree stands for is what its leaves give. *)
LEMMA LeavesExact ==
  ASSUME IInv, ChildSumsFit(nodes),
         NEW w \in Seq(Value), Len(w) = arraySize, NEW f, f = Leaves(f)
  PROVE  \A c \in Interval(arraySize) : CanonicalSum(w)[c] # Overflow =>
           \A at \in Visit :
             /\ at.segment = c
             /\ at.inherited \in Value
             /\ Carries(w, at.node, c, at.inherited)
             => f[at] = SubSeq(w, c[1], c[2])
<1> DEFINE Exact(c) == \A at \in Visit :
             /\ at.segment = c
             /\ at.inherited \in Value
             /\ Carries(w, at.node, c, at.inherited)
             => f[at] = SubSeq(w, c[1], c[2])
           T == {c \in Interval(arraySize) : CanonicalSum(w)[c] # Overflow => Exact(c)}
<1>1. /\ nodes \in Seq(Node) /\ WellFormed(nodes) /\ arraySize \in Nat
      /\ Len(nodes) \in Nat /\ DOMAIN nodes = 1 .. Len(nodes)
  BY LenProperties DEF IInv, TypeOK, TreesWellFormed
<1>2. \A p \in 1 .. arraySize : w[p] \in Value /\ w[p] \in Outcome /\ w[p] \in Int
  BY ElementOfSeq, ValueFacts DEF Outcome
<1>3. PICK S : RunningSums(S, w, arraySize)
  BY <1>1, <1>2, PrefixSums
<1>4. ASSUME NEW c \in Interval(arraySize), CanonicalSum(w)[c] # Overflow,
             NEW at \in Visit, at.segment = c, at.inherited \in Value,
             Carries(w, at.node, c, at.inherited),
             IsLeaf(c) \/ (LeftHalf(c) \in T /\ RightHalf(c) \in T)
      PROVE  f[at] = SubSeq(w, c[1], c[2])
  <2> DEFINE i == at.node
             h == at.inherited
  <2>1. /\ i \in 1 .. Len(nodes) /\ nodes[i].segment = c /\ NodeAt(i) = nodes[i]
        /\ nodes[i].sum \in Value /\ nodes[i].lazy \in Value
        /\ nodes[i].sum \in Int /\ nodes[i].lazy \in Int
        /\ h \in Int
    <3>1. i \in 1 .. Len(nodes) /\ nodes[i].segment = c /\ i \in Nat
      BY <1>1, <1>4 DEF Carries
    <3> QED BY <1>1, <1>4, <3>1, NodeAtFacts, NodeFacts, ValueFacts
  <2>2. c[1] \in 1 .. arraySize /\ c[2] \in c[1] .. arraySize
    BY <1>1, Halves
  <2>3. CASE IsLeaf(c)
    <3>1. f[at] = <<Apply(h, nodes[i].sum, 1)>>
      BY <1>4, <2>1, <2>3 DEF Leaves
    <3>2. c[2] = c[1]
      BY <2>3 DEF IsLeaf
    <3>3. w[c[1]] = h + nodes[i].sum /\ w[c[1]] \in Value
      <4>1. w[c[1]] = h + Elements(nodes)[i][c[1]]
        BY <1>4, <2>2, <3>2 DEF Carries
      <4>2. Elements(nodes)[i][c[1]] = nodes[i].sum
        <5>1. c[1] \in Nat
          BY <2>2
        <5> QED BY <1>1, <2>1, <2>3, <5>1, ElementFacts
      <4> QED BY <1>2, <2>2, <4>1, <4>2
    <3>4. Apply(h, nodes[i].sum, 1) = w[c[1]]
      <4>1. CheckedLength(1) = 1 /\ 1 # Overflow
        BY MaxValAssumption DEF CheckedLength, Overflow
      <4>2. h * 1 = h /\ h # Overflow /\ nodes[i].sum # Overflow
        BY <1>4, <2>1, ValueFacts
      <4>3. CheckedMultiply(h, CheckedLength(1)) = h
        BY <1>4, <4>1, <4>2 DEF CheckedMultiply, Representable
      <4>4. nodes[i].sum + h = w[c[1]]
        BY <2>1, <3>3
      <4> QED BY <3>3, <4>2, <4>3, <4>4 DEF Apply, CheckedAdd, Representable
    <3>5. SubSeq(w, c[1], c[1]) = <<w[c[1]]>>
      <4>1. SubSeq(w, c[1], c[1]) = SubSeq(w, c[1], c[1] - 1) \o <<w[c[1]]>>
        <5>1. PICK q : q = c[1]
          OBVIOUS
        <5>2. q \in 1 .. Len(w) /\ q \in q .. Len(w)
          BY <1>1, <2>2, <5>1
        <5>3. SubSeq(w, q, q) = SubSeq(w, q, q - 1) \o <<w[q]>>
          BY <1>1, <5>2, SubSeqRecursiveSecond
        <5> QED BY <5>1, <5>3
      <4>2. SubSeq(w, c[1], c[1] - 1) = <<>>
        BY <2>2, SubSeqEmpty
      <4>3. <<w[c[1]]>> \in Seq(Value)
        BY <3>3
      <4> QED BY <4>1, <4>2, <4>3, ConcatEmptySeq
    <3> QED BY <3>1, <3>2, <3>4, <3>5
  <2>4. CASE ~IsLeaf(c)
    <3> DEFINE l == nodes[i].leftChild
               r == nodes[i].rightChild
               k == h + nodes[i].lazy
               below == nodes[l].sum + nodes[r].sum
    <3>1. /\ l \in 1 .. Len(nodes) /\ r \in 1 .. Len(nodes)
          /\ nodes[i].sum = below + nodes[i].lazy * Length(c)
      BY <1>1, <2>1, <2>4, NodeFacts
    <3>2. below \in Value /\ below \in Int
      BY <1>1, <2>1, <2>4, ValueFacts DEF ChildSumsFit
    <3>3. /\ CanonicalSum(w)[c] \in Value
          /\ CanonicalSum(w)[LeftHalf(c)] # Overflow
          /\ CanonicalSum(w)[RightHalf(c)] # Overflow
      BY <1>1, <1>2, <1>4, <2>4, CanonicalSumExact
    <3>4. CanonicalSum(w)[c] = nodes[i].sum + h * Length(c)
      <4>1. CanonicalSum(w)[c] = S[c[2]] - S[c[1] - 1]
        BY <1>1, <1>2, <1>3, <1>4, CanonicalSumIs
      <4>2. S[c[2]] - S[c[1] - 1] = nodes[i].sum + h * Length(c)
        BY <1>1, <1>3, <1>4, <2>1, SegmentSums
      <4> QED BY <4>1, <4>2
    <3>5. Length(c) \in Nat /\ Length(c) >= 2
      BY <1>1, <2>4, HalvesLength
    <3>6. CanonicalSum(w)[c] = below + k * Length(c)
      <4>1. PICK a, b, n \in Int : a = h /\ b = nodes[i].lazy /\ n = Length(c)
        BY <2>1, <3>5
      <4> HIDE DEF below
      <4>2. PICK x, y, z, u \in Int : x = a * n /\ y = b * n /\ z = (a + b) * n /\ u = below
        <5>1. a * n \in Int /\ b * n \in Int /\ (a + b) * n \in Int
          OBVIOUS
        <5> QED BY <3>2, <5>1
      <4>3. z = x + y
        BY <4>2
      <4>4. u + z = (u + y) + x
        BY <4>3
      <4> QED BY <3>1, <3>4, <4>1, <4>2, <4>4
    <3>7. k \in Value
      <4>1. k \in Int
        BY <2>1
      <4> HIDE DEF below, k
      <4> QED BY <3>2, <3>3, <3>5, <3>6, <4>1, TagFits
    <3>8. CheckedAdd(h, nodes[i].lazy) = k
      BY <1>4, <2>1, <3>7, ValueFacts DEF CheckedAdd, Representable
    <3>9. /\ LeftVisit(at) \in Visit /\ LeftVisit(at).segment = LeftHalf(c)
          /\ LeftVisit(at).inherited = k /\ LeftVisit(at).node = l
          /\ RightVisit(at) \in Visit /\ RightVisit(at).segment = RightHalf(c)
          /\ RightVisit(at).inherited = k /\ RightVisit(at).node = r
      <4>1. LeftVisit(at) \in Visit /\ RightVisit(at) \in Visit
        BY <1>4, <2>4, VisitFacts
      <4> QED BY <1>4, <2>1, <3>8, <4>1 DEF LeftVisit, RightVisit
    <3>10. Carries(w, l, LeftHalf(c), k) /\ Carries(w, r, RightHalf(c), k)
      BY <1>4, <2>1, <2>4, CarriesHalves
    <3>11. /\ f[LeftVisit(at)] = SubSeq(w, LeftHalf(c)[1], LeftHalf(c)[2])
           /\ f[RightVisit(at)] = SubSeq(w, RightHalf(c)[1], RightHalf(c)[2])
      BY <1>4, <2>4, <3>3, <3>7, <3>9, <3>10
    <3>12. f[at] = f[LeftVisit(at)] \o f[RightVisit(at)]
      BY <1>4, <2>4 DEF Leaves
    <3>13. SubSeq(w, c[1], Midpoint(c)) \o SubSeq(w, Midpoint(c) + 1, c[2])
             = SubSeq(w, c[1], c[2])
      <4>1. /\ c[1] \in 1 .. Len(w) + 1 /\ Midpoint(c) \in c[1] - 1 .. Len(w)
            /\ c[2] \in Midpoint(c) .. Len(w)
        BY <1>1, <2>2, <2>4, Halves
      <4> QED BY <4>1, ConcatAdjacentSubSeq
    <3> QED BY <3>11, <3>12, <3>13 DEF LeftHalf, RightHalf
  <2> QED BY <2>3, <2>4
<1>5. ASSUME NEW c \in Interval(arraySize),
             IsLeaf(c) \/ (LeftHalf(c) \in T /\ RightHalf(c) \in T)
      PROVE  c \in T
  <2> HIDE DEF T
  <2>1. CanonicalSum(w)[c] # Overflow => Exact(c)
    BY <1>4, <1>5
  <2> USE DEF T
  <2> HIDE DEF Exact
  <2> QED BY <2>1
<1>6. Interval(arraySize) \subseteq T
  <2> HIDE DEF T
  <2> QED BY <1>1, <1>5, SegmentInduction
<1> QED BY <1>6

(***************************************************************************)
(* The array a version stands for.                                         *)
(***************************************************************************)
Stored(root) == [p \in 1 .. arraySize |-> Elements(nodes)[root][p]]

LEMMA StoredFacts ==
  ASSUME IInv, NEW root \in Nat, RootOK(root)
  PROVE  /\ Stored(root) \in Seq(Int) /\ Len(Stored(root)) = arraySize
         /\ DOMAIN Stored(root) = 1 .. arraySize
         /\ \A p \in 1 .. arraySize : /\ Stored(root)[p] = Elements(nodes)[root][p]
                                      /\ Stored(root)[p] \in Int
         /\ arraySize # 0 => Carries(Stored(root), root, Root(arraySize), 0)
<1>1. /\ nodes \in Seq(Node) /\ WellFormed(nodes) /\ arraySize \in Nat
      /\ DOMAIN nodes = 1 .. Len(nodes)
  BY LenProperties DEF IInv, TypeOK, TreesWellFormed
<1>2. \A p \in 1 .. arraySize : Elements(nodes)[root][p] \in Int
  <2> TAKE p \in 1 .. arraySize
  <2>1. root \in 1 .. Len(nodes) /\ p \in Nat
    BY <1>1 DEF RootOK
  <2> QED BY <1>1, <2>1, ElementFacts
<1>3. Stored(root) \in Seq(Int) /\ Len(Stored(root)) = arraySize
  BY <1>1, <1>2, IsASeq DEF Stored
<1>4. DOMAIN Stored(root) = 1 .. arraySize
      /\ \A p \in 1 .. arraySize : Stored(root)[p] = Elements(nodes)[root][p]
  BY DEF Stored
<1>5. ASSUME arraySize # 0
      PROVE  Carries(Stored(root), root, Root(arraySize), 0)
  <2>1. root \in 1 .. Len(nodes) /\ nodes[root].segment = Root(arraySize)
    BY <1>1, <1>5 DEF RootOK
  <2>2. \A p \in 1 .. arraySize : Stored(root)[p] = 0 + Elements(nodes)[root][p]
    BY <1>2, <1>4
  <2>3. Root(arraySize)[1] = 1 /\ Root(arraySize)[2] = arraySize
    BY DEF Root
  <2> QED BY <2>1, <2>2, <2>3 DEF Carries
<1> QED BY <1>2, <1>3, <1>4, <1>5

(* A version that stands for an admissible array materializes as that array. *)
LEMMA MaterializeExact ==
  ASSUME IInv, ChildSumsFit(nodes), NEW root \in Nat, RootOK(root),
         Stored(root) \in Seq(Value), Admissible(Stored(root))
  PROVE  Materialize(root) = Stored(root)
<1>1. PICK f : /\ f = Leaves(f)
               /\ \A r : Materialize(r) =
                    IF arraySize = 0 THEN <<>> ELSE f[RootVisit(r)]
  BY MaterializeRecursion
<1>2. arraySize \in Nat
  BY DEF IInv, TypeOK
<1>3. CASE arraySize = 0
  BY <1>1, <1>3, StoredFacts, EmptySeq
<1>4. CASE arraySize # 0
  <2> DEFINE w == Stored(root)
             at == RootVisit(root)
             c == Root(arraySize)
  <2>1. w \in Seq(Value) /\ Len(w) = arraySize /\ Carries(w, root, c, 0)
    BY <1>4, StoredFacts
  <2>2. CanonicalSum(w)[c] # Overflow
    BY <1>4, <2>1, EmptySeq DEF Admissible
  <2>3. /\ at \in Visit /\ at.segment = c /\ at.inherited = 0 /\ at.node = root
        /\ c \in Interval(arraySize)
    BY <1>2, <1>4, VisitFacts, RootIsSegment DEF RootVisit
  <2>4. f[at] = SubSeq(w, c[1], c[2])
    <3> HIDE DEF w, at, c
    <3> QED BY <1>1, <2>1, <2>2, <2>3, LeavesExact, ValueFacts
  <2>5. SubSeq(w, c[1], c[2]) = w
    BY <2>1, SubSeqFull DEF Root
  <2> QED BY <1>1, <1>4, <2>4, <2>5
<1> QED BY <1>3, <1>4

-----------------------------------------------------------------------------
(***************************************************************************)
(* query.  What a visit returns is the sum of the elements of its segment  *)
(* that lie in the range.                                                  *)
(***************************************************************************)
First(left, c) == IF left > c[1] THEN left ELSE c[1]

Final(right, c) == IF right < c[2] THEN right ELSE c[2]

LEMMA VisitsExact ==
  ASSUME IInv, NEW w, NEW S, RunningSums(S, w, arraySize),
         NEW left \in 1 .. arraySize, NEW right \in left .. arraySize,
         NEW f \in [Visit -> Int], f = Sums(f, left, right)
  PROVE  \A c \in Interval(arraySize) : \A at \in Visit :
           at.segment = c /\ ~Disjoint(left, right, c) /\ f[at] # Overflow =>
             /\ at.inherited # Overflow
             /\ Carries(w, at.node, c, at.inherited) =>
                  f[at] = S[Final(right, c)] - S[First(left, c) - 1]
<1> DEFINE Exact(c) == \A at \in Visit :
             at.segment = c /\ ~Disjoint(left, right, c) /\ f[at] # Overflow =>
               /\ at.inherited # Overflow
               /\ Carries(w, at.node, c, at.inherited) =>
                    f[at] = S[Final(right, c)] - S[First(left, c) - 1]
           T == {c \in Interval(arraySize) : Exact(c)}
<1>1. /\ nodes \in Seq(Node) /\ arraySize \in Nat
      /\ Len(nodes) \in Nat /\ DOMAIN nodes = 1 .. Len(nodes)
  BY LenProperties DEF IInv, TypeOK
<1>2. \A p \in 0 .. arraySize : S[p] \in Int
  BY DEF RunningSums
<1>0. ASSUME NEW c \in Interval(arraySize)
      PROVE  \A j, k \in Int : Carries(w, j, c, k) =>
               S[c[2]] - S[c[1] - 1] = nodes[j].sum + k * Length(c)
  <2> HIDE DEF T, Exact
  <2> QED BY SegmentSums
<1>3. ASSUME NEW c \in Interval(arraySize), NEW at \in Visit, at.segment = c,
             ~Disjoint(left, right, c), f[at] # Overflow,
             IsLeaf(c) \/ (LeftHalf(c) \in T /\ RightHalf(c) \in T)
      PROVE  /\ at.inherited # Overflow
             /\ Carries(w, at.node, c, at.inherited) =>
                  f[at] = S[Final(right, c)] - S[First(left, c) - 1]
  <2> DEFINE i == at.node
             h == at.inherited
  <2>1. /\ c[1] \in 1 .. arraySize /\ c[2] \in 1 .. arraySize /\ c[1] <= c[2]
        /\ Length(c) \in Nat /\ i \in Nat /\ h \in Int
        /\ NodeAt(i).sum \in Int /\ NodeAt(i).lazy \in Int
    BY <1>1, Halves, VisitFacts, NodeAtFacts
  <2>2. CASE Covers(left, right, c)
    <3>1. f[at] = Apply(h, NodeAt(i).sum, Length(c))
      BY <1>3, <2>2 DEF Sums
    <3>2. h # Overflow /\ f[at] = NodeAt(i).sum + h * Length(c)
      BY <1>3, <2>1, <3>1, ApplyExact
    <3>3. ASSUME Carries(w, i, c, h)
          PROVE  f[at] = S[Final(right, c)] - S[First(left, c) - 1]
      <4>1. i \in 1 .. Len(nodes) /\ NodeAt(i) = nodes[i]
        BY <2>1, <3>3, NodeAtFacts DEF Carries
      <4>2. S[c[2]] - S[c[1] - 1] = nodes[i].sum + h * Length(c)
        <5>1. \A j, k \in Int : Carries(w, j, c, k) =>
                S[c[2]] - S[c[1] - 1] = nodes[j].sum + k * Length(c)
          BY <1>0
        <5>2. i \in Int /\ h \in Int
          BY <2>1
        <5> HIDE DEF i, h
        <5> QED BY <3>3, <5>1, <5>2
      <4>3. Final(right, c) = c[2] /\ First(left, c) = c[1]
        BY <2>1, <2>2 DEF Covers, Final, First
      <4> QED BY <3>2, <4>1, <4>2, <4>3
    <3> QED BY <3>2, <3>3
  <2>3. CASE ~Covers(left, right, c)
    <3> DEFINE m == Midpoint(c)
               a == LeftVisit(at)
               b == RightVisit(at)
               k == CheckedAdd(h, NodeAt(i).lazy)
    <3>1. /\ ~IsLeaf(c)
          /\ left <= c[2] /\ c[1] <= right
      BY <1>3, <2>1, <2>3 DEF IsLeaf, Covers, Disjoint
    <3>2. /\ m \in Int /\ c[1] <= m /\ m < c[2]
          /\ LeftHalf(c) \in Interval(arraySize) /\ RightHalf(c) \in Interval(arraySize)
      BY <1>1, <3>1, Halves
    <3>3. /\ a \in Visit /\ a.segment = LeftHalf(c) /\ a.inherited = k
          /\ b \in Visit /\ b.segment = RightHalf(c) /\ b.inherited = k
          /\ a.node = NodeAt(i).leftChild /\ b.node = NodeAt(i).rightChild
      BY <1>3, <3>1, VisitFacts DEF LeftVisit, RightVisit
    <3>4. f[at] = CheckedAdd(f[a], f[b])
      BY <1>3, <2>3 DEF Sums
    <3>5. f[a] # Overflow /\ f[b] # Overflow /\ f[at] = f[a] + f[b]
          /\ f[a] \in Int /\ f[b] \in Int
      BY <1>3, <3>3, <3>4, CheckedAddExact
    <3>6. /\ Disjoint(left, right, LeftHalf(c)) <=> m < left
          /\ Disjoint(left, right, RightHalf(c)) <=> m >= right
      BY <2>1, <3>1, <3>2 DEF Disjoint, LeftHalf, RightHalf
    <3>7. /\ m < left => f[a] = 0
          /\ m >= right => f[b] = 0
      BY <3>3, <3>6 DEF Sums
    <3>8. LeftHalf(c) \in T /\ RightHalf(c) \in T
      BY <1>3, <3>1
    <3>9. /\ m >= left => k # Overflow
          /\ m < right => k # Overflow
      BY <3>2, <3>3, <3>5, <3>6, <3>8
    <3>10. k # Overflow
      BY <3>2, <3>9
    <3>11. h # Overflow /\ k = h + NodeAt(i).lazy
      BY <2>1, <3>10, CheckedAddExact
    <3>12. ASSUME Carries(w, i, c, h)
           PROVE  f[at] = S[Final(right, c)] - S[First(left, c) - 1]
      <4>1. i \in 1 .. Len(nodes) /\ NodeAt(i) = nodes[i]
        BY <2>1, <3>12, NodeAtFacts DEF Carries
      <4>2. Carries(w, a.node, LeftHalf(c), k) /\ Carries(w, b.node, RightHalf(c), k)
        BY <2>1, <3>1, <3>3, <3>11, <3>12, <4>1, CarriesHalves
      <4>3. /\ m >= left =>
                 f[a] = S[Final(right, LeftHalf(c))] - S[First(left, LeftHalf(c)) - 1]
            /\ m < right =>
                 f[b] = S[Final(right, RightHalf(c))] - S[First(left, RightHalf(c)) - 1]
        BY <3>2, <3>3, <3>5, <3>6, <3>8, <4>2
      <4>4. /\ Final(right, LeftHalf(c)) = IF right < m THEN right ELSE m
            /\ First(left, LeftHalf(c)) = First(left, c)
            /\ Final(right, RightHalf(c)) = Final(right, c)
            /\ First(left, RightHalf(c)) = IF left > m + 1 THEN left ELSE m + 1
        BY DEF Final, First, LeftHalf, RightHalf
      <4>5. /\ Final(right, c) \in 0 .. arraySize /\ First(left, c) - 1 \in 0 .. arraySize
            /\ m \in 0 .. arraySize
        <5>1. m \in 0 .. arraySize
          BY <1>1, <2>1, <3>2
        <5>2. Final(right, c) \in 1 .. arraySize
          BY <1>1, <2>1 DEF Final
        <5>3. First(left, c) \in 1 .. arraySize
          BY <1>1, <2>1 DEF First
        <5>4. First(left, c) - 1 \in 0 .. arraySize
          BY <1>1, <5>3
        <5> QED BY <1>1, <5>1, <5>2, <5>4
      <4>6. PICK x, y, z \in Int : x = S[Final(right, c)] /\ y = S[First(left, c) - 1] /\ z = S[m]
        BY <1>2, <4>5
      <4>7. CASE m < left
        <5>1. First(left, c) = left /\ First(left, RightHalf(c)) = left
          BY <2>1, <3>2, <4>4, <4>7 DEF First
        <5>2. f[b] = x - y
          BY <3>2, <4>3, <4>4, <4>6, <4>7, <5>1
        <5> QED BY <3>5, <3>7, <4>6, <4>7, <5>2
      <4>8. CASE m >= right
        <5>1. Final(right, c) = right /\ Final(right, LeftHalf(c)) = right
          BY <2>1, <3>2, <4>4, <4>8 DEF Final
        <5>2. f[a] = x - y
          BY <3>2, <4>3, <4>4, <4>6, <4>8, <5>1
        <5> QED BY <3>5, <3>7, <4>6, <4>8, <5>2
      <4>9. CASE m >= left /\ m < right
        <5>1. Final(right, LeftHalf(c)) = m /\ First(left, RightHalf(c)) = m + 1
              /\ (m + 1) - 1 = m
          BY <3>2, <4>4, <4>9
        <5>2. f[a] = z - y /\ f[b] = x - z
          BY <4>3, <4>4, <4>6, <4>9, <5>1
        <5>3. (z - y) + (x - z) = x - y
          BY <4>6
        <5> QED BY <3>5, <4>6, <5>2, <5>3
      <4> QED BY <3>2, <4>7, <4>8, <4>9
    <3> QED BY <3>11, <3>12
  <2> QED BY <2>2, <2>3
<1>4. ASSUME NEW c \in Interval(arraySize),
             IsLeaf(c) \/ (LeftHalf(c) \in T /\ RightHalf(c) \in T)
      PROVE  c \in T
  <2>1. Exact(c)
    BY <1>3, <1>4
  <2> HIDE DEF Exact
  <2> QED BY <2>1
<1>5. Interval(arraySize) \subseteq T
  <2> HIDE DEF T
  <2> QED BY <1>1, <1>4, SegmentInduction
<1> QED BY <1>5

(* A query of a version is exact or reports an overflow. *)
LEMMA QueryExact ==
  ASSUME IInv, NEW root \in Nat, RootOK(root),
         NEW left \in 1 .. arraySize, NEW right \in left .. arraySize
  PROVE  \/ Query(root, left, right) = ExactSum(Stored(root), left, right)
         \/ Query(root, left, right) = Overflow
<1> DEFINE w == Stored(root)
           at == RootVisit(root)
           c == Root(arraySize)
<1>1. /\ arraySize \in Nat /\ arraySize # 0 /\ arraySize > 0
      /\ left \in Int /\ right \in Int
  BY DEF IInv, TypeOK
<1>2. \A p \in 1 .. arraySize : w[p] \in Int
  BY StoredFacts
<1>3. PICK S : RunningSums(S, w, arraySize)
  <2> HIDE DEF w
  <2> QED BY <1>1, <1>2, PrefixSums
<1>4. ExactSum(w, left, right) = S[right] - S[left - 1]
  <2> HIDE DEF w
  <2> QED BY <1>1, <1>3, ExactSumIs
<1>5. PICK f \in [Visit -> Int] : /\ f = Sums(f, left, right)
                                  /\ \A r : Query(r, left, right) = f[RootVisit(r)]
  BY <1>1, QueryRecursion
<1>6. /\ at \in Visit /\ at.segment = c /\ at.inherited = 0 /\ at.node = root
      /\ c \in Interval(arraySize) /\ c[1] = 1 /\ c[2] = arraySize
  BY <1>1, VisitFacts, RootIsSegment DEF RootVisit, Root
<1>7. Carries(w, root, c, 0)
  BY <1>1, StoredFacts
<1>8. ~Disjoint(left, right, c)
  BY <1>1, <1>6 DEF Disjoint
<1>9. Final(right, c) = right /\ First(left, c) = left
  BY <1>1, <1>6 DEF Final, First
<1>10. ASSUME f[at] # Overflow
       PROVE  f[at] = S[right] - S[left - 1]
  <2> HIDE DEF w, at, c
  <2>1. Carries(w, at.node, c, at.inherited) =>
          f[at] = S[Final(right, c)] - S[First(left, c) - 1]
    BY <1>3, <1>5, <1>6, <1>8, <1>10, VisitsExact
  <2> QED BY <1>6, <1>7, <1>9, <2>1
<1> QED BY <1>4, <1>5, <1>10

-----------------------------------------------------------------------------
(***************************************************************************)
(* The inductive invariant of the versions.  A version's array is Stored;  *)
(* what the running update will publish is Proposed, admitted with its     *)
(* bound before the first node was copied; and the nodes returned so far   *)
(* hold the call's array, each on its own segment.                         *)
(***************************************************************************)
Latest == roots[Len(roots)]

Proposed == AddToRange(Stored(Latest), call.left, call.right, call.value)

\* Node index is the part c of the array the call makes; an update has made
\* it from node old.
Holds(index, old, c) ==
  IF call.op = "initialize"
  THEN /\ \A p \in c[1] .. c[2] : Elements(newNodes)[index][p] = call.values[p]
       /\ newNodes[index].sum = CanonicalSum(call.values)[c]
  ELSE \A p \in c[1] .. c[2] :
         /\ p \in call.left .. call.right =>
              Elements(nodes)[index][p] = Elements(nodes)[old][p] + call.value
         /\ p \notin call.left .. call.right =>
              Elements(nodes)[index][p] = Elements(nodes)[old][p]

NewChild(f, side) == IF side = "left" THEN f.newLeft ELSE f.newRight

Covered(f) == call.op = "rangeAdd" /\ Covers(call.left, call.right, f.segment)

FrameCarries(f) ==
  ~IsLeaf(f.segment) /\ ~Covered(f) =>
    \A side \in Sides \ f.todo :
      Holds(NewChild(f, side), Child(f, side), Half(f.segment, side))

\* An update reads the latest version all the way down.
ReadsLatest(k) ==
  call.op = "rangeAdd" =>
    stack[k].node = IF k = 1 THEN Latest ELSE Child(stack[k - 1], NextSide(stack[k - 1]))

SumsFit == ChildSumsFit(nodes) /\ ChildSumsFit(newNodes)

VersionsAdmissible ==
  \A v \in DOMAIN roots : Stored(roots[v]) \in Seq(Value) /\ Admissible(Stored(roots[v]))

BoundSound ==
  /\ bound \in Bound /\ nextBound \in Bound
  /\ roots # <<>> => MaxMagnitude(Stored(Latest)) <= bound

UpdateAdmitted ==
  call.op = "rangeAdd" =>
    /\ Len(roots) \in 1 .. MaxVersions - 1
    /\ Proposed \in Seq(Value) /\ Admissible(Proposed)
    /\ MaxMagnitude(Proposed) <= nextBound

CallMakesItsArray ==
  stack = <<>> =>
    /\ call.op = "initialize" /\ call.values # <<>> =>
         Holds(Len(newNodes), NoNode, Root(CallSize))
    /\ call.op = "rangeAdd" => Holds(Len(nodes), Latest, Root(arraySize))

FramesCarry == \A k \in DOMAIN stack : FrameCarries(stack[k]) /\ ReadsLatest(k)

VInv ==
  /\ SumsFit
  /\ VersionsAdmissible
  /\ BoundSound
  /\ UpdateAdmitted
  /\ CallMakesItsArray
  /\ FramesCarry

LEMMA InitVInv == Init => VInv
<1> SUFFICES ASSUME Init PROVE VInv
  OBVIOUS
<1>1. call.op = "idle"
  BY DEF Init, Idle
<1>2. SumsFit /\ VersionsAdmissible /\ FramesCarry
  BY DEF Init, SumsFit, ChildSumsFit, VersionsAdmissible, FramesCarry
<1>3. BoundSound
  BY ValueFacts DEF Init, BoundSound, Bound, MaxBound
<1>4. UpdateAdmitted /\ CallMakesItsArray
  BY <1>1 DEF UpdateAdmitted, CallMakesItsArray
<1> QED BY <1>2, <1>3, <1>4 DEF VInv

(* The roots of the published versions and the nodes that may be read. *)
LEMMA RootFacts ==
  ASSUME IInv
  PROVE  /\ roots \in Seq(Nat) /\ DOMAIN roots = 1 .. Len(roots) /\ Len(roots) \in Nat
         /\ arraySize \in Nat
         /\ nodes \in Seq(Node) /\ WellFormed(nodes)
         /\ DOMAIN nodes = 1 .. Len(nodes) /\ Len(nodes) \in Nat
         /\ \A v \in DOMAIN roots :
              /\ roots[v] \in 0 .. Len(nodes) /\ RootOK(roots[v])
              /\ roots[v] = 0 => arraySize = 0
         /\ roots # <<>> => Len(roots) \in DOMAIN roots
<1>1. /\ roots \in Seq(Nat) /\ DOMAIN roots = 1 .. Len(roots) /\ Len(roots) \in Nat
      /\ arraySize \in Nat
      /\ nodes \in Seq(Node) /\ WellFormed(nodes)
      /\ DOMAIN nodes = 1 .. Len(nodes) /\ Len(nodes) \in Nat
      /\ \A v \in DOMAIN roots : RootOK(roots[v])
  BY LenProperties DEF IInv, TypeOK, TreesWellFormed
<1>2. \A v \in DOMAIN roots :
        roots[v] \in 0 .. Len(nodes) /\ (roots[v] = 0 => arraySize = 0)
  BY <1>1 DEF RootOK, NoNode
<1>3. roots # <<>> => Len(roots) \in DOMAIN roots
  BY <1>1, EmptySeq
<1> QED BY <1>1, <1>2, <1>3

(* What is stored for a node survives as long as the nodes up to it do. *)
LEMMA StoredKept ==
  ASSUME IInv, IInv', NEW k \in Nat, k <= Len(nodes), k <= Len(nodes'),
         \A i \in 1 .. k : nodes'[i] = nodes[i]
  PROVE  /\ \A i \in 1 .. k : Elements(nodes')[i] = Elements(nodes)[i]
         /\ \A root \in 0 .. k :
              arraySize' = arraySize /\ (root # 0 \/ arraySize = 0)
                => Stored(root)' = Stored(root)
<1>1. /\ nodes \in Seq(Node) /\ WellFormed(nodes) /\ Len(nodes) \in Nat
      /\ nodes' \in Seq(Node) /\ WellFormed(nodes')
      /\ arraySize \in Nat
  BY LenProperties DEF IInv, TypeOK, TreesWellFormed
<1>2. \A i \in 1 .. k : Elements(nodes)[i] = Elements(nodes')[i]
  <2>1. k \in 0 .. Len(nodes)
    BY <1>1
  <2> QED BY <1>1, <2>1, ElementsKept
<1>3. ASSUME NEW root \in 0 .. k, arraySize' = arraySize, root # 0 \/ arraySize = 0
      PROVE  Stored(root)' = Stored(root)
  <2>1. CASE root # 0
    BY <1>2, <1>3, <2>1 DEF Stored
  <2>2. CASE arraySize = 0
    BY <1>1, <1>3, <2>2 DEF Stored
  <2> QED BY <1>3, <2>1, <2>2
<1> QED BY <1>2, <1>3

(* The published versions survive every step that keeps their nodes. *)
LEMMA VersionsKept ==
  ASSUME IInv, IInv', VersionsAdmissible, UNCHANGED <<roots, arraySize>>,
         NEW k \in Nat, k <= Len(nodes), k <= Len(nodes'),
         \A i \in 1 .. k : nodes'[i] = nodes[i],
         \A v \in DOMAIN roots : roots[v] <= k
  PROVE  /\ VersionsAdmissible'
         /\ Latest' = Latest
         /\ roots # <<>> => Stored(Latest)' = Stored(Latest)
         /\ \A v \in DOMAIN roots : Stored(roots[v])' = Stored(roots[v])
<1>1. \A v \in DOMAIN roots : Stored(roots[v])' = Stored(roots[v])
  <2> TAKE v \in DOMAIN roots
  <2>1. roots[v] \in 0 .. k /\ (roots[v] # 0 \/ arraySize = 0)
    BY RootFacts
  <2>2. \A root \in 0 .. k :
          (root # 0 \/ arraySize = 0) => Stored(root)' = Stored(root)
    BY StoredKept
  <2>3. Stored(roots[v])' = [p \in 1 .. arraySize' |-> Elements(nodes')[roots'[v]][p]]
    BY DEF Stored
  <2>4. [p \in 1 .. arraySize' |-> Elements(nodes')[roots[v]][p]] = Stored(roots[v])
    BY <2>1, <2>2 DEF Stored
  <2> QED BY <2>3, <2>4
<1>2. VersionsAdmissible'
  BY <1>1 DEF VersionsAdmissible
<1>3. Latest' = Latest
  BY DEF Latest
<1>4. roots # <<>> => Stored(Latest)' = Stored(Latest)
  BY <1>1, RootFacts DEF Latest
<1> QED BY <1>1, <1>2, <1>3, <1>4

(* As every step does that leaves the arena alone. *)
LEMMA ArenaUnchanged ==
  ASSUME IInv, IInv', VersionsAdmissible, UNCHANGED <<nodes, roots, arraySize>>
  PROVE  /\ VersionsAdmissible'
         /\ Latest' = Latest
         /\ roots # <<>> => Stored(Latest)' = Stored(Latest)
         /\ \A v \in DOMAIN roots : Stored(roots[v])' = Stored(roots[v])
<1>1. /\ Len(nodes) \in Nat /\ Len(nodes) <= Len(nodes')
      /\ \A v \in DOMAIN roots : roots[v] <= Len(nodes)
  BY RootFacts
<1> QED BY <1>1, VersionsKept

LEMMA StutterVInv ==
  ASSUME VInv, UNCHANGED vars
  PROVE  VInv'
<1> USE DEF vars
<1>1. SumsFit' /\ VersionsAdmissible' /\ BoundSound'
  BY DEF VInv, SumsFit, ChildSumsFit, VersionsAdmissible, BoundSound, Stored, Latest
<1>2. UpdateAdmitted'
  BY DEF VInv, UpdateAdmitted, Proposed, Stored, Latest
<1>3. CallMakesItsArray'
  BY DEF VInv, CallMakesItsArray, Holds, Latest, CallSize
<1>4. FramesCarry'
  BY DEF VInv, FramesCarry, FrameCarries, ReadsLatest, Covered, Holds, NewChild,
         Child, Latest
<1> QED BY <1>1, <1>2, <1>3, <1>4 DEF VInv

LEMMA BeginInitializeVInv ==
  ASSUME IInv, IInv', VInv, NEW values \in Arrays, BeginInitialize(values)
  PROVE  VInv'
<1>1. /\ UNCHANGED <<nodes, roots, arraySize, bound, nextBound, newNodes>>
      /\ call'.op = "initialize" /\ call'.values = values
      /\ stack' = IF values = <<>> THEN <<>> ELSE <<BuildFrame(Root(Len(values)))>>
  BY DEF BeginInitialize
<1>2. SumsFit' /\ VersionsAdmissible' /\ BoundSound'
  BY <1>1, ArenaUnchanged DEF VInv, SumsFit, ChildSumsFit, BoundSound
<1>3. UpdateAdmitted' /\ CallMakesItsArray'
  BY <1>1 DEF UpdateAdmitted, CallMakesItsArray
<1>4. FramesCarry'
  <2>1. SUFFICES ASSUME NEW k \in DOMAIN stack' PROVE FrameCarries(stack[k])'
    BY <1>1 DEF FramesCarry, ReadsLatest
  <2>2. stack'[k] = BuildFrame(Root(Len(values)))
    BY <1>1
  <2>3. IsLeaf(stack'[k].segment) \/ stack'[k].todo = Sides
    BY <2>2 DEF BuildFrame
  <2> QED BY <2>3 DEF FrameCarries
<1> QED BY <1>2, <1>3, <1>4 DEF VInv

(* Publishing a root: the versions are the old ones and the root's array. *)
LEMMA PublishedAdmissible ==
  ASSUME IInv, VersionsAdmissible, UNCHANGED <<nodes, arraySize>>,
         NEW root \in Nat, roots' = Append(roots, root),
         Stored(root) \in Seq(Value), Admissible(Stored(root))
  PROVE  /\ VersionsAdmissible'
         /\ Stored(Latest)' = Stored(root)
<1>1. /\ DOMAIN roots' = 1 .. Len(roots) + 1 /\ Len(roots') = Len(roots) + 1
      /\ \A v \in 1 .. Len(roots) : roots'[v] = roots[v]
      /\ roots'[Len(roots) + 1] = root
      /\ DOMAIN roots = 1 .. Len(roots) /\ Len(roots) \in Nat
  BY RootFacts, AppendProperties
<1>2. \A v \in DOMAIN roots : Stored(roots[v])' = Stored(roots[v])
  BY <1>1 DEF Stored
<1>3. ASSUME NEW v, v = Len(roots) + 1
      PROVE  Stored(roots[v])' = Stored(root)
  BY <1>1, <1>3 DEF Stored
<1>4. VersionsAdmissible'
  <2> SUFFICES ASSUME NEW v \in DOMAIN roots'
               PROVE  Stored(roots[v])' \in Seq(Value) /\ Admissible(Stored(roots[v])')
    BY DEF VersionsAdmissible
  <2>1. CASE v \in DOMAIN roots
    BY <1>2, <2>1 DEF VersionsAdmissible
  <2>2. CASE v = Len(roots) + 1
    BY <1>3, <2>2
  <2> QED BY <1>1, <2>1, <2>2
<1>5. Stored(Latest)' = Stored(root)
  BY <1>1 DEF Stored, Latest
<1> QED BY <1>4, <1>5

LEMMA RangeAddZeroVInv ==
  ASSUME IInv, VInv, NEW left, NEW right, RangeAddZero(left, right)
  PROVE  VInv'
<1>1. /\ UNCHANGED <<nodes, arraySize, bound, nextBound, newNodes, call, stack>>
      /\ roots' = Append(roots, Latest) /\ roots # <<>>
      /\ call = Idle /\ stack = <<>>
  BY DEF RangeAddZero, ValidRangeAdd, Latest, Idle, IInv, ControlConsistent, CallOK
<1>2. Latest \in Nat /\ Stored(Latest) \in Seq(Value) /\ Admissible(Stored(Latest))
  <2>1. Len(roots) \in DOMAIN roots /\ roots[Len(roots)] \in Nat
    BY <1>1, RootFacts
  <2> QED BY <2>1 DEF Latest, VInv, VersionsAdmissible
<1>3. VersionsAdmissible' /\ Stored(Latest)' = Stored(Latest)
  BY <1>1, <1>2, PublishedAdmissible DEF VInv
<1>4. SumsFit' /\ BoundSound'
  BY <1>1, <1>3 DEF VInv, SumsFit, ChildSumsFit, BoundSound
<1>5. UpdateAdmitted' /\ CallMakesItsArray' /\ FramesCarry'
  BY <1>1 DEF Idle, UpdateAdmitted, CallMakesItsArray, FramesCarry
<1> QED BY <1>3, <1>4, <1>5 DEF VInv

(* A new frame of update links the children it does not descend into, whose *)
(* elements the call leaves alone.                                         *)
LEMMA UpdateFrameCarries ==
  ASSUME IInv, UNCHANGED <<nodes, arraySize>>,
         call'.op = "rangeAdd", call'.left \in Nat, call'.right \in Nat,
         NEW i, NEW c \in Interval(arraySize), NEW f,
         f = UpdateFrame(i, c, call'.left, call'.right)
  PROVE  FrameCarries(f)'
<1> SUFFICES ASSUME ~IsLeaf(c), ~Covers(call'.left, call'.right, c),
                    NEW side \in Sides \ f.todo
             PROVE  Holds(NewChild(f, side), Child(f, side), Half(c, side))'
  BY DEF FrameCarries, Covered, UpdateFrame
<1>1. /\ c[1] \in Nat /\ c[2] \in Nat /\ Midpoint(c) \in Int
      /\ c[1] <= Midpoint(c) /\ Midpoint(c) < c[2]
  BY RootFacts, Halves
<1>2. /\ f.todo = MeetingSides(c, call'.left, call'.right)
      /\ f.node = i /\ f.newLeft = nodes[i].leftChild /\ f.newRight = nodes[i].rightChild
  BY DEF UpdateFrame
<1>3. NewChild(f, side)' = Child(f, side)'
  BY <1>2 DEF NewChild, Child
<1>4. \A p \in Half(c, side)[1] .. Half(c, side)[2] : p \notin call'.left .. call'.right
  <2>1. CASE side = "left"
    <3>1. call'.left > Midpoint(c)
      BY <1>1, <1>2, <2>1 DEF MeetingSides, Sides
    <3> QED BY <1>1, <2>1, <3>1 DEF Half, LeftHalf
  <2>2. CASE side = "right"
    <3>1. call'.right <= Midpoint(c)
      BY <1>1, <1>2, <2>2 DEF MeetingSides, Sides
    <3> QED BY <1>1, <2>2, <3>1 DEF Half, RightHalf
  <2> QED BY <2>1, <2>2 DEF Sides
<1> QED BY <1>3, <1>4 DEF Holds

LEMMA BeginRangeAddVInv ==
  ASSUME IInv, IInv', VInv, NEW left, NEW right, NEW value \in Deltas,
         BeginRangeAdd(left, right, value)
  PROVE  VInv'
<1>1. /\ UNCHANGED <<nodes, roots, arraySize, bound, newNodes>>
      /\ ValidRangeAdd(left, right) /\ roots # <<>> /\ Len(roots) < MaxVersions
      /\ ValidateRangeAdd(bound, Materialize(Latest), left, right, value)
      /\ nextBound' = NextBound(bound, Materialize(Latest), left, right, value)
      /\ call' = [op |-> "rangeAdd", left |-> left, right |-> right,
                  value |-> value, checkpoint |-> Len(nodes)]
      /\ stack' = <<UpdateFrame(Latest, Root(arraySize), left, right)>>
  BY DEF BeginRangeAdd, ValidRangeAdd, Latest
<1>2. /\ arraySize \in Nat /\ arraySize > 0
      /\ left \in 1 .. arraySize /\ right \in left .. arraySize
      /\ Len(roots) \in DOMAIN roots /\ Latest \in Nat /\ RootOK(Latest)
  BY <1>1, LatestRoot, RootFacts DEF Latest
<1>3. call'.op = "rangeAdd" /\ call'.left = left /\ call'.right = right
      /\ call'.value = value /\ value \in Value
  BY <1>1, DeltasAssumption
<1>4. /\ Stored(Latest) \in Seq(Value) /\ Admissible(Stored(Latest))
      /\ Len(Stored(Latest)) = arraySize
      /\ MaxMagnitude(Stored(Latest)) <= bound /\ bound \in Bound
      /\ ChildSumsFit(nodes)
  BY <1>1, <1>2, StoredFacts DEF Latest, VInv, VersionsAdmissible, BoundSound, SumsFit
<1>5. Materialize(Latest) = Stored(Latest)
  BY <1>2, <1>4, MaterializeExact
<1>6. /\ VersionsAdmissible' /\ Latest' = Latest /\ Stored(Latest)' = Stored(Latest)
  BY <1>1, ArenaUnchanged DEF VInv
<1>7. Stored(Latest) # <<>>
  BY <1>2, <1>4, EmptySeq
<1>8. LET next == AddToRange(Stored(Latest), left, right, value)
      IN  /\ next \in Seq(Value) /\ Admissible(next)
          /\ nextBound' \in Bound
          /\ MaxMagnitude(next) <= nextBound'
  BY <1>1, <1>3, <1>4, <1>5, <1>7, GuardSound
<1>9. Proposed' = AddToRange(Stored(Latest), left, right, value)
  BY <1>3, <1>6 DEF Proposed
<1>10. SumsFit' /\ BoundSound'
  BY <1>1, <1>4, <1>6, <1>8 DEF VInv, SumsFit, ChildSumsFit, BoundSound
<1>11. UpdateAdmitted'
  <2>1. Len(roots) \in Nat /\ Len(roots) # 0
    BY <1>2, RootFacts
  <2>2. Len(roots') \in 1 .. MaxVersions - 1
    BY <1>1, <2>1, MaxVersionsAssumption
  <2> QED BY <1>8, <1>9, <2>2 DEF UpdateAdmitted
<1>12. CallMakesItsArray'
  BY <1>1 DEF CallMakesItsArray
<1>13. FramesCarry'
  <2> SUFFICES ASSUME NEW k \in DOMAIN stack'
               PROVE  FrameCarries(stack[k])' /\ ReadsLatest(k)'
    BY DEF FramesCarry
  <2>1. /\ k = 1 /\ stack'[k] = UpdateFrame(Latest, Root(arraySize), left, right)
    BY <1>1
  <2>2. Root(arraySize) \in Interval(arraySize)
    BY <1>2, RootIsSegment
  <2>3. \A f : f = stack'[k] => FrameCarries(f)'
    BY <1>1, <1>2, <1>3, <2>1, <2>2, UpdateFrameCarries
  <2>4. FrameCarries(stack[k])'
    BY <2>1, <2>3 DEF FrameCarries
  <2>5. ReadsLatest(k)'
    BY <1>6, <2>1 DEF ReadsLatest, UpdateFrame
  <2> QED BY <2>4, <2>5
<1> QED BY <1>6, <1>10, <1>11, <1>12, <1>13 DEF VInv

LEMMA DescendVInv ==
  ASSUME IInv, IInv', VInv, Descend
  PROVE  VInv'
<1>1. /\ UNCHANGED <<nodes, roots, arraySize, bound, nextBound, newNodes, call>>
      /\ stack # <<>> /\ Top.todo # {}
  BY DEF Descend
<1> DEFINE side == NextSide(Top)
           half == Half(Top.segment, side)
           frame == IF call.op = "initialize" THEN BuildFrame(half)
                    ELSE UpdateFrame(Child(Top, side), half, call.left, call.right)
           m == Len(stack)
<1>2. /\ stack \in Seq(Frame) /\ m \in Nat \ {0} /\ DOMAIN stack = 1 .. m
      /\ stack' = Append(stack, frame) /\ DOMAIN stack' = 1 .. m + 1
      /\ \A k \in 1 .. m : stack'[k] = stack[k]
      /\ stack'[m + 1] = frame /\ Top = stack[m]
      /\ call.op \in {"initialize", "rangeAdd"}
      /\ stack' # <<>>
  BY <1>1, TopFrame, AppendProperties, EmptySeq DEF Descend, Top
<1> HIDE DEF frame, m
<1>3. /\ VersionsAdmissible' /\ Latest' = Latest
      /\ roots # <<>> => Stored(Latest)' = Stored(Latest)
  BY <1>1, ArenaUnchanged DEF VInv
<1>4. SumsFit' /\ BoundSound'
  BY <1>1, <1>3 DEF VInv, SumsFit, ChildSumsFit, BoundSound
<1>5. UpdateAdmitted'
  <2>1. call.op = "rangeAdd" => roots # <<>>
    BY DEF VInv, UpdateAdmitted
  <2>2. call.op = "rangeAdd" => Proposed' = Proposed
    BY <1>1, <1>3, <2>1 DEF Proposed
  <2> QED BY <1>1, <2>2 DEF VInv, UpdateAdmitted
<1>6. CallMakesItsArray'
  BY <1>2 DEF CallMakesItsArray
<1>7. ASSUME NEW k \in 1 .. m
      PROVE  FrameCarries(stack[k])' /\ ReadsLatest(k)'
  <2>1. FrameCarries(stack[k]) /\ ReadsLatest(k)
    BY <1>2 DEF VInv, FramesCarry
  <2>2. FrameCarries(stack[k])'
    <3>1. PICK f : f = stack[k]
      OBVIOUS
    <3>2. FrameCarries(f) => FrameCarries(f)'
      BY <1>1 DEF FrameCarries, Covered, Holds, NewChild, Child
    <3>3. stack'[k] = f
      BY <1>2, <3>1
    <3> QED BY <2>1, <3>1, <3>2, <3>3
  <2>3. k # 1 => k - 1 \in 1 .. m
    BY <1>2
  <2>4. ReadsLatest(k)'
    BY <1>1, <1>2, <1>3, <2>1, <2>3 DEF ReadsLatest, Child
  <2> QED BY <2>2, <2>4
<1>8. ASSUME NEW k, k = m + 1
      PROVE  FrameCarries(stack[k])' /\ ReadsLatest(k)'
  <2>1. stack'[k] = frame /\ k # 1 /\ k - 1 = m /\ stack'[k - 1] = Top
    BY <1>2, <1>8
  <2>2. CASE call.op = "initialize"
    <3>1. IsLeaf(stack'[k].segment) \/ stack'[k].todo = Sides
      BY <2>1, <2>2 DEF BuildFrame, frame
    <3> QED BY <1>1, <2>2, <3>1 DEF FrameCarries, ReadsLatest
  <2>3. CASE call.op = "rangeAdd"
    <3>1. half \in Interval(arraySize)
      <4>1. Top.segment \in Interval(CallSize) /\ ~IsLeaf(Top.segment)
            /\ CallSize = arraySize
        BY <1>1, <2>3, TopFrame DEF CallSize
      <4> QED BY <4>1, RootFacts, Halves DEF Half
    <3>2. frame = UpdateFrame(Child(Top, side), half, call.left, call.right)
      BY <2>3 DEF frame
    <3> HIDE DEF half, side
    <3>3. /\ call'.op = "rangeAdd" /\ call'.left = call.left /\ call'.right = call.right
          /\ call.left \in Nat /\ call.right \in Nat
      BY <1>1, <2>3, TopFrame
    <3>4. \A f : f = frame => FrameCarries(f)'
      BY <1>1, <3>1, <3>2, <3>3, UpdateFrameCarries
    <3>5. FrameCarries(stack[k])'
      BY <2>1, <3>4 DEF FrameCarries
    <3>6. stack'[k].node = Child(Top, side)
      BY <2>1, <3>2 DEF UpdateFrame
    <3>7. ReadsLatest(k)'
      BY <1>1, <2>1, <3>6 DEF ReadsLatest, Child, side
    <3> QED BY <3>5, <3>7
  <2> QED BY <1>2, <2>2, <2>3
<1>9. FramesCarry'
  <2>1. \A k \in DOMAIN stack' : k \in 1 .. m \/ k = m + 1
    BY <1>2
  <2> QED BY <1>7, <1>8, <2>1 DEF FramesCarry
<1> QED BY <1>3, <1>4, <1>5, <1>6, <1>9 DEF VInv

-----------------------------------------------------------------------------
(* What a node appended to an arena adds to it. *)
LEMMA AppendedNode ==
  ASSUME NEW arena \in Seq(Node), WellFormed(arena), NEW node \in Node,
         NodeOK(Append(arena, node), Len(arena) + 1), NEW index, index = Len(arena) + 1
  PROVE  LET next == Append(arena, node)
         IN  /\ next \in Seq(Node) /\ WellFormed(next) /\ Len(next) = index
             /\ index \in 1 .. Len(next) /\ next[index] = node
             /\ \A i \in 1 .. Len(arena) :
                  next[i] = arena[i] /\ Elements(next)[i] = Elements(arena)[i]
             /\ IsLeaf(node.segment) =>
                  \A p \in Nat : Elements(next)[index][p] = node.sum
             /\ ~IsLeaf(node.segment) =>
                  /\ node.leftChild \in 1 .. Len(arena)
                  /\ node.rightChild \in 1 .. Len(arena)
                  /\ \A p \in Nat :
                       /\ p <= Midpoint(node.segment) =>
                            Elements(next)[index][p]
                              = node.lazy + Elements(arena)[node.leftChild][p]
                       /\ p > Midpoint(node.segment) =>
                            Elements(next)[index][p]
                              = node.lazy + Elements(arena)[node.rightChild][p]
             /\ ChildSumsFit(arena)
                  /\ (~IsLeaf(node.segment) =>
                        arena[node.leftChild].sum + arena[node.rightChild].sum \in Value)
                  => ChildSumsFit(next)
<1> DEFINE next == Append(arena, node)
<1>1. /\ next \in Seq(Node) /\ WellFormed(next) /\ Len(next) = index
      /\ Len(arena) \in Nat /\ index \in 1 .. Len(next) /\ next[index] = node
      /\ DOMAIN arena = 1 .. Len(arena) /\ DOMAIN next = 1 .. index
      /\ \A i \in 1 .. Len(arena) : next[i] = arena[i]
  BY AppendWellFormed, LenProperties
<1> HIDE DEF next
<1>2. \A i \in 1 .. Len(arena) : Elements(next)[i] = Elements(arena)[i]
  <2>1. Len(arena) \in 0 .. Len(arena) /\ Len(arena) <= Len(next)
    BY <1>1
  <2> QED BY <1>1, <2>1, ElementsKept
<1>3. ~IsLeaf(node.segment) =>
        node.leftChild \in 1 .. Len(arena) /\ node.rightChild \in 1 .. Len(arena)
  <2>1. ~IsLeaf(node.segment) =>
          node.leftChild \in 1 .. index - 1 /\ node.rightChild \in 1 .. index - 1
    BY <1>1, NodeFacts
  <2> QED BY <1>1, <2>1
<1>4. ASSUME NEW p \in Nat
      PROVE  /\ IsLeaf(node.segment) => Elements(next)[index][p] = node.sum
             /\ ~IsLeaf(node.segment) =>
                  /\ p <= Midpoint(node.segment) =>
                       Elements(next)[index][p]
                         = node.lazy + Elements(arena)[node.leftChild][p]
                  /\ p > Midpoint(node.segment) =>
                       Elements(next)[index][p]
                         = node.lazy + Elements(arena)[node.rightChild][p]
  <2>1. /\ IsLeaf(next[index].segment) => Elements(next)[index][p] = next[index].sum
        /\ ~IsLeaf(next[index].segment) =>
             /\ p <= Midpoint(next[index].segment) =>
                  Elements(next)[index][p]
                    = next[index].lazy + Elements(next)[next[index].leftChild][p]
             /\ p > Midpoint(next[index].segment) =>
                  Elements(next)[index][p]
                    = next[index].lazy + Elements(next)[next[index].rightChild][p]
    BY <1>1, ElementFacts
  <2> QED BY <1>1, <1>2, <1>3, <2>1
<1>5. ASSUME ChildSumsFit(arena),
             ~IsLeaf(node.segment) =>
               arena[node.leftChild].sum + arena[node.rightChild].sum \in Value
      PROVE  ChildSumsFit(next)
  <2> SUFFICES ASSUME NEW i \in 1 .. index, ~IsLeaf(next[i].segment)
               PROVE  next[next[i].leftChild].sum + next[next[i].rightChild].sum \in Value
    BY <1>1 DEF ChildSumsFit
  <2>1. CASE i = index
    BY <1>1, <1>3, <1>5, <2>1
  <2>2. CASE i \in 1 .. Len(arena)
    <3>1. next[i] = arena[i]
      BY <1>1, <2>2
    <3>2. arena[i].leftChild \in 1 .. Len(arena) /\ arena[i].rightChild \in 1 .. Len(arena)
      BY <2>2, <3>1, NodeFacts
    <3>3. arena[arena[i].leftChild].sum + arena[arena[i].rightChild].sum \in Value
      BY <1>1, <1>5, <2>2, <3>1 DEF ChildSumsFit
    <3> QED BY <1>1, <3>1, <3>2, <3>3
  <2> QED BY <1>1, <2>1, <2>2
<1> QED BY <1>1, <1>2, <1>3, <1>4, <1>5 DEF next

(* build's node holds the part of the array it was made for. *)
LEMMA BuiltNodeHolds ==
  ASSUME IInv, VInv, Return, call.op = "initialize", NEW index, index = Len(newNodes'),
         NEW c, c = Top.segment, NEW old
  PROVE  ChildSumsFit(newNodes') /\ Holds(index, old, c)'
<1> DEFINE f == Top
           node == BuiltNode(f)
           values == call.values
<1>1. /\ stack # <<>> /\ f.todo = {} /\ Computed(node) /\ UNCHANGED call
      /\ newNodes' = Append(newNodes, node)
  BY DEF Return, FinishedNode
<1>2. /\ newNodes \in Seq(Node) /\ WellFormed(newNodes) /\ node \in Node
      /\ node.segment = c
      /\ NodeOK(Append(newNodes, node), Len(newNodes) + 1)
      /\ Len(newNodes) \in Nat
  BY <1>1, FinishedNodeInOrder, TopFrame DEF Arena, FinishedNode
<1>3. index = Len(newNodes) + 1
  BY <1>1, <1>2, AppendProperties
<1>4. /\ values \in Seq(Value) /\ Len(values) \in Nat
      /\ c \in Interval(Len(values)) /\ BuildFrameOK(f) /\ FrameCarries(f)
      /\ c[1] \in Nat /\ c[2] \in Nat /\ c[1] <= c[2] /\ Midpoint(c) \in Int
      /\ ~IsLeaf(c) => c[1] <= Midpoint(c) /\ Midpoint(c) < c[2]
  <2>1. /\ values \in Seq(Value) /\ c \in Interval(Len(values)) /\ BuildFrameOK(f)
        /\ Len(stack) \in DOMAIN stack
    BY <1>1, TopFrame DEF CallSize, FrameOK
  <2>2. FrameCarries(f)
    BY <2>1 DEF VInv, FramesCarry, Top
  <2> QED BY <2>1, <2>2, LenProperties, Halves
<1>5. /\ node.leftChild = f.newLeft /\ node.rightChild = f.newRight /\ node.lazy = 0
      /\ IsLeaf(c) => node.sum = values[c[1]]
      /\ ~IsLeaf(c) => node.sum = CheckedAdd(newNodes[f.newLeft].sum,
                                             newNodes[f.newRight].sum)
      /\ node.sum # Overflow
  BY <1>1 DEF BuiltNode, Computed
<1>6. \A p \in 1 .. Len(values) : values[p] \in Int
  BY <1>4, ValueFacts, ElementOfSeq
<1>7. /\ CanonicalSum(values)[c] =
           IF IsLeaf(c) THEN values[c[1]]
           ELSE CheckedAdd(CanonicalSum(values)[LeftHalf(c)],
                           CanonicalSum(values)[RightHalf(c)])
  BY <1>4, <1>6, CanonicalSumStep
<1> HIDE DEF node
<1>8. CASE IsLeaf(c)
  <2>1. ChildSumsFit(newNodes')
    BY <1>1, <1>2, <1>3, <1>8, AppendedNode DEF VInv, SumsFit
  <2>2. newNodes'[index] = node /\ \A p \in Nat : Elements(newNodes')[index][p] = node.sum
    BY <1>1, <1>2, <1>3, <1>8, AppendedNode
  <2>3. \A p \in c[1] .. c[2] : p = c[1]
    BY <1>4, <1>8 DEF IsLeaf
  <2> QED BY <1>1, <1>4, <1>5, <1>7, <1>8, <2>1, <2>2, <2>3 DEF Holds
<1>9. CASE ~IsLeaf(c)
  <2> DEFINE l == f.newLeft
             r == f.newRight
  <2>1. Holds(l, Child(f, "left"), LeftHalf(c)) /\ Holds(r, Child(f, "right"), RightHalf(c))
    <3>1. /\ NewChild(f, "left") = l /\ NewChild(f, "right") = r
          /\ Half(c, "left") = LeftHalf(c) /\ Half(c, "right") = RightHalf(c)
      BY DEF NewChild, Half
    <3>2. "left" \in Sides \ f.todo /\ "right" \in Sides \ f.todo
      BY <1>1 DEF Sides
    <3>3. ~Covered(f)
      BY DEF Covered
    <3> QED BY <1>4, <1>9, <3>1, <3>2, <3>3 DEF FrameCarries
  <2>2. /\ newNodes[l].sum = CanonicalSum(values)[LeftHalf(c)]
        /\ newNodes[r].sum = CanonicalSum(values)[RightHalf(c)]
        /\ \A p \in c[1] .. Midpoint(c) : Elements(newNodes)[l][p] = values[p]
        /\ \A p \in Midpoint(c) + 1 .. c[2] : Elements(newNodes)[r][p] = values[p]
    BY <2>1 DEF Holds, LeftHalf, RightHalf
  <2>3. l \in 1 .. Len(newNodes) /\ r \in 1 .. Len(newNodes)
    BY <1>2, <1>3, <1>5, <1>9, AppendedNode
  <2>4. newNodes[l].sum + newNodes[r].sum \in Value
    BY <1>2, <1>5, <1>9, <2>3, NodeFacts, CheckedAddExact
  <2>5. ChildSumsFit(newNodes')
    BY <1>1, <1>2, <1>3, <1>5, <1>9, <2>4, AppendedNode DEF VInv, SumsFit
  <2>6. /\ newNodes'[index] = node
        /\ \A p \in Nat :
             /\ p <= Midpoint(c) =>
                  Elements(newNodes')[index][p] = node.lazy + Elements(newNodes)[l][p]
             /\ p > Midpoint(c) =>
                  Elements(newNodes')[index][p] = node.lazy + Elements(newNodes)[r][p]
    BY <1>1, <1>2, <1>3, <1>5, <1>9, AppendedNode
  <2>7. ASSUME NEW p \in c[1] .. c[2]
        PROVE  Elements(newNodes')[index][p] = values[p]
    <3>1. p \in Nat /\ p \in 1 .. Len(values) /\ values[p] \in Int
      BY <1>4, <1>6, Halves
    <3>2. CASE p <= Midpoint(c)
      BY <1>4, <1>5, <2>2, <2>6, <3>1, <3>2
    <3>3. CASE p > Midpoint(c)
      BY <1>4, <1>5, <2>2, <2>6, <3>1, <3>3
    <3> QED BY <1>4, <3>1, <3>2, <3>3
  <2>8. newNodes'[index].sum = CanonicalSum(values)[c]
    BY <1>5, <1>7, <1>9, <2>2, <2>6
  <2> QED BY <1>1, <2>5, <2>7, <2>8 DEF Holds
<1> QED BY <1>8, <1>9

(* update's node holds the part it was made for of the array it reads, with *)
(* the call's value added in the range.                                    *)
LEMMA UpdatedNodeHolds ==
  ASSUME IInv, IInv', VInv, Return, call.op = "rangeAdd", NEW index, index = Len(nodes'),
         NEW c, c = Top.segment, NEW old, old = Top.node
  PROVE  ChildSumsFit(nodes') /\ Holds(index, old, c)'
<1> DEFINE f == Top
           node == FinishedNode(f)
           new == Elements(nodes')[index]
<1>1. /\ stack # <<>> /\ f.todo = {} /\ Computed(node) /\ UNCHANGED call
      /\ nodes' = Append(nodes, node)
  BY DEF Return
<1>2. /\ nodes \in Seq(Node) /\ WellFormed(nodes) /\ node \in Node
      /\ node.segment = c
      /\ NodeOK(Append(nodes, node), Len(nodes) + 1)
      /\ Len(nodes) \in Nat
  BY <1>1, FinishedNodeInOrder, TopFrame DEF Arena
<1>3. index = Len(nodes) + 1
  BY <1>1, <1>2, AppendProperties
<1>4. /\ c \in Interval(arraySize) /\ UpdateFrameOK(f) /\ FrameCarries(f)
      /\ c[1] \in Nat /\ c[2] \in Nat /\ c[1] <= c[2] /\ Midpoint(c) \in Int
      /\ Length(c) \in Nat
      /\ ~IsLeaf(c) => c[1] <= Midpoint(c) /\ Midpoint(c) < c[2]
      /\ call.left \in Nat /\ call.right \in Nat /\ call.value \in Int
  <2>1. /\ c \in Interval(arraySize) /\ UpdateFrameOK(f)
        /\ Len(stack) \in DOMAIN stack
        /\ call.left \in Nat /\ call.right \in Nat /\ call.value \in Value
    BY <1>1, TopFrame DEF CallSize, FrameOK
  <2>2. FrameCarries(f)
    BY <2>1 DEF VInv, FramesCarry, Top
  <2> QED BY <2>1, <2>2, RootFacts, Halves, ValueFacts
<1>5. /\ old \in 1 .. Len(nodes) /\ nodes[old].segment = c
      /\ nodes[old].sum \in Int /\ nodes[old].lazy \in Int
      /\ nodes[old].leftChild \in Nat /\ nodes[old].rightChild \in Nat
      /\ ~IsLeaf(c) => /\ nodes[old].leftChild \in 1 .. Len(nodes)
                       /\ nodes[old].rightChild \in 1 .. Len(nodes)
  <2>1. old \in 1 .. Len(nodes) /\ nodes[old].segment = c
    BY <1>1, <1>2, <1>4, TopFrame DEF UpdateFrameOK
  <2> QED BY <1>2, <2>1, NodeFacts
<1>6. \A p \in c[1] .. c[2] :
        /\ p \in Nat /\ Elements(nodes)[old][p] \in Int
        /\ new[p] \in Int
        /\ Elements(nodes')[old] = Elements(nodes)[old]
  <2>1. /\ nodes' \in Seq(Node) /\ WellFormed(nodes') /\ index \in 1 .. Len(nodes')
        /\ Elements(nodes')[old] = Elements(nodes)[old]
    BY <1>1, <1>2, <1>3, <1>5, AppendedNode
  <2> TAKE p \in c[1] .. c[2]
  <2>2. p \in Nat
    BY <1>4
  <2>3. Elements(nodes)[old][p] \in Int
    BY <1>2, <1>5, <2>2, ElementFacts
  <2>4. new[p] \in Int
    BY <2>1, <2>2, ElementFacts
  <2> QED BY <2>1, <2>2, <2>3, <2>4
<1>7. CASE Covers(call.left, call.right, c)
  <2>1. /\ node.leftChild = nodes[old].leftChild
        /\ node.rightChild = nodes[old].rightChild
        /\ node.sum = Apply(call.value, nodes[old].sum, Length(c))
        /\ node.lazy = CheckedAdd(nodes[old].lazy, call.value)
        /\ node.sum # Overflow /\ node.lazy # Overflow
    BY <1>1, <1>7 DEF FinishedNode, CoveredNode, Computed
  <2> HIDE DEF node
  <2>2. /\ node.sum = nodes[old].sum + call.value * Length(c)
        /\ node.lazy = nodes[old].lazy + call.value
    <3>1. call.value \in Int /\ Length(c) \in Nat
      BY <1>4
    <3>2. node.sum = nodes[old].sum + call.value * Length(c)
      BY <1>5, <2>1, <3>1, ApplyExact
    <3>3. node.lazy = nodes[old].lazy + call.value
      BY <1>5, <2>1, <3>1, CheckedAddExact
    <3> QED BY <3>2, <3>3
  <2>3. ~IsLeaf(c) => nodes[node.leftChild].sum + nodes[node.rightChild].sum \in Value
    BY <1>2, <1>5, <2>1 DEF VInv, SumsFit, ChildSumsFit
  <2>4. ChildSumsFit(nodes')
    BY <1>1, <1>2, <1>3, <2>3, AppendedNode DEF VInv, SumsFit
  <2>5. ASSUME NEW p \in c[1] .. c[2]
        PROVE  new[p] = Elements(nodes)[old][p] + call.value
    <3>1. p \in Nat
      BY <1>4
    <3>2. CASE IsLeaf(c)
      <4>1. Length(c) = 1
        BY <1>4, <3>2 DEF Length, IsLeaf
      <4>2. new[p] = node.sum
        BY <1>1, <1>2, <1>3, <3>1, <3>2, AppendedNode
      <4>3. Elements(nodes)[old][p] = nodes[old].sum
        <5>1. /\ nodes \in Seq(Node) /\ WellFormed(nodes) /\ old \in 1 .. Len(nodes)
              /\ IsLeaf(nodes[old].segment)
          BY <1>2, <1>5, <3>2
        <5> QED BY <3>1, <5>1, ElementFacts
      <4> QED BY <1>4, <1>5, <2>2, <4>1, <4>2, <4>3
    <3>3. CASE ~IsLeaf(c)
      <4>1. PICK x \in Nat : /\ x \in 1 .. Len(nodes)
                             /\ new[p] = node.lazy + Elements(nodes)[x][p]
                             /\ Elements(nodes)[old][p]
                                  = nodes[old].lazy + Elements(nodes)[x][p]
        <5>1. CASE p <= Midpoint(c)
          <6>1. new[p] = node.lazy + Elements(nodes)[node.leftChild][p]
            BY <1>1, <1>2, <1>3, <3>1, <3>3, <5>1, AppendedNode
          <6>2. Elements(nodes)[old][p]
                  = nodes[old].lazy + Elements(nodes)[nodes[old].leftChild][p]
            BY <1>2, <1>5, <3>1, <3>3, <5>1, ElementFacts
          <6> QED BY <1>5, <2>1, <3>3, <6>1, <6>2
        <5>2. CASE p > Midpoint(c)
          <6>1. new[p] = node.lazy + Elements(nodes)[node.rightChild][p]
            BY <1>1, <1>2, <1>3, <3>1, <3>3, <5>2, AppendedNode
          <6>2. Elements(nodes)[old][p]
                  = nodes[old].lazy + Elements(nodes)[nodes[old].rightChild][p]
            BY <1>2, <1>5, <3>1, <3>3, <5>2, ElementFacts
          <6> QED BY <1>5, <2>1, <3>3, <6>1, <6>2
        <5> QED BY <1>4, <3>1, <5>1, <5>2
      <4>2. PICK e \in Int : e = Elements(nodes)[x][p]
        BY <1>2, <3>1, <4>1, ElementFacts
      <4>3. PICK t, v \in Int : t = nodes[old].lazy /\ v = call.value
        BY <1>4, <1>5
      <4>4. new[p] = (t + v) + e /\ Elements(nodes)[old][p] = t + e
        BY <2>2, <4>1, <4>2, <4>3
      <4>5. (t + v) + e = (t + e) + v
        BY <4>3
      <4> QED BY <4>3, <4>4, <4>5
    <3> QED BY <3>2, <3>3
  <2>6. \A p \in c[1] .. c[2] : p \in call.left .. call.right
    BY <1>4, <1>7 DEF Covers
  <2> HIDE DEF new
  <2>7. \A p \in c[1] .. c[2] : new[p] = Elements(nodes')[old][p] + call.value
    BY <1>6, <2>5
  <2> QED BY <1>1, <2>4, <2>6, <2>7 DEF Holds, new
<1>8. CASE ~Covers(call.left, call.right, c)
  <2> DEFINE l == f.newLeft
             r == f.newRight
             child == CheckedAdd(nodes[l].sum, nodes[r].sum)
  <2>1. /\ node.leftChild = l /\ node.rightChild = r
        /\ node.sum = Apply(nodes[old].lazy, child, Length(c))
        /\ node.lazy = nodes[old].lazy
        /\ node.sum # Overflow
    BY <1>1, <1>8 DEF FinishedNode, ParentNode, Computed
  <2>2. ~IsLeaf(c)
    BY <1>4, <1>8 DEF UpdateFrameOK, Disjoint, Covers, IsLeaf
  <2>3. l \in 1 .. Len(nodes) /\ r \in 1 .. Len(nodes)
    BY <1>2, <1>3, <2>1, <2>2, AppendedNode
  <2>4. nodes[l].sum \in Int /\ nodes[r].sum \in Int /\ child \in Int
    BY <1>2, <2>3, NodeFacts, CheckedAddInt
  <2>5. nodes[l].sum + nodes[r].sum \in Value
    <3>1. child # Overflow
      <4> HIDE DEF child, node
      <4> QED BY <1>4, <1>5, <2>1, <2>4, ApplyExact
    <3> QED BY <2>4, <3>1, CheckedAddExact
  <2> HIDE DEF node, child
  <2>6. ChildSumsFit(nodes')
    BY <1>1, <1>2, <1>3, <2>1, <2>5, AppendedNode DEF VInv, SumsFit
  <2>7. /\ Holds(l, nodes[old].leftChild, LeftHalf(c))
        /\ Holds(r, nodes[old].rightChild, RightHalf(c))
    <3>1. /\ NewChild(f, "left") = l /\ NewChild(f, "right") = r
          /\ Half(c, "left") = LeftHalf(c) /\ Half(c, "right") = RightHalf(c)
          /\ Child(f, "left") = nodes[old].leftChild
          /\ Child(f, "right") = nodes[old].rightChild
      BY DEF NewChild, Half, Child
    <3>2. "left" \in Sides \ f.todo /\ "right" \in Sides \ f.todo
      BY <1>1 DEF Sides
    <3>3. ~Covered(f)
      BY <1>8 DEF Covered
    <3> QED BY <1>4, <2>2, <3>1, <3>2, <3>3 DEF FrameCarries
  <2>8. ASSUME NEW p \in c[1] .. c[2]
        PROVE  /\ p \in call.left .. call.right =>
                    new[p] = Elements(nodes')[old][p] + call.value
               /\ p \notin call.left .. call.right =>
                    new[p] = Elements(nodes')[old][p]
    <3>1. p \in Nat
      BY <1>4
    <3>2. PICK x \in Nat, y \in Nat :
            /\ x \in 1 .. Len(nodes) /\ y \in 1 .. Len(nodes)
            /\ new[p] = nodes[old].lazy + Elements(nodes)[x][p]
            /\ Elements(nodes)[old][p] = nodes[old].lazy + Elements(nodes)[y][p]
            /\ p \in call.left .. call.right =>
                 Elements(nodes)[x][p] = Elements(nodes)[y][p] + call.value
            /\ p \notin call.left .. call.right =>
                 Elements(nodes)[x][p] = Elements(nodes)[y][p]
      <4>1. CASE p <= Midpoint(c)
        <5>1. new[p] = node.lazy + Elements(nodes)[l][p]
          BY <1>1, <1>2, <1>3, <2>1, <2>2, <3>1, <4>1, AppendedNode
        <5>2. Elements(nodes)[old][p]
                = nodes[old].lazy + Elements(nodes)[nodes[old].leftChild][p]
          BY <1>2, <1>5, <2>2, <3>1, <4>1, ElementFacts
        <5>3. p \in LeftHalf(c)[1] .. LeftHalf(c)[2]
          BY <1>4, <4>1 DEF LeftHalf
        <5>4. /\ p \in call.left .. call.right =>
                   Elements(nodes)[l][p]
                     = Elements(nodes)[nodes[old].leftChild][p] + call.value
              /\ p \notin call.left .. call.right =>
                   Elements(nodes)[l][p] = Elements(nodes)[nodes[old].leftChild][p]
          BY <2>7, <5>3 DEF Holds
        <5>5. l \in Nat /\ nodes[old].leftChild \in 1 .. Len(nodes)
          BY <1>2, <1>5, <2>2, <2>3
        <5> QED BY <1>5, <2>1, <2>3, <5>1, <5>2, <5>4, <5>5
      <4>2. CASE p > Midpoint(c)
        <5>1. new[p] = node.lazy + Elements(nodes)[r][p]
          BY <1>1, <1>2, <1>3, <2>1, <2>2, <3>1, <4>2, AppendedNode
        <5>2. Elements(nodes)[old][p]
                = nodes[old].lazy + Elements(nodes)[nodes[old].rightChild][p]
          BY <1>2, <1>5, <2>2, <3>1, <4>2, ElementFacts
        <5>3. p \in RightHalf(c)[1] .. RightHalf(c)[2]
          BY <1>4, <4>2 DEF RightHalf
        <5>4. /\ p \in call.left .. call.right =>
                   Elements(nodes)[r][p]
                     = Elements(nodes)[nodes[old].rightChild][p] + call.value
              /\ p \notin call.left .. call.right =>
                   Elements(nodes)[r][p] = Elements(nodes)[nodes[old].rightChild][p]
          BY <2>7, <5>3 DEF Holds
        <5>5. r \in Nat /\ nodes[old].rightChild \in 1 .. Len(nodes)
          BY <1>2, <1>5, <2>2, <2>3
        <5> QED BY <1>5, <2>1, <2>3, <5>1, <5>2, <5>4, <5>5
      <4> QED BY <1>4, <3>1, <4>1, <4>2
    <3>3. PICK d, e \in Int : d = Elements(nodes)[x][p] /\ e = Elements(nodes)[y][p]
      BY <1>2, <3>1, <3>2, ElementFacts
    <3>4. Elements(nodes')[old][p] = Elements(nodes)[old][p]
      BY <1>6
    <3>5. PICK t, v \in Int : t = nodes[old].lazy /\ v = call.value
      BY <1>4, <1>5
    <3>6. new[p] = t + d /\ Elements(nodes')[old][p] = t + e
      BY <3>2, <3>3, <3>4, <3>5
    <3>7. CASE p \in call.left .. call.right
      <4>1. d = e + v
        BY <3>2, <3>3, <3>5, <3>7
      <4>2. t + (e + v) = (t + e) + v
        BY <3>3, <3>5
      <4> QED BY <3>5, <3>6, <3>7, <4>1, <4>2
    <3>8. CASE p \notin call.left .. call.right
      <4>1. d = e
        BY <3>2, <3>3, <3>8
      <4> QED BY <3>6, <3>8, <4>1
    <3> QED BY <3>7, <3>8
  <2> HIDE DEF new
  <2> QED BY <1>1, <2>6, <2>8 DEF Holds, new
<1> QED BY <1>7, <1>8

(* Return appends one node and hands it to the caller; the rest is kept. *)
LEMMA ReturnKeeps ==
  ASSUME IInv, IInv', Return
  PROVE  /\ UNCHANGED <<roots, arraySize, bound, nextBound, call>>
         /\ stack # <<>> /\ Top.todo = {}
         /\ call.op \in {"initialize", "rangeAdd"}
         /\ call.op = "initialize" =>
              UNCHANGED nodes /\ stack' = Resume(stack, Len(newNodes'))
         /\ call.op = "rangeAdd" =>
              UNCHANGED newNodes /\ stack' = Resume(stack, Len(nodes'))
         /\ Len(nodes) \in Nat /\ Len(nodes') \in Nat /\ Len(nodes) <= Len(nodes')
         /\ Len(newNodes) \in Nat /\ Len(newNodes') \in Nat
         /\ \A i \in 1 .. Len(nodes) :
              nodes'[i] = nodes[i] /\ Elements(nodes')[i] = Elements(nodes)[i]
         /\ \A i \in 1 .. Len(newNodes) :
              newNodes'[i] = newNodes[i] /\ Elements(newNodes')[i] = Elements(newNodes)[i]
<1>1. /\ UNCHANGED <<roots, arraySize, bound, nextBound, call>>
      /\ stack # <<>> /\ Top.todo = {} /\ Computed(FinishedNode(Top))
      /\ call.op \in {"initialize", "rangeAdd"}
      /\ call.op = "initialize" => /\ UNCHANGED nodes
                                   /\ stack' = Resume(stack, Len(newNodes'))
                                   /\ newNodes' = Append(newNodes, FinishedNode(Top))
      /\ call.op = "rangeAdd" => /\ UNCHANGED newNodes
                                 /\ stack' = Resume(stack, Len(nodes'))
                                 /\ nodes' = Append(nodes, FinishedNode(Top))
  BY TopFrame DEF Return
<1>2. /\ Arena \in Seq(Node) /\ WellFormed(Arena) /\ FinishedNode(Top) \in Node
      /\ NodeOK(Append(Arena, FinishedNode(Top)), Len(Arena) + 1)
      /\ Len(nodes) \in Nat /\ Len(newNodes) \in Nat
  BY <1>1, FinishedNodeInOrder, TopFrame
<1> DEFINE next == Append(Arena, FinishedNode(Top))
<1>3. /\ Len(next) = Len(Arena) + 1
      /\ \A i \in 1 .. Len(Arena) :
           next[i] = Arena[i] /\ Elements(next)[i] = Elements(Arena)[i]
  <2>1. PICK index : index = Len(Arena) + 1
    OBVIOUS
  <2> QED BY <1>2, <2>1, AppendedNode
<1>4. CASE call.op = "initialize"
  <2>1. Arena = newNodes /\ next = newNodes'
    BY <1>1, <1>4 DEF Arena
  <2> HIDE DEF next
  <2> QED BY <1>1, <1>2, <1>3, <1>4, <2>1
<1>5. CASE call.op = "rangeAdd"
  <2>1. Arena = nodes /\ next = nodes'
    BY <1>1, <1>5 DEF Arena
  <2> HIDE DEF next
  <2> QED BY <1>1, <1>2, <1>3, <1>5, <2>1
<1> QED BY <1>1, <1>4, <1>5

LEMMA HoldsKept ==
  ASSUME IInv, IInv', Return, NEW index, NEW old, NEW c, Holds(index, old, c),
         call.op = "initialize" => index \in 1 .. Len(newNodes),
         call.op = "rangeAdd" => index \in 1 .. Len(nodes) /\ old \in 1 .. Len(nodes)
  PROVE  Holds(index, old, c)'
<1>1. CASE call.op = "initialize"
  BY <1>1, ReturnKeeps DEF Holds
<1>2. CASE call.op = "rangeAdd"
  BY <1>2, ReturnKeeps DEF Holds
<1> QED BY <1>1, <1>2, ReturnKeeps

(* The nodes a frame of several elements relates. *)
LEMMA FrameNodes ==
  ASSUME IInv, NEW k \in DOMAIN stack, ~IsLeaf(stack[k].segment),
         NEW side \in Sides \ stack[k].todo
  PROVE  /\ call.op = "initialize" => NewChild(stack[k], side) \in 1 .. Len(newNodes)
         /\ call.op = "rangeAdd" => /\ NewChild(stack[k], side) \in 1 .. Len(nodes)
                                    /\ stack[k].node \in 1 .. Len(nodes)
                                    /\ Child(stack[k], side) \in 1 .. Len(nodes)
<1>1. /\ FrameOK(stack[k]) /\ stack # <<>>
      /\ nodes \in Seq(Node) /\ WellFormed(nodes)
  BY DEF IInv, ControlConsistent, FramesOK, FrameInPlace, TypeOK, TreesWellFormed
<1>2. CASE call.op = "initialize"
  BY <1>1, <1>2, TopFrame DEF FrameOK, BuildFrameOK, ChildOK, Arena, NewChild, Sides
<1>3. CASE call.op = "rangeAdd"
  <2>1. /\ stack[k].node \in 1 .. Len(nodes)
        /\ nodes[stack[k].node].segment = stack[k].segment
        /\ NewChild(stack[k], side) \in 1 .. Len(nodes)
    BY <1>1, <1>3, TopFrame DEF FrameOK, UpdateFrameOK, ChildOK, Arena, NewChild
  <2> QED BY <1>1, <1>3, <2>1, NodeFacts DEF Child
<1> QED BY <1>2, <1>3

(* The node that returns holds its part of the call's array. *)
LEMMA ReturnedHolds ==
  ASSUME IInv, IInv', VInv, Return
  PROVE  /\ ChildSumsFit(nodes') /\ ChildSumsFit(newNodes')
         /\ \A c, old, index :
              /\ c = Top.segment
              /\ call.op = "initialize" => index = Len(newNodes')
              /\ call.op = "rangeAdd" => index = Len(nodes') /\ old = Top.node
              => Holds(index, old, c)'
<1>1. CASE call.op = "initialize"
  <2>1. PICK i : i = Len(newNodes')
    OBVIOUS
  <2>2. \A c, old, index :
          c = Top.segment /\ index = Len(newNodes') =>
            ChildSumsFit(newNodes') /\ Holds(index, old, c)'
    BY <1>1, BuiltNodeHolds
  <2>3. ChildSumsFit(newNodes')
    BY <2>2
  <2>4. ChildSumsFit(nodes')
    BY <1>1, ReturnKeeps DEF VInv, SumsFit
  <2> QED BY <1>1, <2>2, <2>3, <2>4
<1>2. CASE call.op = "rangeAdd"
  <2>1. \A c, old, index :
          c = Top.segment /\ index = Len(nodes') /\ old = Top.node =>
            ChildSumsFit(nodes') /\ Holds(index, old, c)'
    BY <1>2, UpdatedNodeHolds
  <2>2. ChildSumsFit(nodes')
    BY <2>1
  <2>3. ChildSumsFit(newNodes')
    BY <1>2, ReturnKeeps DEF VInv, SumsFit
  <2> QED BY <1>2, <2>1, <2>2, <2>3
<1> QED BY <1>1, <1>2, ReturnKeeps

LEMMA ReturnFramesCarry ==
  ASSUME IInv, IInv', VInv, Return, Len(stack) # 1, Latest' = Latest
  PROVE  FramesCarry'
<1>1. /\ call' = call /\ stack # <<>> /\ call.op \in {"initialize", "rangeAdd"}
      /\ call.op = "initialize" => stack' = Resume(stack, Len(newNodes'))
      /\ call.op = "rangeAdd" => stack' = Resume(stack, Len(nodes'))
      /\ Len(nodes') \in Nat /\ Len(newNodes') \in Nat
  BY ReturnKeeps
<1>2. PICK m \in Nat \ {0} : Len(stack) = m + 1
  <2>1. Len(stack) - 1 \in Nat \ {0} /\ Len(stack) = (Len(stack) - 1) + 1
    BY <1>1, TopFrame
  <2> QED BY <2>1
<1>3. PICK index \in Nat : /\ stack' = Resume(stack, index)
                           /\ call.op = "initialize" => index = Len(newNodes')
                           /\ call.op = "rangeAdd" => index = Len(nodes')
  BY <1>1
<1>4. /\ stack \in Seq(Frame) /\ DOMAIN stack = 1 .. m + 1 /\ Top = stack[m + 1]
      /\ m \in DOMAIN stack /\ m + 1 \in DOMAIN stack
      /\ \A k \in DOMAIN stack : /\ FrameCarries(stack[k]) /\ ReadsLatest(k)
                                 /\ stack[k] \in Frame /\ FrameInPlace(k)
  BY <1>1, <1>2, TopFrame DEF VInv, FramesCarry, Top, IInv, ControlConsistent, FramesOK
<1>5. stack[m].todo # {} /\ Top.segment = Half(stack[m].segment, NextSide(stack[m]))
  BY <1>2, <1>4 DEF FrameInPlace
<1>6. /\ DOMAIN stack' = 1 .. m /\ stack'[m] = Receive(stack[m], index)
      /\ \A k \in 1 .. m : k # m => stack'[k] = stack[k]
  BY <1>2, <1>3, <1>4, <1>5, ResumedStack
<1>7. ASSUME NEW k \in 1 .. m, NEW side \in Sides \ stack[k].todo,
             ~IsLeaf(stack[k].segment), ~Covered(stack[k])
      PROVE  Holds(NewChild(stack[k], side), Child(stack[k], side),
                   Half(stack[k].segment, side))
  BY <1>4, <1>7 DEF FrameCarries
<1>8. ASSUME NEW f, NEW k \in 1 .. m, f = stack[k],
             NEW side \in Sides \ f.todo, ~IsLeaf(f.segment), ~Covered(f)
      PROVE  Holds(NewChild(f, side), Child(f, side), Half(f.segment, side))'
  <2>1. k \in DOMAIN stack
    BY <1>4
  <2>2. /\ call.op = "initialize" => NewChild(f, side) \in 1 .. Len(newNodes)
        /\ call.op = "rangeAdd" => /\ NewChild(f, side) \in 1 .. Len(nodes)
                                   /\ f.node \in 1 .. Len(nodes)
                                   /\ Child(f, side) \in 1 .. Len(nodes)
    BY <1>8, <2>1, FrameNodes
  <2>3. PICK new, old, half : /\ new = NewChild(f, side) /\ old = Child(f, side)
                              /\ half = Half(f.segment, side)
    OBVIOUS
  <2>4. Holds(new, old, half)'
    BY <1>7, <1>8, <2>2, <2>3, HoldsKept
  <2>5. NewChild(f, side)' = new /\ Half(f.segment, side)' = half
    BY <2>3 DEF NewChild
  <2>6. call.op = "rangeAdd" => Child(f, side)' = old
    BY <2>2, <2>3, ReturnKeeps DEF Child
  <2> QED BY <1>1, <2>4, <2>5, <2>6 DEF Holds
<1>9. ASSUME NEW k \in 1 .. m, k # m
      PROVE  FrameCarries(stack[k])'
  <2>1. PICK f : f = stack[k]
    OBVIOUS
  <2>2. f = stack'[k]
    BY <1>6, <1>9, <2>1
  <2>3. SUFFICES ASSUME ~IsLeaf(f.segment), ~Covered(f), NEW side \in Sides \ f.todo
                 PROVE  Holds(NewChild(f, side), Child(f, side), Half(f.segment, side))'
    BY <1>1, <2>2 DEF FrameCarries, Covered
  <2> QED BY <1>8, <2>1, <2>3
<1>10. FrameCarries(stack[m])'
  <2>1. PICK f, g : f = stack[m] /\ g = stack'[m]
    OBVIOUS
  <2>2. /\ g.segment = f.segment /\ g.node = f.node
        /\ g.todo = f.todo \ {NextSide(f)} /\ NextSide(f) \in f.todo
        /\ NextSide(f) \in Sides
        /\ NextSide(f) = "left" => g.newLeft = index /\ g.newRight = f.newRight
        /\ NextSide(f) = "right" => g.newRight = index /\ g.newLeft = f.newLeft
    BY <1>4, <1>5, <1>6, <2>1, ReceiveFacts
  <2>3. SUFFICES ASSUME ~IsLeaf(f.segment), ~Covered(f), NEW side \in Sides \ g.todo
                 PROVE  Holds(NewChild(g, side), Child(g, side), Half(g.segment, side))'
    BY <1>1, <2>1, <2>2 DEF FrameCarries, Covered
  <2>4. Child(g, side)' = Child(f, side)' /\ Half(g.segment, side)' = Half(f.segment, side)
    BY <2>2 DEF Child
  <2>5. CASE side = NextSide(f)
    <3>1. NewChild(g, side)' = index
      BY <2>2, <2>5 DEF NewChild, Sides
    <3>2. PICK half, old : half = Top.segment /\ old = Child(f, side)'
      OBVIOUS
    <3>3. call.op = "rangeAdd" => old = Top.node
      <4>1. SUFFICES ASSUME call.op = "rangeAdd" PROVE old = Top.node
        OBVIOUS
      <4>2. Top.node = Child(f, side)
        <5>1. m + 1 # 1 /\ (m + 1) - 1 = m
          OBVIOUS
        <5> QED BY <1>4, <2>1, <2>5, <4>1, <5>1 DEF ReadsLatest
      <4>3. f.node \in 1 .. Len(nodes)
        <5>1. UpdateFrameOK(f) /\ call.checkpoint \in 0 .. Len(nodes) /\ Len(nodes) \in Nat
          BY <1>1, <1>4, <2>1, <4>1, TopFrame DEF FrameInPlace, FrameOK
        <5> QED BY <5>1 DEF UpdateFrameOK
      <4>4. Child(f, side)' = Child(f, side)
        BY <4>3, ReturnKeeps DEF Child
      <4> QED BY <3>2, <4>2, <4>4
    <3>4. Holds(index, old, half)'
      BY <1>3, <3>2, <3>3, ReturnedHolds
    <3>5. half = Half(f.segment, side)
      BY <1>5, <2>1, <2>5, <3>2
    <3> QED BY <2>4, <3>1, <3>2, <3>4, <3>5 DEF Holds
  <2>6. CASE side # NextSide(f)
    <3>1. side \in Sides \ f.todo
      BY <2>2, <2>6
    <3>2. NewChild(g, side)' = NewChild(f, side)'
      BY <2>2, <2>6 DEF NewChild, Sides
    <3>3. Holds(NewChild(f, side), Child(f, side), Half(f.segment, side))'
      BY <1>8, <2>1, <2>3, <3>1
    <3> QED BY <2>4, <3>2, <3>3 DEF Holds
  <2> QED BY <2>5, <2>6
<1>11. ASSUME NEW k \in 1 .. m
       PROVE  ReadsLatest(k)'
  <2>1. SUFFICES ASSUME call.op = "rangeAdd"
                 PROVE  stack'[k].node = IF k = 1 THEN Latest'
                          ELSE Child(stack[k - 1], NextSide(stack[k - 1]))'
    BY <1>1 DEF ReadsLatest
  <2>2. stack'[k].node = stack[k].node
    BY <1>4, <1>5, <1>6, ReceiveFacts
  <2>3. k \in DOMAIN stack
    BY <1>4
  <2>4. CASE k = 1
    BY <1>4, <2>1, <2>2, <2>3, <2>4 DEF ReadsLatest
  <2>5. CASE k # 1
    <3>1. PICK j \in 1 .. m : j = k - 1 /\ j # m /\ j \in DOMAIN stack
      BY <1>4, <2>5
    <3>2. stack'[j] = stack[j]
      BY <1>6, <3>1
    <3>3. stack[k].node = Child(stack[j], NextSide(stack[j]))
      BY <1>4, <2>1, <2>3, <2>5, <3>1 DEF ReadsLatest
    <3>4. stack[j].node \in 1 .. Len(nodes)
      <4>1. UpdateFrameOK(stack[j]) /\ call.checkpoint \in 0 .. Len(nodes)
            /\ Len(nodes) \in Nat
        BY <1>1, <1>4, <2>1, <3>1, TopFrame DEF FrameInPlace, FrameOK
      <4> QED BY <4>1 DEF UpdateFrameOK
    <3>5. nodes'[stack[j].node] = nodes[stack[j].node]
      BY <3>4, ReturnKeeps
    <3> QED BY <2>2, <2>5, <3>1, <3>2, <3>3, <3>5 DEF Child
  <2> QED BY <2>4, <2>5
<1> QED BY <1>6, <1>9, <1>10, <1>11 DEF FramesCarry

LEMMA ReturnVInv ==
  ASSUME IInv, IInv', VInv, Return
  PROVE  VInv'
<1>1. /\ UNCHANGED <<roots, arraySize, bound, nextBound, call>> /\ stack # <<>>
      /\ call.op \in {"initialize", "rangeAdd"}
      /\ Len(nodes) \in Nat /\ Len(nodes) <= Len(nodes')
      /\ \A i \in 1 .. Len(nodes) : nodes'[i] = nodes[i]
  BY ReturnKeeps
<1>2. SumsFit'
  BY ReturnedHolds DEF SumsFit
<1>3. /\ VersionsAdmissible' /\ Latest' = Latest
      /\ roots # <<>> => Stored(Latest)' = Stored(Latest)
  <2>1. \A v \in DOMAIN roots : roots[v] <= Len(nodes)
    BY RootFacts
  <2> QED BY <1>1, <2>1, VersionsKept DEF VInv
<1>4. BoundSound'
  BY <1>1, <1>3 DEF VInv, BoundSound
<1>5. UpdateAdmitted'
  <2>1. call.op = "rangeAdd" => roots # <<>>
    BY DEF VInv, UpdateAdmitted
  <2>2. call.op = "rangeAdd" => Proposed' = Proposed
    BY <1>1, <1>3, <2>1 DEF Proposed
  <2> QED BY <1>1, <2>2 DEF VInv, UpdateAdmitted
<1>6. CASE Len(stack) = 1
  <2>1. stack' = <<>>
    BY <1>6, ReturnKeeps, TopFrame, ResumedEmpty
  <2>2. 1 \in DOMAIN stack /\ Top = stack[1]
    BY <1>1, <1>6, TopFrame DEF Top
  <2>3. Top.segment = Root(CallSize) /\ ReadsLatest(1)
    BY <2>2 DEF IInv, ControlConsistent, FramesOK, FrameInPlace, VInv, FramesCarry
  <2>4. CASE call.op = "initialize"
    <3>1. \A index, old, c : index = Len(newNodes') /\ c = Root(CallSize)
                               => Holds(index, old, c)'
      BY <2>3, <2>4, ReturnedHolds
    <3>2. CallSize' = CallSize
      BY <1>1, <2>4 DEF CallSize
    <3>3. Holds(Len(newNodes), NoNode, Root(CallSize))'
      <4>1. PICK index, c : index = Len(newNodes') /\ c = Root(CallSize)
        OBVIOUS
      <4>2. Holds(index, NoNode, c)'
        BY <3>1, <4>1
      <4>3. c = Root(CallSize)'
        BY <3>2, <4>1
      <4> QED BY <4>1, <4>2, <4>3 DEF Holds
    <3>4. CallMakesItsArray'
      BY <1>1, <2>4, <3>3 DEF CallMakesItsArray
    <3> QED BY <1>2, <1>3, <1>4, <1>5, <2>1, <3>4 DEF VInv, FramesCarry
  <2>5. CASE call.op = "rangeAdd"
    <3>1. Top.node = Latest /\ CallSize = arraySize
      BY <2>2, <2>3, <2>5 DEF ReadsLatest, CallSize
    <3>2. \A index, old, c :
            index = Len(nodes') /\ old = Latest /\ c = Root(arraySize)
              => Holds(index, old, c)'
      BY <2>3, <2>5, <3>1, ReturnedHolds
    <3>3. Holds(Len(nodes), Latest, Root(arraySize))'
      BY <1>1, <1>3, <3>2 DEF Holds
    <3>4. CallMakesItsArray'
      BY <1>1, <2>5, <3>3 DEF CallMakesItsArray
    <3> QED BY <1>2, <1>3, <1>4, <1>5, <2>1, <3>4 DEF VInv, FramesCarry
  <2> QED BY <1>1, <2>4, <2>5
<1>7. CASE Len(stack) # 1
  <2>1. FramesCarry'
    BY <1>3, <1>7, ReturnFramesCarry
  <2>2. stack' # <<>>
    <3>1. PICK m \in Nat \ {0} : Len(stack) = m + 1
      <4>1. Len(stack) - 1 \in Nat \ {0} /\ Len(stack) = (Len(stack) - 1) + 1
        BY <1>1, <1>7, TopFrame
      <4> QED BY <4>1
    <3>2. stack \in Seq(Frame) /\ stack[m].todo # {}
      <4>1. m + 1 \in DOMAIN stack /\ (m + 1) - 1 = m /\ m + 1 # 1
        BY <1>1, <3>1, TopFrame
      <4> QED BY <1>1, <4>1, TopFrame DEF IInv, ControlConsistent, FramesOK, FrameInPlace
    <3>3. Len(nodes') \in Nat /\ Len(newNodes') \in Nat
      BY ReturnKeeps
    <3> QED BY <1>1, <3>1, <3>2, <3>3, ReturnKeeps, ResumedStack
  <2>3. CallMakesItsArray'
    BY <2>2 DEF CallMakesItsArray
  <2> QED BY <1>2, <1>3, <1>4, <1>5, <2>1, <2>3 DEF VInv
<1> QED BY <1>6, <1>7

-----------------------------------------------------------------------------
(* initialize publishes the array it was called with. *)
LEMMA PublishesItsArray ==
  ASSUME IInv, VInv, PublishInitial
  PROVE  /\ \A v \in DOMAIN roots' : Stored(roots[v])' = call.values
         /\ Stored(Latest)' = call.values /\ DOMAIN roots' = {1}
         /\ call.values \in Seq(Value) /\ Admissible(call.values)
<1>1. /\ call.op = "initialize" /\ stack = <<>> /\ nodes' = newNodes
      /\ roots' = <<Len(newNodes)>> /\ arraySize' = Len(call.values)
  BY DEF PublishInitial
<1> DEFINE values == call.values
           root == Len(newNodes)
<1>2. /\ values \in Seq(Value) /\ Len(values) \in Nat /\ DOMAIN values = 1 .. Len(values)
      /\ newNodes \in Seq(Node) /\ WellFormed(newNodes)
      /\ \A p \in 1 .. Len(values) : values[p] \in Int
  <2>1. values \in Seq(Value)
    BY <1>1, ArraysAssumption DEF IInv, TypeOK, Call, Idle
  <2> QED BY <2>1, LenProperties, ElementOfSeq, ValueFacts
             DEF IInv, TypeOK, TreesWellFormed
<1>3. DOMAIN roots' = {1} /\ roots'[1] = root /\ Len(roots') = 1
  BY <1>1
<1>4. CASE values = <<>>
  <2>1. Len(values) = 0
    BY <1>4
  <2>2. [p \in 1 .. Len(values) |-> Elements(nodes')[root][p]] = <<>>
    BY <2>1
  <2>3. \A v \in DOMAIN roots' : Stored(roots[v])' = values
    BY <1>1, <1>3, <1>4, <2>2 DEF Stored
  <2>4. Stored(Latest)' = values
    BY <1>1, <1>3, <1>4, <2>2 DEF Stored, Latest
  <2> QED BY <1>2, <1>3, <1>4, <2>3, <2>4 DEF Admissible
<1>5. CASE values # <<>>
  <2> DEFINE c == Root(Len(values))
  <2>1. CallSize = Len(values)
    BY <1>1 DEF CallSize
  <2>2. Holds(root, NoNode, c)
    BY <1>1, <1>5, <2>1 DEF VInv, CallMakesItsArray
  <2>3. /\ \A p \in 1 .. Len(values) : Elements(newNodes)[root][p] = values[p]
        /\ newNodes[root].sum = CanonicalSum(values)[c]
    BY <1>1, <2>2 DEF Holds, Root
  <2>4. root \in 1 .. Len(newNodes)
    <3>1. ChildOK(root, c)
      BY <1>1, <1>5, <2>1 DEF IInv, ControlConsistent, CallOK
    <3> QED BY <1>1, <1>2, <3>1, LenProperties DEF ChildOK, Arena
  <2>5. Admissible(values)
    BY <1>2, <2>3, <2>4, NodeFacts, ValueFacts DEF Admissible
  <2>6. [p \in 1 .. Len(values) |-> Elements(nodes')[root][p]] = values
    <3>1. [p \in 1 .. Len(values) |-> Elements(nodes')[root][p]]
            = [p \in DOMAIN values |-> values[p]]
      BY <1>1, <1>2, <2>3
    <3>2. values = [p \in DOMAIN values |-> values[p]]
      <4>1. values \in [1 .. Len(values) -> Value]
        BY <1>2, LenProperties
      <4> HIDE DEF values
      <4> QED BY <4>1
    <3> QED BY <3>1, <3>2
  <2>7. \A v \in DOMAIN roots' : Stored(roots[v])' = values
    BY <1>1, <1>3, <2>6 DEF Stored
  <2>8. Stored(Latest)' = values
    BY <1>1, <1>3, <2>6 DEF Stored, Latest
  <2> QED BY <1>2, <1>3, <2>5, <2>7, <2>8
<1> QED BY <1>4, <1>5

LEMMA PublishInitialVInv ==
  ASSUME IInv, VInv, PublishInitial
  PROVE  VInv'
<1>1. /\ nodes' = newNodes /\ newNodes' = <<>> /\ call' = Idle /\ stack' = <<>>
      /\ bound' = MaxMagnitude(call.values) /\ nextBound' = nextBound
  BY DEF PublishInitial
<1>2. SumsFit'
  <2>1. ChildSumsFit(newNodes)
    BY DEF VInv, SumsFit
  <2> QED BY <1>1, <2>1 DEF SumsFit, ChildSumsFit
<1>3. VersionsAdmissible'
  <2>1. \A v \in DOMAIN roots' : Stored(roots[v])' = call.values
        /\ call.values \in Seq(Value) /\ Admissible(call.values)
    BY PublishesItsArray
  <2> QED BY <2>1 DEF VersionsAdmissible
<1>4. BoundSound'
  <2>1. Stored(Latest)' = call.values
    BY PublishesItsArray
  <2>2. \A p \in DOMAIN call.values : call.values[p] \in Outcome
    BY PublishesItsArray, ElementOfSeq, LenProperties DEF Outcome
  <2>3. bound' \in Bound /\ bound' \in Int
    BY <1>1, <2>2, MaxMagnitudeFacts DEF Bound
  <2>4. nextBound' \in Bound
    BY <1>1 DEF VInv, BoundSound
  <2> QED BY <1>1, <2>1, <2>3, <2>4 DEF BoundSound
<1>5. UpdateAdmitted' /\ CallMakesItsArray' /\ FramesCarry'
  BY <1>1 DEF Idle, UpdateAdmitted, CallMakesItsArray, FramesCarry
<1> QED BY <1>2, <1>3, <1>4, <1>5 DEF VInv

(* A finished update publishes the array its guard admitted. *)
LEMMA PublishesProposed ==
  ASSUME IInv, VInv, PublishVersion
  PROVE  /\ UNCHANGED <<nodes, arraySize>>
         /\ roots' = Append(roots, Len(nodes)) /\ roots # <<>> /\ Len(nodes) \in Nat
         /\ Stored(Len(nodes)) = Proposed
         /\ Proposed \in Seq(Value) /\ Admissible(Proposed)
         /\ MaxMagnitude(Proposed) <= nextBound
<1>1. /\ call.op = "rangeAdd" /\ stack = <<>> /\ UNCHANGED <<nodes, arraySize>>
      /\ roots' = Append(roots, Len(nodes))
  BY DEF PublishVersion
<1>2. /\ roots # <<>> /\ Len(roots) \in DOMAIN roots /\ Latest \in Nat /\ RootOK(Latest)
      /\ Len(nodes) \in Nat /\ arraySize \in Nat
  <2>1. Len(roots) \in Nat /\ Len(roots) # 0
    BY <1>1, RootFacts, MaxVersionsAssumption DEF VInv, UpdateAdmitted
  <2>2. roots # <<>>
    BY <2>1
  <2> QED BY <2>2, RootFacts DEF Latest
<1>3. /\ Proposed \in Seq(Value) /\ Admissible(Proposed)
      /\ MaxMagnitude(Proposed) <= nextBound
      /\ Holds(Len(nodes), Latest, Root(arraySize))
  BY <1>1 DEF VInv, UpdateAdmitted, CallMakesItsArray
<1>4. /\ Stored(Latest) \in Seq(Value) /\ Len(Stored(Latest)) = arraySize
      /\ \A p \in 1 .. arraySize : /\ Stored(Latest)[p] = Elements(nodes)[Latest][p]
                                   /\ Stored(Latest)[p] \in Int
  BY <1>2, StoredFacts DEF VInv, VersionsAdmissible, Latest
<1>5. call.value \in Value /\ call.value \in Int
  <2>1. call.value \in Deltas
    BY <1>1 DEF IInv, TypeOK, Call, Idle
  <2> QED BY <2>1, DeltasAssumption, ValueFacts
<1>6. /\ DOMAIN Proposed = 1 .. arraySize
      /\ \A p \in 1 .. arraySize :
           Proposed[p] = Stored(Latest)[p]
                         + IF p \in call.left .. call.right THEN call.value ELSE 0
  <2>1. LET next == AddToRange(Stored(Latest), call.left, call.right, call.value)
        IN  /\ DOMAIN next = 1 .. arraySize
            /\ \A p \in 1 .. arraySize :
                  next[p] \in Value =>
                    next[p] = Stored(Latest)[p]
                              + IF p \in call.left .. call.right THEN call.value ELSE 0
    BY <1>4, <1>5, AddToRangeFacts
  <2>2. \A p \in DOMAIN Proposed : Proposed[p] \in Value
    BY <1>3, ElementOfSeq, LenProperties
  <2> QED BY <2>1, <2>2 DEF Proposed
<1>7. ASSUME NEW p \in 1 .. arraySize
      PROVE  Elements(nodes)[Len(nodes)][p] = Proposed[p]
  <2>1. /\ p \in call.left .. call.right =>
             Elements(nodes)[Len(nodes)][p] = Elements(nodes)[Latest][p] + call.value
        /\ p \notin call.left .. call.right =>
             Elements(nodes)[Len(nodes)][p] = Elements(nodes)[Latest][p]
    BY <1>1, <1>3 DEF Holds, Root
  <2>2. PICK e, v \in Int : e = Stored(Latest)[p] /\ v = call.value
    BY <1>4, <1>5
  <2>3. CASE p \in call.left .. call.right
    BY <1>4, <1>6, <2>1, <2>2, <2>3
  <2>4. CASE p \notin call.left .. call.right
    <3>1. Proposed[p] = e + 0
      BY <1>6, <2>2, <2>4
    <3> QED BY <1>4, <2>1, <2>2, <2>4, <3>1
  <2> QED BY <2>3, <2>4
<1>8. Stored(Len(nodes)) = Proposed
  <2>1. Stored(Len(nodes)) = [p \in 1 .. arraySize |-> Proposed[p]]
    BY <1>7 DEF Stored
  <2>2. Proposed = [p \in DOMAIN Proposed |-> Proposed[p]]
    BY <1>3
  <2> QED BY <1>6, <2>1, <2>2
<1> QED BY <1>1, <1>2, <1>3, <1>8

LEMMA PublishVersionVInv ==
  ASSUME IInv, VInv, PublishVersion
  PROVE  VInv'
<1>1. /\ UNCHANGED <<newNodes>> /\ call' = Idle /\ stack' = <<>>
      /\ bound' = nextBound /\ nextBound' = 0
  BY DEF PublishVersion
<1>2. VersionsAdmissible' /\ Stored(Latest)' = Proposed
  <2>1. PICK root \in Nat : /\ roots' = Append(roots, root) /\ UNCHANGED <<nodes, arraySize>>
                            /\ Stored(root) = Proposed
                            /\ Proposed \in Seq(Value) /\ Admissible(Proposed)
    BY PublishesProposed
  <2> QED BY <2>1, PublishedAdmissible DEF VInv
<1>3. SumsFit'
  BY <1>1, PublishesProposed DEF VInv, SumsFit, ChildSumsFit
<1>4. BoundSound'
  <2>1. nextBound \in Bound /\ 0 \in Bound
    BY ValueFacts DEF VInv, BoundSound, Bound, MaxBound
  <2> QED BY <1>1, <1>2, <2>1, PublishesProposed DEF BoundSound
<1>5. UpdateAdmitted' /\ CallMakesItsArray' /\ FramesCarry'
  BY <1>1 DEF Idle, UpdateAdmitted, CallMakesItsArray, FramesCarry
<1> QED BY <1>2, <1>3, <1>4, <1>5 DEF VInv

(* An exception keeps the nodes of every published version. *)
LEMMA ThrowKeeps ==
  ASSUME IInv, IInv', Throw
  PROVE  \E k \in Nat : /\ k <= Len(nodes) /\ k <= Len(nodes')
                        /\ \A i \in 1 .. k : nodes'[i] = nodes[i]
                        /\ \A v \in DOMAIN roots : roots[v] <= k
                        /\ DOMAIN nodes' = 1 .. k
<1>1. CASE call.op = "rangeAdd"
  <2>1. /\ call.checkpoint \in 0 .. Len(nodes)
        /\ \A v \in DOMAIN roots : roots[v] <= call.checkpoint
    <3>1. call.checkpoint \in Nat
      BY <1>1 DEF IInv, TypeOK, Call, Idle
    <3> QED BY <1>1, <3>1, RootFacts DEF IInv, ControlConsistent, CallOK
  <2>2. nodes' = SubSeq(nodes, 1, call.checkpoint)
    BY <1>1 DEF Throw
  <2>3. /\ Len(nodes') = call.checkpoint /\ nodes' \in Seq(Node)
        /\ \A i \in 1 .. call.checkpoint : nodes'[i] = nodes[i]
    BY <2>1, <2>2, RootFacts, CutWellFormed
  <2>4. DOMAIN nodes' = 1 .. call.checkpoint
    BY <2>3, LenProperties
  <2> QED BY <2>1, <2>3, <2>4, RootFacts
<1>2. CASE call.op # "rangeAdd"
  <2>1. nodes' = nodes
    BY <1>2 DEF Throw
  <2>2. /\ Len(nodes) \in Nat /\ DOMAIN nodes = 1 .. Len(nodes)
        /\ \A v \in DOMAIN roots : roots[v] <= Len(nodes)
    BY RootFacts
  <2>3. /\ Len(nodes') = Len(nodes) /\ DOMAIN nodes' = DOMAIN nodes
        /\ \A i \in 1 .. Len(nodes) : nodes'[i] = nodes[i]
    BY <2>1
  <2>4. Len(nodes) <= Len(nodes)
    BY <2>2
  <2> QED BY <2>2, <2>3, <2>4
<1> QED BY <1>1, <1>2

LEMMA ThrowVInv ==
  ASSUME IInv, IInv', VInv, Throw
  PROVE  VInv'
<1>1. /\ newNodes' = <<>> /\ call' = Idle /\ stack' = <<>> /\ nextBound' = 0
      /\ UNCHANGED <<roots, arraySize, bound>>
  BY DEF Throw
<1>2. PICK k \in Nat : /\ k <= Len(nodes) /\ k <= Len(nodes')
                       /\ \A i \in 1 .. k : nodes'[i] = nodes[i]
                       /\ \A v \in DOMAIN roots : roots[v] <= k
                       /\ DOMAIN nodes' = 1 .. k
  BY ThrowKeeps
<1>3. /\ VersionsAdmissible' /\ Latest' = Latest
      /\ roots # <<>> => Stored(Latest)' = Stored(Latest)
  BY <1>1, <1>2, VersionsKept DEF VInv
<1>4. BoundSound'
  <2>1. 0 \in Bound
    BY ValueFacts DEF Bound, MaxBound
  <2> QED BY <1>1, <1>3, <2>1 DEF VInv, BoundSound
<1>5. SumsFit'
  <2>1. ASSUME NEW i \in 1 .. k, ~IsLeaf(nodes'[i].segment)
        PROVE  nodes'[nodes'[i].leftChild].sum + nodes'[nodes'[i].rightChild].sum \in Value
    <3>1. /\ i \in 1 .. Len(nodes) /\ i \in DOMAIN nodes /\ nodes'[i] = nodes[i]
      BY <1>2, RootFacts
    <3>2. nodes[i].leftChild \in 1 .. i - 1 /\ nodes[i].rightChild \in 1 .. i - 1
      BY <2>1, <3>1, RootFacts, NodeFacts
    <3>3. nodes[i].leftChild \in 1 .. k /\ nodes[i].rightChild \in 1 .. k
      BY <3>2
    <3> QED BY <1>2, <2>1, <3>1, <3>3 DEF VInv, SumsFit, ChildSumsFit
  <2> QED BY <1>1, <1>2, <2>1 DEF SumsFit, ChildSumsFit
<1>6. UpdateAdmitted' /\ CallMakesItsArray' /\ FramesCarry'
  BY <1>1 DEF Idle, UpdateAdmitted, CallMakesItsArray, FramesCarry
<1> QED BY <1>3, <1>4, <1>5, <1>6 DEF VInv

LEMMA NextVInv == IInv /\ VInv /\ [Next]_vars => VInv'
<1> SUFFICES ASSUME IInv, VInv, [Next]_vars PROVE VInv'
  OBVIOUS
<1>1. IInv'
  BY NextIInv
<1>2. ASSUME NEW values \in Arrays, BeginInitialize(values) PROVE VInv'
  BY <1>1, <1>2, BeginInitializeVInv
<1>3. ASSUME NEW left, NEW right, RangeAddZero(left, right) PROVE VInv'
  BY <1>3, RangeAddZeroVInv
<1>4. ASSUME NEW left, NEW right, NEW value \in Deltas, BeginRangeAdd(left, right, value)
      PROVE  VInv'
  BY <1>1, <1>4, BeginRangeAddVInv
<1>5. CASE Step
  BY <1>1, <1>5, DescendVInv, ReturnVInv, PublishInitialVInv, PublishVersionVInv, ThrowVInv
     DEF Step
<1>6. CASE UNCHANGED vars
  BY <1>6, StutterVInv
<1> QED BY <1>2, <1>3, <1>4, <1>5, <1>6 DEF Next

(***************************************************************************)
(* The invariant of the versions: what every published version stands for, *)
(* what the running update will publish, and what its frames hold.         *)
(***************************************************************************)
THEOREM VersionsInvariant == Spec => [](IInv /\ VInv)
<1>1. Init => IInv /\ VInv
  BY InitIInv, InitVInv
<1>2. IInv /\ VInv /\ [Next]_vars => (IInv /\ VInv)'
  BY NextIInv, NextVInv
<1> QED BY <1>1, <1>2, PTL DEF Spec

-----------------------------------------------------------------------------
(* Materializing a published version gives the array it stands for. *)
LEMMA VersionsStored ==
  ASSUME IInv, VInv
  PROVE  \A v \in DOMAIN roots :
           /\ roots[v] \in Nat /\ RootOK(roots[v])
           /\ Versions[v] = Stored(roots[v])
           /\ Stored(roots[v]) \in Seq(Value) /\ Admissible(Stored(roots[v]))
           /\ Len(Stored(roots[v])) = arraySize
<1> TAKE v \in DOMAIN roots
<1>1. /\ roots[v] \in Nat /\ RootOK(roots[v]) /\ ChildSumsFit(nodes)
      /\ Stored(roots[v]) \in Seq(Value) /\ Admissible(Stored(roots[v]))
  BY RootFacts DEF VInv, SumsFit, VersionsAdmissible
<1>2. Len(Stored(roots[v])) = arraySize
  BY <1>1, StoredFacts
<1>3. Materialize(roots[v]) = Stored(roots[v])
  BY <1>1, MaterializeExact
<1> QED BY <1>1, <1>2, <1>3 DEF Versions

(***************************************************************************)
(* The scalar bound of SumAddDomain is sound: whatever mixture of scalar   *)
(* and exact admissions has gone before, it bounds every element of the    *)
(* latest version and every published version is admissible.               *)
(***************************************************************************)
THEOREM EnvelopeStaysSound == Spec => []EnvelopeSound
<1>1. ASSUME IInv, VInv PROVE EnvelopeSound
  <2>1. \A v \in DOMAIN roots :
          Admissible(Versions[v]) /\ \A p \in 1 .. arraySize : Versions[v][p] # Overflow
    BY <1>1, VersionsStored, ElementOfSeq, ValueFacts
  <2>2. roots # <<>> => Versions[Len(roots)] = Stored(Latest)
    BY <1>1, VersionsStored, RootFacts DEF Latest
  <2> QED BY <1>1, <2>1, <2>2 DEF EnvelopeSound, VInv, BoundSound
<1> QED BY <1>1, VersionsInvariant, PTL

(***************************************************************************)
(* query of any published version is exact or reports an overflow: the     *)
(* retained tags reach every element once, in every version at once.       *)
(***************************************************************************)
THEOREM VersionQueriesExact == Spec => []QueriesExact
<1>1. ASSUME IInv, VInv PROVE QueriesExact
  <2> SUFFICES ASSUME NEW v \in DOMAIN roots, NEW range \in Ranges
               PROVE  RangeSum(v, range[1], range[2])
                        \in {ExactSum(Versions[v], range[1], range[2]), Overflow}
    BY DEF QueriesExact
  <2>1. range[1] \in 1 .. arraySize /\ range[2] \in range[1] .. arraySize
    BY <1>1, RootFacts DEF Ranges
  <2>2. /\ roots[v] \in Nat /\ RootOK(roots[v]) /\ Versions[v] = Stored(roots[v])
    BY <1>1, VersionsStored
  <2> QED BY <1>1, <2>1, <2>2, QueryExact DEF RangeSum
<1> QED BY <1>1, VersionsInvariant, PTL

-----------------------------------------------------------------------------
(***************************************************************************)
(* The refinement.                                                         *)
(***************************************************************************)
LEMMA ReferenceOperators ==
  ASSUME NEW values, NEW left, NEW right, NEW value
  PROVE  /\ Reference!Admissible(values) <=> Admissible(values)
         /\ Reference!AddToRange(values, left, right, value)
              = AddToRange(values, left, right, value)
<1>1. Reference!Admissible(values) <=> Admissible(values)
  BY DEF Reference!Admissible, Reference!CanonicalSum, Reference!Interval,
         Reference!IsLeaf, Reference!CheckedAdd, Reference!Root, Reference!Overflow,
         Reference!Value, Reference!Representable, Reference!LeftHalf,
         Reference!RightHalf, Reference!Midpoint, Reference!MinVal,
         Admissible, CanonicalSum, Interval, IsLeaf, CheckedAdd, Root, Overflow,
         Value, Representable, LeftHalf, RightHalf, Midpoint, MinVal
<1>2. \A x, y : Reference!CheckedAdd(x, y) = CheckedAdd(x, y)
  BY DEF Reference!CheckedAdd, Reference!Overflow, Reference!Value,
         Reference!Representable, Reference!MinVal,
         CheckedAdd, Overflow, Value, Representable, MinVal
<1>3. Reference!AddToRange(values, left, right, value)
        = AddToRange(values, left, right, value)
  BY <1>2 DEF Reference!AddToRange, AddToRange
<1> QED BY <1>1, <1>3

LEMMA VersionsAreSeq ==
  ASSUME IInv, VInv
  PROVE  /\ Versions \in Seq(Seq(Value))
         /\ Len(Versions) = Len(roots) /\ DOMAIN Versions = DOMAIN roots
<1>1. Len(roots) \in Nat /\ DOMAIN roots = 1 .. Len(roots)
  BY RootFacts
<1>2. \A v \in 1 .. Len(roots) : Materialize(roots[v]) \in Seq(Value)
  BY <1>1, VersionsStored DEF Versions
<1>3. Versions = [v \in 1 .. Len(roots) |-> Materialize(roots[v])]
  BY <1>1 DEF Versions
<1>4. Versions \in Seq(Seq(Value))
  BY <1>1, <1>2, <1>3, IsASeq
<1>5. DOMAIN Versions = 1 .. Len(roots)
  BY <1>3
<1>6. Len(Versions) = Len(roots)
  BY <1>1, <1>4, <1>5, LenProperties
<1> QED BY <1>1, <1>4, <1>5, <1>6

VersionsAsStored == \A v \in DOMAIN roots : Versions[v] = Stored(roots[v])

LEMMA VersionsStoredNow ==
  ASSUME IInv, VInv
  PROVE  VersionsAsStored
BY VersionsStored DEF VersionsAsStored

(* A step that publishes nothing and keeps what is stored is a stutter. *)
LEMMA VersionsUnchanged ==
  ASSUME IInv, VInv, IInv', VInv', UNCHANGED roots,
         \A v \in DOMAIN roots : Stored(roots[v])' = Stored(roots[v])
  PROVE  Versions' = Versions
<1>1. \A v \in DOMAIN roots : Versions[v] = Stored(roots[v])
  BY VersionsStored
<1>2. (\A v \in DOMAIN roots : Versions[v] = Stored(roots[v]))'
  <2>1. VersionsAsStored'
    BY VersionsStoredNow, PTL
  <2> QED BY <2>1 DEF VersionsAsStored
<1>3. \A v \in DOMAIN roots : Versions'[v] = Versions[v]
  BY <1>1, <1>2
<1>4. Versions = [v \in DOMAIN roots |-> Versions[v]]
  BY DEF Versions
<1>5. Versions' = [v \in DOMAIN roots' |-> Versions'[v]]
  BY DEF Versions
<1> QED BY <1>3, <1>4, <1>5

LEMMA VersionsExtended ==
  ASSUME IInv, VInv, IInv', VInv', UNCHANGED <<nodes, arraySize>>,
         NEW root \in Nat, roots' = Append(roots, root)
  PROVE  Versions' = Append(Versions, Stored(root))
<1>1. /\ DOMAIN roots' = 1 .. Len(roots) + 1
      /\ \A v \in 1 .. Len(roots) : roots'[v] = roots[v]
      /\ roots'[Len(roots) + 1] = root
      /\ DOMAIN roots = 1 .. Len(roots) /\ Len(roots) \in Nat
  BY RootFacts, AppendProperties
<1>2. /\ Versions \in Seq(Seq(Value)) /\ Len(Versions) = Len(roots)
      /\ \A v \in DOMAIN roots : Versions[v] = Stored(roots[v])
  BY VersionsAreSeq, VersionsStored
<1>3. /\ Versions' \in Seq(Seq(Value)) /\ Len(Versions') = Len(roots) + 1
      /\ \A v \in DOMAIN roots' : Versions'[v] = Stored(roots[v])'
  <2>1. (Versions \in Seq(Seq(Value)) /\ Len(Versions) = Len(roots))'
    BY VersionsAreSeq, PTL
  <2>2. (\A v \in DOMAIN roots : Versions[v] = Stored(roots[v]))'
    <3>1. VersionsAsStored'
      BY VersionsStoredNow, PTL
    <3> QED BY <3>1 DEF VersionsAsStored
  <2>3. Len(roots') = Len(roots) + 1
    BY RootFacts, AppendProperties
  <2> QED BY <2>1, <2>2, <2>3
<1>4. \A v \in 1 .. Len(roots) : Versions'[v] = Versions[v]
  <2> TAKE v \in 1 .. Len(roots)
  <2>1. Stored(roots[v])' = Stored(roots[v])
    BY <1>1 DEF Stored
  <2> QED BY <1>1, <1>2, <1>3, <2>1
<1>5. ASSUME NEW v, v = Len(roots) + 1
      PROVE  Versions'[v] = Stored(root)
  <2>1. Stored(roots[v])' = Stored(root)
    BY <1>1, <1>5 DEF Stored
  <2> QED BY <1>1, <1>3, <1>5, <2>1
<1>6. Stored(root) \in Seq(Value)
  <2>1. PICK v : v = Len(roots) + 1
    OBVIOUS
  <2>2. Versions'[v] \in Seq(Value)
    BY <1>1, <1>3, <2>1, ElementOfSeq
  <2> QED BY <1>5, <2>1, <2>2
<1>7. /\ Append(Versions, Stored(root)) \in Seq(Seq(Value))
      /\ Len(Append(Versions, Stored(root))) = Len(roots) + 1
      /\ \A v \in 1 .. Len(roots) : Append(Versions, Stored(root))[v] = Versions[v]
      /\ Append(Versions, Stored(root))[Len(roots) + 1] = Stored(root)
  BY <1>2, <1>6, AppendProperties
<1>8. \A v \in 1 .. Len(Versions') : Versions'[v] = Append(Versions, Stored(root))[v]
  BY <1>1, <1>3, <1>4, <1>5, <1>7
<1> QED BY <1>3, <1>7, <1>8, SeqEqual

(* initialize publishes as the reference does. *)
LEMMA PublishInitialRefines ==
  ASSUME IInv, VInv, IInv', VInv', PublishInitial
  PROVE  /\ call.values \in Arrays
         /\ Reference!Initialize(call.values)
<1>1. /\ \A v \in DOMAIN roots' : Stored(roots[v])' = call.values
      /\ DOMAIN roots' = {1} /\ call.values \in Seq(Value) /\ Admissible(call.values)
  BY PublishesItsArray
<1>2. VersionsAsStored' /\ (Versions \in Seq(Seq(Value)))' /\ (DOMAIN Versions = DOMAIN roots)'
  BY VersionsStoredNow, VersionsAreSeq, PTL
<1>3. Versions' = <<call.values>>
  <2>1. Versions'[1] = call.values
    BY <1>1, <1>2 DEF VersionsAsStored
  <2>2. Versions' \in Seq(Seq(Value)) /\ DOMAIN Versions' = {1}
    BY <1>1, <1>2
  <2>3. Len(Versions') = 1
    BY <2>2, LenProperties
  <2> HIDE DEF Versions
  <2>4. <<call.values>> \in Seq(Seq(Value)) /\ Len(<<call.values>>) = 1
        /\ <<call.values>>[1] = call.values
    BY <1>1
  <2>5. \A i \in 1 .. Len(Versions') : Versions'[i] = <<call.values>>[i]
    BY <2>1, <2>3, <2>4
  <2> QED BY <2>2, <2>3, <2>4, <2>5, SeqEqual
<1>4. call.values \in Arrays
  BY DEF PublishInitial, IInv, TypeOK, Call, Idle
<1> QED BY <1>1, <1>3, <1>4, ReferenceOperators DEF Reference!Initialize

(* An update publishes as the reference's update of the latest version. *)
LEMMA PublishVersionRefines ==
  ASSUME IInv, VInv, IInv', VInv', PublishVersion
  PROVE  /\ call.value \in Deltas /\ Versions # <<>> /\ Len(Versions) = Len(roots)
         /\ call.right \in 1 .. Len(Versions[Len(Versions)])
         /\ call.left \in 1 .. call.right
         /\ Reference!RangeAdd(Len(roots), call.left, call.right, call.value)
<1>1. /\ UNCHANGED <<nodes, arraySize>>
      /\ roots' = Append(roots, Len(nodes)) /\ roots # <<>> /\ Len(nodes) \in Nat
      /\ Stored(Len(nodes)) = Proposed /\ Admissible(Proposed)
  BY PublishesProposed
<1>2. Versions' = Append(Versions, Proposed)
  BY <1>1, VersionsExtended
<1>3. /\ Len(roots) \in DOMAIN roots /\ arraySize \in Nat /\ Len(roots) \in Nat
      /\ Versions[Len(roots)] = Stored(Latest) /\ Len(Stored(Latest)) = arraySize
  BY <1>1, RootFacts, VersionsStored DEF Latest
<1>4. /\ Len(Versions) = Len(roots) /\ DOMAIN Versions = DOMAIN roots
      /\ Versions \in Seq(Seq(Value))
  BY VersionsAreSeq
<1>5. /\ call.op = "rangeAdd" /\ call.value \in Deltas
      /\ call.left \in Nat \ {0} /\ call.right \in Nat
      /\ call.left <= call.right /\ call.right <= arraySize
      /\ Len(roots) \in 1 .. MaxVersions - 1
  <2>1. call.op = "rangeAdd"
    BY DEF PublishVersion
  <2>2. call.value \in Deltas /\ call.left \in Nat \ {0} /\ call.right \in Nat
    BY <2>1 DEF IInv, TypeOK, Call, Idle
  <2> QED BY <2>1, <2>2 DEF IInv, ControlConsistent, CallOK, VInv, UpdateAdmitted
<1>6. /\ call.right \in 1 .. Len(Versions[Len(roots)]) /\ call.left \in 1 .. call.right
  BY <1>3, <1>5
<1>7. Versions # <<>>
  BY <1>3, <1>4
<1>8. Reference!ValidRange(Len(roots), call.left, call.right)
  BY <1>3, <1>4, <1>5 DEF Reference!ValidRange
<1>9. Len(Versions) < MaxVersions
  BY <1>4, <1>5, MaxVersionsAssumption
<1>10. Reference!AddToRange(Versions[Len(roots)], call.left, call.right, call.value)
         = Proposed
  BY <1>3, ReferenceOperators DEF Proposed
<1>11. Reference!Admissible(Proposed)
  BY <1>1, ReferenceOperators
<1>12. Reference!RangeAdd(Len(roots), call.left, call.right, call.value)
  BY <1>2, <1>8, <1>9, <1>10, <1>11 DEF Reference!RangeAdd
<1> QED BY <1>4, <1>5, <1>6, <1>7, <1>12

(* The zero-delta path publishes as the reference's update by zero. *)
LEMMA RangeAddZeroRefines ==
  ASSUME IInv, VInv, IInv', VInv', NEW left, NEW right, RangeAddZero(left, right)
  PROVE  /\ 0 \in Deltas /\ Versions # <<>> /\ Len(Versions) = Len(roots)
         /\ right \in 1 .. Len(Versions[Len(Versions)])
         /\ left \in 1 .. right
         /\ Reference!RangeAdd(Len(roots), left, right, 0)
<1>1. /\ UNCHANGED <<nodes, arraySize>> /\ ValidRangeAdd(left, right) /\ 0 \in Deltas
      /\ roots' = Append(roots, Latest) /\ roots # <<>> /\ Len(roots) < MaxVersions
  BY DEF RangeAddZero, ValidRangeAdd, Latest
<1>2. /\ Len(roots) \in DOMAIN roots /\ arraySize \in Nat /\ Len(roots) \in Nat
      /\ Latest \in Nat
      /\ Versions[Len(roots)] = Stored(Latest) /\ Len(Stored(Latest)) = arraySize
      /\ Stored(Latest) \in Seq(Value) /\ Admissible(Stored(Latest))
  BY <1>1, RootFacts, VersionsStored DEF Latest
<1>3. Versions' = Append(Versions, Stored(Latest))
  BY <1>1, <1>2, VersionsExtended
<1>4. /\ Len(Versions) = Len(roots) /\ DOMAIN Versions = DOMAIN roots
      /\ Versions \in Seq(Seq(Value))
  BY VersionsAreSeq
<1>5. left \in 1 .. arraySize /\ right \in left .. arraySize
  BY <1>1 DEF ValidRangeAdd
<1>6. right \in 1 .. Len(Versions[Len(roots)]) /\ left \in 1 .. right
  BY <1>2, <1>5
<1>7. Versions # <<>>
  BY <1>2, <1>4
<1>8. Reference!ValidRange(Len(roots), left, right)
  BY <1>2, <1>4, <1>5 DEF Reference!ValidRange
<1>9. AddToRange(Stored(Latest), left, right, 0) = Stored(Latest)
  <2> DEFINE w == Stored(Latest)
  <2>1. w \in [1 .. arraySize -> Value]
    BY <1>2, LenProperties
  <2>2. \A x \in Value : CheckedAdd(x, 0) = x
    BY ValueFacts DEF CheckedAdd, Representable
  <2> HIDE DEF w
  <2>3. AddToRange(w, left, right, 0) = [p \in 1 .. arraySize |-> w[p]]
    BY <2>1, <2>2 DEF AddToRange
  <2>4. AddToRange(w, left, right, 0) = w
    BY <2>1, <2>3
  <2> QED BY <2>4 DEF w
<1>10. Reference!AddToRange(Versions[Len(roots)], left, right, 0) = Stored(Latest)
  BY <1>2, <1>9, ReferenceOperators
<1>11. Reference!Admissible(Stored(Latest))
  BY <1>2, ReferenceOperators
<1>12. Reference!RangeAdd(Len(roots), left, right, 0)
  BY <1>1, <1>3, <1>4, <1>8, <1>10, <1>11 DEF Reference!RangeAdd
<1> QED BY <1>1, <1>4, <1>6, <1>7, <1>12

(* A step that publishes nothing leaves every version as it was. *)
LEMMA NothingPublished ==
  ASSUME IInv, VInv, IInv', VInv',
         \/ \E values \in Arrays : BeginInitialize(values)
         \/ \E left, right : \E value \in Deltas : BeginRangeAdd(left, right, value)
         \/ Descend \/ Return \/ Throw \/ UNCHANGED vars
  PROVE  Versions' = Versions
<1>1. CASE UNCHANGED <<nodes, roots, arraySize>>
  BY <1>1, ArenaUnchanged, VersionsUnchanged DEF VInv
<1>2. CASE Return
  <2>1. /\ UNCHANGED <<roots, arraySize>> /\ Len(nodes) \in Nat /\ Len(nodes) <= Len(nodes')
        /\ \A i \in 1 .. Len(nodes) : nodes'[i] = nodes[i]
        /\ \A v \in DOMAIN roots : roots[v] <= Len(nodes)
    BY <1>2, ReturnKeeps, RootFacts
  <2> QED BY <2>1, VersionsKept, VersionsUnchanged DEF VInv
<1>3. CASE Throw
  <2>1. PICK k \in Nat : /\ k <= Len(nodes) /\ k <= Len(nodes')
                         /\ \A i \in 1 .. k : nodes'[i] = nodes[i]
                         /\ \A v \in DOMAIN roots : roots[v] <= k
    BY <1>3, ThrowKeeps
  <2>2. UNCHANGED <<roots, arraySize>>
    BY <1>3 DEF Throw
  <2> QED BY <2>1, <2>2, VersionsKept, VersionsUnchanged DEF VInv
<1> QED BY <1>1, <1>2, <1>3 DEF BeginInitialize, BeginRangeAdd, Descend, vars

LEMMA StepRefines ==
  ASSUME IInv, VInv, IInv', VInv', [Next]_vars
  PROVE  Versions' # Versions => Reference!LatestNext
<1>1. ASSUME NEW left, NEW right, RangeAddZero(left, right)
      PROVE  Reference!LatestNext
  BY <1>1, RangeAddZeroRefines DEF Reference!LatestNext
<1>2. CASE PublishInitial
  BY <1>2, PublishInitialRefines DEF Reference!LatestNext
<1>3. CASE PublishVersion
  BY <1>3, PublishVersionRefines DEF Reference!LatestNext
<1> QED BY <1>1, <1>2, <1>3, NothingPublished DEF Next, Step

(***************************************************************************)
(* The structure implements the reference: whatever its calls do to the    *)
(* arena, the versions they publish are made one by one as brute_force_    *)
(* array.cpp makes them, from the latest one and as the call asked.        *)
(***************************************************************************)
THEOREM ImplementsReference == Spec => ImplementsBruteForceArray
<1>1. Init => Reference!Init
  <2>1. Init => Versions = [v \in {} |-> Materialize(roots[v])]
    BY DEF Init, Versions
  <2>2. [v \in {} |-> Materialize(roots[v])] = <<>>
    OBVIOUS
  <2> QED BY <2>1, <2>2 DEF Reference!Init
<1>2. ASSUME IInv, VInv, IInv', VInv', [Next]_vars
      PROVE  [Versions' # Versions => Reference!LatestNext]_Versions
  BY <1>2, StepRefines
<1>3. ASSUME IInv, VInv, IInv', VInv', [Next]_vars
      PROVE  [PublishesAsAsked]_vars
  BY <1>3, PublishInitialRefines, PublishVersionRefines DEF PublishesAsAsked
<1> QED BY <1>1, <1>2, <1>3, VersionsInvariant, PTL
        DEF Spec, ImplementsBruteForceArray, Reference!LatestSpec

=============================================================================
