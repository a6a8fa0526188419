---------------------- MODULE PersistentLazySegmentTree ----------------------
(***************************************************************************)
(* src/persistent_lazy_segment_tree.cpp: a partially persistent segment    *)
(* tree with range addition and range sum.  All versions live in one arena *)
(* of nodes; an update copies the nodes it visits, shares the others, and  *)
(* publishes one new root.  A node keeps the tag of the updates that cover *)
(* its whole segment and never pushes it to its children.                  *)
(*                                                                         *)
(* initialize and rangeAdd are modelled one appended node at a time: call  *)
(* is the running call, stack the active frames of build or update, and an *)
(* exception may leave the call at every point where the code can throw.   *)
(* Node index i + 1 stands for the code's index i, and NoNode for noNode.  *)
(***************************************************************************)
EXTENDS SumAddDomain, TreeRecursion

CONSTANTS Arrays,              \* the arrays initialize is called with
          Deltas,              \* the values rangeAdd is called with
          MaxVersions,         \* bound of the model: most versions published
          MaxReinitVersions    \* bound of the model: initialize is called
                               \* while at most this many are published

ASSUME ArraysAssumption == Arrays \subseteq Seq(Value)
ASSUME DeltasAssumption == Deltas \subseteq Value
ASSUME MaxVersionsAssumption ==
  MaxVersions \in Nat /\ MaxReinitVersions \in Nat

VARIABLES
  nodes,       \* the arena
  roots,       \* roots[v + 1] is the root of version v
  arraySize,   \* number of elements in every version
  bound,       \* numericDomain.magnitudeBound
  nextBound,   \* rangeAdd's local nextBound, 0 when none is running
  newNodes,    \* the arena initialize builds beside the published one
  call,        \* the running call
  stack        \* its active frames of build or update, the innermost last

vars == <<nodes, roots, arraySize, bound, nextBound, newNodes, call, stack>>

Idle == [op |-> "idle"]

(***************************************************************************)
(* A node.  segment is history: the segment the node was made for, which   *)
(* the code knows only from the parameters of its recursion.               *)
(***************************************************************************)
Node == [leftChild : Nat, rightChild : Nat, sum : Value, lazy : Value,
         segment : Nat \X Nat]

Call ==
  {Idle}
  \cup [op : {"initialize"}, values : Arrays]
  \cup [op : {"rangeAdd"}, left : Nat \ {0}, right : Nat, value : Deltas,
        checkpoint : Nat]

Init ==
  /\ nodes = <<>>
  /\ roots = <<>>
  /\ arraySize = 0
  /\ bound = 0
  /\ nextBound = 0
  /\ newNodes = <<>>
  /\ call = Idle
  /\ stack = <<>>

-----------------------------------------------------------------------------
(***************************************************************************)
(* The node an index reads.  Outside the arena that is undefined: any node *)
(* may be found there.                                                     *)
(***************************************************************************)
NodeAt(i) == IF i \in DOMAIN nodes THEN nodes[i] ELSE CHOOSE node \in Node : TRUE

(***************************************************************************)
(* Reading a version.  A visit holds the parameters of the recursion:      *)
(* inherited adds up the tags of the ancestors of node.                    *)
(***************************************************************************)
Visit == [node : Nat, segment : Interval(arraySize), inherited : Int]

RootVisit(root) == [node |-> root, segment |-> Root(arraySize), inherited |-> 0]

LeftVisit(at) ==
  [node |-> NodeAt(at.node).leftChild, segment |-> LeftHalf(at.segment),
   inherited |-> CheckedAdd(at.inherited, NodeAt(at.node).lazy)]

RightVisit(at) ==
  [node |-> NodeAt(at.node).rightChild, segment |-> RightHalf(at.segment),
   inherited |-> CheckedAdd(at.inherited, NodeAt(at.node).lazy)]

\* Seeded bug: only the nearest ancestor's tag reaches a covered segment.
QueryForgetsAncestors(root, left, right) ==
  LET sum[at \in Visit] ==
        IF Disjoint(left, right, at.segment) THEN 0
        ELSE IF Covers(left, right, at.segment)
             THEN Apply(at.inherited, NodeAt(at.node).sum, Length(at.segment))
             ELSE LET nearest == [at EXCEPT !.inherited = 0]
                  IN  CheckedAdd(sum[LeftVisit(nearest)], sum[RightVisit(nearest)])
  IN  sum[RootVisit(root)]

Query(root, left, right) ==
  LET sum[at \in Visit] ==
        IF Disjoint(left, right, at.segment) THEN 0
        ELSE IF Covers(left, right, at.segment)
             THEN Apply(at.inherited, NodeAt(at.node).sum, Length(at.segment))
             ELSE CheckedAdd(sum[LeftVisit(at)], sum[RightVisit(at)])
  IN  sum[RootVisit(root)]

Materialize(root) ==
  LET leaves[at \in Visit] ==
        IF IsLeaf(at.segment) THEN <<Apply(at.inherited, NodeAt(at.node).sum, 1)>>
        ELSE leaves[LeftVisit(at)] \o leaves[RightVisit(at)]
  IN  IF arraySize = 0 THEN <<>> ELSE leaves[RootVisit(root)]

(***************************************************************************)
(* rangeSum(version, left, right).                                         *)
(***************************************************************************)
RangeSum(version, left, right) == Query(roots[version], left, right)

-----------------------------------------------------------------------------
(***************************************************************************)
(* The frames of update.                                                   *)
(***************************************************************************)
UpdateFrame(i, c, left, right) ==
  [segment |-> c, node |-> i,
   newLeft |-> nodes[i].leftChild, newRight |-> nodes[i].rightChild,
   todo |-> IF Covers(left, right, c) THEN {} ELSE MeetingSides(c, left, right)]

Top == stack[Len(stack)]

(***************************************************************************)
(* The node a frame appends when its descents have returned.               *)
(***************************************************************************)
BuiltNode(f) ==
  [leftChild |-> f.newLeft, rightChild |-> f.newRight,
   sum |-> IF IsLeaf(f.segment) THEN call.values[f.segment[1]]
           ELSE CheckedAdd(newNodes[f.newLeft].sum, newNodes[f.newRight].sum),
   lazy |-> 0, segment |-> f.segment]

\* Seeded bug: the delta replaces the tag.
CoveredNodeReplacesTag(f) ==
  LET current == nodes[f.node]
  IN  [leftChild |-> current.leftChild, rightChild |-> current.rightChild,
       sum |-> Apply(call.value, current.sum, Length(f.segment)),
       lazy |-> call.value, segment |-> f.segment]

CoveredNode(f) ==
  LET current == nodes[f.node]
  IN  [leftChild |-> current.leftChild, rightChild |-> current.rightChild,
       sum |-> Apply(call.value, current.sum, Length(f.segment)),
       lazy |-> CheckedAdd(current.lazy, call.value), segment |-> f.segment]

\* Seeded bug: the parent's own tag is left out of its sum.
ParentNodeForgetsTag(f) ==
  LET current == nodes[f.node]
  IN  [leftChild |-> f.newLeft, rightChild |-> f.newRight,
       sum |-> CheckedAdd(nodes[f.newLeft].sum, nodes[f.newRight].sum),
       lazy |-> current.lazy, segment |-> f.segment]

(***************************************************************************)
(* The copied parent keeps its own tag: it is not part of the sums of its  *)
(* children.                                                               *)
(***************************************************************************)
ParentNode(f) ==
  LET current == nodes[f.node]
  IN  [leftChild |-> f.newLeft, rightChild |-> f.newRight,
       sum |-> Apply(current.lazy,
                     CheckedAdd(nodes[f.newLeft].sum, nodes[f.newRight].sum),
                     Length(f.segment)),
       lazy |-> current.lazy, segment |-> f.segment]

FinishedNode(f) ==
  IF call.op = "initialize" THEN BuiltNode(f)
  ELSE IF Covers(call.left, call.right, f.segment) THEN CoveredNode(f)
  ELSE ParentNode(f)

Computed(node) == node.sum # Overflow /\ node.lazy # Overflow

-----------------------------------------------------------------------------
(***************************************************************************)
(* Calls.                                                                  *)
(***************************************************************************)
BeginInitialize(values) ==
  /\ call = Idle
  /\ Len(roots) <= MaxReinitVersions
  /\ call' = [op |-> "initialize", values |-> values]
  /\ stack' = IF values = <<>> THEN <<>> ELSE <<BuildFrame(Root(Len(values)))>>
  /\ UNCHANGED <<nodes, roots, arraySize, bound, nextBound, newNodes>>

(***************************************************************************)
(* validateInitialized and validateRange; a call they reject changes       *)
(* nothing.                                                                *)
(***************************************************************************)
ValidRangeAdd(left, right) ==
  /\ roots # <<>>
  /\ left \in 1 .. arraySize /\ right \in left .. arraySize
  /\ Len(roots) < MaxVersions

(***************************************************************************)
(* The zero-delta path: the new version shares the latest root.            *)
(***************************************************************************)
RangeAddZero(left, right) ==
  /\ call = Idle
  /\ ValidRangeAdd(left, right)
  /\ 0 \in Deltas
  /\ roots' = Append(roots, roots[Len(roots)])
  /\ UNCHANGED <<nodes, arraySize, bound, nextBound, newNodes, call, stack>>

BeginRangeAdd(left, right, value) ==
  /\ call = Idle
  /\ ValidRangeAdd(left, right)
  /\ value # 0
  /\ LET latest == roots[Len(roots)]
         leaves == Materialize(latest)
     IN  /\ ValidateRangeAdd(bound, leaves, left, right, value)
         /\ call' = [op |-> "rangeAdd", left |-> left, right |-> right,
                     value |-> value, checkpoint |-> Len(nodes)]
         /\ nextBound' = NextBound(bound, leaves, left, right, value)
         /\ stack' = <<UpdateFrame(latest, Root(arraySize), left, right)>>
  /\ UNCHANGED <<nodes, roots, arraySize, bound, newNodes>>

(***************************************************************************)
(* The recursion descends into the left half first.                        *)
(***************************************************************************)
\* Seeded bug: both descents follow the left child.
ChildLeftOnly(f, side) == nodes[f.node].leftChild

Child(f, side) == IF side = "left" THEN nodes[f.node].leftChild
                  ELSE nodes[f.node].rightChild

Descend ==
  /\ stack # <<>>
  /\ Top.todo # {}
  /\ LET side == NextSide(Top)
         half == Half(Top.segment, side)
     IN  stack' = Append(stack,
                    IF call.op = "initialize" THEN BuildFrame(half)
                    ELSE UpdateFrame(Child(Top, side), half, call.left, call.right))
  /\ UNCHANGED <<nodes, roots, arraySize, bound, nextBound, newNodes, call>>

(***************************************************************************)
(* The innermost frame appends its node and hands the index to its caller. *)
(***************************************************************************)
Return ==
  /\ stack # <<>>
  /\ Top.todo = {}
  /\ Computed(FinishedNode(Top))
  /\ IF call.op = "initialize"
     THEN /\ newNodes' = Append(newNodes, FinishedNode(Top))
          /\ stack' = Resume(stack, Len(newNodes'))
          /\ UNCHANGED nodes
     ELSE /\ nodes' = Append(nodes, FinishedNode(Top))
          /\ stack' = Resume(stack, Len(nodes'))
          /\ UNCHANGED newNodes
  /\ UNCHANGED <<roots, arraySize, bound, nextBound, call>>

(***************************************************************************)
(* initialize swaps the finished replacement in.  The root of a tree is    *)
(* the last node of its construction.                                      *)
(***************************************************************************)
PublishInitial ==
  /\ call.op = "initialize"
  /\ stack = <<>>
  /\ nodes' = newNodes
  /\ roots' = <<Len(newNodes)>>
  /\ arraySize' = Len(call.values)
  /\ bound' = MaxMagnitude(call.values)
  /\ newNodes' = <<>>
  /\ call' = Idle
  /\ UNCHANGED <<nextBound, stack>>

\* Seeded bug: the guard's new bound is not committed.
PublishVersionUncommitted ==
  /\ call.op = "rangeAdd"
  /\ stack = <<>>
  /\ roots' = Append(roots, Len(nodes))
  /\ nextBound' = 0
  /\ call' = Idle
  /\ UNCHANGED <<nodes, arraySize, bound, newNodes, stack>>

PublishVersion ==
  /\ call.op = "rangeAdd"
  /\ stack = <<>>
  /\ roots' = Append(roots, Len(nodes))
  /\ bound' = nextBound
  /\ nextBound' = 0
  /\ call' = Idle
  /\ UNCHANGED <<nodes, arraySize, newNodes, stack>>

\* Seeded bug: an overflow below the root goes unreported.
OverflowsAtRoot ==
  Len(stack) = 1 /\ Top.todo = {} /\ ~Computed(FinishedNode(Top))

(***************************************************************************)
(* Exceptions: an unrepresentable result in the innermost frame, or a      *)
(* failed allocation: in the reserve before the first built node, in an    *)
(* append to the arena, or in the append of the root.                      *)
(***************************************************************************)
Overflows == stack # <<>> /\ Top.todo = {} /\ ~Computed(FinishedNode(Top))

Allocates ==
  \/ stack = <<>>
  \/ call.op = "initialize" /\ Len(stack) = 1 /\ newNodes = <<>>
  \/ call.op = "rangeAdd" /\ stack # <<>> /\ Top.todo = {}

\* Seeded bug: the arena is not rolled back.
ThrowKeepsNodes ==
  /\ call # Idle
  /\ Overflows \/ Allocates
  /\ nextBound' = 0
  /\ newNodes' = <<>>
  /\ stack' = <<>>
  /\ call' = Idle
  /\ UNCHANGED <<nodes, roots, arraySize, bound>>

\* Seeded bug: the arena is rolled back by one node too many.
ThrowCutsOneMore ==
  /\ call # Idle
  /\ Overflows \/ Allocates
  /\ nodes' = IF call.op = "rangeAdd" THEN SubSeq(nodes, 1, call.checkpoint - 1)
              ELSE nodes
  /\ nextBound' = 0
  /\ newNodes' = <<>>
  /\ stack' = <<>>
  /\ call' = Idle
  /\ UNCHANGED <<roots, arraySize, bound>>

(***************************************************************************)
(* The exception unwinds every frame.  rangeAdd's handler resizes the      *)
(* arena back to its checkpoint; initialize drops its replacement.         *)
(***************************************************************************)
Throw ==
  /\ call # Idle
  /\ Overflows \/ Allocates
  /\ nodes' = IF call.op = "rangeAdd" THEN SubSeq(nodes, 1, call.checkpoint)
              ELSE nodes
  /\ nextBound' = 0
  /\ newNodes' = <<>>
  /\ stack' = <<>>
  /\ call' = Idle
  /\ UNCHANGED <<roots, arraySize, bound>>

Step == Descend \/ Return \/ PublishInitial \/ PublishVersion \/ Throw

Next ==
  \/ \E values \in Arrays : BeginInitialize(values)
  \/ \E left, right \in 1 .. arraySize : RangeAddZero(left, right)
  \/ \E left, right \in 1 .. arraySize, value \in Deltas :
       BeginRangeAdd(left, right, value)
  \/ Step

(***************************************************************************)
(* A running call is executed: the one thread runs nothing else.           *)
(***************************************************************************)
Fairness == WF_vars(Step)

Spec == Init /\ [][Next]_vars /\ Fairness

-----------------------------------------------------------------------------
TypeOK ==
  /\ nodes \in Seq(Node)
  /\ roots \in Seq(Nat)
  /\ arraySize \in Nat
  /\ newNodes \in Seq(Node)
  /\ call \in Call
  /\ stack \in Seq(Frame)

-----------------------------------------------------------------------------
(***************************************************************************)
(* Every node of an arena is older than its parents, the children of a     *)
(* node of several elements cover its two halves, and its sum is that of   *)
(* its children plus its own tag for every element: update and build never *)
(* link a node of the wrong segment and never forget to add a tag.         *)
(***************************************************************************)
NodeOK(arena, i) ==
  LET node == arena[i]
  IN  IF IsLeaf(node.segment)
      THEN node.leftChild = NoNode /\ node.rightChild = NoNode
      ELSE /\ node.leftChild \in 1 .. i - 1
           /\ node.rightChild \in 1 .. i - 1
           /\ arena[node.leftChild].segment = LeftHalf(node.segment)
           /\ arena[node.rightChild].segment = RightHalf(node.segment)
           /\ node.sum = arena[node.leftChild].sum + arena[node.rightChild].sum
                         + node.lazy * Length(node.segment)

WellFormed(arena) == \A i \in DOMAIN arena : NodeOK(arena, i)

RootOK(root) ==
  IF arraySize = 0 THEN root = NoNode
  ELSE root \in DOMAIN nodes /\ nodes[root].segment = Root(arraySize)

TreesWellFormed ==
  /\ WellFormed(nodes)
  /\ WellFormed(newNodes)
  /\ \A v \in DOMAIN roots : RootOK(roots[v])

(***************************************************************************)
(* The recursion is always at a place the code can resume from: the frames *)
(* descend from the whole array by the halves still to do, an update's     *)
(* frame reads a published node of its own segment and meets the range,    *)
(* and each child a frame will link was made for, or shared with, the half *)
(* of the array it is linked for.                                          *)
(***************************************************************************)
CallSize == IF call.op = "initialize" THEN Len(call.values) ELSE arraySize

Arena == IF call.op = "initialize" THEN newNodes ELSE nodes

ChildOK(index, c) == index \in DOMAIN Arena /\ Arena[index].segment = c

BuildFrameOK(f) ==
  IF IsLeaf(f.segment)
  THEN f.todo = {} /\ f.newLeft = NoNode /\ f.newRight = NoNode
  ELSE /\ "left" \in f.todo \/ ChildOK(f.newLeft, LeftHalf(f.segment))
       /\ "right" \in f.todo \/ ChildOK(f.newRight, RightHalf(f.segment))

UpdateFrameOK(f) ==
  /\ f.node \in 1 .. call.checkpoint
  /\ nodes[f.node].segment = f.segment
  /\ ~Disjoint(call.left, call.right, f.segment)
  /\ Covers(call.left, call.right, f.segment) => f.todo = {}
  /\ ~IsLeaf(f.segment) =>
       /\ ChildOK(f.newLeft, LeftHalf(f.segment))
       /\ ChildOK(f.newRight, RightHalf(f.segment))
  /\ "left" \in f.todo => call.left <= Midpoint(f.segment)
  /\ "right" \in f.todo => call.right > Midpoint(f.segment)

FrameOK(f) ==
  /\ f.segment \in Interval(CallSize)
  /\ call.op = "initialize" => BuildFrameOK(f)
  /\ call.op = "rangeAdd" => UpdateFrameOK(f)

FrameInPlace(k) ==
  /\ FrameOK(stack[k])
  /\ IF k = 1 THEN stack[k].segment = Root(CallSize)
     ELSE /\ stack[k - 1].todo # {}
          /\ stack[k].segment
               = Half(stack[k - 1].segment, NextSide(stack[k - 1]))

FramesOK == \A k \in DOMAIN stack : FrameInPlace(k)

CallOK ==
  /\ call.op = "idle" => stack = <<>>
  /\ call.op # "initialize" => newNodes = <<>>
  /\ call.op = "initialize" =>
       IF call.values = <<>> THEN stack = <<>> /\ newNodes = <<>>
       ELSE stack = <<>> => ChildOK(Len(newNodes), Root(CallSize))
  /\ call.op = "rangeAdd" =>
       /\ call.left <= call.right /\ call.right <= arraySize
       /\ call.checkpoint <= Len(nodes)
       /\ \A v \in DOMAIN roots : roots[v] <= call.checkpoint
       /\ stack = <<>> => ChildOK(Len(nodes), Root(CallSize))

ControlConsistent == CallOK /\ FramesOK

(***************************************************************************)
(* The arrays the published versions stand for, and the reference they     *)
(* must agree with at every moment, also while a call runs or fails:       *)
(* versions appear only as the reference makes them, from the latest one   *)
(* and as the call asked for, and never change.                            *)
(***************************************************************************)
Versions == [v \in DOMAIN roots |-> Materialize(roots[v])]

Reference == INSTANCE BruteForceArray WITH versions <- Versions

PublishesAsAsked ==
  /\ PublishInitial => Reference!Initialize(call.values)
  /\ PublishVersion =>
       Reference!RangeAdd(Len(roots), call.left, call.right, call.value)

ImplementsBruteForceArray ==
  Reference!LatestSpec /\ [][PublishesAsAsked]_vars

(***************************************************************************)
(* A range sum of any published version is exact or reports an overflow:   *)
(* retained tags are counted once for every element, whatever range is     *)
(* asked and however many updates have been published since.               *)
(***************************************************************************)
Ranges == {range \in (1 .. arraySize) \X (1 .. arraySize) : range[1] <= range[2]}

QueriesExact ==
  \A v \in DOMAIN roots, range \in Ranges :
    RangeSum(v, range[1], range[2])
      \in {ExactSum(Versions[v], range[1], range[2]), Overflow}

(***************************************************************************)
(* What the header promises of a query: it reports an overflow only when   *)
(* the requested sum itself is not representable.                          *)
(***************************************************************************)
RepresentableSumsAnswered ==
  \A v \in DOMAIN roots, range \in Ranges :
    LET exact == ExactSum(Versions[v], range[1], range[2])
    IN  Representable(exact) => RangeSum(v, range[1], range[2]) = exact

(***************************************************************************)
(* The guard's scalar bound is sound: it bounds the elements of the latest *)
(* version between calls, also after any mixture of scalar and exact       *)
(* admissions, and every published version is admissible, the ones the     *)
(* bound alone admitted included.  So no element is ever lost to an        *)
(* overflow of the tags above it, which the preflight adds up unlooked at: *)
(* its own traversal cannot fail.  The bound the running update will       *)
(* commit fits its 64 bits too.                                            *)
(***************************************************************************)
EnvelopeSound ==
  /\ bound \in Bound /\ nextBound \in Bound
  /\ \A v \in DOMAIN roots :
       Admissible(Versions[v]) /\ \A p \in 1 .. arraySize : Versions[v][p] # Overflow
  /\ roots # <<>> => MaxMagnitude(Versions[Len(roots)]) <= bound

(***************************************************************************)
(* Between calls the arena holds no node that belongs to no version: a     *)
(* call that failed half-way has given all its nodes back.                 *)
(***************************************************************************)
NoOrphans ==
  call = Idle =>
    \A i \in DOMAIN nodes :
      \/ \E v \in DOMAIN roots : roots[v] = i
      \/ \E j \in DOMAIN nodes : i \in {nodes[j].leftChild, nodes[j].rightChild}

(***************************************************************************)
(* The nodes of the published versions: all of the arena but the ones the  *)
(* running update has appended.                                            *)
(***************************************************************************)
Published == IF call.op = "rangeAdd" THEN call.checkpoint ELSE Len(nodes)

(***************************************************************************)
(* No step but a completed initialize overwrites, moves or drops a node of *)
(* a published version, or removes or redirects a version.                 *)
(***************************************************************************)
PublishedNodesKept ==
  /\ Published' >= Published
  /\ \A i \in 1 .. Published : nodes'[i] = nodes[i]
  /\ \A v \in DOMAIN roots : v \in DOMAIN roots' /\ roots'[v] = roots[v]

PublishedImmutable == [][PublishInitial \/ PublishedNodesKept]_vars

(***************************************************************************)
(* Every call returns, normally or by an exception.                        *)
(***************************************************************************)
CallsReturn == (call # Idle) ~> (call = Idle)

=============================================================================
