--------------------- MODULE FatNodePersistentSegmentTree ---------------------
(***************************************************************************)
(* src/fat_node_persistent_segment_tree.cpp: every node keeps up to        *)
(* HISTORY_CAPACITY states, each stamped with the version it was made for. *)
(* An update appends a state to each node it visits, in place, and only a  *)
(* node whose history is full is replaced by a fresh one.  In-place writes *)
(* cannot be undone by cutting the arena, so the update validates all its  *)
(* arithmetic and reserves all its memory before the first of them.        *)
(*                                                                         *)
(* rangeAdd is modelled one recorded state at a time.  initialize works on *)
(* locals until it swaps them in, which cannot fail, and is one step.      *)
(* Node index i + 1 stands for the code's index i, NoNode for noNode, and  *)
(* version and stamp v + 1 for the code's v.                               *)
(***************************************************************************)
EXTENDS SumAddDomain, TreeRecursion, SequencesExt

CONSTANTS Arrays,              \* the arrays initialize is called with
          Deltas,              \* the values rangeAdd is called with
          MaxVersions,         \* bound of the model: most versions published
          MaxReinitVersions    \* bound of the model: initialize is called
                               \* while at most this many are published

ASSUME ArraysAssumption == Arrays \subseteq Seq(Value)
ASSUME DeltasAssumption == Deltas \subseteq Value
ASSUME MaxVersionsAssumption ==
  MaxVersions \in Nat /\ MaxReinitVersions \in Nat

HISTORY_CAPACITY == 3

VARIABLES
  nodes,          \* the arena: the history of each node
  roots,          \* roots[v] is the root of version v
  capacity,       \* nodes.capacity()
  rootCapacity,   \* roots.capacity()
  arraySize,      \* number of elements in every version
  bound,          \* numericDomain.magnitudeBound
  call,           \* the running rangeAdd
  stack           \* its active frames of update, the innermost last

vars == <<nodes, roots, capacity, rootCapacity, arraySize, bound, call, stack>>

Idle == [phase |-> "idle"]

Modification == [version : Nat, leftChild : Nat, rightChild : Nat,
                 sum : Value, lazy : Value]

Call ==
  {Idle} \cup [phase : {"reserve", "update"}, left : Nat \ {0}, right : Nat,
               value : Deltas, version : Nat, root : Nat, nextBound : Bound]

Init ==
  /\ nodes = <<>>
  /\ roots = <<>>
  /\ capacity = 0
  /\ rootCapacity = 0
  /\ arraySize = 0
  /\ bound = 0
  /\ call = Idle
  /\ stack = <<>>

-----------------------------------------------------------------------------
\* Seeded bug: a state is read one version too late.
StateBefore(node, version) ==
  node[Max({1} \cup {k \in DOMAIN node : node[k].version < version})]

(***************************************************************************)
(* stateAt: the last state whose stamp is not greater than the version;    *)
(* and latestState.                                                        *)
(***************************************************************************)
StateAt(node, version) == node[Max({k \in DOMAIN node : node[k].version <= version})]

LatestState(node) == Last(node)

(***************************************************************************)
(* The state of the node at an index, at a version or the latest one.  No  *)
(* index in use lies outside the arena, and no node is read at a version   *)
(* it has no state for.                                                    *)
(***************************************************************************)
LiveAt(i, version) == i \in DOMAIN nodes /\ nodes[i][1].version <= version

Seen(i, version) ==
  IF LiveAt(i, version) THEN StateAt(nodes[i], version)
  ELSE CHOOSE state \in Modification : TRUE

Latest(i) ==
  IF i \in DOMAIN nodes THEN LatestState(nodes[i])
  ELSE CHOOSE state \in Modification : TRUE

(***************************************************************************)
(* A visit holds the parameters of the recursions: inherited adds up the   *)
(* tags of the ancestors, where they are needed.                           *)
(***************************************************************************)
Visit == [node : Nat, segment : Interval(arraySize), inherited : Int]

RootVisit(root) == [node |-> root, segment |-> Root(arraySize), inherited |-> 0]

LeftVisit(at, state, inherited) ==
  [node |-> state.leftChild, segment |-> LeftHalf(at.segment), inherited |-> inherited]

RightVisit(at, state, inherited) ==
  [node |-> state.rightChild, segment |-> RightHalf(at.segment), inherited |-> inherited]

\* Seeded bug: only the nearest ancestor's tag reaches a covered segment.
QueryForgetsAncestors(root, version, left, right) ==
  LET sum[at \in Visit] ==
        LET current == Seen(at.node, version)
        IN  IF Disjoint(left, right, at.segment) THEN 0
            ELSE IF Covers(left, right, at.segment)
                 THEN Apply(at.inherited, current.sum, Length(at.segment))
                 ELSE CheckedAdd(sum[LeftVisit(at, current, current.lazy)],
                                 sum[RightVisit(at, current, current.lazy)])
  IN  sum[RootVisit(root)]

Query(root, version, left, right) ==
  LET sum[at \in Visit] ==
        LET current == Seen(at.node, version)
            nextLazy == CheckedAdd(at.inherited, current.lazy)
        IN  IF Disjoint(left, right, at.segment) THEN 0
            ELSE IF Covers(left, right, at.segment)
                 THEN Apply(at.inherited, current.sum, Length(at.segment))
                 ELSE CheckedAdd(sum[LeftVisit(at, current, nextLazy)],
                                 sum[RightVisit(at, current, nextLazy)])
  IN  sum[RootVisit(root)]

(***************************************************************************)
(* materialize reads the latest states of the latest version.              *)
(***************************************************************************)
Materialize(root) ==
  LET leaves[at \in Visit] ==
        LET current == Latest(at.node)
            nextLazy == CheckedAdd(at.inherited, current.lazy)
        IN  IF IsLeaf(at.segment) THEN <<Apply(at.inherited, current.sum, 1)>>
            ELSE leaves[LeftVisit(at, current, nextLazy)]
                 \o leaves[RightVisit(at, current, nextLazy)]
  IN  IF arraySize = 0 THEN <<>> ELSE leaves[RootVisit(root)]

RangeSum(version, left, right) == Query(roots[version], version, left, right)

(***************************************************************************)
(* build: the nodes of a segment, children first, on top of an arena that  *)
(* holds offset nodes; a subtree's root is its last node.                  *)
(***************************************************************************)
Built(values) ==
  LET tree[c \in Interval(Len(values))] ==
        IF IsLeaf(c)
        THEN [offset \in Nat |->
                <<<<[version |-> 1, leftChild |-> NoNode, rightChild |-> NoNode,
                     sum |-> values[c[1]], lazy |-> 0]>>>>]
        ELSE [offset \in Nat |->
                LET leftTree == tree[LeftHalf(c)][offset]
                    leftRoot == offset + Len(leftTree)
                    rightTree == tree[RightHalf(c)][leftRoot]
                    rightRoot == leftRoot + Len(rightTree)
                IN  leftTree \o rightTree
                    \o <<<<[version |-> 1, leftChild |-> leftRoot, rightChild |-> rightRoot,
                            sum |-> CheckedAdd(Last(leftTree)[1].sum,
                                               Last(rightTree)[1].sum),
                            lazy |-> 0]>>>>]
  IN  IF values = <<>> THEN <<>> ELSE tree[Root(Len(values))][0]

(***************************************************************************)
(* validateUpdate: the arithmetic of update without its writes.  A half    *)
(* the update does not descend to counts with the sum it has.              *)
(***************************************************************************)
ValidateUpdate(root, left, right, value) ==
  LET sum[at \in Visit] ==
        LET current == Latest(at.node)
        IN  IF Disjoint(left, right, at.segment) THEN current.sum
            ELSE IF Covers(left, right, at.segment)
                 THEN IF CheckedAdd(current.lazy, value) = Overflow THEN Overflow
                      ELSE Apply(value, current.sum, Length(at.segment))
                 ELSE Apply(current.lazy,
                            CheckedAdd(sum[LeftVisit(at, current, 0)],
                                       sum[RightVisit(at, current, 0)]),
                            Length(at.segment))
  IN  sum[RootVisit(root)] # Overflow

-----------------------------------------------------------------------------
UpdateFrame(i, c, left, right) ==
  LET current == LatestState(nodes[i])
  IN  [segment |-> c, node |-> i,
       newLeft |-> current.leftChild, newRight |-> current.rightChild,
       todo |-> IF Covers(left, right, c) THEN {} ELSE MeetingSides(c, left, right)]

Top == stack[Len(stack)]

Child(f, side) == IF side = "left" THEN f.newLeft ELSE f.newRight

\* Seeded bug: a copied child is not linked.
NextStateOldLinks(f) ==
  LET current == LatestState(nodes[f.node])
      covered == Covers(call.left, call.right, f.segment)
  IN  [version |-> call.version,
       leftChild |-> current.leftChild, rightChild |-> current.rightChild,
       sum |-> IF covered THEN Apply(call.value, current.sum, Length(f.segment))
               ELSE Apply(current.lazy,
                          CheckedAdd(LatestState(nodes[f.newLeft]).sum,
                                     LatestState(nodes[f.newRight]).sum),
                          Length(f.segment)),
       lazy |-> IF covered THEN CheckedAdd(current.lazy, call.value) ELSE current.lazy]

(***************************************************************************)
(* The state update records in the node of a frame.                        *)
(***************************************************************************)
NextState(f) ==
  LET current == LatestState(nodes[f.node])
      covered == Covers(call.left, call.right, f.segment)
  IN  [version |-> call.version, leftChild |-> f.newLeft, rightChild |-> f.newRight,
       sum |-> IF covered THEN Apply(call.value, current.sum, Length(f.segment))
               ELSE Apply(current.lazy,
                          CheckedAdd(LatestState(nodes[f.newLeft]).sum,
                                     LatestState(nodes[f.newRight]).sum),
                          Length(f.segment)),
       lazy |-> IF covered THEN CheckedAdd(current.lazy, call.value) ELSE current.lazy]

Computed(state) == state.sum # Overflow /\ state.lazy # Overflow

\* Seeded bug: one state too many is kept in a node.
HasRoomForOneMore(node) == Len(node) <= HISTORY_CAPACITY

HasRoom(node) == Len(node) < HISTORY_CAPACITY

-----------------------------------------------------------------------------
Initialize(values) ==
  /\ call = Idle
  /\ Len(roots) <= MaxReinitVersions
  /\ Admissible(values)
  /\ nodes' = Built(values)
  /\ roots' = <<Len(nodes')>>
  /\ capacity' = CanonicalNodeCount(Len(values))
  /\ rootCapacity' = 1
  /\ arraySize' = Len(values)
  /\ bound' = MaxMagnitude(values)
  /\ UNCHANGED <<call, stack>>

ValidRangeAdd(left, right) ==
  /\ call = Idle
  /\ roots # <<>>
  /\ left \in 1 .. arraySize /\ right \in left .. arraySize
  /\ Len(roots) < MaxVersions

(***************************************************************************)
(* A push to the roots doubles their capacity when it is used up.          *)
(***************************************************************************)
GrownRoots == IF Len(roots) < rootCapacity THEN rootCapacity ELSE 2 * rootCapacity

RangeAddZero(left, right) ==
  /\ ValidRangeAdd(left, right)
  /\ 0 \in Deltas
  /\ roots' = Append(roots, Last(roots))
  /\ rootCapacity' = GrownRoots
  /\ UNCHANGED <<nodes, capacity, arraySize, bound, call, stack>>

(***************************************************************************)
(* rangeAdd up to the reservation: guard and dry run.                      *)
(***************************************************************************)
BeginRangeAdd(left, right, value) ==
  LET leaves == Materialize(Last(roots))
  IN  /\ ValidRangeAdd(left, right)
      /\ value # 0
      /\ ValidateRangeAdd(bound, leaves, left, right, value)
      /\ ValidateUpdate(Last(roots), left, right, value)
      /\ call' = [phase |-> "reserve", left |-> left, right |-> right, value |-> value,
                  version |-> Len(roots) + 1, root |-> NoNode,
                  nextBound |-> NextBound(bound, leaves, left, right, value)]
      /\ UNCHANGED <<nodes, roots, capacity, rootCapacity, arraySize, bound, stack>>

(***************************************************************************)
(* reserveForUpdate, for every node of the worst update and one root; then *)
(* the update starts.                                                      *)
(***************************************************************************)
VisitLimit == 4 * (Height(arraySize) + 1)

GrownNodes == IF capacity - Len(nodes) < VisitLimit
              THEN Max({2 * capacity, Len(nodes) + VisitLimit}) ELSE capacity

\* Seeded bug: no room is reserved for copied nodes.
ReserveRootsOnly ==
  /\ call.phase = "reserve"
  /\ rootCapacity' = GrownRoots
  /\ call' = [call EXCEPT !.phase = "update"]
  /\ stack' = <<UpdateFrame(Last(roots), Root(arraySize), call.left, call.right)>>
  /\ UNCHANGED <<nodes, roots, capacity, arraySize, bound>>

Reserve ==
  /\ call.phase = "reserve"
  /\ capacity' = GrownNodes
  /\ rootCapacity' = GrownRoots
  /\ call' = [call EXCEPT !.phase = "update"]
  /\ stack' = <<UpdateFrame(Last(roots), Root(arraySize), call.left, call.right)>>
  /\ UNCHANGED <<nodes, roots, arraySize, bound>>

Descend ==
  /\ stack # <<>>
  /\ Top.todo # {}
  /\ LET side == NextSide(Top)
     IN  stack' = Append(stack, UpdateFrame(Child(Top, side), Half(Top.segment, side),
                                            call.left, call.right))
  /\ UNCHANGED <<nodes, roots, capacity, rootCapacity, arraySize, bound, call>>

Finishing == stack # <<>> /\ Top.todo = {} /\ Computed(NextState(Top))

ReturnIndex(index) ==
  /\ stack' = Resume(stack, index)
  /\ call' = IF Len(stack) = 1 THEN [call EXCEPT !.root = index] ELSE call
  /\ UNCHANGED <<roots, capacity, rootCapacity, arraySize, bound>>

(***************************************************************************)
(* record: in place, the node keeping its index, or in a fresh node.       *)
(***************************************************************************)
RecordInPlace ==
  /\ Finishing
  /\ HasRoom(nodes[Top.node])
  /\ nodes' = [nodes EXCEPT ![Top.node] = Append(@, NextState(Top))]
  /\ ReturnIndex(Top.node)

RecordInCopy ==
  /\ Finishing
  /\ ~HasRoom(nodes[Top.node])
  /\ Len(nodes) < capacity
  /\ nodes' = Append(nodes, <<NextState(Top)>>)
  /\ ReturnIndex(Len(nodes'))

Publish ==
  /\ call.phase = "update"
  /\ stack = <<>>
  /\ Len(roots) < rootCapacity
  /\ roots' = Append(roots, call.root)
  /\ bound' = call.nextBound
  /\ call' = Idle
  /\ UNCHANGED <<nodes, capacity, rootCapacity, arraySize, stack>>

(***************************************************************************)
(* Exceptions: one of the two reservations may fail, the first perhaps     *)
(* made; an overflow, or an append beyond what was reserved, would leave   *)
(* states behind that nothing takes back.                                  *)
(***************************************************************************)
ReservationFails ==
  \/ GrownNodes # capacity /\ UNCHANGED capacity
  \/ GrownRoots # rootCapacity /\ capacity' = GrownNodes

OutOfRoom ==
  \/ stack # <<>> /\ Top.todo = {} /\ ~HasRoom(nodes[Top.node]) /\ Len(nodes) >= capacity
  \/ stack = <<>> /\ Len(roots) >= rootCapacity

Overflows == stack # <<>> /\ Top.todo = {} /\ ~Computed(NextState(Top))

Throw ==
  /\ \/ call.phase = "reserve" /\ ReservationFails
     \/ call.phase = "update" /\ (OutOfRoom \/ Overflows) /\ UNCHANGED capacity
  /\ call' = Idle
  /\ stack' = <<>>
  /\ UNCHANGED <<nodes, roots, rootCapacity, arraySize, bound>>

Step == Reserve \/ Descend \/ RecordInPlace \/ RecordInCopy \/ Publish \/ Throw

Next ==
  \/ \E values \in Arrays : Initialize(values)
  \/ \E left, right \in 1 .. arraySize : RangeAddZero(left, right)
  \/ \E left, right \in 1 .. arraySize, value \in Deltas :
       BeginRangeAdd(left, right, value)
  \/ Step

Spec == Init /\ [][Next]_vars

-----------------------------------------------------------------------------
TypeOK ==
  /\ nodes \in Seq(Seq(Modification))
  /\ roots \in Seq(Nat)
  /\ capacity \in Nat /\ rootCapacity \in Nat
  /\ arraySize \in Nat
  /\ bound \in Bound
  /\ call \in Call
  /\ stack \in Seq(Frame)

(***************************************************************************)
(* All state is of its type, a node's states fit its slots, and their      *)
(* stamps increase strictly, which the binary search of stateAt relies on. *)
(***************************************************************************)
StampsIncrease ==
  /\ TypeOK
  /\ \A i \in DOMAIN nodes :
       /\ Len(nodes[i]) \in 1 .. HISTORY_CAPACITY
       /\ \A k \in 2 .. Len(nodes[i]) : nodes[i][k - 1].version < nodes[i][k].version

(***************************************************************************)
(* Every published version is a whole tree when its nodes are read at that *)
(* version, also while an update writes to them: no node is reached that   *)
(* has no state yet at that version, and each sum is that of the children  *)
(* plus the node's own tag for every element.                              *)
(***************************************************************************)
ConsistentAt(v) ==
  LET consistent[at \in Visit] ==
        LET current == Seen(at.node, v)
            leftAt == LeftVisit(at, current, 0)
            rightAt == RightVisit(at, current, 0)
        IN  /\ LiveAt(at.node, v)
            /\ ~IsLeaf(at.segment) =>
                 /\ consistent[leftAt]
                 /\ consistent[rightAt]
                 /\ current.sum = Seen(leftAt.node, v).sum + Seen(rightAt.node, v).sum
                                  + current.lazy * Length(at.segment)
  IN  arraySize = 0 \/ consistent[RootVisit(roots[v])]

SnapshotsConsistent == \A v \in DOMAIN roots : ConsistentAt(v)

(***************************************************************************)
(* The published versions, each read at its stamp in exact integers, and   *)
(* the reference they must agree with at every moment: no in-place state   *)
(* of a running update is visible, and each version is the one asked for.  *)
(***************************************************************************)
Elements(v) ==
  LET leaves[at \in Visit] ==
        LET current == Seen(at.node, v)
            nextLazy == at.inherited + current.lazy
        IN  IF IsLeaf(at.segment) THEN <<at.inherited + current.sum>>
            ELSE leaves[LeftVisit(at, current, nextLazy)]
                 \o leaves[RightVisit(at, current, nextLazy)]
  IN  IF arraySize = 0 THEN <<>> ELSE leaves[RootVisit(roots[v])]

Versions == [v \in DOMAIN roots |-> Elements(v)]

Reference == INSTANCE BruteForceArray WITH versions <- Versions

PublishesAsAsked ==
  Publish => Reference!RangeAdd(Len(roots), call.left, call.right, call.value)

ImplementsBruteForceArray ==
  Reference!LatestSpec /\ [][PublishesAsAsked]_vars

(***************************************************************************)
(* A range sum of any version is exact or reports an overflow, whatever    *)
(* newer states its nodes hold.                                            *)
(***************************************************************************)
QueriesExact ==
  \A v \in DOMAIN roots : \A right \in 1 .. arraySize : \A left \in 1 .. right :
    RangeSum(v, left, right) \in {ExactSum(Versions[v], left, right), Overflow}

(***************************************************************************)
(* Nothing throws once the update has begun to write: the dry run has met  *)
(* every overflow and the reservation covers every node it can copy.       *)
(***************************************************************************)
ThrowsBeforeMutation == [][Throw => call.phase = "reserve"]_vars

=============================================================================
