-------------------- MODULE BufferedPathCopyingSegmentTree --------------------
(***************************************************************************)
(* src/buffered_path_copying_segment_tree.cpp: path copying in which a     *)
(* node first absorbs up to two changes in place, as buffer entries that   *)
(* carry the version that made them, and is copied only when its buffer is *)
(* full or a child of it was copied.  Readers of a version ignore younger  *)
(* entries, so published nodes are written to although no version changes; *)
(* a failed update has to take its entries back as well as its copies.     *)
(*                                                                         *)
(* initialize and rangeAdd are modelled one finished frame of build or     *)
(* update at a time, as in PersistentLazySegmentTree.  Index i + 1 stands  *)
(* for the code's node index i, and version v + 1 for its version v.       *)
(***************************************************************************)
EXTENDS SumAddDomain, TreeRecursion, SequencesExt

CONSTANTS Arrays,              \* the arrays initialize is called with
          Deltas,              \* the values rangeAdd is called with
          MaxVersions,         \* bound of the model: most versions published
          MaxReinitVersions    \* bound of the model: initialize is called
                               \* while at most this many are published

ASSUME ArraysAssumption == Arrays \subseteq Seq(Value)
ASSUME DeltasAssumption == Deltas \subseteq Value
ASSUME MaxVersionsAssumption ==
  MaxVersions \in Nat /\ MaxReinitVersions \in Nat

VARIABLES
  nodes,               \* the arena
  roots,               \* roots[v] is the root of version v
  arraySize,           \* number of elements in every version
  bound,               \* numericDomain.magnitudeBound
  nextBound,           \* rangeAdd's local nextMagnitudeBound, 0 when none runs
  newNodes,            \* the arena initialize builds beside the published one
  bufferedThisUpdate,  \* the nodes the latest update wrote an entry to
  call,                \* the running call
  stack,               \* its active frames of build or update, the innermost last
  returned             \* what the latest frame to finish returned

vars == <<nodes, roots, arraySize, bound, nextBound, newNodes,
          bufferedThisUpdate, call, stack, returned>>

published == <<roots, arraySize, bound>>

BufferCapacity == 2

Modification == [version : Nat, deltaSum : Value, deltaLazy : Value]

(***************************************************************************)
(* A node.  The entries up to bufferSize are a sequence here; segment is   *)
(* history, the segment the node was made for.                             *)
(***************************************************************************)
Node == [leftChild : Nat, rightChild : Nat, baseSum : Value, baseLazy : Value,
         buffer : Seq(Modification), segment : Nat \X Nat]

Idle == [op |-> "idle"]

Call ==
  {Idle}
  \cup [op : {"initialize"}, values : Arrays]
  \cup [op : {"rangeAdd"}, left : Nat \ {0}, right : Nat, value : Deltas,
        version : Nat, checkpoint : Nat]

Init ==
  /\ nodes = <<>>
  /\ roots = <<>>
  /\ arraySize = 0
  /\ bound = 0
  /\ nextBound = 0
  /\ newNodes = <<>>
  /\ bufferedThisUpdate = <<>>
  /\ call = Idle
  /\ stack = <<>>
  /\ returned = NoNode

-----------------------------------------------------------------------------
\* Seeded bug: every entry is read, whatever version is asked for.
SnapshotAtLatest(node, version) ==
  LET state[k \in 0 .. Len(node.buffer)] ==
        IF k = 0 THEN [sum |-> node.baseSum, lazy |-> node.baseLazy]
        ELSE [sum  |-> CheckedAdd(state[k - 1].sum, node.buffer[k].deltaSum),
              lazy |-> CheckedAdd(state[k - 1].lazy, node.buffer[k].deltaLazy)]
  IN  state[Len(node.buffer)]

(***************************************************************************)
(* snapshotAt: the sum and the tag of a node as read at a version.         *)
(***************************************************************************)
SnapshotAt(node, version) ==
  LET state[k \in 0 .. Len(node.buffer)] ==
        IF k = 0 THEN [sum |-> node.baseSum, lazy |-> node.baseLazy]
        ELSE IF node.buffer[k].version > version THEN state[k - 1]
        ELSE [sum  |-> CheckedAdd(state[k - 1].sum, node.buffer[k].deltaSum),
              lazy |-> CheckedAdd(state[k - 1].lazy, node.buffer[k].deltaLazy)]
  IN  state[Len(node.buffer)]

Readable(snapshot) == snapshot.sum # Overflow /\ snapshot.lazy # Overflow

(***************************************************************************)
(* The node at an index; no index in use lies outside the arena.           *)
(***************************************************************************)
NodeAt(i) == IF i \in DOMAIN nodes THEN nodes[i] ELSE CHOOSE node \in Node : TRUE

(***************************************************************************)
(* Reading a version.  A snapshot that cannot be computed is an overflow   *)
(* of the read, also where only its other field is used.                   *)
(***************************************************************************)
Covered(snapshot, inherited, length) ==
  IF Readable(snapshot) THEN Apply(inherited, snapshot.sum, length) ELSE Overflow

Below(snapshot, inherited) ==
  IF Readable(snapshot) THEN CheckedAdd(inherited, snapshot.lazy) ELSE Overflow

(***************************************************************************)
(* A visit holds the parameters of the recursion: inherited adds up the    *)
(* tags of the ancestors of node, as they are read at the version.         *)
(***************************************************************************)
Visit == [node : Nat, segment : Interval(arraySize), inherited : Int]

RootVisit(root) == [node |-> root, segment |-> Root(arraySize), inherited |-> 0]

Seen(at, version) == SnapshotAt(NodeAt(at.node), version)

LeftVisit(at, nextLazy) ==
  [node |-> NodeAt(at.node).leftChild, segment |-> LeftHalf(at.segment),
   inherited |-> nextLazy]

RightVisit(at, nextLazy) ==
  [node |-> NodeAt(at.node).rightChild, segment |-> RightHalf(at.segment),
   inherited |-> nextLazy]

Query(root, version, left, right) ==
  LET sum[at \in Visit] ==
        LET nextLazy == Below(Seen(at, version), at.inherited)
        IN  IF Disjoint(left, right, at.segment) THEN 0
            ELSE IF Covers(left, right, at.segment)
                 THEN Covered(Seen(at, version), at.inherited, Length(at.segment))
                 ELSE CheckedAdd(sum[LeftVisit(at, nextLazy)], sum[RightVisit(at, nextLazy)])
  IN  sum[RootVisit(root)]

Materialize(root, version) ==
  LET leaves[at \in Visit] ==
        LET nextLazy == Below(Seen(at, version), at.inherited)
        IN  IF IsLeaf(at.segment) THEN <<Covered(Seen(at, version), at.inherited, 1)>>
            ELSE leaves[LeftVisit(at, nextLazy)] \o leaves[RightVisit(at, nextLazy)]
  IN  IF arraySize = 0 THEN <<>> ELSE leaves[RootVisit(root)]

(***************************************************************************)
(* rangeSum(version, left, right).                                         *)
(***************************************************************************)
RangeSum(version, left, right) == Query(roots[version], version, left, right)

-----------------------------------------------------------------------------
(***************************************************************************)
(* The frames of update.                                                   *)
(***************************************************************************)
UpdateFrame(i, c, left, right) ==
  [segment |-> c, node |-> i,
   newLeft |-> nodes[i].leftChild, newRight |-> nodes[i].rightChild,
   todo |-> IF Covers(left, right, c) THEN {} ELSE MeetingSides(c, left, right)]

Top == stack[Len(stack)]

BuiltNode(f) ==
  [leftChild |-> f.newLeft, rightChild |-> f.newRight,
   baseSum |-> IF IsLeaf(f.segment) THEN call.values[f.segment[1]]
               ELSE CheckedAdd(newNodes[f.newLeft].baseSum,
                               newNodes[f.newRight].baseSum),
   baseLazy |-> 0, buffer |-> <<>>, segment |-> f.segment]

(***************************************************************************)
(* The elements of a segment that the update changes.                      *)
(***************************************************************************)
Overlap(c) ==
  Min({c[2], call.right}) - Max({c[1], call.left}) + 1

(***************************************************************************)
(* What an update changes in a node it visits: a covered node takes the    *)
(* delta for every element and keeps it as a tag, a partly covered one     *)
(* takes it for the elements of the range only.                            *)
(***************************************************************************)
Change(f) ==
  [version |-> call.version,
   deltaSum |-> CheckedMultiply(call.value, CheckedLength(Overlap(f.segment))),
   deltaLazy |-> IF Covers(call.left, call.right, f.segment) THEN call.value ELSE 0]

(***************************************************************************)
(* The latest state of the node of a frame, with the change applied.       *)
(***************************************************************************)
Changed(f) ==
  LET latest == SnapshotAt(nodes[f.node], call.version)
  IN  [sum |-> CheckedAdd(latest.sum, Change(f).deltaSum),
       lazy |-> CheckedAdd(latest.lazy, Change(f).deltaLazy)]

\* Seeded bug: a node whose child was copied still changes in place.
AbsorbsForgettingCopies(f) == Len(nodes[f.node].buffer) < BufferCapacity

\* Seeded bug: one entry too many is buffered.
AbsorbsOneMore(f) ==
  /\ f.newLeft = nodes[f.node].leftChild /\ f.newRight = nodes[f.node].rightChild
  /\ Len(nodes[f.node].buffer) <= BufferCapacity

(***************************************************************************)
(* A node changes in place when it has a free slot and none of its         *)
(* children was copied.                                                    *)
(***************************************************************************)
Absorbs(f) ==
  /\ f.newLeft = nodes[f.node].leftChild /\ f.newRight = nodes[f.node].rightChild
  /\ Len(nodes[f.node].buffer) < BufferCapacity

\* Seeded bug: the copy keeps only the base fields and the new change.
CopiedNodeUnflushed(f) ==
  [leftChild |-> f.newLeft, rightChild |-> f.newRight,
   baseSum |-> CheckedAdd(nodes[f.node].baseSum, Change(f).deltaSum),
   baseLazy |-> CheckedAdd(nodes[f.node].baseLazy, Change(f).deltaLazy),
   buffer |-> <<>>, segment |-> f.segment]

(***************************************************************************)
(* The copy of a node, its buffer flushed.                                 *)
(***************************************************************************)
CopiedNode(f) ==
  [leftChild |-> f.newLeft, rightChild |-> f.newRight,
   baseSum |-> Changed(f).sum, baseLazy |-> Changed(f).lazy,
   buffer |-> <<>>, segment |-> f.segment]

(***************************************************************************)
(* The arithmetic of the innermost frame, all of it representable.         *)
(***************************************************************************)
Computed(f) ==
  IF call.op = "initialize" THEN BuiltNode(f).baseSum # Overflow
  ELSE Readable(Changed(f))

-----------------------------------------------------------------------------
(***************************************************************************)
(* Calls.                                                                  *)
(***************************************************************************)
BeginInitialize(values) ==
  /\ call = Idle
  /\ Len(roots) <= MaxReinitVersions
  /\ call' = [op |-> "initialize", values |-> values]
  /\ stack' = IF values = <<>> THEN <<>> ELSE <<BuildFrame(Root(Len(values)))>>
  /\ UNCHANGED <<nodes, published, nextBound, newNodes, bufferedThisUpdate, returned>>

ValidRangeAdd(left, right) ==
  /\ roots # <<>>
  /\ left \in 1 .. arraySize /\ right \in left .. arraySize
  /\ Len(roots) < MaxVersions

(***************************************************************************)
(* The zero-delta path: the new version shares the latest root, whatever   *)
(* the range, which is only validated; that of the first element is valid  *)
(* whenever one is.                                                        *)
(***************************************************************************)
RangeAddZero ==
  /\ call = Idle
  /\ ValidRangeAdd(1, 1)
  /\ 0 \in Deltas
  /\ roots' = Append(roots, roots[Len(roots)])
  /\ UNCHANGED <<nodes, arraySize, bound, nextBound, newNodes,
                 bufferedThisUpdate, call, stack, returned>>

(***************************************************************************)
(* rangeAdd, up to and with the call of update: the preflight reads the    *)
(* latest version; the record of in-place writes is cleared.               *)
(***************************************************************************)
BeginRangeAdd(left, right, value) ==
  /\ call = Idle
  /\ ValidRangeAdd(left, right)
  /\ value # 0
  /\ LET latest == roots[Len(roots)]
         leaves == Materialize(latest, Len(roots))
     IN  /\ ValidateRangeAdd(bound, leaves, left, right, value)
         /\ call' = [op |-> "rangeAdd", left |-> left, right |-> right,
                     value |-> value, version |-> Len(roots) + 1,
                     checkpoint |-> Len(nodes)]
         /\ nextBound' = NextBound(bound, leaves, left, right, value)
         /\ stack' = <<UpdateFrame(latest, Root(arraySize), left, right)>>
  /\ bufferedThisUpdate' = <<>>
  /\ UNCHANGED <<nodes, published, newNodes, returned>>

Child(f, side) == IF side = "left" THEN nodes[f.node].leftChild
                  ELSE nodes[f.node].rightChild

Descend ==
  /\ stack # <<>>
  /\ Top.todo # {}
  /\ LET side == NextSide(Top)
         half == Half(Top.segment, side)
     IN  stack' = Append(stack,
                    IF call.op = "initialize" THEN BuildFrame(half)
                    ELSE UpdateFrame(Child(Top, side), half, call.left, call.right))
  /\ UNCHANGED <<nodes, published, nextBound, newNodes, bufferedThisUpdate, call, returned>>

Finishing(op) ==
  /\ call.op = op
  /\ stack # <<>>
  /\ Top.todo = {}
  /\ Computed(Top)

(***************************************************************************)
(* The innermost frame returns index to its caller.                        *)
(***************************************************************************)
ReturnIndex(index) == stack' = Resume(stack, index) /\ returned' = index

ReturnBuilt ==
  /\ Finishing("initialize")
  /\ newNodes' = Append(newNodes, BuiltNode(Top))
  /\ ReturnIndex(Len(newNodes'))
  /\ UNCHANGED <<nodes, published, nextBound, bufferedThisUpdate, call>>

\* Seeded bug: the write is not recorded.
RecordedNot(f) == bufferedThisUpdate

Recorded(f) == Append(bufferedThisUpdate, f.node)

(***************************************************************************)
(* modify with a free slot: the node is recorded, then written to, and     *)
(* keeps its index.                                                        *)
(***************************************************************************)
Absorb ==
  /\ Finishing("rangeAdd")
  /\ Absorbs(Top)
  /\ nodes' = [nodes EXCEPT ![Top.node].buffer = Append(@, Change(Top))]
  /\ bufferedThisUpdate' = Recorded(Top)
  /\ ReturnIndex(Top.node)
  /\ UNCHANGED <<published, nextBound, newNodes, call>>

(***************************************************************************)
(* modify with a full buffer, and update after a copied child.             *)
(***************************************************************************)
Copy ==
  /\ Finishing("rangeAdd")
  /\ ~Absorbs(Top)
  /\ nodes' = Append(nodes, CopiedNode(Top))
  /\ ReturnIndex(Len(nodes'))
  /\ UNCHANGED <<published, nextBound, newNodes, bufferedThisUpdate, call>>

(***************************************************************************)
(* initialize swaps the finished replacement in.                           *)
(***************************************************************************)
PublishInitial ==
  /\ call.op = "initialize"
  /\ stack = <<>>
  /\ nodes' = newNodes
  /\ roots' = <<returned>>
  /\ arraySize' = Len(call.values)
  /\ bound' = MaxMagnitude(call.values)
  /\ newNodes' = <<>>
  /\ bufferedThisUpdate' = <<>>
  /\ call' = Idle
  /\ returned' = NoNode
  /\ UNCHANGED <<nextBound, stack>>

PublishVersion ==
  /\ call.op = "rangeAdd"
  /\ stack = <<>>
  /\ roots' = Append(roots, returned)
  /\ bound' = nextBound
  /\ nextBound' = 0
  /\ call' = Idle
  /\ returned' = NoNode
  /\ UNCHANGED <<nodes, arraySize, newNodes, bufferedThisUpdate, stack>>

(***************************************************************************)
(* Exceptions: an unrepresentable result in the innermost frame, or a      *)
(* failed allocation: in the reserve before the first built node, in the   *)
(* record of in-place writes, in the arena, or in the append of the root.  *)
(***************************************************************************)
Overflows == stack # <<>> /\ Top.todo = {} /\ ~Computed(Top)

Allocates ==
  \/ stack = <<>>
  \/ call.op = "initialize" /\ Len(stack) = 1 /\ newNodes = <<>>
  \/ call.op = "rangeAdd" /\ stack # <<>> /\ Top.todo = {}

\* Seeded bug: the recorded buffers are emptied.
RolledBackEmptied ==
  [i \in 1 .. call.checkpoint |->
     IF i \in Range(bufferedThisUpdate) THEN [nodes[i] EXCEPT !.buffer = <<>>]
     ELSE nodes[i]]

(***************************************************************************)
(* The handler of rangeAdd pops an entry for each record of a node, then   *)
(* drops the copies.                                                       *)
(***************************************************************************)
Records(i) == {k \in DOMAIN bufferedThisUpdate : bufferedThisUpdate[k] = i}

RolledBack ==
  [i \in 1 .. call.checkpoint |->
     [nodes[i] EXCEPT !.buffer = SubSeq(@, 1, Len(@) - Cardinality(Records(i)))]]

Throw ==
  /\ call # Idle
  /\ Overflows \/ Allocates
  /\ nodes' = IF call.op = "rangeAdd" THEN RolledBack ELSE nodes
  /\ nextBound' = 0
  /\ newNodes' = <<>>
  /\ stack' = <<>>
  /\ call' = Idle
  /\ returned' = NoNode
  /\ UNCHANGED <<published, bufferedThisUpdate>>

Step == \/ Descend \/ ReturnBuilt \/ Absorb \/ Copy
        \/ PublishInitial \/ PublishVersion \/ Throw

Next ==
  \/ \E values \in Arrays : BeginInitialize(values)
  \/ RangeAddZero
  \/ \E left, right \in 1 .. arraySize, value \in Deltas :
       BeginRangeAdd(left, right, value)
  \/ Step

Spec == Init /\ [][Next]_vars

-----------------------------------------------------------------------------
TypeOK ==
  /\ nodes \in Seq(Node)
  /\ roots \in Seq(Nat)
  /\ arraySize \in Nat
  /\ bound \in Bound /\ nextBound \in Bound
  /\ newNodes \in Seq(Node)
  /\ bufferedThisUpdate \in Seq(Nat)
  /\ call \in Call
  /\ stack \in Seq(Frame)
  /\ returned \in Nat

-----------------------------------------------------------------------------
(***************************************************************************)
(* Every published version is a whole tree when its nodes are read at that *)
(* version, whatever younger entries they hold and also while an update    *)
(* writes to them: each node covers its segment, and its sum is that of    *)
(* its children plus its own tag for every element.                        *)
(***************************************************************************)
ConsistentAt(v) ==
  LET consistent[at \in Visit] ==
        LET state == Seen(at, v)
            leftAt == LeftVisit(at, 0)
            rightAt == RightVisit(at, 0)
        IN  /\ at.node \in DOMAIN nodes /\ nodes[at.node].segment = at.segment
            /\ Readable(state)
            /\ ~IsLeaf(at.segment) =>
                 /\ consistent[leftAt]
                 /\ consistent[rightAt]
                 /\ state.sum = Seen(leftAt, v).sum + Seen(rightAt, v).sum
                                + state.lazy * Length(at.segment)
  IN  arraySize = 0 \/ consistent[RootVisit(roots[v])]

SnapshotsConsistent == \A v \in DOMAIN roots : ConsistentAt(v)

(***************************************************************************)
(* All state is of its type, a buffer never holds more entries than its    *)
(* slots, and the older entry comes first, one per version, which is what  *)
(* lets a rollback pop.                                                    *)
(***************************************************************************)
BuffersInOrder ==
  /\ TypeOK
  /\ \A i \in DOMAIN nodes :
       /\ Len(nodes[i].buffer) <= BufferCapacity
       /\ \A k \in DOMAIN nodes[i].buffer :
            k > 1 => nodes[i].buffer[k - 1].version < nodes[i].buffer[k].version

(***************************************************************************)
(* The entries of a version that is not published are exactly those the    *)
(* running update has recorded and could still take back: none is left     *)
(* behind by an update that failed, after however many that succeeded.     *)
(***************************************************************************)
PendingRecorded ==
  \A i \in DOMAIN nodes :
    LET pending == {k \in DOMAIN nodes[i].buffer : nodes[i].buffer[k].version > Len(roots)}
    IN  Cardinality(pending)
          = IF call.op = "rangeAdd" THEN Cardinality(Records(i)) ELSE 0

(***************************************************************************)
(* The elements of a version, computed from its tree in exact integers.    *)
(***************************************************************************)
ExactElements(v) ==
  LET leaves[at \in Visit] ==
        LET state == Seen(at, v)
            nextLazy == at.inherited + state.lazy
        IN  IF IsLeaf(at.segment) THEN <<at.inherited + state.sum>>
            ELSE leaves[LeftVisit(at, nextLazy)] \o leaves[RightVisit(at, nextLazy)]
  IN  IF arraySize = 0 THEN <<>> ELSE leaves[RootVisit(roots[v])]

(***************************************************************************)
(* The arrays the published versions stand for, and the reference they     *)
(* must agree with at every moment: versions appear only as the reference  *)
(* makes them, from the latest one and as the call asked for, and no       *)
(* in-place write, copy or rollback changes one.                           *)
(***************************************************************************)
Versions == [v \in DOMAIN roots |-> ExactElements(v)]

Reference == INSTANCE BruteForceArray WITH versions <- Versions

PublishesAsAsked ==
  /\ PublishInitial => Reference!Initialize(call.values)
  /\ PublishVersion =>
       Reference!RangeAdd(Len(roots), call.left, call.right, call.value)

ImplementsBruteForceArray ==
  Reference!LatestSpec /\ [][PublishesAsAsked]_vars

(***************************************************************************)
(* What is read of any published version is exact or reports an overflow:  *)
(* every range sum, and every element that materialize returns.            *)
(***************************************************************************)
QueriesExact ==
  \A v \in DOMAIN roots : \A right \in 1 .. arraySize :
    /\ Materialize(roots[v], v)[right] \in {Versions[v][right], Overflow}
    /\ \A left \in 1 .. right :
         RangeSum(v, left, right) \in {ExactSum(Versions[v], left, right), Overflow}

(***************************************************************************)
(* What the header promises of a query, for a single element: it reports   *)
(* an overflow only when the element itself is not representable.          *)
(***************************************************************************)
RepresentableElementsAnswered ==
  \A v \in DOMAIN roots : \A p \in 1 .. arraySize :
    Representable(ExactElements(v)[p]) => RangeSum(v, p, p) = ExactElements(v)[p]

(***************************************************************************)
(* No step but a completed initialize changes the base fields, the         *)
(* children or a published entry of a node of a published version, drops   *)
(* such a node, or removes or redirects a version.                         *)
(***************************************************************************)
PublishedEntries(i) ==
  {k \in DOMAIN nodes[i].buffer : nodes[i].buffer[k].version <= Len(roots)}

PublishedNodesKept ==
  /\ \A i \in 1 .. (IF call.op = "rangeAdd" THEN call.checkpoint ELSE Len(nodes)) :
       /\ i \in DOMAIN nodes'
       /\ [nodes'[i] EXCEPT !.buffer = <<>>] = [nodes[i] EXCEPT !.buffer = <<>>]
       /\ \A k \in PublishedEntries(i) :
            /\ k \in DOMAIN nodes'[i].buffer
            /\ nodes'[i].buffer[k] = nodes[i].buffer[k]
  /\ \A v \in DOMAIN roots : v \in DOMAIN roots' /\ roots'[v] = roots[v]

PublishedImmutable == [][PublishInitial \/ PublishedNodesKept]_vars

=============================================================================
