----------------------- MODULE CheckpointingSegmentTree -----------------------
(***************************************************************************)
(* src/checkpointing_segment_tree.cpp: one live tree updated in place, the *)
(* log of all updates, and a copy of the live tree at every version that   *)
(* is a multiple of the interval.  An older version is read from the       *)
(* checkpoint at or before it and the updates logged in between.           *)
(*                                                                         *)
(* rangeAdd is modelled one write at a time, with every point where it can *)
(* throw.  initialize works on locals until it swaps them in, which cannot *)
(* fail, and is one step; when it throws nothing changes.                  *)
(***************************************************************************)
EXTENDS SumAddDomain, SequencesExt

CONSTANTS Arrays,              \* the arrays initialize is called with
          Deltas,              \* the values rangeAdd is called with
          Intervals,           \* the checkpoint intervals
          MaxVersions,         \* bound of the model: most versions published
          MaxReinitVersions    \* bound of the model: initialize is called
                               \* while at most this many are published

ASSUME ArraysAssumption == Arrays \subseteq Seq(Value)
ASSUME DeltasAssumption == Deltas \subseteq Value
ASSUME IntervalsAssumption == Intervals \subseteq Nat \ {0}
ASSUME MaxVersionsAssumption ==
  MaxVersions \in Nat /\ MaxReinitVersions \in Nat

VARIABLES
  live,           \* the tree of the latest version, in preorder
  events,         \* the log: events[i] made the code's version i
  checkpoints,    \* copies of live, each with the code's version of it
  interval,       \* the checkpoint interval
  arraySize,      \* number of elements in every version
  bound,          \* numericDomain.magnitudeBound
  call,           \* the running rangeAdd
  todo            \* the nodes it has still to write in the current tree

vars == <<live, events, checkpoints, interval, arraySize, bound, call, todo>>

Idle == [phase |-> "idle"]

Node == [sum : Value, lazy : Value]

UpdateEvent == [left : Nat \ {0}, right : Nat, value : Deltas]

Checkpoint == [version : Nat, nodes : Seq(Node)]

Call ==
  {Idle} \cup [phase : {"log", "checkpoint", "live", "copy"}, event : UpdateEvent,
               takeCheckpoint : BOOLEAN, nextBound : Bound]

Init ==
  /\ live = <<>>
  /\ events = <<>>
  /\ checkpoints = <<>>
  /\ interval = 0
  /\ arraySize = 0
  /\ bound = 0
  /\ call = Idle
  /\ todo = <<>>

-----------------------------------------------------------------------------
(***************************************************************************)
(* The slots of the children of node i over the segment c.                 *)
(***************************************************************************)
LeftChild(i) == i + 1

\* Seeded bug: the left subtree is taken to have one slot less.
RightChildTooEarly(i, c) == i + 2 * Length(LeftHalf(c)) - 1

RightChild(i, c) == i + 2 * Length(LeftHalf(c))

(***************************************************************************)
(* build: every subtree fills the slots right after its node.              *)
(***************************************************************************)
Built(values) ==
  LET tree[c \in Interval(Len(values))] ==
        IF IsLeaf(c) THEN <<[sum |-> values[c[1]], lazy |-> 0]>>
        ELSE <<[sum |-> CheckedAdd(tree[LeftHalf(c)][1].sum, tree[RightHalf(c)][1].sum),
                lazy |-> 0]>>
             \o tree[LeftHalf(c)] \o tree[RightHalf(c)]
  IN  IF values = <<>> THEN <<>> ELSE tree[Root(Len(values))]

(***************************************************************************)
(* A node of a tree; no slot in use lies outside it.                       *)
(***************************************************************************)
NodeAt(nodes, i) ==
  IF i \in DOMAIN nodes THEN nodes[i] ELSE CHOOSE node \in Node : TRUE

(***************************************************************************)
(* A visit holds the parameters of the recursions: inherited adds up the   *)
(* tags of the ancestors, where they are needed.                           *)
(***************************************************************************)
Visit == [node : Nat, segment : Interval(arraySize), inherited : Int]

RootVisit == [node |-> 1, segment |-> Root(arraySize), inherited |-> 0]

LeftVisit(at, inherited) ==
  [node |-> LeftChild(at.node), segment |-> LeftHalf(at.segment), inherited |-> inherited]

RightVisit(at, inherited) ==
  [node |-> RightChild(at.node, at.segment), segment |-> RightHalf(at.segment),
   inherited |-> inherited]

(***************************************************************************)
(* query and materialize on one tree.                                      *)
(***************************************************************************)
Query(nodes, left, right) ==
  LET sum[at \in Visit] ==
        LET current == NodeAt(nodes, at.node)
            nextLazy == CheckedAdd(at.inherited, current.lazy)
        IN  IF Disjoint(left, right, at.segment) THEN 0
            ELSE IF Covers(left, right, at.segment)
                 THEN Apply(at.inherited, current.sum, Length(at.segment))
                 ELSE CheckedAdd(sum[LeftVisit(at, nextLazy)], sum[RightVisit(at, nextLazy)])
  IN  sum[RootVisit]

Materialize(nodes) ==
  LET leaves[at \in Visit] ==
        LET current == NodeAt(nodes, at.node)
            nextLazy == CheckedAdd(at.inherited, current.lazy)
        IN  IF IsLeaf(at.segment) THEN <<Apply(at.inherited, current.sum, 1)>>
            ELSE leaves[LeftVisit(at, nextLazy)] \o leaves[RightVisit(at, nextLazy)]
  IN  IF arraySize = 0 THEN <<>> ELSE leaves[RootVisit]

(***************************************************************************)
(* The checkpoint at or before a version, and the sum that the updates     *)
(* logged after it lead to: each adds its delta once per shared element.   *)
(***************************************************************************)
Base(version) == checkpoints[version \div interval + 1]

Replayed(sum, event, left, right) ==
  LET overlapLeft == Max({left, event.left})
      overlapRight == Min({right, event.right})
  IN  IF overlapLeft <= overlapRight
      THEN Apply(event.value, sum, overlapRight - overlapLeft + 1) ELSE sum

\* Seeded bug: the update that made the checkpoint is replayed too.
ReplayTwice(version, left, right) ==
  LET base == Base(version)
      start == Max({1, base.version}) - 1
      sum[k \in 0 .. version - start] ==
        IF k = 0 THEN Query(base.nodes, left, right)
        ELSE Replayed(sum[k - 1], events[start + k], left, right)
  IN  sum[version - start]

Replay(version, left, right) ==
  LET base == Base(version)
      sum[k \in 0 .. version - base.version] ==
        IF k = 0 THEN Query(base.nodes, left, right)
        ELSE Replayed(sum[k - 1], events[base.version + k], left, right)
  IN  sum[version - base.version]

(***************************************************************************)
(* rangeSum(version, left, right), the version counted from 0 as in the    *)
(* code: the latest one is read from the live tree.                        *)
(***************************************************************************)
RangeSum(version, left, right) ==
  IF version = Len(events) THEN Query(live, left, right)
  ELSE Replay(version, left, right)

-----------------------------------------------------------------------------
\* Seeded bug: the tag of a covered node is not validated.
ValidateUpdateSumsOnly(left, right, value) ==
  LET sum[at \in Visit] ==
        LET current == NodeAt(live, at.node)
        IN  IF Disjoint(left, right, at.segment) THEN current.sum
            ELSE IF Covers(left, right, at.segment)
                 THEN Apply(value, current.sum, Length(at.segment))
                 ELSE Apply(current.lazy,
                            CheckedAdd(sum[LeftVisit(at, 0)], sum[RightVisit(at, 0)]),
                            Length(at.segment))
  IN  sum[RootVisit] # Overflow

(***************************************************************************)
(* validateUpdate: the arithmetic of update without its writes; an         *)
(* overflow anywhere below is one of the whole.  A half the update does    *)
(* not descend to counts with the sum it has.                              *)
(***************************************************************************)
ValidateUpdate(left, right, value) ==
  LET sum[at \in Visit] ==
        LET current == NodeAt(live, at.node)
        IN  IF Disjoint(left, right, at.segment) THEN current.sum
            ELSE IF Covers(left, right, at.segment)
                 THEN IF CheckedAdd(current.lazy, value) = Overflow THEN Overflow
                      ELSE Apply(value, current.sum, Length(at.segment))
                 ELSE Apply(current.lazy,
                            CheckedAdd(sum[LeftVisit(at, 0)], sum[RightVisit(at, 0)]),
                            Length(at.segment))
  IN  sum[RootVisit] # Overflow

(***************************************************************************)
(* The nodes update writes, children first, left before right.             *)
(***************************************************************************)
Writes(event) ==
  LET order[at \in Visit] ==
        LET write == [node |-> at.node, segment |-> at.segment]
        IN  IF Disjoint(event.left, event.right, at.segment) THEN <<>>
            ELSE IF Covers(event.left, event.right, at.segment) THEN <<write>>
                 ELSE order[LeftVisit(at, 0)] \o order[RightVisit(at, 0)] \o <<write>>
  IN  IF event.value = 0 THEN <<>> ELSE order[RootVisit]

(***************************************************************************)
(* What update writes to a node.                                           *)
(***************************************************************************)
Written(nodes, i, c) ==
  IF Covers(call.event.left, call.event.right, c)
  THEN [sum |-> Apply(call.event.value, nodes[i].sum, Length(c)),
        lazy |-> CheckedAdd(nodes[i].lazy, call.event.value)]
  ELSE [sum |-> Apply(nodes[i].lazy,
                      CheckedAdd(nodes[LeftChild(i)].sum, nodes[RightChild(i, c)].sum),
                      Length(c)),
        lazy |-> nodes[i].lazy]

-----------------------------------------------------------------------------
Initialize(values, checkpointInterval) ==
  /\ call = Idle
  /\ checkpoints # <<>> => Len(events) < MaxReinitVersions
  /\ Admissible(values)
  /\ live' = Built(values)
  /\ checkpoints' = <<[version |-> 0, nodes |-> live']>>
  /\ events' = <<>>
  /\ interval' = checkpointInterval
  /\ arraySize' = Len(values)
  /\ bound' = MaxMagnitude(values)
  /\ UNCHANGED <<call, todo>>

(***************************************************************************)
(* rangeAdd up to its first allocation: the arguments, the guard and the   *)
(* dry run.  A zero delta needs neither of these two.                      *)
(***************************************************************************)
BeginRangeAdd(left, right, value) ==
  LET leaves == Materialize(live)
  IN  /\ call = Idle
      /\ checkpoints # <<>>
      /\ left \in 1 .. arraySize /\ right \in left .. arraySize
      /\ Len(events) + 1 < MaxVersions
      /\ value # 0 => /\ ValidateRangeAdd(bound, leaves, left, right, value)
                      /\ ValidateUpdate(left, right, value)
      /\ call' = [phase |-> "log",
                  event |-> [left |-> left, right |-> right, value |-> value],
                  takeCheckpoint |-> (Len(events) + 1) % interval = 0,
                  nextBound |-> IF value = 0 THEN 0
                                ELSE NextBound(bound, leaves, left, right, value)]
      /\ UNCHANGED <<live, events, checkpoints, interval, arraySize, bound, todo>>

LogEvent ==
  /\ call.phase = "log"
  /\ events' = Append(events, call.event)
  /\ call' = [call EXCEPT !.phase = IF call.takeCheckpoint THEN "checkpoint" ELSE "live"]
  /\ todo' = IF call.takeCheckpoint THEN <<>> ELSE Writes(call.event)
  /\ UNCHANGED <<live, checkpoints, interval, arraySize, bound>>

(***************************************************************************)
(* The checkpoint is copied before the update, which it receives later.    *)
(***************************************************************************)
StoreCheckpoint ==
  /\ call.phase = "checkpoint"
  /\ checkpoints' = Append(checkpoints, [version |-> Len(events), nodes |-> live])
  /\ call' = [call EXCEPT !.phase = "live"]
  /\ todo' = Writes(call.event)
  /\ UNCHANGED <<live, events, interval, arraySize, bound>>

Computed(node) == node.sum # Overflow /\ node.lazy # Overflow

UpdateLive ==
  /\ call.phase = "live"
  /\ todo # <<>>
  /\ LET write == Head(todo)
         node == Written(live, write.node, write.segment)
     IN  /\ Computed(node)
         /\ live' = [live EXCEPT ![write.node] = node]
  /\ todo' = Tail(todo)
  /\ UNCHANGED <<events, checkpoints, interval, arraySize, bound, call>>

BeginCopy ==
  /\ call.phase = "live"
  /\ todo = <<>>
  /\ call.takeCheckpoint
  /\ call' = [call EXCEPT !.phase = "copy"]
  /\ todo' = Writes(call.event)
  /\ UNCHANGED <<live, events, checkpoints, interval, arraySize, bound>>

UpdateCopy ==
  /\ call.phase = "copy"
  /\ todo # <<>>
  /\ LET write == Head(todo)
         node == Written(Last(checkpoints).nodes, write.node, write.segment)
     IN  /\ Computed(node)
         /\ checkpoints' =
              [checkpoints EXCEPT ![Len(checkpoints)].nodes[write.node] = node]
  /\ todo' = Tail(todo)
  /\ UNCHANGED <<live, events, interval, arraySize, bound, call>>

\* Seeded bug: the checkpoint does not receive the update.
ReturnEarly ==
  /\ call.phase \in {"live", "copy"}
  /\ todo = <<>>
  /\ bound' = IF call.event.value = 0 THEN bound ELSE call.nextBound
  /\ call' = Idle
  /\ UNCHANGED <<live, events, checkpoints, interval, arraySize, todo>>

Return ==
  /\ call.phase = IF call # Idle /\ call.takeCheckpoint THEN "copy" ELSE "live"
  /\ todo = <<>>
  /\ bound' = IF call.event.value = 0 THEN bound ELSE call.nextBound
  /\ call' = Idle
  /\ UNCHANGED <<live, events, checkpoints, interval, arraySize, todo>>

(***************************************************************************)
(* Exceptions: a failed allocation of the event, or of the checkpoint,     *)
(* whose handler takes the event back; and an overflow in the middle of an *)
(* update, from which nothing would recover.                               *)
(***************************************************************************)
Throw ==
  /\ \/ call.phase \in {"log", "checkpoint"}
     \/ /\ call.phase \in {"live", "copy"} /\ todo # <<>>
        /\ ~Computed(Written(IF call.phase = "live" THEN live ELSE Last(checkpoints).nodes,
                             Head(todo).node, Head(todo).segment))
  /\ events' = IF call.phase = "checkpoint" THEN Front(events) ELSE events
  /\ call' = Idle
  /\ todo' = <<>>
  /\ UNCHANGED <<live, checkpoints, interval, arraySize, bound>>

Step == LogEvent \/ StoreCheckpoint \/ UpdateLive \/ BeginCopy \/ UpdateCopy
        \/ Return \/ Throw

Next ==
  \/ \E values \in Arrays, checkpointInterval \in Intervals :
       Initialize(values, checkpointInterval)
  \/ \E left, right \in 1 .. arraySize, value \in Deltas :
       BeginRangeAdd(left, right, value)
  \/ Step

Spec == Init /\ [][Next]_vars

-----------------------------------------------------------------------------
TypeOK ==
  /\ live \in Seq(Node)
  /\ events \in Seq(UpdateEvent)
  /\ checkpoints \in Seq(Checkpoint)
  /\ interval \in Nat
  /\ arraySize \in Nat
  /\ bound \in Bound
  /\ call \in Call

(***************************************************************************)
(* The elements that the log leads to at a version, from checkpoint k.     *)
(***************************************************************************)
ElementsFrom(k, version) ==
  LET start == checkpoints[k].version
      values[i \in 0 .. version - start] ==
        IF i = 0 THEN Materialize(checkpoints[k].nodes)
        ELSE AddToRange(values[i - 1], events[start + i].left, events[start + i].right,
                        events[start + i].value)
  IN  values[version - start]

(***************************************************************************)
(* The published versions, each from its checkpoint and the log, also      *)
(* while the live tree is being written to; and the reference they must    *)
(* agree with at every moment.                                             *)
(***************************************************************************)
PublishedCount ==
  IF checkpoints = <<>> THEN 0
  ELSE Len(events) + IF call.phase \in {"idle", "log"} THEN 1 ELSE 0

Versions ==
  [v \in 1 .. PublishedCount |-> ElementsFrom((v - 1) \div interval + 1, v - 1)]

Reference == INSTANCE BruteForceArray WITH versions <- Versions

(***************************************************************************)
(* A version appears only when rangeAdd returns, and is the one it was     *)
(* asked for; no write, checkpoint or failure changes another.             *)
(***************************************************************************)
PublishesAsAsked ==
  Return => Reference!RangeAdd(PublishedCount, call.event.left, call.event.right,
                               call.event.value)

ImplementsBruteForceArray ==
  Reference!LatestSpec /\ [][PublishesAsAsked]_vars

(***************************************************************************)
(* Between calls there is a checkpoint at version 0 and at each multiple   *)
(* of the interval up to the latest version, and no other; and the live    *)
(* tree, every checkpoint and the log agree: each tree is what replaying   *)
(* the log from the checkpoint before it gives.  That also holds after a   *)
(* failure at any point of an update, and all state is of its type.        *)
(***************************************************************************)
CheckpointsOnSchedule ==
  /\ Len(checkpoints) = Len(events) \div interval + 1
  /\ \A k \in DOMAIN checkpoints : checkpoints[k].version = (k - 1) * interval

TreesAgreeWithLog ==
  /\ TypeOK
  /\ call = Idle /\ checkpoints # <<>> =>
       /\ CheckpointsOnSchedule
       /\ Materialize(live) = ElementsFrom(Len(checkpoints), Len(events))
       /\ \A k \in 2 .. Len(checkpoints) :
            Materialize(checkpoints[k].nodes) = ElementsFrom(k - 1, checkpoints[k].version)

(***************************************************************************)
(* A range sum of any version, from the live tree or by replay across any  *)
(* number of updates, is exact or reports an overflow.                     *)
(***************************************************************************)
QueriesExact ==
  call = Idle =>
    \A v \in 1 .. PublishedCount : \A right \in 1 .. arraySize : \A left \in 1 .. right :
      RangeSum(v - 1, left, right)
        \in {ExactSum(Versions[v], left, right), Overflow}

(***************************************************************************)
(* Nothing throws once the first node is about to be written: the guard    *)
(* and the dry run have met every overflow the two in-place updates could  *)
(* run into, and no handler has to undo a write.                           *)
(***************************************************************************)
ThrowsBeforeMutation == [][Throw => call.phase \in {"log", "checkpoint"}]_vars

=============================================================================
