------------------------------ MODULE ActionTrees ------------------------------
(***************************************************************************)
(* include/valseg/policy_trees.hpp: the segment trees that are templates   *)
(* over a policy, as operators.  A persistent tree's recursion takes the   *)
(* arena and hands it on with the index of the subtree it made; a record   *)
(* that holds Overflow is one whose construction threw.  Arena index i + 1 *)
(* stands for the code's i, NoNode for noNode, and heap slot k + 1 for the *)
(* code's k, so the children of slot k are 2k and 2k + 1.                  *)
(***************************************************************************)
EXTENDS Policies, CanonicalTree

NoNode == 0

Appended(arena, node) == [arena |-> Append(arena, node), root |-> Len(arena) + 1]

Shared(arena, index) == [arena |-> arena, root |-> index]

RollBack(arena, checkpoint) == SubSeq(arena, 1, checkpoint)

-----------------------------------------------------------------------------
(***************************************************************************)
(* PathCopyingActionTree: RetainedTagPersistentTree when push is FALSE and *)
(* CopyOnPushPersistentTree when it is TRUE.                               *)
(***************************************************************************)
\* Seeded bug: the static assertion is dropped.
AdmitsAnyPolicy(policy, push) == TRUE

AdmitsPolicy(policy, push) == push \/ KInducedActionsCommute(policy)

Node(leftChild, rightChild, aggregate, tag) ==
  [leftChild |-> leftChild, rightChild |-> rightChild, aggregate |-> aggregate, tag |-> tag]

RECURSIVE Build(_, _, _, _)
Build(policy, values, arena, c) ==
  IF IsLeaf(c)
  THEN Appended(arena, Node(NoNode, NoNode, values[c[1]], ActionIdentity(policy)))
  ELSE LET inLeft == Build(policy, values, arena, LeftHalf(c))
           inRight == Build(policy, values, inLeft.arena, RightHalf(c))
       IN  Appended(inRight.arena,
                    Node(inLeft.root, inRight.root,
                         Combine(policy, inRight.arena[inLeft.root].aggregate,
                                 inRight.arena[inRight.root].aggregate),
                         ActionIdentity(policy)))

\* The node with an action applied over its elements; its children stay shared.
Acted(policy, node, action, length) ==
  [node EXCEPT !.aggregate = ApplyAction(policy, action, @, length),
               !.tag = Compose(policy, action, @)]

PushInto(policy, arena, source, tag, length) ==
  Appended(arena, Acted(policy, arena[source], tag, length))

RECURSIVE Update(_, _, _, _, _, _)
Update(policy, push, arena, index, c, call) ==
  LET current == arena[index]
      pushes == push /\ current.tag # ActionIdentity(policy)
      pushedLeft == IF pushes
                    THEN PushInto(policy, arena, current.leftChild, current.tag,
                                  Length(LeftHalf(c)))
                    ELSE Shared(arena, current.leftChild)
      pushedRight == IF pushes
                     THEN PushInto(policy, pushedLeft.arena, current.rightChild, current.tag,
                                   Length(RightHalf(c)))
                     ELSE Shared(pushedLeft.arena, current.rightChild)
      retained == IF pushes THEN ActionIdentity(policy) ELSE current.tag
      inLeft == IF call.left <= Midpoint(c)
                THEN Update(policy, push, pushedRight.arena, pushedLeft.root, LeftHalf(c), call)
                ELSE Shared(pushedRight.arena, pushedLeft.root)
      inRight == IF call.right > Midpoint(c)
                 THEN Update(policy, push, inLeft.arena, pushedRight.root, RightHalf(c), call)
                 ELSE Shared(inLeft.arena, pushedRight.root)
      children == Combine(policy, inRight.arena[inLeft.root].aggregate,
                          inRight.arena[inRight.root].aggregate)
  IN  IF Covers(call.left, call.right, c)
      THEN Appended(arena, Acted(policy, current, call.action, Length(c)))
      ELSE Appended(inRight.arena,
                    Node(inLeft.root, inRight.root,
                         ApplyAction(policy, retained, children, Length(c)), retained))

RECURSIVE Query(_, _, _, _, _, _, _)
Query(policy, arena, index, c, left, right, inherited) ==
  LET current == arena[index]
      next == Compose(policy, inherited, current.tag)
  IN  IF Disjoint(left, right, c) THEN AggregateIdentity(policy)
      ELSE IF Covers(left, right, c)
           THEN ApplyAction(policy, inherited, current.aggregate, Length(c))
      ELSE Combine(policy,
                   Query(policy, arena, current.leftChild, LeftHalf(c), left, right, next),
                   Query(policy, arena, current.rightChild, RightHalf(c), left, right, next))

-----------------------------------------------------------------------------
(***************************************************************************)
(* PointMaterializedPersistentTree: no tags, so an update goes down to     *)
(* every leaf of its range.                                                *)
(***************************************************************************)
TaglessNode(leftChild, rightChild, aggregate) ==
  [leftChild |-> leftChild, rightChild |-> rightChild, aggregate |-> aggregate]

\* The record of an inner node over two subtrees, the second made last.
Parent(policy, inLeft, inRight) ==
  Appended(inRight.arena,
           TaglessNode(inLeft.root, inRight.root,
                       Combine(policy, inRight.arena[inLeft.root].aggregate,
                               inRight.arena[inRight.root].aggregate)))

RECURSIVE TaglessBuild(_, _, _, _)
TaglessBuild(policy, values, arena, c) ==
  IF IsLeaf(c) THEN Appended(arena, TaglessNode(NoNode, NoNode, values[c[1]]))
  ELSE LET inLeft == TaglessBuild(policy, values, arena, LeftHalf(c))
       IN  Parent(policy, inLeft, TaglessBuild(policy, values, inLeft.arena, RightHalf(c)))

RECURSIVE MaterializedUpdate(_, _, _, _, _)
MaterializedUpdate(policy, arena, index, c, call) ==
  LET current == arena[index]
      inLeft == IF call.left <= Midpoint(c)
                THEN MaterializedUpdate(policy, arena, current.leftChild, LeftHalf(c), call)
                ELSE Shared(arena, current.leftChild)
      inRight == IF call.right > Midpoint(c)
                 THEN MaterializedUpdate(policy, inLeft.arena, current.rightChild,
                                         RightHalf(c), call)
                 ELSE Shared(inLeft.arena, current.rightChild)
  IN  IF IsLeaf(c)
      THEN Appended(arena, TaglessNode(NoNode, NoNode,
                             ApplyAction(policy, call.action, current.aggregate, 1)))
      ELSE Parent(policy, inLeft, inRight)

RECURSIVE TaglessQuery(_, _, _, _, _, _)
TaglessQuery(policy, arena, index, c, left, right) ==
  IF Disjoint(left, right, c) THEN AggregateIdentity(policy)
  ELSE IF Covers(left, right, c) THEN arena[index].aggregate
  ELSE Combine(policy,
         TaglessQuery(policy, arena, arena[index].leftChild, LeftHalf(c), left, right),
         TaglessQuery(policy, arena, arena[index].rightChild, RightHalf(c), left, right))

-----------------------------------------------------------------------------
(***************************************************************************)
(* PushedLazyTree: in place, on two heap-indexed arrays.  A tag is pending *)
(* at its node: not yet in the node's own aggregate.                       *)
(***************************************************************************)
LazyStorageCount(n) == 4 * n

RECURSIVE HeapBuild(_, _, _, _, _)
HeapBuild(policy, values, aggregates, node, c) ==
  IF IsLeaf(c) THEN [aggregates EXCEPT ![node] = values[c[1]]]
  ELSE LET inLeft == HeapBuild(policy, values, aggregates, 2 * node, LeftHalf(c))
           inBoth == HeapBuild(policy, values, inLeft, 2 * node + 1, RightHalf(c))
       IN  [inBoth EXCEPT ![node] = Combine(policy, inBoth[2 * node], inBoth[2 * node + 1])]

Heap(policy, values) ==
  LET slots == 1 .. LazyStorageCount(Len(values))
      blank == [k \in slots |-> AggregateIdentity(policy)]
  IN  [aggregates |-> IF values = <<>> THEN blank
                      ELSE HeapBuild(policy, values, blank, 1, Root(Len(values))),
       tags |-> [k \in slots |-> ActionIdentity(policy)]]

Push(policy, heap, node, c) ==
  LET tag == heap.tags[node]
  IN  IF tag = ActionIdentity(policy) THEN heap
      ELSE [aggregates |-> [heap.aggregates EXCEPT ![node] =
                              ApplyAction(policy, tag, @, Length(c))],
            tags |-> [k \in DOMAIN heap.tags |->
                        IF k = node THEN ActionIdentity(policy)
                        ELSE IF ~IsLeaf(c) /\ k \in {2 * node, 2 * node + 1}
                             THEN Compose(policy, tag, heap.tags[k])
                             ELSE heap.tags[k]]]

RECURSIVE PushedUpdate(_, _, _, _, _)
PushedUpdate(policy, heap, node, c, call) ==
  LET pushed == Push(policy, heap, node, c)
      tagged == [pushed EXCEPT !.tags[node] = Compose(policy, call.action, @)]
      inLeft == PushedUpdate(policy, pushed, 2 * node, LeftHalf(c), call)
      inBoth == PushedUpdate(policy, inLeft, 2 * node + 1, RightHalf(c), call)
  IN  IF Disjoint(call.left, call.right, c) THEN pushed
      ELSE IF Covers(call.left, call.right, c) THEN Push(policy, tagged, node, c)
      ELSE [inBoth EXCEPT !.aggregates[node] =
              Combine(policy, inBoth.aggregates[2 * node], inBoth.aggregates[2 * node + 1])]

\* The heap a query leaves behind, and its answer.
RECURSIVE PushedQuery(_, _, _, _, _, _)
PushedQuery(policy, heap, node, c, left, right) ==
  LET pushed == Push(policy, heap, node, c)
      inLeft == PushedQuery(policy, pushed, 2 * node, LeftHalf(c), left, right)
      inRight == PushedQuery(policy, inLeft.heap, 2 * node + 1, RightHalf(c), left, right)
  IN  IF Disjoint(left, right, c)
      THEN [heap |-> pushed, answer |-> AggregateIdentity(policy)]
      ELSE IF Covers(left, right, c)
      THEN [heap |-> pushed, answer |-> pushed.aggregates[node]]
      ELSE [heap |-> inRight.heap, answer |-> Combine(policy, inLeft.answer, inRight.answer)]

=============================================================================
