----------------------------- MODULE BaselineTrees -----------------------------
(***************************************************************************)
(* The range-add / range-sum structures the project measures its own       *)
(* against, as operators: CopyOnPushSegmentTree, PointOnlyPersistent-      *)
(* SegmentTree, FullCopyPersistentSegmentTree, LazySegmentTree, and the    *)
(* PushCountingModel that predicts what copy-on-push appends.  Those whose *)
(* recursion is that of a policy tree for SumAddPolicy are stated as its   *)
(* instances.                                                              *)
(***************************************************************************)
EXTENDS ActionTrees

\* CopyOnPushSegmentTree.
CopyOnPushBuild(values) == Build("SumAdd", values, <<>>, Root(Len(values)))

CopyOnPushUpdate(arena, root, n, call) == Update("SumAdd", TRUE, arena, root, Root(n), call)

CopyOnPushQuery(arena, root, n, left, right) ==
  Query("SumAdd", arena, root, Root(n), left, right, 0)

RECURSIVE Materialize(_, _, _, _)
Materialize(arena, index, c, inherited) ==
  LET next == CheckedAdd(inherited, arena[index].tag)
  IN  IF IsLeaf(c) THEN <<Apply(inherited, arena[index].aggregate, 1)>>
      ELSE Materialize(arena, arena[index].leftChild, LeftHalf(c), next)
           \o Materialize(arena, arena[index].rightChild, RightHalf(c), next)

-----------------------------------------------------------------------------
\* PointOnlyPersistentSegmentTree.
PointOnlyBuild(values) == TaglessBuild("SumAdd", values, <<>>, Root(Len(values)))

PointOnlyUpdate(arena, root, n, call) == MaterializedUpdate("SumAdd", arena, root, Root(n), call)

PointOnlyQuery(arena, root, n, left, right) ==
  TaglessQuery("SumAdd", arena, root, Root(n), left, right)

-----------------------------------------------------------------------------
\* FullCopyPersistentSegmentTree: no child is ever shared.
FullCopyBuild(values) == TaglessBuild("SumAdd", values, <<>>, Root(Len(values)))

RECURSIVE FullCopyUpdate(_, _, _, _)
FullCopyUpdate(arena, index, c, call) ==
  LET current == arena[index]
      inLeft == FullCopyUpdate(arena, current.leftChild, LeftHalf(c), call)
      inRight == FullCopyUpdate(inLeft.arena, current.rightChild, RightHalf(c), call)
      value == IF Covers(call.left, call.right, c)
               THEN CheckedAdd(current.aggregate, call.action) ELSE current.aggregate
  IN  IF IsLeaf(c) THEN Appended(arena, TaglessNode(NoNode, NoNode, value))
      ELSE Parent("SumAdd", inLeft, inRight)

FullCopyQuery(arena, root, n, left, right) ==
  TaglessQuery("SumAdd", arena, root, Root(n), left, right)

-----------------------------------------------------------------------------
(***************************************************************************)
(* LazySegmentTree: in place on heap-indexed arrays.  A tag stays at its   *)
(* node and is already in the node's own sum; nothing is pushed.           *)
(***************************************************************************)
LazyHeap(values) ==
  LET blank == [k \in 1 .. LazyStorageCount(Len(values)) |-> 0]
  IN  [aggregates |-> IF values = <<>> THEN blank
                      ELSE HeapBuild("SumAdd", values, blank, 1, Root(Len(values))),
       tags |-> blank]

\* Seeded bug: only the sums are validated.
RECURSIVE ValidateUpdateSumsOnly(_, _, _, _)
ValidateUpdateSumsOnly(heap, node, c, call) ==
  LET inLeft == IF call.left <= Midpoint(c)
                THEN ValidateUpdateSumsOnly(heap, 2 * node, LeftHalf(c), call)
                ELSE heap.aggregates[2 * node]
      inRight == IF call.right > Midpoint(c)
                 THEN ValidateUpdateSumsOnly(heap, 2 * node + 1, RightHalf(c), call)
                 ELSE heap.aggregates[2 * node + 1]
  IN  IF Covers(call.left, call.right, c)
      THEN Apply(call.action, heap.aggregates[node], Length(c))
      ELSE Apply(heap.tags[node], CheckedAdd(inLeft, inRight), Length(c))

\* The sum the node would get, or Overflow when the update would throw below it.
RECURSIVE ValidateUpdate(_, _, _, _)
ValidateUpdate(heap, node, c, call) ==
  LET inLeft == IF call.left <= Midpoint(c)
                THEN ValidateUpdate(heap, 2 * node, LeftHalf(c), call)
                ELSE heap.aggregates[2 * node]
      inRight == IF call.right > Midpoint(c)
                 THEN ValidateUpdate(heap, 2 * node + 1, RightHalf(c), call)
                 ELSE heap.aggregates[2 * node + 1]
  IN  IF Covers(call.left, call.right, c)
      THEN IF CheckedAdd(heap.tags[node], call.action) = Overflow THEN Overflow
           ELSE Apply(call.action, heap.aggregates[node], Length(c))
      ELSE Apply(heap.tags[node], CheckedAdd(inLeft, inRight), Length(c))

RECURSIVE LazyUpdate(_, _, _, _)
LazyUpdate(heap, node, c, call) ==
  LET inLeft == IF call.left <= Midpoint(c)
                THEN LazyUpdate(heap, 2 * node, LeftHalf(c), call) ELSE heap
      inBoth == IF call.right > Midpoint(c)
                THEN LazyUpdate(inLeft, 2 * node + 1, RightHalf(c), call) ELSE inLeft
  IN  IF Covers(call.left, call.right, c)
      THEN [heap EXCEPT !.aggregates[node] = Apply(call.action, @, Length(c)),
                        !.tags[node] = CheckedAdd(@, call.action)]
      ELSE [inBoth EXCEPT !.aggregates[node] =
              Apply(inBoth.tags[node], CheckedAdd(inBoth.aggregates[2 * node],
                                                  inBoth.aggregates[2 * node + 1]), Length(c))]

RECURSIVE LazyQuery(_, _, _, _, _, _)
LazyQuery(heap, node, c, left, right, inherited) ==
  LET next == CheckedAdd(inherited, heap.tags[node])
  IN  IF Disjoint(left, right, c) THEN 0
      ELSE IF Covers(left, right, c) THEN Apply(inherited, heap.aggregates[node], Length(c))
      ELSE CheckedAdd(LazyQuery(heap, 2 * node, LeftHalf(c), left, right, next),
                      LazyQuery(heap, 2 * node + 1, RightHalf(c), left, right, next))

RECURSIVE LazyMaterialize(_, _, _, _)
LazyMaterialize(heap, node, c, inherited) ==
  LET next == CheckedAdd(inherited, heap.tags[node])
  IN  IF IsLeaf(c) THEN <<Apply(inherited, heap.aggregates[node], 1)>>
      ELSE LazyMaterialize(heap, 2 * node, LeftHalf(c), next)
           \o LazyMaterialize(heap, 2 * node + 1, RightHalf(c), next)

-----------------------------------------------------------------------------
(***************************************************************************)
(* PushCountingModel: the tags copy-on-push keeps, without its records;    *)
(* pushes is the number of partially covered nodes whose tag moved down.   *)
(***************************************************************************)
CountingModel(policy, n) == [k \in 1 .. LazyStorageCount(n) |-> ActionIdentity(policy)]

\* Seeded bug: a pushed tag stays where it was.
RECURSIVE CountPushesKeeping(_, _, _, _, _)
CountPushesKeeping(policy, tags, node, c, call) ==
  LET pushes == tags[node] # ActionIdentity(policy)
      inLeft == IF call.left <= Midpoint(c)
                THEN CountPushesKeeping(policy, tags, 2 * node, LeftHalf(c), call)
                ELSE [tags |-> tags, pushes |-> 0]
      inRight == IF call.right > Midpoint(c)
                 THEN CountPushesKeeping(policy, inLeft.tags, 2 * node + 1, RightHalf(c), call)
                 ELSE [tags |-> inLeft.tags, pushes |-> 0]
  IN  IF Covers(call.left, call.right, c)
      THEN [tags |-> [tags EXCEPT ![node] = Compose(policy, call.action, @)], pushes |-> 0]
      ELSE [tags |-> inRight.tags,
            pushes |-> (IF pushes THEN 1 ELSE 0) + inLeft.pushes + inRight.pushes]

RECURSIVE CountPushes(_, _, _, _, _)
CountPushes(policy, tags, node, c, call) ==
  LET pushes == tags[node] # ActionIdentity(policy)
      pushed == IF pushes
                THEN [tags EXCEPT ![2 * node] = Compose(policy, tags[node], @),
                                  ![2 * node + 1] = Compose(policy, tags[node], @),
                                  ![node] = ActionIdentity(policy)]
                ELSE tags
      inLeft == IF call.left <= Midpoint(c)
                THEN CountPushes(policy, pushed, 2 * node, LeftHalf(c), call)
                ELSE [tags |-> pushed, pushes |-> 0]
      inRight == IF call.right > Midpoint(c)
                 THEN CountPushes(policy, inLeft.tags, 2 * node + 1, RightHalf(c), call)
                 ELSE [tags |-> inLeft.tags, pushes |-> 0]
  IN  IF Covers(call.left, call.right, c)
      THEN [tags |-> [tags EXCEPT ![node] = Compose(policy, call.action, @)], pushes |-> 0]
      ELSE [tags |-> inRight.tags,
            pushes |-> (IF pushes THEN 1 ELSE 0) + inLeft.pushes + inRight.pushes]

=============================================================================
