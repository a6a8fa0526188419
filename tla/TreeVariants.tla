----------------------------- MODULE TreeVariants -----------------------------
(***************************************************************************)
(* The policy trees of include/valseg/policy_trees.hpp and the baseline    *)
(* structures, each driven through its interface: one of the classes, over *)
(* one of the policies it admits, is chosen initially.  The bodies of the  *)
(* calls are the operators of ActionTrees and BaselineTrees; a call is one *)
(* step, and a step that publishes nothing is a call that threw.           *)
(***************************************************************************)
EXTENDS StructuralCounts, SumAddDomain, SequencesExt

CONSTANTS Arrays,        \* the arrays initialize is called with, by policy
          Actions,       \* the actions applied, by policy
          MaxUpdates     \* bound of the model: most successful updates

ASSUME ArraysAssumption == Arrays \in [PolicyNames -> SUBSET Seq(Value)]
ASSUME ActionsAssumption == PolicyNames \subseteq DOMAIN Actions
ASSUME MaxUpdatesAssumption == MaxUpdates \in Nat

VARIABLES class, policy,    \* the structure under study and its template parameter
          nodes, roots,     \* of a persistent structure: arena, and root of each version
          heap,             \* of a structure in place: its aggregates and tags
          arraySize,
          bound,            \* of a structure with a SumAddDomainGuard: its bound
          usable,           \* FALSE after an exception without a rollback
          initial, asked    \* the caller's record: the array, and the updates that returned

vars == <<class, policy, nodes, roots, heap, arraySize, bound, usable, initial, asked>>

PathCopying == {"RetainedTagPersistentTree", "CopyOnPushPersistentTree"}
PolicyTrees == PathCopying \cup {"PointMaterializedPersistentTree", "PushedLazyTree"}
BaselineClasses == {"CopyOnPushSegmentTree", "PointOnlyPersistentSegmentTree",
                    "FullCopyPersistentSegmentTree", "LazySegmentTree"}
InPlace == {"PushedLazyTree", "LazySegmentTree"}
Guarded == {"CopyOnPushSegmentTree", "LazySegmentTree"}

Pushes == class \in {"CopyOnPushPersistentTree", "CopyOnPushSegmentTree"}

NoHeap == [aggregates |-> <<>>, tags |-> <<>>]

Init ==
  /\ \/ class \in PathCopying /\ policy \in PolicyNames /\ AdmitsPolicy(policy, Pushes)
     \/ class \in PolicyTrees \ PathCopying /\ policy \in PolicyNames
     \/ class \in BaselineClasses /\ policy = "SumAdd"
  /\ nodes = <<>> /\ roots = <<>> /\ heap = NoHeap
  /\ arraySize = 0 /\ bound = 0 /\ usable = TRUE
  /\ initial = <<>> /\ asked = <<>>

-----------------------------------------------------------------------------
\* What every successful initialization leaves the caller with.
Started(values) ==
  /\ arraySize' = Len(values)
  /\ usable' = TRUE
  /\ initial' = values /\ asked' = <<>>
  /\ UNCHANGED <<class, policy>>

Returned(call) ==
  /\ asked' = Append(asked, call)
  /\ UNCHANGED <<class, policy, arraySize, usable, initial>>

Computed(records) == \A i \in DOMAIN records : records[i].aggregate # Overflow

\* initialize of a persistent structure, given what its build makes of the array.
BuiltFrom(values, built) ==
  /\ IF values = <<>> THEN nodes' = <<>> /\ roots' = <<NoNode>>
     ELSE Computed(built.arena) /\ nodes' = built.arena /\ roots' = <<built.root>>
  /\ Started(values)
  /\ UNCHANGED heap

PathCopyingInitialize(values) ==
  /\ class \in PathCopying
  /\ BuiltFrom(values, Build(policy, values, <<>>, Root(Len(values))))
  /\ UNCHANGED bound

PointMaterializedInitialize(values) ==
  /\ class = "PointMaterializedPersistentTree"
  /\ BuiltFrom(values, TaglessBuild(policy, values, <<>>, Root(Len(values))))
  /\ UNCHANGED bound

CopyOnPushInitialize(values) ==
  /\ class = "CopyOnPushSegmentTree"
  /\ Admissible(values)
  /\ BuiltFrom(values, CopyOnPushBuild(values))
  /\ bound' = MaxMagnitude(values)

PointOnlyInitialize(values) ==
  /\ class = "PointOnlyPersistentSegmentTree"
  /\ BuiltFrom(values, PointOnlyBuild(values))
  /\ UNCHANGED bound

FullCopyInitialize(values) ==
  /\ class = "FullCopyPersistentSegmentTree"
  /\ BuiltFrom(values, FullCopyBuild(values))
  /\ UNCHANGED bound

\* initialize of a structure in place, given its new heap.
BuiltInPlace(values, built) ==
  /\ \A k \in DOMAIN built.aggregates : built.aggregates[k] # Overflow
  /\ heap' = built
  /\ Started(values)
  /\ UNCHANGED <<nodes, roots>>

PushedLazyInitialize(values) ==
  /\ class = "PushedLazyTree"
  /\ BuiltInPlace(values, Heap(policy, values))
  /\ UNCHANGED bound

LazyInitialize(values) ==
  /\ class = "LazySegmentTree"
  /\ Admissible(values)
  /\ BuiltInPlace(values, LazyHeap(values))
  /\ bound' = MaxMagnitude(values)

-----------------------------------------------------------------------------
(***************************************************************************)
(* An update of a persistent structure: the identity action shares the     *)
(* latest root; otherwise the path is copied and the new root published,   *)
(* or, when a record or the root cannot be made, the arena is cut back.    *)
(***************************************************************************)
Publish(updated, call) ==
  /\ Computed(updated.arena)
  /\ \A i \in DOMAIN updated.arena :
       "tag" \in DOMAIN updated.arena[i] => ~Throws(policy, updated.arena[i].tag)
  /\ nodes' = updated.arena
  /\ roots' = Append(roots, updated.root)
  /\ Returned(call)

Fail(updated) ==
  /\ \E made \in Len(nodes) .. Len(updated.arena) :
       nodes' = RollBack(SubSeq(updated.arena, 1, made), Len(nodes))
  /\ UNCHANGED <<class, policy, roots, arraySize, bound, usable, initial, asked>>

ShareRoot(call) ==
  /\ roots' = Append(roots, Last(roots))
  /\ Returned(call)
  /\ UNCHANGED <<nodes, bound>>

PathCopyingRangeApply(call) ==
  /\ class \in PathCopying
  /\ IF call.action = ActionIdentity(policy) THEN ShareRoot(call)
     ELSE LET updated == Update(policy, Pushes, nodes, Last(roots), Root(arraySize), call)
          IN  \/ Publish(updated, call) /\ UNCHANGED bound
              \/ Fail(updated)
  /\ UNCHANGED heap

PointMaterializedRangeApply(call) ==
  /\ class = "PointMaterializedPersistentTree"
  /\ IF call.action = ActionIdentity(policy) THEN ShareRoot(call)
     ELSE LET updated == MaterializedUpdate(policy, nodes, Last(roots), Root(arraySize), call)
          IN  \/ Publish(updated, call) /\ UNCHANGED bound
              \/ Fail(updated)
  /\ UNCHANGED heap

CopyOnPushRangeAdd(call) ==
  /\ class = "CopyOnPushSegmentTree"
  /\ IF call.action = 0 THEN ShareRoot(call)
     ELSE LET leaves == Materialize(nodes, Last(roots), Root(arraySize), 0)
              updated == CopyOnPushUpdate(nodes, Last(roots), arraySize, call)
          IN  /\ ValidateRangeAdd(bound, leaves, call.left, call.right, call.action)
              /\ \/ /\ Publish(updated, call)
                    /\ bound' = NextBound(bound, leaves, call.left, call.right, call.action)
                 \/ Fail(updated)
  /\ UNCHANGED heap

PointOnlyRangeAdd(call) ==
  /\ class = "PointOnlyPersistentSegmentTree"
  /\ IF call.action = 0 THEN ShareRoot(call)
     ELSE LET updated == PointOnlyUpdate(nodes, Last(roots), arraySize, call)
          IN  \/ Publish(updated, call) /\ UNCHANGED bound
              \/ Fail(updated)
  /\ UNCHANGED heap

FullCopyRangeAdd(call) ==
  /\ class = "FullCopyPersistentSegmentTree"
  /\ IF call.action = 0 THEN ShareRoot(call)
     ELSE LET updated == FullCopyUpdate(nodes, Last(roots), Root(arraySize), call)
          IN  \/ Publish(updated, call) /\ UNCHANGED bound
              \/ Fail(updated)
  /\ UNCHANGED heap

-----------------------------------------------------------------------------
(***************************************************************************)
(* Updates and queries in place.  A PushedLazyTree is not to be used after *)
(* an operation that threw; a heap that holds Overflow is one of a call    *)
(* that threw half-way.  LazySegmentTree stays usable after a throw, since *)
(* its dry run is to have met every overflow before the first write.       *)
(***************************************************************************)
Whole(h) == \A k \in DOMAIN h.aggregates :
              h.aggregates[k] # Overflow /\ ~Throws(policy, h.tags[k])

PushedLazyRangeApply(call) ==
  /\ class = "PushedLazyTree"
  /\ usable
  /\ heap' = PushedUpdate(policy, heap, 1, Root(arraySize), call)
  /\ IF Whole(heap') THEN Returned(call)
     ELSE usable' = FALSE /\ UNCHANGED <<class, policy, arraySize, initial, asked>>
  /\ UNCHANGED <<nodes, roots, bound>>

PushedLazyRangeAggregate(left, right) ==
  /\ class = "PushedLazyTree"
  /\ usable
  /\ LET read == PushedQuery(policy, heap, 1, Root(arraySize), left, right)
     IN  heap' = read.heap /\ usable' = (Whole(read.heap) /\ read.answer # Overflow)
  /\ UNCHANGED <<class, policy, nodes, roots, arraySize, bound, initial, asked>>

LazyRangeAdd(call) ==
  /\ class = "LazySegmentTree"
  /\ LET leaves == LazyMaterialize(heap, 1, Root(arraySize), 0)
     IN  IF call.action = 0 THEN Returned(call) /\ UNCHANGED <<heap, bound>>
         ELSE /\ ValidateRangeAdd(bound, leaves, call.left, call.right, call.action)
              /\ ValidateUpdate(heap, 1, Root(arraySize), call) # Overflow
              /\ heap' = LazyUpdate(heap, 1, Root(arraySize), call)
              /\ IF Whole(heap')
                 THEN /\ Returned(call)
                      /\ bound' = NextBound(bound, leaves, call.left, call.right, call.action)
                 ELSE UNCHANGED <<class, policy, arraySize, bound, usable, initial, asked>>
  /\ UNCHANGED <<nodes, roots>>

Initialize(values) ==
  \/ PathCopyingInitialize(values) \/ PointMaterializedInitialize(values)
  \/ PushedLazyInitialize(values) \/ CopyOnPushInitialize(values)
  \/ PointOnlyInitialize(values) \/ FullCopyInitialize(values) \/ LazyInitialize(values)

RangeUpdate(call) ==
  \/ PathCopyingRangeApply(call) \/ PointMaterializedRangeApply(call)
  \/ PushedLazyRangeApply(call) \/ CopyOnPushRangeAdd(call)
  \/ PointOnlyRangeAdd(call) \/ FullCopyRangeAdd(call) \/ LazyRangeAdd(call)

Next ==
  \/ \E values \in Arrays[policy] : Initialize(values)
  \/ \E right \in 1 .. arraySize : \E left \in 1 .. right :
       \/ \E action \in Actions[policy] :
            /\ Len(asked) < MaxUpdates
            /\ RangeUpdate([isUpdate |-> TRUE, left |-> left, right |-> right,
                            version |-> 0, action |-> action])
       \/ PushedLazyRangeAggregate(left, right)

Spec == Init /\ [][Next]_vars

-----------------------------------------------------------------------------
(***************************************************************************)
(* The reference: the policy on unbounded integers, and the array after    *)
(* the first k updates that returned, applied element by element.          *)
(***************************************************************************)
ExactApply(action, value) ==
  IF policy = "AffineSumMod" THEN (action[1] * value + action[2]) % Modulus ELSE value + action

Replayed(k) ==
  LET after[j \in 0 .. k] ==
        IF j = 0 THEN initial
        ELSE [p \in DOMAIN initial |->
                IF p \in asked[j].left .. asked[j].right
                THEN ExactApply(asked[j].action, after[j - 1][p])
                ELSE after[j - 1][p]]
  IN  after[k]

ExactAggregate(values, left, right) ==
  LET part == SubSeq(values, left, right)
  IN  CASE policy = "SumAdd" -> FoldSeq(+, 0, part)
        [] policy = "MinAdd" -> Min(Range(part))
        [] policy = "AffineSumMod" -> FoldSeq(+, 0, part) % Modulus

\* A tag acts on every element below its node; a leaf's is already in its aggregate.
ActedOn(elements, action) == [p \in DOMAIN elements |-> ExactApply(action, elements[p])]

RECURSIVE ElementsBelow(_, _)
ElementsBelow(index, c) ==
  LET current == nodes[index]
      below == ElementsBelow(current.leftChild, LeftHalf(c))
               \o ElementsBelow(current.rightChild, RightHalf(c))
  IN  IF IsLeaf(c) THEN <<current.aggregate>>
      ELSE IF "tag" \in DOMAIN current THEN ActedOn(below, current.tag) ELSE below

\* In PushedLazyTree a leaf's tag is pending like any other.
RECURSIVE ElementsInHeap(_, _)
ElementsInHeap(node, c) ==
  IF ~IsLeaf(c)
  THEN ActedOn(ElementsInHeap(2 * node, LeftHalf(c))
               \o ElementsInHeap(2 * node + 1, RightHalf(c)), heap.tags[node])
  ELSE IF class = "PushedLazyTree" THEN ActedOn(<<heap.aggregates[node]>>, heap.tags[node])
  ELSE <<heap.aggregates[node]>>

(***************************************************************************)
(* Every published version, and the state of a structure in place, is the  *)
(* replay of the updates that returned up to it: whatever the order in     *)
(* which nested updates, tags, pushes and queries came, nothing that threw *)
(* left a trace and no version changed after it was published.             *)
(***************************************************************************)
VersionsReplayTheCalls ==
  IF class \in InPlace
  THEN arraySize > 0 /\ usable =>
         ElementsInHeap(1, Root(arraySize)) = Replayed(Len(asked))
  ELSE arraySize > 0 =>
         /\ Len(roots) = Len(asked) + 1
         /\ \A v \in DOMAIN roots :
              ElementsBelow(roots[v], Root(arraySize)) = Replayed(v - 1)

\* The answer of each structure's query over one range.
Answer(v, left, right) ==
  CASE class \in PathCopying ->
         Query(policy, nodes, roots[v], Root(arraySize), left, right, ActionIdentity(policy))
    [] class = "PointMaterializedPersistentTree" ->
         TaglessQuery(policy, nodes, roots[v], Root(arraySize), left, right)
    [] class = "CopyOnPushSegmentTree" -> CopyOnPushQuery(nodes, roots[v], arraySize, left, right)
    [] class = "PointOnlyPersistentSegmentTree" ->
         PointOnlyQuery(nodes, roots[v], arraySize, left, right)
    [] class = "FullCopyPersistentSegmentTree" ->
         FullCopyQuery(nodes, roots[v], arraySize, left, right)
    [] class = "PushedLazyTree" ->
         PushedQuery(policy, heap, 1, Root(arraySize), left, right).answer
    [] class = "LazySegmentTree" -> LazyQuery(heap, 1, Root(arraySize), left, right, 0)

(***************************************************************************)
(* Every range of every version, or of the current state in place, has the *)
(* exact aggregate of its elements, or the query reports an overflow.      *)
(* AffineSumModPolicy never does, nor does a query of the whole array,     *)
(* whose aggregate the root holds.                                         *)
(***************************************************************************)
AggregatesExact ==
  usable => \A v \in (IF class \in InPlace THEN {Len(asked) + 1} ELSE DOMAIN roots) :
    \A right \in 1 .. arraySize : \A left \in 1 .. right :
      \/ Answer(v, left, right) = ExactAggregate(Replayed(v - 1), left, right)
      \/ /\ policy # "AffineSumMod" /\ <<left, right>> # <<1, arraySize>>
         /\ Answer(v, left, right) = Overflow

(***************************************************************************)
(* The arena of each persistent structure holds exactly the records that   *)
(* structuralCounts predicts from the updates alone: the visited nodes,    *)
(* two more for each push, the intersecting nodes, or whole trees; none    *)
(* for an identity action, and none for a call that threw.                 *)
(***************************************************************************)
ArenaAsPredicted ==
  class \notin InPlace /\ arraySize > 0 =>
    LET counts == StructuralCounts(policy, asked, arraySize, 0)
        appended == CASE class = "RetainedTagPersistentTree" -> counts.updateVisits
                      [] Pushes -> counts.updateVisits + 2 * counts.pushes
                      [] class \in {"PointMaterializedPersistentTree",
                                    "PointOnlyPersistentSegmentTree"} -> counts.intersecting
                      [] class = "FullCopyPersistentSegmentTree" ->
                           counts.nonZeroUpdates * CanonicalNodeCount(arraySize)
    IN  Len(nodes) = CanonicalNodeCount(arraySize) + appended

(***************************************************************************)
(* From the bound a structure keeps in it, which the history of updates    *)
(* has made coarse or an exact look has made tight, and from the elements, *)
(* a SumAddDomainGuard admits an update exactly when the updated array is  *)
(* in the numeric domain: the bound never lets a bad update in and never   *)
(* keeps a good one out.  This is the guard alone.  The structure asks for *)
(* more: a retained tag or an intermediate that overflows refuses an       *)
(* update past the guard, as the tag of the one leaf does when <<-8>> gets *)
(* 3 a third time.                                                         *)
(***************************************************************************)
GuardAdmitsExactlyTheDomain ==
  class \in Guarded /\ arraySize > 0 =>
    LET elements == Replayed(Len(asked))
    IN  \A action \in Actions[policy], right \in 1 .. arraySize : \A left \in 1 .. right :
          ValidateRangeAdd(bound, elements, left, right, action)
            <=> InDomain(AddToRange(elements, left, right, action))

=============================================================================
