# A TLA+ development of valseg, the version-aware lazy segment trees

`valseg` is a C++20 library of persistent segment trees with range addition and
range sum, an experiment harness around it, and the proofs and protocols its
paper rests on. This directory holds TLA+ models of the library, the TLC
configurations that check them and machine-checked proofs about the core
structure. Line numbers in comments and in `PROJECT.json` refer to the
repository's sources.

## 1. The system

All structures answer the same interface: `initialize(values)` starts a new
history at version 0, `rangeAdd(left, right, value)` publishes one new version
from the latest one, `rangeSum(version, left, right)` reads any published
version. A call that throws must leave the published history as it was (strong
guarantee). There is no concurrency within a process: one thread runs one call at a time.
What is hard is that a call is a long recursion over a structure shared by all
versions, that each of its steps may throw (allocation, numeric overflow), that
published nodes are shared, and in some structures written to, and that retained
lazy tags make a node's meaning depend on the path it is reached by.

| component (source) | state | operations | what makes it correct |
|---|---|---|---|
| checked arithmetic, policies (`policy.hpp`) | none | checked add, multiply, length, `apply` | exact or an exception, never wrapped |
| geometry (`detail/checked_size.hpp`) | none | midpoint, length, height, node count | the partition every structure recurses along |
| numeric domain (`detail/sum_add_domain.hpp`) | one bound on the elements' magnitude | construct, `validateRangeAdd`, `commit` | admits exactly the updates that keep all canonical sums representable, from a coarse scalar when it can |
| `BruteForceArray` | one array per version | `initialize`, `rangeAdd` from any base, `rangeSum` | the reference semantics the tests compare every structure with |
| `PersistentLazySegmentTree` | arena of immutable nodes, roots, bound | path copying, no pushing | refines the reference; rollback by cutting the arena; an update costs its visited segments |
| `BufferedPathCopyingSegmentTree` | arena of nodes with two stamped slots, roots, bound, the record of in-place writes | in-place writes to published nodes, copies on overflow | old versions unaffected by later entries; rollback of entries and copies |
| `FatNodePersistentSegmentTree` | nodes with up to three stamped states | in-place states, copies on overflow | nothing throws after the first mutation: the reservation covers every copy |
| `CheckpointingSegmentTree` | live tree, update log, periodic copies | update in place, log, checkpoint, replay | checkpoint plus replay equals the version; allocation before mutation |
| `PointOnly…`, `FullCopy…` | arenas | tagless copying, whole-tree copying | rollback by a resize without any preflight |
| `LazySegmentTree` | heap-indexed arrays | in-place update | the dry run meets every overflow the update would |
| `CopyOnPushSegmentTree` (`bench/`) | arena, roots | pushes tags into copied children | allocates exactly what `PushCountingModel` counts |
| `policy_trees.hpp` | arenas over a policy | retained tags, or copy on push | which algebras each is right for |
| frontier arithmetic (`frontier.hpp`) | none / an explicit stack | executed and closed-form frontier, sums over families of ranges | closed form = recursion; maximum `4h - 3` |
| campaign runner (`bench/*.sh`, `confirm_schedule.py`) | files: schedule, checksum, metadata, one runs file per cell, phase markers | gate, generate, run a cell, resume, audit | a resumed campaign never mixes configurations nor counts a torn cell |
| harness (`bench/workloads.cpp`, `adapters.hpp`, `bench_main.cpp`, `structural_counts.hpp`) | a stream, one structure, one checksum | generate or read a stream, replay it interleaved or in batches up to a memory cap, enumerate trials | modes and structures agree; a one-trial process records the row the whole invocation would |
| statistics, external baseline (`bench/analysis`, `bench/external`) | – | figures, a third-party tree | – |

Interactions are plain calls. Every range-add structure but the
point-only and full-copy trees holds a `SumAddDomainGuard` and calls it before it mutates: the guard asks back, through
a callback, for the leaves of the latest version when its scalar does not
suffice, and returns the bound to commit after publication. All structures
partition segments by the same geometry, so the guard's canonical sums are the
very sums the trees store. The tests run each structure beside
`BruteForceArray`. The harness replays one stream of operations through an adapter
of each structure and compares their checksums; the campaign runner starts it
once per scheduled cell and communicates with earlier, possibly killed,
incarnations through files only.

`PROJECT.json` lists the hazards one by one, at the lines where they bite.

## 2. Plan

The order was: the arithmetic, geometry and guard that everything shares, the
reference and the frontier arithmetic; the core structure
`PersistentLazySegmentTree` with its refinement and its proofs;
`BufferedPathCopyingSegmentTree`, the structure with the most delicate rollback;
the two structures that write to their nodes without any rollback,
`FatNodePersistentSegmentTree` and `CheckpointingSegmentTree`; the policy trees and
the four baselines, whose calls are checked one step per call; and the layers above
the structures, from streams over replays and invocations to a campaign whose
processes are killed.

The structure models INSTANCE `BruteForceArray` for their refinement, reuse
`SumAddDomain` and, where they recurse alike, `TreeRecursion`. `TreeVariants`
composes `ActionTrees`, `BaselineTrees` and `StructuralCounts`; `Replay` composes the
same trees with `Workloads` and `BenchRun`, and `Campaign` composes `BenchRun` with
the runner.

The proofs go bottom-up: the geometry, the arithmetic, the guard and the trees that
arrays make as lemmas; the reference; then `PersistentLazySegmentTree`,
`BufferedPathCopyingSegmentTree`, `FatNodePersistentSegmentTree` and
`CheckpointingSegmentTree` completely, every invariant and action property of them that
their passing runs check and their refinement of the reference; and the campaign, every
property of it but the liveness. All of this is done; section 6 ends with what is left to
TLC, and why.

## 3. Modules

`Value` is a signed integer of width `-MaxVal-1 .. MaxVal`: `MaxVal` is a
constant, so the runs about structures take a width of 3 or 4 bits and meet both
ends of it, and the theorems hold for 64. `Overflow` stands for the exception a checked
operation raises; it propagates through the operators as the exception does
through the calls. Positions and versions count from 1.

* `CheckedArithmetic` – `checkedAdd`, `checkedMultiply`, `checkedLength`,
  `SumAddPolicy::apply`.
* `CanonicalTree` – segments `<<low, high>>`, their halves, the recursion's
  tests (`Covers`, `Disjoint`), height, node count, the segments of a tree and
  those an update visits. Overflow of sizes is left out: sizes are far below
  the width of `size_t`.
* `SumAddDomain` – the guard's helpers, `ValidateRangeAdd` (does it return) and
  `NextBound` (what it returns), and the mathematical definition of the domain
  (`InDomain`) they are compared with.
* `BruteForceArray` – the reference, and the abstract specification. Its state
  is the sequence of all versions; a failing call is a stuttering step. Its `rangeAdd`
  takes any version as its base, that of the persistent structures the latest only:
  `LatestSpec` is what they implement, and `BruteForceArray_proofs` shows that it
  implies the reference's `Spec`.
* `Frontier`, `FrontierSum` – `frontier.hpp`: the counts as recursive
  functions, and the loop of `frontierSum` with its explicit stack, one visit
  per step.
* `TreeRecursion` – the frames of `build` and `update` that the persistent, buffered and
  fat-node trees share: the halves still to descend into, the children received.
* `PersistentLazySegmentTree` – `nodes`, `roots`, `arraySize`, `bound` are the
  members; `newNodes`, `nextBound`, `call` and `stack` are the locals of a
  running call. `BeginInitialize`, `BeginRangeAdd` and `RangeAddZero` are the
  calls up to their first append (validation and preflight included), `Descend`
  is one recursive call, `Return` appends one node and returns, `PublishInitial`
  and `PublishVersion` are what follows the recursion, and `Throw` is an
  exception at any point where the code can raise one, with the handler of
  `rangeAdd`. `Query` and `Materialize` are the reading recursions. A node has
  a history field `segment`, which no action's guard reads.
* `BufferedPathCopyingSegmentTree` – the same decomposition; a frame ends either
  by an entry appended to a published node's buffer or by a copy of the node
  with its buffer flushed, `bufferedThisUpdate` is the record of in-place writes, and a
  throw pops the recorded entries before it cuts the arena. The
  record is made before the write, so the one allocation of the step can only
  fail before both.
* `FatNodePersistentSegmentTree` – `nodes` is the arena of histories, and
  `capacity` and `rootCapacity` are the capacities of the two vectors, which are
  state because the guarantee rests on them. `BeginRangeAdd` is the guard and the
  dry run, `Reserve` the reservation, `RecordInPlace` and `RecordInCopy` the two
  ends of `record`, `Publish` what follows the recursion. A reading recursion is a
  function of a `Visit`, which holds its parameters. `Throw` covers either
  failing allocation of the reservation, and any overflow or append beyond the
  reservation afterwards; that there is none is `ThrowsBeforeMutation`.
  `initialize` works on locals and swaps, so it is one step.
* `CheckpointingSegmentTree` – `live`, `events` and `checkpoints` are the members.
  A `rangeAdd` is the guard and dry run, then `LogEvent`, `StoreCheckpoint`, the
  writes of `update` to the live tree, `BeginCopy` and those to the checkpoint's
  copy, one node per step, and `Return`. `RangeSum` reads the live tree, or a
  checkpoint and the replayed log. Children are found by slot arithmetic, as in the
  code. `Throw` takes the event back when the checkpoint cannot be allocated.
* `Policies`, `ActionTrees` – the three policies, an action's policy being an
  argument, and the recursions of `policy_trees.hpp`: retained tags or copy-on-push
  (`Update`, `Query`), point materialization, and the push-down of a heap in place.
  An arena is handed from call to call as the code hands on its vector.
* `BaselineTrees` – the recursions of `CopyOnPushSegmentTree`, of the point-only,
  full-copy and non-persistent trees, and of `PushCountingModel`. Where a baseline's
  recursion is that of a policy tree over `SumAddPolicy`, it is defined by it.
* `StructuralCounts` – `structural_counts.hpp`, a recursion over a stream.
* `TreeVariants` – all of these classes as one state machine: `class` and `policy` are
  chosen initially, `initialize` and the updates are actions, and so is the query of
  `PushedLazyTree`, which pushes. A call is one step, since nothing runs between the
  steps of a call; what a call that throws leaves is computed by the same operators:
  `Fail` cuts the arena back, while a heap in place keeps what was written
  before the exception, which is why `PushedLazyTree` is not `usable` after one.
* `Workloads`, `BenchRun` – `workloads.cpp`: the twelve workloads and the operations
  the generator can draw next; `run` of `bench_main.cpp`: the rows an invocation
  records, the attempts it skips and the seeds, and the cells `confirm_schedule.py`
  makes of the same points.
* `Replay` – a stream is generated for a shrunk workload (`Draw`) or read from a trace
  (`ReadLine`), then replayed through an adapter in both modes under a memory cap
  (`Measure`).
* `Campaign` – `run_schedule` of `run_confirmatory.sh`. `schedule`, `digest`, `runs`,
  `memory` and `complete` are the files, `pc` and `next` the runner, `attempts` the
  process it waits for. `Kill` ends both anywhere, `PowerLoss` may also empty the files
  written last, `ReplaceSchedule` is somebody who writes another schedule between
  two runs.
* `MC…` – the constants of the runs.

The modules of proofs (section 6):

* `SegmentTrees_proofs` – the lemmas that all of them cite: segments, induction, the frames
  of the recursion; arithmetic, canonical sums, the guard; trees of arrays, their reads
  and updates.
* `BruteForceArray_proofs` – the reference stays in its domain and is exact, and what
  the persistent structures implement is the reference.
* `PersistentLazySegmentTree_proofs` – nodes and recursion of the core structure, then
  what its versions stand for.
* `BufferedPathCopyingSegmentTree_proofs` – links, recursion, buffers and the record of
  in-place writes, then what the versions stand for.
* `FatNodePersistentSegmentTree_proofs` – histories, links, dry run and reservation of
  the fat-node tree; `FatNodeVersions_proofs` – what its versions stand for.
* `CheckpointingSegmentTree_proofs` – the layout by slots, the dry run, the writes of an
  update in place, the schedule of checkpoints and the replay of the log.
* `Campaign_proofs` – the folds a schedule is built with, the files of the campaign over
  its restarts, and the rows in them.

The reads of the core, the buffered and the checkpointing structure are recursive functions
over visits, as are the dry run and the order of writes of the last:
a `Visit` is the tuple of parameters of one activation of `query` or `materialize`
(node, segment, inherited tag), `LeftVisit` and `RightVisit` are its two recursive
calls. `NodeAt` is the access to the arena.

## 4. Runs

| run | question | bounds |
|---|---|---|
| `brute_versions` | does the reference publish exactly the admissible updates, from every base, as values with representable sums, and answer exactly? | arrays of 0–3, 4 versions |
| `frontier_sum` | closed form = recursion = set of visited segments; tight maximum; the summation loop gives the enumerated sum | every array up to 20, every range, all-ranges and every fixed width |
| `persistent` | nodes, recursion, bound, queries, orphans and published nodes at every point of running, failing and finished calls; is it the reference? does each call return? | arrays of 0–3 and 5 on 4 bits, 3 updates of every range, re-initialization |
| `persistent_contract` | (finding) is an overflow reported only for an unrepresentable sum? | three zeros, 5 updates |
| `buffered` | buffers in order, every entry of a running update recorded, published versions consistent, exact and immutable; is it the reference, although it writes to published nodes? | arrays of 0–3, 4 updates of every range, re-initialization |
| `buffered_contract` | (finding) can an element that is representable always be read? | three elements, 4 updates |
| `checkpointing` | do the live tree, the checkpoints and the log agree after every return and failure? is a replayed version the reference's? does nothing throw once nodes are written? | arrays of 0–3, intervals 1–3, 3 updates, re-initialization |
| `fat_node` | do stamps order every history? are old versions unaffected by newer states in their nodes? does the reservation cover every copy, the dry run every overflow? is it the reference? | arrays of 0–3 on 4 bits, 4 updates, re-initialization |
| `tree_variants` | does each policy tree over each policy it admits, and each baseline, replay the calls that returned and answer exactly? does it append what the counts predict? does their guard, given the elements and however coarse its bound, admit exactly the updates into the domain? | arrays of 0, 1 and 3 on 4 bits (modulus 3), 3 updates of every range, reads and failures between |
| `replay` | do generated streams name only versions and ranges that exist? do the structures' checksums agree with the reference in both modes? does the cap strike in both or in none? | every workload shrunk to 3 operations over 2 elements; every trace of 3 lines over 3 elements; caps of none, some and ample bytes |
| `campaign` | do files of two schedules stay apart, rows once flushed stay, each row equal what one invocation records? is the phase completed in the end? | the sweep of K over 3 structures, a second trial for the primary cells and the capped ones, 2 crashes, each a kill or a loss of power, one replacement of the schedule |
| `campaign_holes` | (finding) does a phase marked complete have every row? | the same sweep, 2 structures, one kill |

Why the bounds are enough. A tree of three elements already has an uneven
partition, a partial node on each side of a covered one, and shared subtrees; one
of five has depth three, where a segment is reached through two partial
ancestors. Three updates nest a partial copy between two covered ones, which is
what tags need to be counted wrongly. In the buffered tree the third change of a
node flushes it, and the fourth update lets a leaf be copied below a root that
was copied earlier and has room again. In the fat-node tree, whose nodes
are created with one state, the second change of a node fills its history and the
third copies it; the fourth update lets a child be copied below a root that was
copied before and links it in place. Three versions at intervals of one to three put a
version before, at and after a checkpoint. The deltas and elements are chosen so that
constructions overflow (in the root, and below a root that would fit) and so that
the guard takes both its scalar and its exact path, and rejects on both. Frontier
sizes up to 20 hold four full powers of two and all shapes of the boundary paths.
Scaling and shifting modulo 3 do not commute, so a tag composed in the wrong order
shows after two nested updates. Streams of three operations hold two updates and a
query in every order, which is what batch mode reorders. The sweep of K is the one
whose points the schedule and an invocation enumerate each in its own way; two crashes
put a fault into the recovery from a fault.

Named bounds in guards: `MaxVersions`, `MaxUpdates` and `MaxReinitVersions` (initialize
is called only while at most that many versions are published), `MaxLines`,
`MaxCrashes` and `MaxLosses`; `Measured` says of which workloads the streams are also
replayed. Deadlock is not checked where a model stops at its bounds, on an empty array,
after the last visit or when a campaign has nothing left that can fail; progress is
checked by `CallsReturn` and `PhaseCompletes` instead.

Names ending in a fault (`ThrowKeepsNodes`, `AbsorbsOneMore`, …), each marked
"Seeded bug", are variants of a definition that a plausible slip would produce.
Nothing uses them; each serves to show that a property notices the slip.

## 5. Fairness

`WF_vars(Step)` in `PersistentLazySegmentTree`: once a call is running, the thread
executing it takes the next step. Nothing obliges a client to call, so the calls
themselves have no fairness. `CallsReturn` says the recursions end, by return or by
exception; it would fail if an exception could be raised that no handler takes, or
if a frame were left with nothing to do.

`WF_vars(Run)` in `Campaign`: the runner and the process it waits for go on unless they
are killed, and whoever runs the campaign starts the script again whenever it has
ended, which is what a "restartable" run that is "executed resumably" is for
(`bench/README.md`). Kills
have no fairness. `PhaseCompletes` says the phase is then completed, if the schedule in
the end stays the recorded one; a runner that stopped at its own leftovers, however
often it was started, would violate it.

The other models state safety only and assume no fairness.

## 6. Proofs

Everything below is proved for all arrays, deltas, widths, bounds, schedules and numbers
of crashes. The only assumptions are those stated beside the constants: arrays and deltas
hold values of the width, the width and the bounds are natural numbers (the width not
zero), a checkpoint interval is at least one, and the campaign's counts are natural numbers
and its scheduled structures ones it knows.

### Shared lemmas

What a recursive definition computes is proved by induction over *sets*:
`SetInduction` and `SegmentInduction` take the set of all numbers, or segments, that have
a property, and follow from the library's theorem that a well-founded relation has
minimal elements. A recursive function of TLA+ is a `CHOOSE`, of which nothing is known
until some function solves its equation: `VisitRecursionSolved` (reads of a tree),
`CountRecursionSolved` (loops over a sequence) and `SegmentsRecursion` show that one does.
`SegmentsWithin`, `Halves` and `HalvesLength` are the geometry. `Nested` and `Passed` say
where a recursion stands: each frame works on the half its caller descended to, and no
frame, nor any half still to descend into, lies within a segment that is done;
`NestedAppend`, `PassedAppend`, `NestedResume` and `PassedResume` carry both
through a descent and a return. A checked
result other than `Overflow` is the exact one, and canonical sums are sums of elements.

Where nodes keep histories, or are shared between versions, a tree is taken apart into
`place`, which puts a node on every segment of the partition, and `label`, the sum and
the tag that are read there. `Labelled` says that sums are those of the children plus the
tag of the node for every element, `StandsFor` which array the labels stand for, and
`TreeOf` both. Three lemmas are then common property: what a recursive
read returns (`ReadsExactly`), that a tree without tags is the array's canonical sums
(`UntaggedTreeOf`), and that an update which adds the delta to the tags of the covered
segments, and to the sums of those it meets, makes the tree of the updated array
(`TreeUpdated`). `Laminar` and `OneParent` say what two segments of a partition can have in common.

### The guard

`GuardSound`: an update it admits, by the coarse scalar or by the exact sums, leads to an
array with all elements and canonical sums representable, below the bound it returns.
`GuardExact`: from any bound that is sound for the current elements, `ValidateRangeAdd`
returns exactly when the updated array is `InDomain`, that is, when every element and the
mathematical sum of every canonical segment is representable; the recursion, the scalar and
the checked intermediates neither let a bad update in nor keep a good one out. That the
bound is sound at every moment is proved with the structure that keeps it
(`EnvelopeStaysSound`); `tree_variants` checks `GuardExact`'s equivalence from the bounds
that LazySegmentTree and CopyOnPushSegmentTree keep (`GuardAdmitsExactlyTheDomain`).

Both are about the guard, not about the structure behind it, which admits less: its
documented domain includes retained tags and evaluated intermediates, so it refuses an
update that the guard lets pass when one of those overflows. On 4 bits, `<<-8>>` plus 3,
three times, ends in the element 1, yet the third update is refused for the leaf's tag 9
(`validateUpdate` in `lazy_segment_tree.cpp`, `checkedAdd(current.lazy, value)` in
`copy_on_push_segment_tree.hpp`). `VersionsReplayTheCalls` shows that such a refusal
leaves no trace.

### BruteForceArray

`DomainInvariant`: every version is an admissible array, because initialize and rangeAdd
publish only what the guard admits. `VersionsStayInDomain` and `RangeSumsExact` follow; the
latter by induction over the left-to-right loop of `rangeSum`. `LatestSpecRefines`: a
history of updates of the latest version is a history of the reference.

### PersistentLazySegmentTree

* `TypeCorrect`, `TreesStayWellFormed`, `RecursionConsistent` – `Spec => []…` of the three
  parts of the inductive invariant `IInv == TypeOK /\ TreesWellFormed /\ ControlConsistent`.
  `TreesWellFormed` (children are older than parents and made for its halves, every stored
  sum is that of the children plus the node's own tag for every element) is not inductive
  alone: that a finished frame's node has its sums right needs that its children were made
  for the halves of its segment, which is `FrameOK`, and that the frame reads a *published*
  node of its own segment, which the immutability of the arena below the checkpoint carries
  through the recursion. `FrameOK` in turn needs the well-formedness of the node it
  descends from, and both need the types to compute with.
* `VersionsImmutable` – the strong guarantee: no step but a completed re-initialization, in
  particular no rollback, changes or drops a node of a published version. It follows from
  `IInv`, because `Throw` cuts the arena at the checkpoint and `Return` only appends.
* `NoNodeLost` – `Spec => []NoOrphans`. The strengthening `NoneLost` says of every node of
  the arena who holds it: a published one is a root or a child of a published node, one made by
  the running call is a child already, or is held by a frame that will link it, or is the
  root to be published. That reachability from the roots follows is an induction down the
  arena.
* `VersionsInvariant` – `Spec => [](IInv /\ VInv)`. `VInv` is about the arrays that trees stand
  for on unbounded integers (`Elements`): the sums of a node's two children can be added
  within the width, which keeps the tags above them readable (`SumsFit`); every version is admissible
  (`VersionsAdmissible`) and the latest one below the bound (`BoundSound`); a running update
  has been admitted (`UpdateAdmitted`); its frames read the latest version and hold, for
  every half they have received back, a node that stands for the elements asked for
  (`FramesCarry`), so that the root returned last stands for the whole array
  (`CallMakesItsArray`). Each needs the others: a frame's sum is representable because the
  update was admitted, which the guard can say only because the bound it started from was
  sound, which is so because what was published is what the call asked for.
* `EnvelopeStaysSound`, `VersionQueriesExact`, `ImplementsReference` – the theorems of
  `EnvelopeSound`, `QueriesExact` and of the refinement. Reading is shown exact by
  induction over visits; `materialize` never overflows on a published version, so `Versions` is the
  sequence of the arrays the trees stand for, and each step maps to one of the reference: the
  publications to `Initialize` and `RangeAdd` as asked, all others, failures included, to stutters.

### BufferedPathCopyingSegmentTree

The inductive invariant is `BInv`: types, links of both arenas and roots (`TreesLinked`), the
place of the running call and of its frames (`CallOK`, `FramesOK`), buffers (`BuffersOK`) and the
record of in-place writes (`RecordOK`). The core of it is that *an update writes to a node at
most once*: the segments of the recorded nodes are segments the recursion has passed, and a
frame's own segment is not, so its node is not among them (`NotWrittenYet`). Hence a
recorded node has exactly one entry of the unpublished version, its last, and a rollback
that pops one entry per record takes back exactly what the failed update wrote.

* `BuffersStayInOrder`, `InPlaceWritesRecorded` – `Spec => []` of `BuffersInOrder` (which
  includes `TypeOK`) and `PendingRecorded`.
* `VersionsImmutable` – published nodes are written to, but no step except a completed
  re-initialization changes their base, their children or an entry that a published
  version reads, or drops or redirects a version.

What versions stand for is a second invariant on top of it, `VersionsInvariant`
(`Spec => []VInv`). A version is a placement of one node on every segment whose snapshots,
taken at the version, are the labels of a tree of one array (`VersionOK`); that of the latest
one is admissible and within the bound (`LatestOK`); and while an update runs, a second
placement differs from that of the latest version exactly at the copies, and a segment it has
*touched*, in place or by a copy, has the label the update makes of the old one when read
one version later, any other the same label at both (`UpdateTree`, by `SettledLabel`: no node but
the recorded ones has an entry of that version). So the two ways a frame can end, which
write to different nodes, are one step of the argument (`Modified`). A rollback pops no entry
that a published version reads (`PoppedLabel`) and drops no node that one reaches, since nodes are
younger than their children (`PlacedBelowRoot`). `initialize` publishes a whole tree because
below a node of a linked arena there is one for every segment (`LinkedTrees`).

* `SnapshotsStayConsistent`, `VersionQueriesExact`, `ImplementsReference` – the theorems of
  `SnapshotsConsistent`, `QueriesExact` and of the refinement. A version can be unreadable in part,
  which the finding below is about, so the array it stands for is that of its tree in exact
  integers (`ExactElements`), and `QueriesExact` compares both readers with it,
  `rangeSum` and `materialize`. The guard reads elements through `materialize`; that
  an element it cannot read can at worst make it reject is `GuardSoundForLeaves`.

### FatNodePersistentSegmentTree

Nothing here can be rolled back, so what has to be shown is that nothing throws once the
first state is written (`NothingThrowsAfterMutation`): every sum must be known to be
representable, and every copy to have a slot, before the first write. The inductive
invariant `FInv` says, of a segment assigned to every node:

* the histories fit their slots, their stamps increase, and none is stamped beyond the version
  being made (`HistoriesOK`); the states of a node were all made for its segment and link to
  nodes for its halves (`Shaped`);
* what the dry run computed (`Foreseen`): the sum each old node will have, as a function of
  the states before the update, solves the very equations `update` evaluates later, and
  is no overflow at the root, hence at none of the nodes the update visits;
* each frame works on an old node without a state of this version, and a half it has
  received back has the sum that was foreseen for it (`FrameOK`). An update writes to a node once
  at most, by the same argument about passed segments as in the buffered tree, so the sums it
  reads are still those the dry run read;
* the room (`RoomOK`): the nodes in use, those of the frames on the stack and those of all the halves
  still to descend into fit the capacity. It starts out true by `VisitLimitSuffices`, a
  count over the partition: below the first segment that the range splits, at most two
  segments of each level are met and not covered, so `4 * (Height(n) + 1)`
  bounds the visits of an update for every `n`.

`StampsStayIncreasing` (`Spec => []StampsIncrease`) follows as well.

What versions stand for is a second invariant on top of it, `VersionsInvariant`
(`Spec => []VInv`). Of a version it says (`VersionOK`) that some `place` and some array form
a tree with the states that are read at the version's stamp, and of the latest
one (`LatestOK`) that the array is admissible and within the bound. Of a running update
(`UpdateTree`) it says which part of the
new tree exists: a second `place` differs from the old one exactly at the copies; a segment that
a state was recorded for has the label the update makes of the old one, any other the
old label; and below a segment that is done no work is left. Published
versions need no argument about the recursion: whatever an update appends has the
stamp of the version it makes, so a read at an older stamp passes over it, in a node written
to in place as well as in a copy. When the root's frame returns, its segment is done,
the new tree is what `TreeUpdated` speaks of, and its array is what was asked for.

* `SnapshotsStayConsistent`, `VersionQueriesExact`, `ImplementsReference` – the theorems of
  `SnapshotsConsistent`, `QueriesExact` and of the refinement: the sequence of the arrays
  that versions stand for changes with the two publications only, and as the reference's does.

### CheckpointingSegmentTree

Here neither nodes nor versions are immutable: two trees are written one node after the
other, and a version is what the log and some checkpoint say it is. `CInv`, which
`VersionsInvariant` proves inductive (`Spec => []CInv`), is about a sequence `W` of arrays, one
for each published version, which occurs in no variable:

* `Recorded` – the log leads from each array to the next (`History`), and the first
  `last \div interval + 1` checkpoints are trees of the versions that are multiples of the interval;
* between calls the log and the checkpoints have nothing else, and `live` is a tree of the
  latest version;
* while a call runs, there is a complete tree `new` of the next version, which the dry run has
  found to have no overflow (`Runs`; `SuccessorExists` makes it from `ValidateUpdate` and the
  guard), and the tree being written is `old` at the nodes still to be written and `new` at
  all others (`Mixed`). The order of the writes is a part of it (`Pending`, `Ordered`): children
  come before their parents and each node once, so a write reads just what it needs, new
  children and its own old tag, and computes the node of `new` (`MixedStep`). The same
  lemma serves both passes, the checkpoint's copy being taken from `old`.

That slots and segments correspond one to one is `SlotsExist`: a subtree of `m`
elements occupies `2 * m - 1` slots after its root, for every size.

* `ThrowsFirst` – `Spec => ThrowsBeforeMutation`: since every write computes a node of `new`, none
  throws. Hence the handler that takes the event back has only the log to repair.
* `TreesAgree`, `VersionQueriesExact`, `ImplementsReference` – the theorems of `TreesAgreeWithLog`,
  `QueriesExact` and of the refinement. The arithmetic of the schedule (`Schedule`) puts the
  checkpoint of a version at or before it, never past it; `ReplayIs` shows that each replayed event
  changes a sum by its delta times the overlap, or that an overflow is reported; and
  `Versions` is `W` at every moment, so a version appears with `Return` alone.

### Campaign

Everything about the campaign holds for all lists of workloads, structures and registered
cells, and all numbers of trials and warm-ups. Two folds make a schedule; `ScheduleCells` says that
whatever order they choose, its lines are exactly the cells planned (`Planned`). There are
three invariants, each on top of the one before:

* `OneScheduleInv` adds to `OneScheduleOnly` what the runner knows at each of its lines:
  past the verification it works on the schedule whose checksum is recorded, and before a
  checksum is recorded no process has ever been started. Theorem: `SchedulesNeverMix`.
* `ProcessInv` – every line of a schedule is a planned cell, however it was torn or
  replaced; a process starts without files of its cell; and of its attempts at most the
  last is no warm-up, so it has none left once it has measured. `MeasuredOnce`
  (`FinishedRowsStay`) follows: the one step that could add to measured rows is
  an attempt, and those that remove files find none with content.
* `RowsInv` – no file has a row but that of its cell (`OwnRowsOnly`); and while nothing
  disturbs the phase, every cell gone past has its row, as does that of the
  running process once its last attempt is made (`Undisturbed`).

What an invocation for everything records is computed from the other end (`RowsOfAll`): a
row for each planned cell, with the seed of its attempt, neither more nor less, although
the schedule and the invocation leave out repeated points of the sweep of K in different ways.
`RawRowsMatch` puts both together: `Spec => []RawMatchesMonolithic`. It has one hypothesis,
`CapsRegistered`: cells that meet the memory cap are in `bench/capped_cells.csv`.
An invocation stops at the cap after so many trials, while a process of
one trial cannot know how many came before it, so for an unregistered cell the
two do differ; the protocol provides for such cells in its analysis
(`docs/research/registered-protocol.md`, H3). The run `campaign` satisfies the hypothesis.

### What stays model-checked

* Liveness (`CallsReturn`, `PhaseCompletes`) and what needs ENABLED: the prover does not
  reach them.
* What is stated with, or about, recursive operators, for which the prover loses its
  arithmetic: the policy trees, the baselines, the counts and the replay.
* The counts and the summation of frontiers: a closed form and a loop compared with
  enumerations, where the runs cover every array and range up to a size.

## 7. Findings

* A range-sum query of `PersistentLazySegmentTree` may report an overflow for a
  requested sum that is representable: it multiplies the inherited tags by the
  length of each covered piece and adds the pieces, all checked. The header says
  it throws when "the exact requested sum is not representable". `persistent_contract`
  shows a five-update history. (The reference, which adds from left to right,
  has the same trait for other sums; `SumsExact` and `QueriesExact` therefore
  state what does hold: exact or reported, never wrong.)
* In `BufferedPathCopyingSegmentTree` even a single representable element may
  become unreadable, because an update does not evaluate the sums of the children
  of a partly covered node and tags of two levels may add up beyond the width.
  `buffered_contract` shows a four-update history.

* A process of a campaign flushes its runs file with its warm-up attempt, before
  any row is in it. When it is killed after that, the runner takes the file for a
  finished cell, because it has content, and marks the phase complete without the
  row, although the comments on the marker and on clearing partial files say
  otherwise. `campaign_holes` shows it with one kill. (The analysis reads rows, not
  markers, so what is lost is a trial, not a number.)

The first two need values near the ends of the 64-bit range.

## 8. Not modelled

* Of the structures: copying and moving of the containers, `memoryUsage` beyond the
  bytes the memory cap compares, node counters and other statistics accessors, and
  the overflow of sizes (`size_t`), which would take arrays that fit no memory.
* Of the harness: clocks, samples, allocation counters, command lines and the format
  of its files. In `Replay` the four structures that have modules of their own are
  represented by the arrays they are shown to implement there, with the number of
  records that the cap depends on; for the buffered and fat-node trees that number is
  taken at both ends of what an update may allocate.
* Of the campaign: its structural and trace phases, the recorded metadata, pinning
  and the other scripts. A schedule torn by a kill is modelled (`Kill`), and becomes
  the recorded one: torn within a line, the phase is never marked; torn at the end of
  a line, the shorter schedule is carried out. No document says what should happen,
  so no property does.
* `bench/analysis`: floating-point statistics and figures over recorded data. The
  third-party baseline of `bench/external`, except for what its adapter shows.
