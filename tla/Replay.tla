-------------------------------- MODULE Replay --------------------------------
(***************************************************************************)
(* The benchmark's replay of one operation stream: the stream is generated *)
(* for a workload shrunk for a smoke run, or read from a trace, and then a *)
(* structure replays it once in the interleaved (or latency) mode and once *)
(* in batch mode, each time stopping at the memory cap (bench_main.cpp,    *)
(* adapters.hpp).  Clocks, samples and allocation counters are left out.   *)
(***************************************************************************)
EXTENDS StructuralCounts, SumAddDomain, BenchRun

CONSTANTS SmokeSize, SmokeOperations, SmokeTail,   \* what shrink reduces a workload to
          SmokeBudget,
          TraceSize, MaxLines,     \* elements, and bound of the model: lines of a trace
          Deltas,                  \* bound of the model: the deltas drawn
          InitialArrays,           \* bound of the model: the arrays drawn, by size
          Caps,                    \* memory caps, in bytes
          Measured                 \* bound of the model: workloads whose stream is replayed

ASSUME SmokeAssumption == {SmokeSize, SmokeOperations, SmokeTail, SmokeBudget} \subseteq Nat \ {0}
ASSUME TraceAssumption == TraceSize \in Nat \ {0} /\ MaxLines \in Nat
ASSUME ArraysAssumption ==
  \A n \in {SmokeSize, TraceSize} : InitialArrays[n] \subseteq [1 .. n -> InitialValue]

VARIABLES workload, variant, hotStart,   \* the cell, and the generator's hot window
          stream,
          trials                         \* the results of replaying it, by mode

vars == <<workload, variant, hotStart, stream, trials>>

Historical == structures \ {"lazy"}

n == workload.sizes[1]

-----------------------------------------------------------------------------
(***************************************************************************)
(* The adapters.  The structures that are operators of BaselineTrees are   *)
(* replayed as they are; the four others keep whole arrays, which the runs *)
(* of their own modules show them to implement, and count their records.   *)
(* A buffered or fat-node update records in place, or (absorbs FALSE) in   *)
(* copies of all it visits; an external query, likewise, may copy too.     *)
(***************************************************************************)
AdapterBuild(structure, values) ==
  LET tree == CASE structure \in {"persistent", "copy-on-push"} -> CopyOnPushBuild(values)
                [] structure = "point-only" -> PointOnlyBuild(values)
                [] structure = "full-copy" -> FullCopyBuild(values)
                [] OTHER -> [arena |-> <<>>, root |-> NoNode]
  IN  [arena |-> tree.arena, roots |-> <<tree.root>>,
       heap |-> IF structure = "lazy" THEN LazyHeap(values) ELSE <<>>,
       arrays |-> <<values>>, records |-> CanonicalNodeCount(n)]

AdapterUpdate(structure, adapter, op, absorbs) ==
  LET root == Last(adapter.roots)
      tree == CASE op.action = 0 -> Shared(adapter.arena, root)
                [] structure = "persistent" ->
                     Update("SumAdd", FALSE, adapter.arena, root, Root(n), op)
                [] structure = "copy-on-push" -> CopyOnPushUpdate(adapter.arena, root, n, op)
                [] structure = "point-only" -> PointOnlyUpdate(adapter.arena, root, n, op)
                [] structure = "full-copy" -> FullCopyUpdate(adapter.arena, root, Root(n), op)
                [] OTHER -> Shared(adapter.arena, root)
      copies == \/ structure \in {"buffered", "fat-node"} /\ ~absorbs /\ op.action # 0
                \/ structure = "external"
  IN  [arena |-> tree.arena, roots |-> Append(adapter.roots, tree.root),
       heap |-> IF structure = "lazy" /\ op.action # 0
                THEN LazyUpdate(adapter.heap, 1, Root(n), op) ELSE adapter.heap,
       arrays |-> Append(adapter.arrays,
                         AddToRange(Last(adapter.arrays), op.left, op.right, op.action)),
       records |-> adapter.records + (IF copies THEN Visits(n, op) ELSE 0)]

SumOver(values, left, right) == FoldSeq(+, 0, SubSeq(values, left, right))

\* Seeded bug: the version the stream names is ignored.
AdapterQueryLatest(structure, adapter, op) ==
  SumOver(Last(adapter.arrays), op.left, op.right)

AdapterQuery(structure, adapter, op) ==
  CASE structure = "lazy" -> LazyQuery(adapter.heap, 1, Root(n), op.left, op.right, 0)
    [] structure \in {"persistent", "copy-on-push"} ->
         CopyOnPushQuery(adapter.arena, adapter.roots[op.version], n, op.left, op.right)
    [] structure \in {"point-only", "full-copy"} ->
         PointOnlyQuery(adapter.arena, adapter.roots[op.version], n, op.left, op.right)
    [] OTHER -> SumOver(adapter.arrays[op.version], op.left, op.right)

AfterQuery(structure, adapter, op, absorbs) ==
  IF structure = "external" /\ ~absorbs
  THEN [adapter EXCEPT !.records = @ + Visits(n, op)] ELSE adapter

AdapterBytes(structure, adapter, interval) ==
  LET updates == Len(adapter.arrays) - 1
  IN  CASE structure = "lazy" -> LazyStorageCount(n) * 16
        [] structure \in {"persistent", "copy-on-push"} -> Len(adapter.arena) * 32
        [] structure \in {"point-only", "full-copy"} -> Len(adapter.arena) * 24
        [] structure = "checkpointing" ->
             (updates \div interval + 1) * CanonicalNodeCount(n) * 16 + updates * 24
        [] structure = "buffered" -> adapter.records * 88
        [] structure = "fat-node" -> adapter.records * 128
        [] structure = "external" -> adapter.records * 48

-----------------------------------------------------------------------------
(***************************************************************************)
(* A trial carries the adapter through operations until the retained bytes *)
(* exceed the cap; its checksum is the sequence of its answers.            *)
(***************************************************************************)
NewTrial(structure, values) ==
  [adapter |-> AdapterBuild(structure, values), checksum |-> <<>>, status |-> "ok"]

Execute(structure, trial, op, setting) ==
  LET adapter == IF op.isUpdate
                 THEN AdapterUpdate(structure, trial.adapter, op, setting.absorbs)
                 ELSE AfterQuery(structure, trial.adapter, op, setting.absorbs)
  IN  [adapter |-> adapter,
       checksum |-> IF op.isUpdate THEN trial.checksum
                    ELSE Append(trial.checksum, AdapterQuery(structure, trial.adapter, op)),
       status |-> IF AdapterBytes(structure, adapter, setting.interval) > setting.capBytes
                  THEN "memory_cap" ELSE "ok"]

ExecuteAll(structure, trial, ops, setting) ==
  FoldLeft(LAMBDA so, op : IF so.status = "ok" THEN Execute(structure, so, op, setting) ELSE so,
           trial, ops)

Result(trial) == [checksum |-> trial.checksum, status |-> trial.status]

Updates == SelectSeq(stream, LAMBDA op : op.isUpdate)
Queries == SelectSeq(stream, LAMBDA op : ~op.isUpdate)

\* Seeded bug: in batch mode the cap is not looked at while the queries run.
RunTrialUncapped(structure, values, mode, setting) ==
  LET first == ExecuteAll(structure, NewTrial(structure, values),
                          IF mode = "batch" THEN Updates ELSE stream, setting)
  IN  IF mode = "batch"
      THEN Result(ExecuteAll(structure, first, Queries, [setting EXCEPT !.capBytes = Max(Caps)]))
      ELSE Result(first)

\* Batch mode runs every update first, then, unless the cap was met, every query.
InOrderOf(mode) == IF mode = "batch" THEN Updates \o Queries ELSE stream

RunTrial(structure, values, mode, setting) ==
  Result(ExecuteAll(structure, NewTrial(structure, values), InOrderOf(mode), setting))

-----------------------------------------------------------------------------
Unique(s) == FoldLeft(LAMBDA kept, x : IF kept # <<>> /\ Last(kept) = x THEN kept
                                       ELSE Append(kept, x), <<>>, s)

Shrink(original) ==
  LET capped(x) == CASE original.axis = "updates" -> Min({x, SmokeBudget})
                     [] original.axis = "width" -> Min({x, SmokeSize})
                     [] OTHER -> x
  IN  [original EXCEPT
         !.sizes = <<SmokeSize>>,
         !.operations = IF @ = 0 THEN 0 ELSE SmokeOperations,
         !.queryTail = IF @ = 0 THEN 0 ELSE SmokeTail,
         !.variants = Unique([i \in DOMAIN @ |-> capped(@[i])])]

TraceWorkload(size) == Workload("WT", <<size>>, 0, 0, "Uniform", "Uniform", "none", <<0>>, 0)

IsReplayedTrace == workload.id = "WT"

\* The interval a trial runs at; one past the stream's length never checkpoints.
TrialInterval(structure) ==
  LET interval == JobInterval(workload, n, variant, structure)
  IN  IF interval = 0 THEN Len(stream) + 2 ELSE interval

NoTrials == [structure |-> "none"]

Init ==
  /\ workload \in {Shrink(w) : w \in Range(workloads)} \cup {TraceWorkload(TraceSize)}
  /\ variant \in Range(workload.variants)
  /\ hotStart \in (IF workload.shape = "Hot" THEN 1 .. n - HotWidth(workload, n, variant) + 1
                   ELSE {1})
  /\ stream = <<>>
  /\ trials = NoTrials

Draw ==
  /\ ~IsReplayedTrace
  /\ Len(stream) < Total(workload, variant)
  /\ \E op \in NextOperation(workload, n, variant, hotStart, stream, Deltas) :
       stream' = Append(stream, op)
  /\ UNCHANGED <<workload, variant, hotStart, trials>>

\* The lines loadTrace accepts after the ones it has read.
Accepts(read, op, size) ==
  /\ op.left \in 1 .. size /\ op.right \in op.left .. size
  /\ op.isUpdate \/ op.version \in 1 .. Len(SelectSeq(read, LAMBDA o : o.isUpdate)) + 1

ReadLine ==
  /\ IsReplayedTrace /\ trials = NoTrials
  /\ Len(stream) < MaxLines
  /\ \E isUpdate \in BOOLEAN, left, right \in 1 .. n, argument \in Deltas \cup 1 .. MaxLines :
       LET line == [isUpdate |-> isUpdate, left |-> left, right |-> right,
                    version |-> IF isUpdate THEN 1 ELSE argument,
                    action |-> IF isUpdate THEN argument ELSE 0]
       IN  /\ isUpdate => argument \in Deltas
           /\ Accepts(stream, line, n)
           /\ stream' = Append(stream, line)
  /\ UNCHANGED <<workload, variant, hotStart, trials>>

Measure(structure, values, capBytes, absorbs) ==
  LET setting == [capBytes |-> capBytes, absorbs |-> absorbs,
                  interval |-> TrialInterval(structure)]
  IN  /\ trials = NoTrials
      /\ workload.id \in Measured
      /\ structure \in Jobs([structures |-> structures], workload, variant)
      /\ IF IsReplayedTrace THEN stream # <<>> ELSE Len(stream) = Total(workload, variant)
      /\ trials' = [structure |-> structure, initial |-> values,
                    results |-> [mode \in {"interleaved", "batch"} |->
                                   RunTrial(structure, values, mode, setting)]]
      /\ UNCHANGED <<workload, variant, hotStart, stream>>

Next ==
  \/ Draw \/ ReadLine
  \/ \E structure \in structures, values \in InitialArrays[n], capBytes \in Caps :
       \E absorbs \in (IF structure \in {"buffered", "fat-node", "external"} THEN BOOLEAN
                       ELSE {TRUE}) :
         Measure(structure, values, capBytes, absorbs)

Spec == Init /\ [][Next]_vars

-----------------------------------------------------------------------------
(***************************************************************************)
(* Whatever a workload's generator draws could also be read from a trace:  *)
(* its ranges lie in the array and its queries name a version that exists  *)
(* by the time they run (workloads.hpp, Operation).                        *)
(***************************************************************************)
GeneratedStreamsAreTraces ==
  ~IsReplayedTrace /\ stream # <<>> => Accepts(Front(stream), Last(stream), n)

\* The answers the stream's queries have whatever order they run in.
ReferenceChecksum(initial) ==
  LET Elements[v \in 1 .. Len(Updates) + 1] ==
        IF v = 1 THEN initial
        ELSE LET op == Updates[v - 1]
             IN  [p \in DOMAIN initial |->
                    Elements[v - 1][p] + (IF p \in op.left .. op.right THEN op.action ELSE 0)]
  IN  [i \in DOMAIN Queries |->
         SumOver(Elements[Queries[i].version], Queries[i].left, Queries[i].right)]

(***************************************************************************)
(* Every historical structure that ends a trial "ok" has the same checksum *)
(* in every mode, although batch mode moves all the updates before the     *)
(* queries; up to the cap, an interleaved trial gave the same answers too. *)
(***************************************************************************)
ChecksumsAgree ==
  trials # NoTrials /\ trials.structure \in Historical =>
    LET reference == ReferenceChecksum(trials.initial)
    IN  /\ IsPrefix(trials.results.interleaved.checksum, reference)
        /\ \A result \in Range(trials.results) :
             result.status = "ok" => result.checksum = reference

(***************************************************************************)
(* A structure that fits in memory in one mode does in the other, so the   *)
(* same cells are capped in every campaign phase: a reordered stream       *)
(* retains as much in the end.  Nothing is claimed of the external         *)
(* structure, whose queries allocate and so depend on the order.           *)
(***************************************************************************)
CapIsModeIndependent ==
  trials # NoTrials /\ trials.structure # "external" =>
    trials.results.interleaved.status = trials.results.batch.status

=============================================================================
