--------------------------- MODULE StructuralCounts ---------------------------
(***************************************************************************)
(* bench/structural_counts.hpp: the work one stream of operations stands   *)
(* for, counted without building any structure.  An operation is a record  *)
(* of whether it is an update, its range, the version it reads (from 1)    *)
(* and, as action, the delta it adds; the policy of the pushes is the      *)
(* code's SumAddPolicy unless a caller asks for another.                   *)
(***************************************************************************)
EXTENDS BaselineTrees, Frontier

NoWork == [updates |-> 0, nonZeroUpdates |-> 0, updateVisits |-> 0, pushes |-> 0,
           checkpointUpdateVisits |-> 0, intersecting |-> 0, fullCoverageUpdates |-> 0,
           queries |-> 0, queryVisits |-> 0, fullCoverageQueries |-> 0,
           queryVersionDistance |-> 0, latestVersionQueries |-> 0, replayEntries |-> 0]

Visits(n, op) == FrontierSize(FrontierCounts(n, op.left, op.right))

RECURSIVE Counted(_, _, _, _, _, _)
Counted(policy, stream, n, interval, counts, tags) ==
  IF stream = <<>> THEN counts
  ELSE
  LET op == Head(stream)
      latest == counts.updates + (IF op.isUpdate THEN 1 ELSE 0)
      pushed == CountPushes(policy, tags, 1, Root(n), op)
      onCheckpoint == interval # 0 /\ latest % interval = 0
      full == IF <<op.left, op.right>> = Root(n) THEN 1 ELSE 0
      rest(next, nextTags) == Counted(policy, Tail(stream), n, interval, next, nextTags)
      distance == latest - (op.version - 1)
      replay == IF distance = 0 THEN 0
                ELSE IF interval = 0 THEN op.version - 1 ELSE (op.version - 1) % interval
  IN  IF ~op.isUpdate
      THEN rest([counts EXCEPT
                   !.queries = @ + 1, !.queryVisits = @ + Visits(n, op),
                   !.fullCoverageQueries = @ + full,
                   !.queryVersionDistance = @ + distance,
                   !.latestVersionQueries = @ + (IF distance = 0 THEN 1 ELSE 0),
                   !.replayEntries = @ + replay], tags)
      ELSE IF op.action = ActionIdentity(policy)
      THEN rest([counts EXCEPT !.updates = latest], tags)
      ELSE rest([counts EXCEPT
                   !.updates = latest, !.nonZeroUpdates = @ + 1,
                   !.updateVisits = @ + Visits(n, op),
                   !.checkpointUpdateVisits = @ + (IF onCheckpoint THEN Visits(n, op) ELSE 0),
                   !.pushes = @ + pushed.pushes,
                   !.intersecting = @ + IntersectingNodes(n, op.left, op.right),
                   !.fullCoverageUpdates = @ + full],
                pushed.tags)

(***************************************************************************)
(* structuralCounts, for a stream whose queries name published versions.   *)
(***************************************************************************)
StructuralCounts(policy, stream, n, interval) ==
  Counted(policy, stream, n, interval, NoWork, CountingModel(policy, n))

=============================================================================
