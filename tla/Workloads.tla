------------------------------- MODULE Workloads -------------------------------
(***************************************************************************)
(* bench/workloads.cpp: the twelve workloads, and what their generator can *)
(* draw.  A pseudo-random draw is a member of the set it is drawn from.    *)
(* Shares and exponents are in hundredths; positions and versions count    *)
(* from 1, so version v is the code's v - 1.                               *)
(***************************************************************************)
EXTENDS Integers, Sequences, FiniteSetsExt

Workload(id, sizes, operations, updateFraction, shape, versions, axis, variants, queryTail) ==
  [id |-> id, sizes |-> sizes, operations |-> operations, updateFraction |-> updateFraction,
   shape |-> shape, versions |-> versions, axis |-> axis, variants |-> variants,
   queryTail |-> queryTail]

AllSizes == <<1000, 10000, 100000, 1000000, 10000000>>
Medium == <<10000>>
Operations == 200000

workloads == <<
  Workload("W1", AllSizes, Operations, 50, "Uniform", "Uniform", "none", <<0>>, 0),
  Workload("W2", AllSizes, Operations, 90, "Uniform", "Uniform", "none", <<0>>, 0),
  Workload("W3", AllSizes, Operations, 10, "Uniform", "OldAndRecent", "none", <<0>>, 0),
  Workload("W4", AllSizes, Operations, 50, "Point", "Uniform", "none", <<0>>, 0),
  Workload("W5", AllSizes, Operations, 50, "Full", "Uniform", "none", <<0>>, 0),
  Workload("W6", Medium, Operations, 90, "Uniform", "Uniform", "zero_delta_share", <<10, 50>>, 0),
  Workload("W7", Medium, Operations, 50, "Uniform", "OldAndRecent", "k",
           <<1, 16, 128, 500, 4096, 0>>, 0),
  Workload("W8", Medium, 0, 100, "Uniform", "Uniform", "updates",
           <<1000, 10000, 100000, 1000000>>, 10000),
  Workload("W9", Medium, Operations, 10, "Uniform", "Zipf", "theta", <<0, 50, 99>>, 0),
  Workload("W10", Medium, Operations, 90, "Hot", "Uniform", "hot_share", <<1, 5, 20, 100>>, 0),
  Workload("W11", Medium, Operations, 50, "FixedWidth", "Uniform", "width",
           <<1, 8, 64, 512, 4096, 10000>>, 0),
  Workload("W12", Medium, Operations, 10, "Uniform", "Ancient", "age_share",
           <<1, 10, 50, 100>>, 0) >>

\* The values initialArray draws the elements from.
InitialValue == -1000 .. 1000

\* The deltas of an update that is not one of the zero-delta share.
NonZeroDelta == (-99 .. 99) \ {0}

-----------------------------------------------------------------------------
\* Seeded bug: the rank is not clamped to the versions there are.
PickVersionUnclamped(workload, ageShare, published, queryIndex) ==
  IF workload.versions = "Zipf" THEN {published - (rank - 1) : rank \in 1 .. published + 1}
  ELSE 1 .. published

(***************************************************************************)
(* The versions a query may read when published versions exist; a Zipfian  *)
(* rank is one more than their number when rounding puts the target at the *)
(* sum's end.                                                              *)
(***************************************************************************)
PickVersion(workload, ageShare, published, queryIndex) ==
  LET newest == Max({1, published \div 20})
      oldest == Min({published, Max({1, (published * ageShare) \div 100})})
  IN  CASE workload.versions = "Latest" -> {published}
        [] workload.versions = "Uniform" -> 1 .. published
        [] workload.versions = "OldAndRecent" ->
             IF queryIndex % 2 = 0 THEN 1 .. published ELSE published - newest + 1 .. published
        [] workload.versions = "Zipf" ->
             {published - Min({published - 1, rank - 1}) : rank \in 1 .. published + 1}
        [] workload.versions = "Ancient" -> 1 .. oldest

RangesWithin(first, last) ==
  {range \in (first .. last) \X (first .. last) : range[1] <= range[2]}

PickRange(workload, size, width, hotStart, hotWidth) ==
  LET span == Min({size, Max({1, width})})
  IN  CASE workload.shape = "Point" -> {<<index, index>> : index \in 1 .. size}
        [] workload.shape = "Full" -> {<<1, size>>}
        [] workload.shape = "FixedWidth" ->
             {<<start, start + span - 1>> : start \in 1 .. size - span + 1}
        [] workload.shape = "Hot" ->
             RangesWithin(1, size) \cup (IF hotWidth < size
                                         THEN RangesWithin(hotStart, hotStart + hotWidth - 1)
                                         ELSE {})
        [] workload.shape = "Uniform" -> RangesWithin(1, size)

HotWidth(workload, size, variant) ==
  LET hotShare == IF workload.axis = "hot_share" THEN variant ELSE 20
  IN  Min({size, Max({1, (size * hotShare) \div 100})})

UpdateBudget(workload, variant) == IF workload.axis = "updates" THEN variant ELSE 0

Total(workload, variant) ==
  IF workload.axis = "updates" THEN variant + workload.queryTail ELSE workload.operations

(***************************************************************************)
(* The operations generate can append to a stream it has drawn so far,     *)
(* with the deltas drawn from deltas.                                      *)
(***************************************************************************)
NextOperation(workload, size, variant, hotStart, stream, deltas) ==
  LET updates == Len(SelectSeq(stream, LAMBDA op : op.isUpdate))
      mayUpdate == IF workload.axis = "updates" THEN Len(stream) < UpdateBudget(workload, variant)
                   ELSE workload.updateFraction > 0
      mayQuery == IF workload.axis = "updates" THEN ~mayUpdate
                  ELSE workload.updateFraction < 100
      width == IF workload.axis = "width" THEN variant ELSE size
      ageShare == IF workload.axis = "age_share" THEN variant ELSE 100
      ranges == PickRange(workload, size, width, hotStart, HotWidth(workload, size, variant))
      zero == IF workload.axis = "zero_delta_share" /\ variant > 0 THEN {0} ELSE {}
      versions == PickVersion(workload, ageShare, updates + 1, Len(stream) - updates)
  IN  {[isUpdate |-> TRUE, left |-> range[1], right |-> range[2], version |-> 1, action |-> delta] :
         range \in IF mayUpdate THEN ranges ELSE {}, delta \in (deltas \cap NonZeroDelta) \cup zero}
      \cup
      {[isUpdate |-> FALSE, left |-> range[1], right |-> range[2], version |-> v, action |-> 0] :
         range \in IF mayQuery THEN ranges ELSE {}, v \in versions}

=============================================================================
