----------------------------- MODULE SumAddDomain -----------------------------
(***************************************************************************)
(* The numeric domain shared by the range-add / range-sum structures       *)
(* (include/valseg/detail/sum_add_domain.hpp): an array is admissible when *)
(* the sum of every canonical segment is representable.  A structure       *)
(* proves this for a proposed update either from a bound on the magnitude  *)
(* of its elements or, when that is not enough, from the elements.         *)
(***************************************************************************)
EXTENDS CheckedArithmetic, CanonicalTree, Sequences, FiniteSetsExt

MaxBound == 2 * MaxVal + 1     \* std::numeric_limits<std::uint64_t>::max()

Bound == 0 .. MaxBound

(***************************************************************************)
(* validateCanonicalSums over one segment: its sum, or Overflow when the   *)
(* sum of this segment or of one below it is not representable (or a leaf  *)
(* is itself Overflow).                                                    *)
(***************************************************************************)
CanonicalSum(values) ==
  LET sum[c \in Interval(Len(values))] ==
        IF IsLeaf(c) THEN values[c[1]]
        ELSE CheckedAdd(sum[LeftHalf(c)], sum[RightHalf(c)])
  IN  sum

Admissible(values) ==
  values # <<>> => CanonicalSum(values)[Root(Len(values))] # Overflow

Magnitude(value) == IF value >= 0 THEN value ELSE -value

MaxMagnitude(values) == Max({0} \cup {Magnitude(values[p]) : p \in DOMAIN values})

SaturatedAdd(left, right) ==
  IF right > MaxBound - left THEN MaxBound ELSE left + right

\* Seeded bug: the bound is compared with the width, not with its share.
ProvesElementsOnly(bound, size) == bound <= MaxVal

ProvesCanonicalRepresentability(bound, size) ==
  \/ bound = 0
  \/ size = 0
  \/ size <= MaxVal /\ bound <= MaxVal \div size

(***************************************************************************)
(* The proposed leaves of a range addition; an unrepresentable leaf is     *)
(* Overflow.                                                               *)
(***************************************************************************)
AddToRange(values, left, right, value) ==
  [p \in DOMAIN values |->
     IF p \in left .. right THEN CheckedAdd(values[p], value) ELSE values[p]]

(***************************************************************************)
(* SumAddDomainGuard::validateRangeAdd, given the guard's bound and the    *)
(* current leaves (which the code materializes only when the conservative  *)
(* bound does not prove the update).  ValidateRangeAdd says whether it     *)
(* returns, NextBound what it returns.                                     *)
(***************************************************************************)
Conservative(bound, value) == SaturatedAdd(bound, Magnitude(value))

ValidateRangeAdd(bound, leaves, left, right, value) ==
  \/ ProvesCanonicalRepresentability(Conservative(bound, value), Len(leaves))
  \/ Admissible(AddToRange(leaves, left, right, value))

NextBound(bound, leaves, left, right, value) ==
  IF ProvesCanonicalRepresentability(Conservative(bound, value), Len(leaves))
  THEN Conservative(bound, value)
  ELSE MaxMagnitude(AddToRange(leaves, left, right, value))

-----------------------------------------------------------------------------
(***************************************************************************)
(* What the code means to decide, without the recursion, the bound or the  *)
(* checked intermediates: the mathematical sum of a range, and that every  *)
(* element and every canonical sum of an array is representable.           *)
(***************************************************************************)
ExactSum(values, left, right) ==
  LET sum[p \in (left - 1) .. right] ==
        IF p = left - 1 THEN 0 ELSE sum[p - 1] + values[p]
  IN  sum[right]

InDomain(values) ==
  /\ \A p \in DOMAIN values : values[p] # Overflow
  /\ \A c \in Segments(Len(values)) : Representable(ExactSum(values, c[1], c[2]))

=============================================================================
