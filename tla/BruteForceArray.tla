--------------------------- MODULE BruteForceArray ---------------------------
(***************************************************************************)
(* src/brute_force_array.cpp: one whole array per version, the executable  *)
(* reference the repository's tests compare every structure with.  It is   *)
(* the abstract specification of the persistent structures: an update      *)
(* appends the changed copy of a version, no version ever changes, and a   *)
(* call that fails leaves everything as it was (a stuttering step).        *)
(***************************************************************************)
EXTENDS SumAddDomain

CONSTANTS Arrays,        \* the arrays initialize is called with
          Deltas,        \* the values rangeAdd is called with
          MaxVersions    \* bound of the model: most versions published

ASSUME ArraysAssumption == Arrays \subseteq Seq(Value)
ASSUME DeltasAssumption == Deltas \subseteq Value
ASSUME MaxVersionsAssumption == MaxVersions \in Nat

VARIABLE versions        \* versions[v + 1] is the code's version v

Init == versions = <<>>

Initialize(values) ==
  /\ Admissible(values)
  /\ versions' = <<values>>

ValidRange(base, left, right) ==
  /\ base \in DOMAIN versions
  /\ left <= right /\ right <= Len(versions[base])

\* Seeded bug: only the leaves of the new version are validated.
RangeAddLeavesOnly(base, left, right, value) ==
  /\ Len(versions) < MaxVersions
  /\ ValidRange(base, left, right)
  /\ LET next == AddToRange(versions[base], left, right, value)
     IN  /\ \A p \in DOMAIN next : next[p] # Overflow
         /\ versions' = Append(versions, next)

(***************************************************************************)
(* rangeAdd from any published base version.                               *)
(***************************************************************************)
RangeAdd(base, left, right, value) ==
  /\ Len(versions) < MaxVersions
  /\ ValidRange(base, left, right)
  /\ LET old == versions[base]
         next == AddToRange(old, left, right, value)
     IN  /\ Admissible(next)
         /\ versions' = Append(versions, next)

Next ==
  \/ \E values \in Arrays : Initialize(values)
  \/ \E base \in DOMAIN versions, value \in Deltas :
       \E left, right \in 1 .. Len(versions[base]) :
         RangeAdd(base, left, right, value)

Spec == Init /\ [][Next]_versions

(***************************************************************************)
(* What the persistent structures promise of it: their rangeAdd extends    *)
(* the latest version only.  The step is asked for only where the versions *)
(* change.                                                                 *)
(***************************************************************************)
LatestNext ==
  \/ \E values \in Arrays : Initialize(values)
  \/ /\ versions # <<>>
     /\ \E value \in Deltas, right \in 1 .. Len(versions[Len(versions)]) :
          \E left \in 1 .. right : RangeAdd(Len(versions), left, right, value)

LatestSpec == Init /\ [][versions' # versions => LatestNext]_versions

-----------------------------------------------------------------------------
\* Seeded bug: the sum starts from the first element.
RangeSumFromStart(version, left, right) ==
  LET sum[p \in 0 .. right] ==
        IF p = 0 THEN 0 ELSE CheckedAdd(sum[p - 1], versions[version][p])
  IN  sum[right]

(***************************************************************************)
(* rangeSum: the checked left-to-right sum of one version.                 *)
(***************************************************************************)
RangeSum(version, left, right) ==
  LET sum[p \in (left - 1) .. right] ==
        IF p = left - 1 THEN 0 ELSE CheckedAdd(sum[p - 1], versions[version][p])
  IN  sum[right]

-----------------------------------------------------------------------------
(***************************************************************************)
(* Every element of every version is a value, never an overflow.           *)
(***************************************************************************)
TypeOK == versions \in Seq(Seq(Value))

(***************************************************************************)
(* Every version ever published, from whatever base, is an array of values *)
(* with all canonical sums representable: the structures compared with     *)
(* this one rely on it.                                                    *)
(***************************************************************************)
VersionsInDomain ==
  TypeOK /\ \A v \in DOMAIN versions : InDomain(versions[v])

(***************************************************************************)
(* A range sum of any version is exact or reports an overflow.             *)
(***************************************************************************)
SumsExact ==
  \A v \in DOMAIN versions : \A right \in DOMAIN versions[v] :
    \A left \in 1 .. right :
      RangeSum(v, left, right) \in {ExactSum(versions[v], left, right), Overflow}

=============================================================================
