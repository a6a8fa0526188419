------------------------ MODULE BruteForceArray_proofs ------------------------
(***************************************************************************)
(* Facts about the reference specification.                                *)
(***************************************************************************)
EXTENDS BruteForceArray, SegmentTrees_proofs

(***************************************************************************)
(* The specification the persistent structures are checked against is      *)
(* stronger than that of the reference, whose rangeAdd takes any published *)
(* version as its base: a history of updates of the latest version is one  *)
(* of the reference's.                                                     *)
(***************************************************************************)
THEOREM LatestSpecRefines == LatestSpec => Spec
<1>1. LatestNext => Next
  <2>1. ASSUME NEW value \in Deltas,
               NEW right \in 1 .. Len(versions[Len(versions)]),
               NEW left \in 1 .. right,
               RangeAdd(Len(versions), left, right, value)
        PROVE  Next
    <3>1. Len(versions) \in DOMAIN versions
      BY <2>1 DEF RangeAdd, ValidRange
    <3>2. right \in Nat /\ right <= Len(versions[Len(versions)])
      BY <2>1 DEF RangeAdd, ValidRange
    <3>3. left \in 1 .. Len(versions[Len(versions)])
      BY <3>2
    <3>4. QED
      BY <2>1, <3>1, <3>3 DEF Next
  <2>2. QED
    BY <2>1 DEF LatestNext, Next
<1>2. [versions' # versions => LatestNext]_versions => [Next]_versions
  BY <1>1
<1>3. QED
  BY <1>2, PTL DEF LatestSpec, Spec

-----------------------------------------------------------------------------
(* The running sums of one version. *)
LEMMA RangeSumIs ==
  ASSUME NEW v, NEW n \in Nat, NEW S, RunningSums(S, versions[v], n),
         NEW left \in 1 .. n, NEW right \in left .. n
  PROVE  RangeSum(v, left, right) \in {S[right] - S[left - 1], Overflow}
<1> DEFINE D == (left - 1) .. right
           w == versions[v]
           Step(f) == [p \in D |-> IF p = left - 1 THEN 0 ELSE CheckedAdd(f[p - 1], w[p])]
           T == {k \in Nat : k <= n => \E f \in [(left - 1) .. k -> Int] :
                   \A p \in (left - 1) .. k :
                     f[p] = IF p = left - 1 THEN 0 ELSE CheckedAdd(f[p - 1], w[p])}
<1>1. \A p \in 1 .. n : w[p] \in Int
  BY DEF RunningSums
<1>2. 0 \in T
  <2>1. PICK f : f = [p \in (left - 1) .. 0 |-> 0]
    OBVIOUS
  <2>2. f \in [(left - 1) .. 0 -> Int]
    BY <2>1
  <2>3. \A p \in (left - 1) .. 0 : p = left - 1 /\ f[p] = 0
    BY <2>1
  <2> QED BY <2>2, <2>3
<1>3. ASSUME NEW k \in Nat, k \in T PROVE k + 1 \in T
  <2> SUFFICES ASSUME k + 1 <= n
               PROVE  \E g \in [(left - 1) .. (k + 1) -> Int] :
                        \A p \in (left - 1) .. (k + 1) :
                          g[p] = IF p = left - 1 THEN 0 ELSE CheckedAdd(g[p - 1], w[p])
    OBVIOUS
  <2>1. PICK f \in [(left - 1) .. k -> Int] :
               \A p \in (left - 1) .. k :
                 f[p] = IF p = left - 1 THEN 0 ELSE CheckedAdd(f[p - 1], w[p])
    BY <1>3
  <2>2. PICK g : g = [p \in (left - 1) .. (k + 1) |->
                        IF p <= k THEN f[p]
                        ELSE IF p = left - 1 THEN 0 ELSE CheckedAdd(f[p - 1], w[p])]
    OBVIOUS
  <2>3. ASSUME NEW p \in (left - 1) .. (k + 1)
        PROVE  /\ g[p] \in Int
               /\ g[p] = IF p = left - 1 THEN 0 ELSE CheckedAdd(g[p - 1], w[p])
    <3>1. CASE p <= k
      <4>1. g[p] = f[p] /\ f[p] \in Int /\ p \in (left - 1) .. k
        BY <2>2, <3>1
      <4>2. p # left - 1 => g[p - 1] = f[p - 1]
        BY <2>2, <3>1
      <4> QED BY <2>1, <4>1, <4>2
    <3>2. CASE p = left - 1 /\ p = k + 1
      BY <2>2, <3>2
    <3>3. CASE p # left - 1 /\ p = k + 1
      <4>1. g[p] = CheckedAdd(f[p - 1], w[p]) /\ g[p - 1] = f[p - 1]
        BY <2>2, <3>3
      <4>2. f[p - 1] \in Int /\ w[p] \in Int
        BY <1>1, <3>3
      <4> QED BY <3>3, <4>1, <4>2, CheckedAddInt
    <3> QED BY <3>1, <3>2, <3>3
  <2>4. g \in [(left - 1) .. (k + 1) -> Int]
    BY <2>2, <2>3
  <2> QED BY <2>3, <2>4
<1>4. Nat \subseteq T
  <2> HIDE DEF T
  <2> QED BY <1>2, <1>3, SetInduction
<1>5. PICK f \in [D -> Int] : \A p \in D : f[p] = Step(f)[p]
  <2>1. right \in Nat /\ right <= n
    OBVIOUS
  <2>2. right \in T
    <3> HIDE DEF T
    <3> QED BY <1>4, <2>1
  <2>3. PICK f \in [D -> Int] :
               \A p \in D :
                 f[p] = IF p = left - 1 THEN 0 ELSE CheckedAdd(f[p - 1], w[p])
    BY <2>1, <2>2
  <2>4. \A p \in D : Step(f)[p] = IF p = left - 1 THEN 0 ELSE CheckedAdd(f[p - 1], w[p])
    OBVIOUS
  <2> QED BY <2>3, <2>4
<1>6. \E g : g = Step(g)
  BY <1>5
<1>7. PICK g : g = Step(g) /\ RangeSum(v, left, right) = g[right]
  BY <1>6 DEF RangeSum
<1> DEFINE U == {k \in Nat : left - 1 + k <= right =>
                   g[left - 1 + k] \in {S[left - 1 + k] - S[left - 1], Overflow}}
<1>8. \A p \in 0 .. n : S[p] \in Int
  BY DEF RunningSums
<1>9. 0 \in U
  BY <1>7, <1>8
<1>10. ASSUME NEW k \in Nat, k \in U PROVE k + 1 \in U
  <2> SUFFICES ASSUME left - 1 + (k + 1) <= right
               PROVE  g[left - 1 + (k + 1)]
                        \in {S[left - 1 + (k + 1)] - S[left - 1], Overflow}
    OBVIOUS
  <2>1. PICK p \in D : p = left - 1 + (k + 1) /\ p # left - 1 /\ p - 1 = left - 1 + k
                       /\ p \in 1 .. n /\ p - 1 \in 0 .. n /\ left - 1 \in 0 .. n
    OBVIOUS
  <2>2. g[p] = CheckedAdd(g[p - 1], w[p])
    BY <1>7, <2>1
  <2>3. PICK x, y, z, e \in Int :
          /\ x = S[p - 1] /\ y = S[p] /\ z = S[left - 1] /\ e = w[p]
    <3>1. S[p - 1] \in Int /\ S[p] \in Int /\ S[left - 1] \in Int
      <4>1. p \in 0 .. n
        BY <2>1
      <4> QED BY <1>8, <2>1, <4>1
    <3>2. w[p] \in Int
      BY <1>1, <2>1
    <3> HIDE DEF w, D, U, Step
    <3> QED BY <3>1, <3>2
  <2>4. y = x + e
    BY <2>1, <2>3 DEF RunningSums
  <2>5. g[p - 1] \in {x - z, Overflow}
    BY <1>10, <2>1, <2>3
  <2>6. CASE g[p] # Overflow
    <3>1. g[p - 1] # Overflow
      BY <2>2, <2>6 DEF CheckedAdd
    <3>2. g[p - 1] = x - z /\ g[p - 1] \in Int
      BY <2>3, <2>5, <3>1
    <3>3. g[p] = g[p - 1] + e
      BY <2>2, <2>3, <2>6, <3>2, CheckedAddExact
    <3>4. g[p] = y - z
      <4>1. (x - z) + e = (x + e) - z
        OBVIOUS
      <4> QED BY <2>4, <3>2, <3>3, <4>1
    <3> QED BY <2>1, <2>3, <3>4
  <2> QED BY <2>1, <2>6
<1>11. Nat \subseteq U
  <2> HIDE DEF U
  <2> QED BY <1>9, <1>10, SetInduction
<1>12. PICK k \in Nat : left - 1 + k = right
  <2>1. right - (left - 1) \in Nat /\ left - 1 + (right - (left - 1)) = right
    OBVIOUS
  <2> HIDE DEF U, Step, D, T
  <2> QED BY <2>1
<1>13. k \in U
  <2> HIDE DEF U
  <2> QED BY <1>11
<1>14. g[left - 1 + k] \in {S[left - 1 + k] - S[left - 1], Overflow}
  <2>1. left - 1 + k <= right
    BY <1>12
  <2> QED BY <1>13, <2>1
<1>15. g[right] \in {S[right] - S[left - 1], Overflow}
  <2> HIDE DEF U, Step, D, T
  <2> QED BY <1>12, <1>14
<1> QED BY <1>7, <1>15

(* Every version is an admissible array of values. *)
DomainInv ==
  TypeOK /\ \A v \in DOMAIN versions : Admissible(versions[v])

LEMMA PublishedInDomain ==
  ASSUME DomainInv, NEW values \in Seq(Value), Admissible(values),
         versions' = <<values>> \/ versions' = Append(versions, values)
  PROVE  DomainInv'
<1>1. CASE versions' = <<values>>
  BY <1>1 DEF DomainInv, TypeOK
<1>2. CASE versions' = Append(versions, values)
  <2>1. /\ versions' \in Seq(Seq(Value)) /\ DOMAIN versions' = 1 .. Len(versions) + 1
        /\ \A v \in 1 .. Len(versions) : versions'[v] = versions[v]
        /\ versions'[Len(versions) + 1] = values
        /\ DOMAIN versions = 1 .. Len(versions) /\ Len(versions) \in Nat
    BY <1>2, AppendProperties, LenProperties DEF DomainInv, TypeOK
  <2>2. \A v \in DOMAIN versions' : v \in 1 .. Len(versions) \/ v = Len(versions) + 1
    BY <2>1
  <2> QED BY <2>1, <2>2 DEF DomainInv, TypeOK
<1> QED BY <1>1, <1>2

LEMMA NextDomainInv == DomainInv /\ [Next]_versions => DomainInv'
<1> SUFFICES ASSUME DomainInv, [Next]_versions PROVE DomainInv'
  OBVIOUS
<1>1. ASSUME NEW values \in Arrays, Initialize(values) PROVE DomainInv'
  BY <1>1, ArraysAssumption, PublishedInDomain DEF Initialize
<1>2. ASSUME NEW base, NEW left, NEW right, NEW value \in Deltas,
             RangeAdd(base, left, right, value)
      PROVE  DomainInv'
  <2> DEFINE next == AddToRange(versions[base], left, right, value)
  <2>1. /\ base \in DOMAIN versions /\ Admissible(next)
        /\ versions' = Append(versions, next)
    BY <1>2 DEF RangeAdd, ValidRange
  <2>2. versions[base] \in Seq(Value) /\ value \in Value
    BY <2>1, DeltasAssumption, ElementOfSeq, LenProperties DEF DomainInv, TypeOK
  <2>3. /\ next \in Seq(Outcome) /\ Len(next) \in Nat
    BY <2>2, AddToRangeFacts
  <2> HIDE DEF next
  <2>4. \A p \in 1 .. Len(next) : next[p] \in Outcome
    BY <2>3, ElementOfSeq
  <2>5. \A p \in 1 .. Len(next) : next[p] \in Value
    <3>1. CASE Len(next) = 0
      BY <3>1
    <3>2. CASE Len(next) # 0
      <4>1. Root(Len(next)) \in Interval(Len(next)) /\ next # <<>>
        BY <2>3, <3>2, RootIsSegment, EmptySeq
      <4>2. CanonicalSum(next)[Root(Len(next))] # Overflow
        BY <2>1, <4>1 DEF Admissible
      <4> QED BY <2>3, <2>4, <4>1, <4>2, CanonicalElements DEF Root
    <3> QED BY <3>1, <3>2
  <2>6. next \in Seq(Value)
    <3>1. next = [p \in 1 .. Len(next) |-> next[p]]
      BY <2>3, LenProperties
    <3> QED BY <2>3, <2>5, <3>1, IsASeq
  <2> QED BY <2>1, <2>6, PublishedInDomain
<1>3. CASE UNCHANGED versions
  BY <1>3 DEF DomainInv, TypeOK
<1> QED BY <1>1, <1>2, <1>3 DEF Next

THEOREM DomainInvariant == Spec => []DomainInv
<1>1. Init => DomainInv
  BY EmptySeq DEF Init, DomainInv, TypeOK
<1> QED BY <1>1, NextDomainInv, PTL DEF Spec

(***************************************************************************)
(* Every version, from whatever base it was made, is an array of values    *)
(* whose canonical sums are representable, as its guard is there to see.   *)
(***************************************************************************)
THEOREM VersionsStayInDomain == Spec => []VersionsInDomain
<1>1. ASSUME DomainInv PROVE VersionsInDomain
  <2>1. \A v \in DOMAIN versions : versions[v] \in Seq(Value)
    BY <1>1, ElementOfSeq, LenProperties DEF DomainInv, TypeOK
  <2> QED BY <1>1, <2>1, AdmissibleInDomain DEF DomainInv, VersionsInDomain
<1> QED BY <1>1, DomainInvariant, PTL

(***************************************************************************)
(* The checked left-to-right sum of a version is exact or reports an       *)
(* overflow.                                                               *)
(***************************************************************************)
THEOREM RangeSumsExact == Spec => []SumsExact
<1>1. ASSUME DomainInv PROVE SumsExact
  <2> SUFFICES ASSUME NEW v \in DOMAIN versions, NEW right \in DOMAIN versions[v],
                      NEW left \in 1 .. right
               PROVE  RangeSum(v, left, right)
                        \in {ExactSum(versions[v], left, right), Overflow}
    BY DEF SumsExact
  <2> DEFINE w == versions[v]
             n == Len(w)
  <2>1. w \in Seq(Value)
    BY <1>1, ElementOfSeq, LenProperties DEF DomainInv, TypeOK
  <2>2. n \in Nat /\ DOMAIN w = 1 .. n /\ \A p \in 1 .. n : w[p] \in Int
    BY <2>1, LenProperties, ElementOfSeq, ValueFacts
  <2>3. left \in 1 .. n /\ right \in left .. n
    BY <2>2
  <2>4. PICK S : RunningSums(S, w, n)
    BY <2>2, PrefixSums
  <2> QED BY <2>2, <2>3, <2>4, RangeSumIs, ExactSumIs
<1> QED BY <1>1, DomainInvariant, PTL

=============================================================================
